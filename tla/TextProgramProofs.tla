------------------------- MODULE TextProgramProofs -------------------------
(* What was proved of the readers and of the Strings holds in the program     *)
(* that works with what it has read.                                          *)
EXTENDS TextProgram, TextFilesProofs, StringsProofs

\* The program does to the readers what their own specification allows.
LEMMA ProgramStep == ProgramNext => [Next]_vars
<1>1. Reading => Next
  BY DEF Reading
<1>2. TakeContent => Next
  BY DEF TakeContent, Next
<1>3. StringWork => UNCHANGED vars
  BY DEF StringWork
<1> QED BY <1>1, <1>2, <1>3 DEF ProgramNext

\* Each String has one owner, the one that was made of a file's content included
\* (string.h:416-435).
THEOREM ProgramOwnership == ProgramSpec => []Ownership
<1>1. ASSUME Owners, Reading \/ StringWork
      PROVE  Owners'
  <2>1. [StringsNext]_stringVars
    BY <1>1 DEF Reading, StringWork
  <2> QED BY <1>1, <2>1, OwnersStep
<1>2. ASSUME Owners, TakeContent
      PROVE  Owners'
  BY <1>2, GetsStep DEF TakeContent
<1>3. Owners /\ [ProgramNext]_allVars => Owners'
  BY <1>1, <1>2, InPlaceStep DEF ProgramNext, allVars, stringVars
<1>4. ProgramInit => Owners
  BY OwnersInit DEF ProgramInit
<1>5. Owners => Ownership
  BY DEF Owners
<1> QED BY <1>3, <1>4, <1>5, PTL DEF ProgramSpec

\* The readers and the encoder keep their invariants in the program that makes Strings of
\* what they return (string.h:416-435).
THEOREM ProgramInvariance ==
  ProgramSpec => [](TypeOK /\ NothingLost /\ ReadsWhole /\ BuffersFit /\ Decodes /\ RoundTrip)
<1>1. ProgramInit => Init
  BY DEF ProgramInit
<1>2. [ProgramNext]_allVars => [Next]_vars
  BY ProgramStep DEF allVars
<1>3. ProgramSpec => [](IInv /\ TextInv)
  BY <1>1, <1>2, InitInvariant, StepInvariant, TextInit, TextStep, PTL DEF ProgramSpec
<1>4. IInv /\ TextInv => TypeOK /\ NothingLost /\ ReadsWhole /\ BuffersFit /\ Decodes /\ RoundTrip
  <2>1. TextInv => RoundTrip
    BY Zenon DEF TextInv, TextFacts, RoundTrip
  <2> QED BY <2>1, WholeFile, Fits, TextDecodes DEF IInv
<1> QED BY <1>3, <1>4, PTL

\* What a reader returns is as long as it says.
Measured == ~result.null => result.len = Len(result.content)

\* Every call returns so many bytes or code points, or NULL.
LEMMA MeasuredStep ==
  ASSUME Measured, [Next]_vars
  PROVE  Measured'
<1> USE DEF Measured
<1>1. ASSUME result' = result
      PROVE  Measured'
  BY <1>1
<1>2. ASSUME NEW n, result' = NULL(n)
      PROVE  Measured'
  BY <1>2 DEF NULL
<1>3. ASSUME NEW bytes, result' = Content(bytes)
      PROVE  Measured'
  BY <1>3 DEF Content
<1> USE DEF Return, Continue, Stop, Call, ends
<1>4. CASE UNCHANGED vars
  BY <1>1, <1>4 DEF vars
<1>5. CASE Open \/ SeekEnd \/ Tell \/ Rewind \/ Alloc \/ AllocChars \/ AllocCharsFails
           \/ Decode \/ DecodeEnd \/ AllocOut \/ Encode \/ EncodeEnd
  BY <1>1, <1>5
     DEF Open, SeekEnd, Tell, Rewind, Alloc, AllocChars, AllocCharsFails, Decode, DecodeEnd,
         AllocOut, Encode, EncodeEnd
<1>6. CASE OpenFails \/ SeekFails \/ AllocFails \/ ReadFails \/ DecodeError \/ ShrinkFails
           \/ AllocOutFails \/ EncodeError \/ ShrinkOutFails
  BY <1>1, <1>2, <1>6
     DEF OpenFails, SeekFails, AllocFails, ReadFails, DecodeError, ShrinkFails, AllocOutFails,
         EncodeError, ShrinkOutFails
<1>7. CASE Read \/ Shrink \/ ShrinkOut
  BY <1>1, <1>3, <1>7 DEF Read, Shrink, ShrinkOut
<1>8. ASSUME NEW reader, ReadCall(reader)
      PROVE  Measured'
  BY <1>2, <1>8 DEF ReadCall
<1>9. CASE EncodeCall \/ Free
  BY <1>2, <1>9 DEF EncodeCall, EncodeStarts, Free
<1>10. CASE FileChanges \/ Ended
  BY <1>1, <1>10 DEF FileChanges, Ended, vars
<1> QED BY <1>4, <1>5, <1>6, <1>7, <1>8, <1>9, <1>10 DEF Next, Library

\* A String made of a file's content has its length and terminator.
LEMMA TakenSound ==
  ASSUME SoundBlocks, Measured, TakeContent
  PROVE  SoundBlocks'
<1>1. PICK a \in Arrays : \E n \in 0 .. Len(a) - 1 : result.content = SubSeq(a, 1, n)
  BY DEF TakeContent
<1>2. PICK n \in 0 .. Len(a) - 1 : result.content = SubSeq(a, 1, n)
  BY <1>1
<1>3. a \in Seq(Char)
  BY ArraysTerminated DEF Terminated
<1>4. result.content \in Seq(Char)
  BY <1>2, <1>3
<1>5. result.len \in 0 .. Len(result.content)
  BY <1>4 DEF TakeContent, Measured
<1>6. Sound(_String_new_of(result.content, result.len))
  BY <1>4, <1>5, NewOfSound
<1>7. Gets(_String_new_of(result.content, result.len)) /\ UNCHANGED <<letters, fault>>
  BY DEF TakeContent
<1>8. letters' \in [held : BOOLEAN, elems : Seq(Char)]
  BY <1>7 DEF SoundBlocks
<1> QED BY <1>6, <1>7, <1>8, BlocksGets

\* What the program keeps: owners, blocks as they should be, and the length of a content.
Tidy == Owners /\ SoundBlocks /\ Measured

LEMMA TidyInit == ProgramInit => Tidy
  BY OwnersInit, BlocksInit DEF ProgramInit, Init, NULL, Measured, Tidy

LEMMA TidyStep ==
  ASSUME Tidy, [ProgramNext]_allVars
  PROVE  Tidy' /\ ([StringsNext]_stringVars \/ TakeContent)
<1> USE DEF Tidy
<1>1. [Next]_vars
  BY ProgramStep DEF allVars
<1>2. Measured'
  BY <1>1, MeasuredStep
<1>3. CASE [StringsNext]_stringVars
  BY <1>2, <1>3, OwnersStep, BlocksStep
<1>4. CASE TakeContent
  BY <1>2, <1>4, TakenSound, GetsStep DEF TakeContent
<1>5. [StringsNext]_stringVars \/ TakeContent
  BY DEF ProgramNext, Reading, StringWork, allVars
<1> QED BY <1>3, <1>4, <1>5

\* The Strings of the program that reads files have their lengths and terminators, and are
\* compared as their texts are.
THEOREM ProgramStrings == ProgramSpec => [](StringsTypeOK /\ Comparisons)
<1>1. Tidy => StringsTypeOK /\ Comparisons
  BY BlocksTypeOK, BlocksCompare DEF Tidy
<1> QED BY <1>1, TidyInit, TidyStep, PTL DEF ProgramSpec

\* What the program takes of a file's content is a new text.
LEMMA TakenText ==
  ASSUME Owners, Measured, TakeContent
  PROVE  Abstract!Next
<1>1. PICK a \in Arrays : \E n \in 0 .. Len(a) - 1 : result.content = SubSeq(a, 1, n)
  BY DEF TakeContent
<1>2. PICK n \in 0 .. Len(a) - 1 : result.content = SubSeq(a, 1, n)
  BY <1>1
<1>3. a \in Seq(Char) /\ Len(a) \in Nat
  BY ArraysTerminated DEF Terminated
<1>4. /\ ~result.null /\ Gets(_String_new_of(result.content, result.len))
      /\ UNCHANGED <<list, letters>>
  BY DEF TakeContent
<1> DEFINE c == result.content
<1>5. c \in Seq(Char) /\ Len(c) \in 0 .. Len(c) /\ SubSeq(c, 1, Len(c)) = c
  BY <1>2, <1>3
<1>6. result.len = Len(c)
  BY <1>4 DEF Measured
<1> HIDE DEF c
<1>7. Said(_String_new_of(c, Len(c))) = c
  BY <1>5, NewOfText
<1>8. Gets(_String_new_of(c, Len(c)))
  BY <1>4, <1>6 DEF c
<1>9. PICK x \in 1 .. MaxBlocks :
        ~Abstract!Has(x) /\ Abstract!Bind(x, c) /\ UNCHANGED Abstract!Lists
  BY <1>4, <1>7, <1>8, GetsText
<1>10. Abstract!Bind(x, SubSeq(a, 1, n))
  BY <1>2, <1>9 DEF c
<1>11. Abstract!New(x)
  BY <1>9, <1>10 DEF Abstract!New
<1> QED BY <1>11, Zenon DEF Abstract!Next

\* The Strings of the program that reads files are sequences of chars as well: what a
\* reader returned is one more new text (string.h:416-435).
THEOREM ProgramTexts ==
  ASSUME ~AnyJoins, PartStarts = {0}
  PROVE  ProgramSpec => ImplementsTexts
<1>1. ASSUME Tidy, [ProgramNext]_allVars
      PROVE  [Abstract!Next]_(Abstract!vars)
  <2>1. [StringsNext]_stringVars \/ TakeContent
    BY <1>1, TidyStep
  <2> QED BY <1>1, <2>1, TakenText, TextsStep DEF Tidy
<1>2. ProgramInit => Abstract!Init
  BY TextsInit DEF ProgramInit
<1> QED BY <1>1, <1>2, TidyInit, TidyStep, PTL DEF ProgramSpec, ImplementsTexts, Abstract!Spec
=============================================================================
