---------------------------- MODULE TextProgram ----------------------------
(* A program that reads a file, makes a String of it or takes one it has, and *)
(* works with Strings until it has destroyed them all.                        *)
EXTENDS TextFiles, Strings

allVars == <<vars, stringVars>>

NoStrings == heap = <<>> /\ ~list.held /\ ~letters.held /\ ~fault

ProgramInit == Init /\ StringsInit

Reading == NoStrings /\ Next /\ UNCHANGED stringVars

\* The String that String_new_fromFile returned, or one that String_new_of makes of the
\* other contents, is among those of the program; the rest is freed.  MEMDEBUG matters
\* only where an allocation fails, and none does from here on.
TakeContent ==
  /\ NoStrings /\ ~memdebug
  /\ Free
  /\ ~result.null /\ op # "utf8_readFile"
  /\ \E a \in Arrays : \E n \in 0 .. Len(a) - 1 : result.content = SubSeq(a, 1, n)
  /\ Gets(_String_new_of(result.content, result.len))
  /\ UNCHANGED <<list, letters, fault>>

StringWork == op = "none" /\ ~memdebug /\ StringsNext /\ UNCHANGED vars

ProgramNext == Reading \/ TakeContent \/ StringWork

ProgramSpec == ProgramInit /\ [][ProgramNext]_allVars /\ WF_vars(Library)
=========================================================================
