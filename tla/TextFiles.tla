----------------------------- MODULE TextFiles -----------------------------
(* The readers of string.h and utf8.h, which turn a file into a block of      *)
(* memory, and the encoder of utf8.h, call by call of libc: what every path   *)
(* opens, allocates, closes and frees, and what it returns.                   *)
EXTENDS Utf8, FiniteSets

CONSTANTS Files,    \* what may be in a file when it is opened
          Points    \* code points of the program's own that it encodes

ASSUME FilesAssumption == Files \subseteq Seq(Byte)
ASSUME PointsAssumption == Points \subseteq Seq(Int)

VARIABLES
  memdebug,     \* is MEMDEBUG on?  Then a failing allocation never returns
  file,         \* the bytes on disk
  changed,      \* did somebody else write to the file during the call?
  op,           \* the call that runs or ran last
  pc,           \* the next call of libc, "idle" outside the library
  status,       \* "runs", "stopped" in OOM, "fault" after a write through NULL
  fileLen,      \* of apaz_FileInfo
  buffer,       \* the bytes that were read
  decoder,      \* the UTF8State of the call
  chars,        \* utf8_buffer[0 .. num_chars - 1]
  codepoints,   \* the argument of utf8_encode
  out,          \* out_buf[0 .. characters_used - 1]
  i,            \* the code points that utf8_encode has done
  live,         \* the stream and the blocks that the call holds
  owned,        \* the blocks that the library gave to the program
  lost,         \* what the last call left open or allocated, and nobody can reach
  result,       \* what the last call returned
  failed        \* the calls of libc that failed in the last call

disk == <<file, changed>>
work == <<fileLen, buffer, decoder, chars, codepoints, out, i>>
ends == <<owned, lost, result>>
vars == <<memdebug, disk, op, pc, status, work, live, ends, failed>>

Readers == {"apaz_str_readFile", "String_new_fromFile", "utf8_readFile"}
LibcCalls == {"fopen", "fseek_end", "ftell", "fseek_set", "malloc", "fread",
              "utf8_malloc", "realloc", "out_malloc", "out_realloc"}
Blocks == {"buffer", "utf8_buffer", "out_buf"}

Content(bytes) == [null |-> FALSE, content |-> bytes, len |-> Len(bytes)]
NULL(len) == [null |-> TRUE, content |-> <<>>, len |-> len]

Init ==
  /\ memdebug \in BOOLEAN
  /\ file = <<>> /\ changed = FALSE
  /\ op = "none" /\ pc = "idle" /\ status = "runs"
  /\ fileLen = 0 /\ buffer = <<>> /\ decoder = utf8_decode_init(0) /\ chars = <<>>
  /\ codepoints = <<>> /\ out = <<>> /\ i = 0
  /\ live = {} /\ owned = {} /\ lost = {} /\ result = NULL(0) /\ failed = {}
-------------------------------------------------------------------------
(* Steps share their ends.                                                 *)

At(where) == status = "runs" /\ pc = where

\* The call goes on to where, holding what.
Continue(where, holding) ==
  /\ pc' = where
  /\ live' = holding
  /\ UNCHANGED <<memdebug, op, status, ends>>

\* The call returns what, and the program owns kept; of the rest only released is freed.
Return(what, released, kept) ==
  /\ pc' = "idle"
  /\ live' = {}
  /\ owned' = owned \cup kept
  /\ lost' = live \ (released \cup kept)
  /\ result' = what
  /\ UNCHANGED <<memdebug, op, status>>

Stop(how) ==
  /\ status' = how
  /\ UNCHANGED <<memdebug, op, pc, live, ends>>

Failing == failed' = failed \cup {pc}
Working == UNCHANGED <<disk, failed>>

\* The program calls the library, which starts at where.
Call(what, where) ==
  /\ At("idle")
  /\ op' = what
  /\ pc' = where
  /\ failed' = {}
  /\ lost' = {}
  /\ result' = NULL(0)
  /\ UNCHANGED <<memdebug, status, live, owned>>
-------------------------------------------------------------------------
(* Reading a file.                                                         *)

ReadCall(reader) ==
  /\ op = "none"
  /\ Call(reader, "fopen")
  /\ file' \in Files
  /\ UNCHANGED <<changed, work>>

\* Somebody else writes to the file before it is read.
FileChanges ==
  /\ status = "runs" /\ pc \in LibcCalls \cap {"fseek_end", "ftell", "fseek_set", "malloc", "fread"}
  /\ ~changed
  /\ changed' = TRUE
  /\ \/ file' = Append(file, 65)
     \/ file # <<>> /\ file' = SubSeq(file, 1, Len(file) - 1)
  /\ UNCHANGED <<memdebug, op, pc, status, work, live, ends, failed>>

Open == At("fopen") /\ Continue("fseek_end", {"file"}) /\ Working /\ UNCHANGED work

OpenFails == At("fopen") /\ Failing /\ Return(NULL(0), {}, {}) /\ UNCHANGED <<disk, work>>

SeekEnd == At("fseek_end") /\ Continue("ftell", live) /\ Working /\ UNCHANGED work

\* Variant: the last byte makes room for the terminator.
Tell_MakesRoom ==
  /\ At("ftell")
  /\ fileLen' = IF file = <<>> THEN 0 ELSE Len(file) - 1
  /\ Continue("fseek_set", live)
  /\ Working
  /\ UNCHANGED <<buffer, decoder, chars, codepoints, out, i>>

Tell ==
  /\ At("ftell")
  /\ fileLen' = Len(file)
  /\ Continue("fseek_set", live)
  /\ Working
  /\ UNCHANGED <<buffer, decoder, chars, codepoints, out, i>>

Rewind == At("fseek_set") /\ Continue("malloc", live) /\ Working /\ UNCHANGED work

\* apaz_openSeekFile returns without fclose.
SeekFails ==
  /\ \E where \in {"fseek_end", "ftell", "fseek_set"} : At(where)
  /\ Failing
  /\ Return(NULL(0), {}, {})
  /\ UNCHANGED <<disk, work>>

Alloc == At("malloc") /\ Continue("fread", live \cup {"buffer"}) /\ Working /\ UNCHANGED work

\* The stream is closed; with MEMDEBUG malloc does not return.
AllocFails ==
  /\ At("malloc")
  /\ Failing
  /\ IF memdebug THEN Stop("stopped") ELSE Return(NULL(0), {"file"}, {})
  /\ UNCHANGED <<disk, work>>

\* fread is asked for one item of fileLen bytes: there is none in a file that became
\* shorter, and none of length zero.
ItemThere == fileLen > 0 /\ Len(file) >= fileLen

\* apaz_readCloseFile closes the stream either way.
Read ==
  /\ At("fread")
  /\ ItemThere
  /\ buffer' = SubSeq(file, 1, fileLen)
  /\ IF op = "utf8_readFile"
     THEN Continue("utf8_malloc", live \ {"file"})
     ELSE Return(Content(buffer'), {"file"}, {"buffer"})
  /\ Working
  /\ UNCHANGED <<fileLen, decoder, chars, codepoints, out, i>>

\* Variant: an item that is not there is asked for again.
ReadFails_Retries ==
  /\ At("fread")
  /\ Failing
  /\ Continue("fread", live)
  /\ UNCHANGED <<disk, work>>

\* Only utf8_readFile frees its buffer.
ReadFails ==
  /\ At("fread")
  /\ Failing
  /\ Return(NULL(0), {"file"} \cup (IF op = "utf8_readFile" THEN {"buffer"} ELSE {}), {})
  /\ UNCHANGED <<disk, work>>
-------------------------------------------------------------------------
(* Decoding it.                                                            *)

\* Variant: no room for the terminator.
CharsRoom_NoTerminator == fileLen

CharsRoom == fileLen + 1

DecodeStarts ==
  /\ decoder' = utf8_decode_init(fileLen)
  /\ UNCHANGED <<disk, fileLen, buffer, chars, codepoints, out, i>>

AllocChars ==
  /\ At("utf8_malloc")
  /\ Continue("decode", live \cup {"utf8_buffer"})
  /\ DecodeStarts
  /\ UNCHANGED failed

\* Nobody looks at the result.
AllocCharsFails ==
  /\ At("utf8_malloc")
  /\ Failing
  /\ \/ memdebug /\ Stop("stopped") /\ UNCHANGED <<disk, work>>
     \/ ~memdebug /\ Continue("decode", live) /\ DecodeStarts

Decode ==
  LET next == utf8_decodeNext(buffer, decoder) IN
  /\ At("decode")
  /\ next.chr >= 0
  /\ IF "utf8_buffer" \in live
     THEN chars' = Append(chars, next.chr) /\ Continue("decode", live)
     ELSE chars' = chars /\ Stop("fault")
  /\ decoder' = next.state
  /\ Working
  /\ UNCHANGED <<fileLen, buffer, codepoints, out, i>>

\* Variant: only the bytes are freed.
DecodeError_Leaks ==
  LET next == utf8_decodeNext(buffer, decoder) IN
  /\ At("decode")
  /\ next.chr = UTF8_ERR
  /\ decoder' = next.state
  /\ Return(NULL(0), {"buffer"}, {})
  /\ Working
  /\ UNCHANGED <<fileLen, buffer, chars, codepoints, out, i>>

DecodeError ==
  LET next == utf8_decodeNext(buffer, decoder) IN
  /\ At("decode")
  /\ next.chr = UTF8_ERR
  /\ decoder' = next.state
  /\ Return(NULL(0), {"buffer", "utf8_buffer"}, {})
  /\ Working
  /\ UNCHANGED <<fileLen, buffer, chars, codepoints, out, i>>

\* The terminator is written, and the block shrinks.
DecodeEnd ==
  /\ At("decode")
  /\ utf8_decodeNext(buffer, decoder).chr = UTF8_END
  /\ IF "utf8_buffer" \in live THEN Continue("realloc", live) ELSE Stop("fault")
  /\ Working
  /\ UNCHANGED work

Shrink ==
  /\ At("realloc")
  /\ Return(Content(chars), {"buffer"}, {"utf8_buffer"})
  /\ Working
  /\ UNCHANGED work

\* The old block stays, but its pointer was overwritten with NULL.
ShrinkFails ==
  /\ At("realloc")
  /\ Failing
  /\ IF memdebug THEN Stop("stopped") ELSE Return(NULL(Len(chars)), {"buffer"}, {})
  /\ UNCHANGED <<disk, work>>
-------------------------------------------------------------------------
(* Encoding.                                                               *)

\* The index of the first zero, which ends a text.
FirstZero(text) == CHOOSE k \in 1 .. Len(text) + 1 :
  /\ k = Len(text) + 1 \/ text[k] = 0
  /\ \A j \in 1 .. k - 1 : text[j] # 0

\* utf8_encode_len encodes what stands before the first zero.
BeforeZero(text) == SubSeq(text, 1, FirstZero(text) - 1)

EncodeStarts(points) ==
  /\ Call("utf8_encode", "out_malloc")
  /\ codepoints' = points
  /\ UNCHANGED <<disk, fileLen, buffer, decoder, chars, out, i>>

\* The program encodes code points of its own, or what it has just read.
EncodeCall ==
  \/ /\ op = "none"
     /\ \E points \in Points : EncodeStarts(points) \/ EncodeStarts(BeforeZero(points))
  \/ /\ op = "utf8_readFile" /\ owned = {"utf8_buffer"}
     /\ EncodeStarts(chars) \/ EncodeStarts(BeforeZero(chars))

OutRoom == 4 * Len(codepoints) + 1

AllocOut == At("out_malloc") /\ Continue("encode", {"out_buf"}) /\ Working /\ UNCHANGED work

AllocOutFails ==
  /\ At("out_malloc")
  /\ Failing
  /\ IF memdebug THEN Stop("stopped") ELSE Return(NULL(0), {}, {})
  /\ UNCHANGED <<disk, work>>

Encode ==
  LET buf4 == utf8_encode_codepoint(codepoints[i + 1]) IN
  /\ At("encode")
  /\ i < Len(codepoints)
  /\ buf4 # <<>>
  /\ out' = out \o buf4
  /\ i' = i + 1
  /\ Continue("encode", live)
  /\ Working
  /\ UNCHANGED <<fileLen, buffer, decoder, chars, codepoints>>

\* A number that is no code point: out_buf is not freed.
EncodeError ==
  /\ At("encode")
  /\ i < Len(codepoints)
  /\ utf8_encode_codepoint(codepoints[i + 1]) = <<>>
  /\ Return(NULL(0), {}, {})
  /\ Working
  /\ UNCHANGED work

\* The terminator is written, and the block shrinks.
EncodeEnd ==
  /\ At("encode")
  /\ i = Len(codepoints)
  /\ Continue("out_realloc", live)
  /\ Working
  /\ UNCHANGED work

ShrinkOut ==
  /\ At("out_realloc")
  /\ Return(Content(out), {}, {"out_buf"})
  /\ Working
  /\ UNCHANGED work

ShrinkOutFails ==
  /\ At("out_realloc")
  /\ Failing
  /\ IF memdebug THEN Stop("stopped") ELSE Return(NULL(Len(out)), {}, {})
  /\ UNCHANGED <<disk, work>>
-------------------------------------------------------------------------
\* The program frees what it was given, and forgets about the call.
Free ==
  /\ At("idle")
  /\ op # "none"
  /\ op' = "none"
  /\ file' = <<>> /\ changed' = FALSE
  /\ fileLen' = 0 /\ buffer' = <<>> /\ decoder' = utf8_decode_init(0) /\ chars' = <<>>
  /\ codepoints' = <<>> /\ out' = <<>> /\ i' = 0
  /\ owned' = {} /\ lost' = {} /\ result' = NULL(0) /\ failed' = {}
  /\ UNCHANGED <<memdebug, pc, status, live>>

Ended == status # "runs" /\ UNCHANGED vars

Library ==
  \/ Open \/ OpenFails \/ SeekEnd \/ Tell \/ Rewind \/ SeekFails
  \/ Alloc \/ AllocFails \/ Read \/ ReadFails
  \/ AllocChars \/ AllocCharsFails \/ Decode \/ DecodeError \/ DecodeEnd
  \/ Shrink \/ ShrinkFails
  \/ AllocOut \/ AllocOutFails \/ Encode \/ EncodeError \/ EncodeEnd
  \/ ShrinkOut \/ ShrinkOutFails

Next ==
  \/ \E reader \in Readers : ReadCall(reader)
  \/ EncodeCall \/ Free \/ FileChanges \/ Library \/ Ended

\* Every call of libc returns.
Spec == Init /\ [][Next]_vars /\ WF_vars(Library)
-------------------------------------------------------------------------
TypeOK ==
  /\ memdebug \in BOOLEAN /\ changed \in BOOLEAN
  /\ file \in Seq(Byte)
  /\ op \in Readers \cup {"none", "utf8_encode"}
  /\ pc \in LibcCalls \cup {"idle", "decode", "encode"}
  /\ status \in {"runs", "stopped", "fault"}
  /\ fileLen \in Nat
  /\ buffer \in Seq(Byte) /\ Len(buffer) \in {0, fileLen}
  /\ decoder \in [idx : 0 .. Len(buffer), len : Int, chr : 0 .. Len(buffer), byte : 0 .. Len(buffer)]
  /\ chars \in Seq(Nat) /\ \A k \in DOMAIN chars : IsScalar(chars[k])
  /\ codepoints \in Seq(Int)
  /\ out \in Seq(Byte)
  /\ i \in 0 .. Len(codepoints)
  /\ live \subseteq Blocks \cup {"file"} /\ lost \subseteq Blocks \cup {"file"}
  /\ owned \subseteq Blocks
  /\ result.null \in BOOLEAN /\ result.len \in Nat
  /\ failed \subseteq LibcCalls

\* Did the last call of one of calls end, with libc as good as its word?
Done(calls) == At("idle") /\ op \in calls /\ failed = {}

\* The decoder is told the length of the whole text.
IntSized == Len(buffer) <= IntMax

\* utf8_readFile (utf8.h:215) accepts exactly the well-formed texts of the Unicode
\* standard, of those whose length fits into an int (a longer one is rejected or cut:
\* utf8.h:54 and 258).  utf8_atByte and utf8_atCharacter are "generally used in error reporting"
\* (utf8.h:62-71): what stands before atByte is well-formed and has atCharacter
\* characters, as many as bytes if it is ASCII, and where the text is rejected no
\* well-formed sequence begins at atByte.
Decodes == IntSized =>
  /\ LET before == SubSeq(buffer, 1, utf8_atByte(decoder))
         count == utf8_atCharacter(decoder)
     IN  /\ count = Len(Characters(before))
         /\ (\A k \in DOMAIN before : before[k] < 128) => count = Len(before)
  /\ Done({"utf8_readFile"}) =>
       /\ result.null <=> ~WellFormed(buffer)
       /\ result.null => ~\E ranges \in WellFormedRanges :
                             Matches(buffer, utf8_atByte(decoder), ranges)
       /\ ~result.null => result.content = Characters(buffer)

\* Encoding what was decoded (of a text as in Decodes) gives the bytes back, those before the first NUL with
\* utf8_encode_len.  Code points of the program's own are accepted if UTF-8 has bytes for
\* them (utf8.h:134-155); the text is then well-formed unless one of them is a
\* surrogate, which the encoder takes although the decoder rejects it.
RoundTrip ==
  Done({"utf8_encode"}) /\ IntSized =>
    IF buffer # <<>>
    THEN /\ ~result.null
         /\ result.content \in {buffer, BeforeZero(buffer)}
         /\ codepoints = chars => result.content = buffer
    ELSE /\ result.null <=> \E k \in DOMAIN codepoints : ~IsCodePoint(codepoints[k])
         /\ ~result.null =>
              (WellFormed(out) <=> \A k \in DOMAIN codepoints : IsScalar(codepoints[k]))

\* No path leaves a stream open or a block behind (string.h:339-435, utf8.h:159-282),
\* but for: the stream when seeking fails, the bytes when apaz_str_readFile or
\* String_new_fromFile cannot read them, the encoder's block when it meets a number that
\* is no code point, and the block that could not be shrunk.
NothingLost ==
  At("idle") =>
    /\ "file" \in lost <=> failed \cap {"fseek_end", "ftell", "fseek_set"} # {}
    /\ "buffer" \in lost <=> "fread" \in failed /\ op # "utf8_readFile"
    /\ "utf8_buffer" \in lost <=> "realloc" \in failed
    /\ "out_buf" \in lost <=>
         \/ "out_realloc" \in failed
         \/ op = "utf8_encode" /\ failed = {} /\ result.null
    /\ owned \cap lost = {}
    /\ result.null /\ result.len > 0 => failed \cap {"realloc", "out_realloc"} # {}

\* A reader returns what is in the file when fread reads it, up to the length it had for
\* ftell (string.h:355, 377): all of it if nobody writes in between, the first part if
\* the file became longer, an error if it became shorter.  A file without bytes is an
\* error too.
ReadsWhole ==
  Done({"apaz_str_readFile", "String_new_fromFile"}) \/ (Done({"utf8_readFile"}) /\ ~result.null) =>
    /\ Len(buffer) = fileLen /\ fileLen > 0
    /\ buffer = SubSeq(file, 1, fileLen)
    /\ ~changed => buffer = file
    /\ op # "utf8_readFile" => result.content = buffer

\* The blocks are large enough for what is written into them and the terminator: four
\* bytes per code point (utf8.h:165), one code point per byte (utf8.h:251).  Only the
\* unchecked malloc at utf8.h:251 makes the decoder write through NULL.
BuffersFit ==
  /\ "utf8_buffer" \in live => Len(chars) + 1 <= CharsRoom
  /\ "out_buf" \in live => Len(out) + 1 <= OutRoom
  /\ status = "fault" => failed = {"utf8_malloc"} /\ ~memdebug

\* A call returns, unless the program stopped in it.
CallsReturn == (pc # "idle") ~> (pc = "idle" \/ status # "runs")
=========================================================================
