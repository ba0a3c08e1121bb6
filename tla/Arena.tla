------------------------------- MODULE Arena -------------------------------
(* arena.h: memory is handed out from the front of a buffer.  A request that *)
(* does not fit makes a further arena, chained to the first one.  The program *)
(* keeps a pointer to the first arena only.  Sizes are in machine words.      *)
EXTENDS Integers, Sequences, SequencesExt, FiniteSets

CONSTANTS
  ARENA_SIZE,
  Header,           \* sizeof(Arena), a multiple of its own alignment
  Align,            \* ALIGNOF(max_align_t)
  SizeMax,          \* SIZE_MAX
  HeadCaps,         \* the capacities of first arenas
  Requests,         \* the sizes the program asks for
  MEMDEBUG,         \* is the header compiled with MEMDEBUG?
  MaxArenas, MaxLive  \* bounds of the model

\* The capacity of a chained arena.
ChainedCap == ARENA_SIZE - Header

_roundToAlignment(n, alignment) ==
  ((((n + alignment - 1) % (SizeMax + 1)) \div alignment) * alignment) % (SizeMax + 1)

\* Variant: the size is not rounded.
Round_Not(n) == n

Round(n) == _roundToAlignment(n, Align)

\* No object in C is larger than half of the address space, so no buffer is.  What
\* is requested need not be an object: only the rounding must not wrap, and where
\* line 147 is not compiled nothing keeps a request below the half.
ASSUME SizesAssumption ==
  /\ {ARENA_SIZE, Header, Align, SizeMax, MaxArenas, MaxLive} \subseteq Nat
  /\ Align > 0 /\ Header < ARENA_SIZE /\ MaxArenas > 0
  /\ HeadCaps \cup {ARENA_SIZE} \subseteq 0 .. SizeMax \div 2
  /\ Requests \subseteq Nat /\ \A n \in Requests : n + Align <= SizeMax
  /\ MEMDEBUG \in BOOLEAN
  /\ ~MEMDEBUG => \A n \in Requests : Round(n) <= SizeMax \div 2

VARIABLES
  chain,            \* the first arena and those linked behind it
  heap,             \* what malloc gave to the arenas: <<"buffer", 1>> and so on
  live,             \* history: the blocks the program uses, in order
  strayed,          \* history: has a pop given up a block of a chained arena?
  cursor,           \* the arena that Arena_destroy looks at
  status            \* "none", "open", "destroying" or "exit"

vars == <<chain, heap, live, strayed, cursor, status>>

Init ==
  /\ chain = <<>> /\ heap = {} /\ live = <<>>
  /\ strayed = FALSE /\ cursor = 0 /\ status = "none"

\* An arena with memory for "room" words behind its buffer pointer; base is how
\* far that is from the start of what malloc returned.
Arena_init(cap, room, base) ==
  [buf_size |-> 0, buf_cap |-> cap, room |-> room, base |-> base, given |-> {}]

Parts(i) == IF MEMDEBUG THEN {<<"arena", i>>, <<"given", i>>} ELSE {<<"arena", i>>}
PartsOf(S) == UNION {Parts(i) : i \in S}

\* Arena_new: the buffer comes from malloc, the arena is a variable of the caller.
Arena_new ==
  /\ status = "none" /\ status' = "open"
  /\ chain' = << Arena_init(ARENA_SIZE, ARENA_SIZE, 0) >>
  /\ heap' = {<<"buffer", 1>>} \cup (Parts(1) \ {<<"arena", 1>>})
  /\ UNCHANGED <<live, strayed, cursor>>

\* The program calls Arena_init itself: the buffer is its own, the arena is not.
NewByInit(cap) ==
  /\ status = "none" /\ status' = "open"
  /\ chain' = << Arena_init(cap, cap, 0) >>
  /\ heap' = Parts(1)
  /\ UNCHANGED <<live, strayed, cursor>>
-------------------------------------------------------------------------
\* malloc(sizeof(Arena)) leaves no room behind the struct.
_Arena_new_on == Arena_init(ChainedCap, 0, Header)

\* Variant: a request fits as long as the arena is not full before it.
Full_Late(r) == chain[1].buf_size >= chain[1].buf_cap

Full(r) == (chain[1].buf_size + r) % (SizeMax + 1) >= chain[1].buf_cap

\* The check of line 147, before anything else.
Refused(r) == MEMDEBUG /\ r > chain[1].buf_cap

MallocRefused(n) ==
  /\ status = "open" /\ Refused(Round(n))
  /\ status' = "exit"
  /\ UNCHANGED <<chain, heap, live, strayed, cursor>>

\* Variant: the record goes to the first arena.
Arena_malloc_Misfiled(n) ==
  LET r == Round(n)
      arenas == IF Full(r) THEN Append(chain, _Arena_new_on) ELSE chain
      k == IF Full(r) THEN Len(arenas) ELSE 1
      block == [arena |-> k, start |-> arenas[k].buf_size, size |-> r]
  IN  /\ status = "open" /\ ~Refused(r)
      /\ Len(arenas) <= MaxArenas /\ Len(live) < MaxLive
      /\ chain' = [arenas EXCEPT
                     ![k].buf_size = @ + r,
                     ![1].given = IF MEMDEBUG THEN @ \cup {block} ELSE @]
      /\ heap' = heap \cup (IF Full(r) THEN Parts(k) ELSE {})
      /\ live' = Append(live, block)
      /\ UNCHANGED <<strayed, cursor, status>>

\* The arena once the block is taken from its free part.
Claimed(arena, block) ==
  [arena EXCEPT !.buf_size = @ + block.size,
                !.given = IF MEMDEBUG THEN @ \cup {block} ELSE @]

Arena_malloc(n) ==
  LET r == Round(n)
      arenas == IF Full(r) THEN Append(chain, _Arena_new_on) ELSE chain
      k == IF Full(r) THEN Len(arenas) ELSE 1
      block == [arena |-> k, start |-> arenas[k].buf_size, size |-> r]
  IN  /\ status = "open" /\ ~Refused(r)
      /\ Len(arenas) <= MaxArenas /\ Len(live) < MaxLive
      /\ chain' = [arenas EXCEPT ![k] = Claimed(@, block)]
      /\ heap' = heap \cup (IF Full(r) THEN Parts(k) ELSE {})
      /\ live' = Append(live, block)
      /\ UNCHANGED <<strayed, cursor, status>>

\* What the program gives up by a pop: the block it got last, whichever arena that
\* is in, or all of them.
GivesUp(r) ==
  \/ /\ live # <<>> /\ Last(live).size = r
     /\ live' = Front(live)
     /\ strayed' = (strayed \/ Last(live).arena # 1)
  \/ r >= chain[1].buf_size /\ live' = <<>> /\ strayed' = FALSE

\* Variant: underflow is not handled.
Arena_pop_Underflows(n) ==
  /\ status = "open"
  /\ chain' = [chain EXCEPT ![1].buf_size = @ - Round(n)]
  /\ GivesUp(Round(n))
  /\ UNCHANGED <<heap, cursor, status>>

\* Variant: the comparison is the wrong way round.
Arena_pop_Flipped(n) ==
  /\ status = "open"
  /\ chain' = [chain EXCEPT ![1].buf_size = IF @ < Round(n) THEN @ - Round(n) ELSE 0]
  /\ GivesUp(Round(n))
  /\ UNCHANGED <<heap, cursor, status>>

\* It is the first arena that shrinks, wherever the block was.  The record of a
\* block stays in given.
Arena_pop(n) ==
  /\ status = "open"
  /\ chain' = [chain EXCEPT ![1].buf_size = IF @ > Round(n) THEN @ - Round(n) ELSE 0]
  /\ GivesUp(Round(n))
  /\ UNCHANGED <<heap, cursor, status>>
-------------------------------------------------------------------------
(* Arena_destroy: the first arena, then one round of the loop per arena.    *)

DestroyHead ==
  /\ status = "open" /\ status' = "destroying"
  /\ heap' = heap \ (Parts(1) \cup {<<"buffer", 1>>})
  /\ chain' = [chain EXCEPT ![1].buf_cap = 0, ![1].buf_size = SizeMax]
  /\ live' = <<>> /\ strayed' = FALSE
  /\ cursor' = 2

\* Variant: the list of records is not destroyed.
DestroyNext_KeepsGiven ==
  /\ status = "destroying" /\ cursor <= Len(chain)
  /\ heap' = heap \ {<<"arena", cursor>>}
  /\ cursor' = cursor + 1
  /\ UNCHANGED <<chain, live, strayed, status>>

DestroyNext ==
  /\ status = "destroying" /\ cursor <= Len(chain)
  /\ heap' = heap \ Parts(cursor)
  /\ cursor' = cursor + 1
  /\ UNCHANGED <<chain, live, strayed, status>>

DestroyReturns ==
  /\ status = "destroying" /\ cursor > Len(chain)
  /\ status' = "none" /\ cursor' = 0 /\ chain' = <<>>
  /\ UNCHANGED <<heap, live, strayed>>

Exited == status = "exit" /\ UNCHANGED vars

Next ==
  \/ Arena_new \/ \E c \in HeadCaps : NewByInit(c)
  \/ \E n \in Requests : Arena_malloc(n) \/ MallocRefused(n) \/ Arena_pop(n)
  \/ DestroyHead \/ DestroyNext \/ DestroyReturns \/ Exited

Spec == Init /\ [][Next]_vars
-------------------------------------------------------------------------
(* Properties *)

Block == [arena : 1 .. MaxArenas, start : 0 .. SizeMax, size : 0 .. SizeMax]
Blocks == {live[i] : i \in DOMAIN live}

\* Every variable keeps its type.  A buf_size is the sum of what was requested: that it
\* never wraps is, with MEMDEBUG, the work of the check of line 147.
TypeOK ==
  /\ chain \in Seq([buf_size : 0 .. SizeMax, buf_cap : 0 .. SizeMax, room : Nat,
                    base : Nat, given : SUBSET Block])
  /\ heap \subseteq {"buffer", "arena", "given"} \X (1 .. MaxArenas)
  /\ live \in Seq(Block)
  /\ strayed \in BOOLEAN /\ cursor \in Nat
  /\ status \in {"none", "open", "destroying", "exit"}
  /\ status = "open" => chain # <<>>

\* A block ends where its arena's capacity ends, or before.  The one exception is a
\* request that a chained arena cannot hold: line 147 compares it with the first
\* arena, and what does not fit there any more goes to a chained one.
InCapacity ==
  \A b \in Blocks :
    \/ b.start + b.size <= chain[b.arena].buf_cap
    \/ b.arena # 1 /\ b.size > ChainedCap

\* No word is in two blocks, however many arenas there are and whatever was popped
\* and requested, until a pop gives up a block of a chained arena: line 216 takes
\* its size off the first one, whose last blocks are still in use.  Chained arenas
\* share nothing even then.
Disjoint ==
  \A i, j \in DOMAIN live :
    i < j /\ live[i].arena = live[j].arena /\ (strayed => live[i].arena # 1) =>
      live[i].start + live[i].size <= live[j].start

\* Every block is aligned for any type, in chained arenas because the struct in
\* front of the buffer keeps the alignment of malloc.
Aligned == \A b \in Blocks : (chain[b.arena].base + b.start) % Align = 0

\* Every block the program uses has its record in its own arena.
Recorded == MEMDEBUG => \A b \in Blocks : b \in chain[b.arena].given

\* What malloc gave out is what the arenas that still exist hold: destroy frees
\* each part of each arena once, and nothing is left when it returns.
HeapExact ==
  /\ status \in {"open", "exit"} =>
       heap \ {<<"buffer", 1>>, <<"arena", 1>>}
         = PartsOf(1 .. Len(chain)) \ {<<"arena", 1>>}
  /\ status = "destroying" => heap = PartsOf(cursor .. Len(chain))
  /\ status = "none" => heap = {}

\* A block lies inside the memory that malloc returned for its arena.
Backed == \A b \in Blocks : b.start + b.size <= chain[b.arena].room
=========================================================================
