---------------------------- MODULE MemDebug ----------------------------
(***************************************************************************)
(* apaz-libc/memdebug.h with MEMDEBUG on: malloc, realloc and free record  *)
(* each allocation in a hash map guarded by alloc_mutex, so that an        *)
(* invalid free stops the program and print_heap can list what is live.    *)
(*                                                                         *)
(* The map and libc's heap are two pieces of state that no lock covers     *)
(* together: malloc allocates before it locks, free releases after it      *)
(* unlocks, and print_heap reads num_allocs without the mutex.  A critical *)
(* section that calls nothing outside the map is one step; realloc's holds *)
(* the mutex across its call of libc, and so does a failing allocation.    *)
(***************************************************************************)
EXTENDS Naturals, Sequences, FiniteSets

CONSTANTS
  Threads,
  Addrs,            \* the addresses libc may return
  Wild,             \* further pointers a faulty program may free
  Null,
  Nobody,           \* the owner of a free mutex
  Sites,            \* line, function, file and size of a call
  Buckets,          \* the slots of allocs[MAP_BUF_SIZE]
  Hash,             \* ptr_hash
  SizeMax,          \* SIZE_MAX
  FailPoints,       \* the calls of libc's malloc and realloc that may fail
  NullFree          \* may the program free(NULL)?

Pointers == Addrs \cup Wild \cup {Null}

ASSUME PointersAssumption ==
  /\ Null \notin Addrs \cup Wild
  /\ Addrs \cap Wild = {}
  /\ Nobody \notin Threads
  /\ Hash \in [Pointers -> Buckets]

NoSite == "none"
ASSUME SitesAssumption == NoSite \notin Sites

ASSUME BoundsAssumption ==
  /\ SizeMax \in Nat
  /\ IsFiniteSet(Addrs) /\ Cardinality(Addrs) < SizeMax
  /\ FailPoints \subseteq {"malloc", "node", "realloc", "dump"}
  /\ NullFree \in BOOLEAN

VARIABLES
  lock,             \* alloc_mutex
  initialized,      \* memallocs_initialized
  chain,            \* allocs: the records of each bucket, array slot first
  num_allocs,
  heap,             \* libc: the addresses that are allocated
  pc, ptr, site,    \* where each thread is, and the locals of its call
  capacity,         \* print_heap: the length of all_allocs
  packed,           \* print_heap: allocs_idx after the packing loop
  status,           \* "running", or how the program exited
  held              \* history: the pointers the program owns, with their site

map    == <<initialized, chain, num_allocs>>
locals == <<pc, ptr, site, capacity, packed>>
vars   == <<lock, map, heap, locals, status, held>>

Goto(t, label) == pc' = [pc EXCEPT ![t] = label]
Return(t) ==
  /\ Goto(t, "idle")
  /\ ptr' = [ptr EXCEPT ![t] = Null]
  /\ site' = [site EXCEPT ![t] = NoSite]

Idle(t) == status = "running" /\ pc[t] = "idle"

Init ==
  /\ lock = Nobody
  /\ initialized = FALSE
  /\ chain = [b \in Buckets |-> <<>>]
  /\ num_allocs = 0
  /\ heap = {}
  /\ pc = [t \in Threads |-> "idle"]
  /\ ptr = [t \in Threads |-> Null]
  /\ site = [t \in Threads |-> NoSite]
  /\ capacity = [t \in Threads |-> 0]
  /\ packed = [t \in Threads |-> 0]
  /\ status = "running"
  /\ held = [a \in Addrs |-> NoSite]
-------------------------------------------------------------------------
(* The hash map.  An empty slot has ptr == NULL, which is why looking for  *)
(* NULL in an empty bucket finds it.                                       *)

Found(p) ==
  /\ initialized
  /\ \/ p = Null /\ chain[Hash[p]] = <<>>
     \/ \E i \in DOMAIN chain[Hash[p]] : chain[Hash[p]][i].ptr = p

\* The index of the first record of p in the chain c.
First(c, p) == CHOOSE i \in DOMAIN c : c[i].ptr = p /\ \A j \in 1 .. i - 1 : c[j].ptr # p

\* Variant: the array slot is emptied although nodes hang on it.
Without_DropsTail(c, p) ==
  LET k == First(c, p)
  IN  IF \A i \in DOMAIN c : c[i].ptr # p THEN c
      ELSE IF k > 1 THEN SubSeq(c, 1, k - 1) \o SubSeq(c, k + 1, Len(c))
      ELSE <<>>

\* The chain c without its first record of p: a node is linked past and freed; the array
\* slot, which comes first, takes over the record of the next node, which is freed, or is
\* emptied.
Without(c, p) ==
  LET k == First(c, p)
  IN  IF \A i \in DOMAIN c : c[i].ptr # p THEN c
      ELSE IF k > 1 THEN SubSeq(c, 1, k - 1) \o SubSeq(c, k + 1, Len(c))
      ELSE IF Len(c) > 1 THEN <<c[2]>> \o SubSeq(c, 3, Len(c))
      ELSE <<>>

\* Variant: removing the only record of a slot does not count.
alloc_remove_Uncounted(p) ==
  /\ initialized' = TRUE
  /\ IF Found(p)
     THEN /\ chain' = [chain EXCEPT ![Hash[p]] = Without(@, p)]
          /\ num_allocs' = IF Len(chain[Hash[p]]) = 1 THEN num_allocs
                           ELSE (num_allocs + SizeMax) % (SizeMax + 1)
     ELSE UNCHANGED <<chain, num_allocs>>

alloc_remove(p) ==
  /\ initialized' = TRUE
  /\ IF Found(p)
     THEN /\ chain' = [chain EXCEPT ![Hash[p]] = Without(@, p)]
          /\ num_allocs' = (num_allocs + SizeMax) % (SizeMax + 1)
     ELSE UNCHANGED <<chain, num_allocs>>

\* Variant: a record goes into the array slot even when the slot is taken.
alloc_add_Overwrites(p, s) ==
  /\ initialized' = TRUE
  /\ num_allocs' = (num_allocs + 1) % (SizeMax + 1)
  /\ chain' = [chain EXCEPT ![Hash[p]] = <<[ptr |-> p, site |-> s]>>]

alloc_add(p, s) ==
  /\ initialized' = TRUE
  /\ num_allocs' = (num_allocs + 1) % (SizeMax + 1)
  /\ chain' = [chain EXCEPT ![Hash[p]] = Append(@, [ptr |-> p, site |-> s])]

\* The slot is taken, and there is no memory for a node: num_allocs is already
\* incremented, and the mutex stays locked while OOM runs.
AddFails(t, p) ==
  /\ "node" \in FailPoints
  /\ chain[Hash[p]] # <<>>
  /\ num_allocs' = (num_allocs + 1) % (SizeMax + 1)
  /\ lock' = t
  /\ Goto(t, "oom")
  /\ UNCHANGED <<initialized, chain, ptr, site, capacity, packed, status, held>>

\* The program ends with its mutex locked.
mempanic(t) == Goto(t, "panic") /\ status' = "panic"
-------------------------------------------------------------------------
(* memdebug_malloc *)

\* Bound of the model: the finite set Addrs keeps an address for each pending
\* realloc(NULL), so that libc fails only where FailPoints says so.
HasRoom ==
  Cardinality(Addrs \ heap) > Cardinality({t \in Threads : pc[t] = "realloc" /\ ptr[t] = Null})

Malloc(t, s) ==
  /\ Idle(t)
  /\ HasRoom
  /\ \E a \in Addrs \ heap :
       heap' = heap \cup {a} /\ ptr' = [ptr EXCEPT ![t] = a]
  /\ site' = [site EXCEPT ![t] = s]
  /\ Goto(t, "register")
  /\ UNCHANGED <<lock, map, capacity, packed, status, held>>

MallocFails(t) ==
  /\ Idle(t)
  /\ "malloc" \in FailPoints
  /\ Goto(t, "oom")
  /\ UNCHANGED <<lock, map, heap, ptr, site, capacity, packed, status, held>>

\* Variant: malloc returns without MEMDEBUG_UNLOCK_MUTEX.
Register_KeepsLock(t) ==
  /\ pc[t] = "register" /\ status = "running"
  /\ lock = Nobody /\ lock' = t
  /\ alloc_add(ptr[t], site[t])
  /\ held' = [held EXCEPT ![ptr[t]] = site[t]]
  /\ Return(t)
  /\ UNCHANGED <<heap, capacity, packed, status>>

Register(t) ==
  /\ pc[t] = "register" /\ status = "running"
  /\ lock = Nobody
  /\ alloc_add(ptr[t], site[t])
  /\ held' = [held EXCEPT ![ptr[t]] = site[t]]
  /\ Return(t)
  /\ UNCHANGED <<lock, heap, capacity, packed, status>>

RegisterFails(t) ==
  /\ pc[t] = "register" /\ status = "running"
  /\ lock = Nobody
  /\ AddFails(t, ptr[t])
  /\ UNCHANGED heap
-------------------------------------------------------------------------
(* memdebug_realloc *)

\* Variant: realloc looks the pointer up but leaves its record in the map.
Realloc_KeepsRecord(t, p, s) ==
  /\ Idle(t)
  /\ lock = Nobody
  /\ p = Null => HasRoom
  /\ lock' = t
  /\ IF p = Null \/ Found(p)
     THEN Goto(t, "realloc") /\ UNCHANGED status
     ELSE mempanic(t)
  /\ ptr' = [ptr EXCEPT ![t] = p]
  /\ site' = [site EXCEPT ![t] = s]
  /\ held' = IF p \in Addrs /\ Found(p) THEN [held EXCEPT ![p] = NoSite] ELSE held
  /\ UNCHANGED <<map, heap, capacity, packed>>

\* From the call until the record is removed, or the program panics.
Realloc(t, p, s) ==
  /\ Idle(t)
  /\ lock = Nobody
  /\ p = Null => HasRoom
  /\ lock' = t
  /\ IF p = Null THEN UNCHANGED map ELSE alloc_remove(p)
  /\ IF p = Null \/ Found(p)
     THEN Goto(t, "realloc") /\ UNCHANGED status
     ELSE mempanic(t)
  /\ ptr' = [ptr EXCEPT ![t] = p]
  /\ site' = [site EXCEPT ![t] = s]
  /\ held' = IF p \in Addrs /\ Found(p) THEN [held EXCEPT ![p] = NoSite] ELSE held
  /\ UNCHANGED <<heap, capacity, packed>>

\* Variant: the record of a reallocation keeps the old pointer.
ReallocLibc_OldPtr(t) ==
  /\ pc[t] = "realloc" /\ status = "running"
  /\ \E a \in Addrs \ (heap \ {ptr[t]}) :
       /\ heap' = (heap \ {ptr[t]}) \cup {a}
       /\ alloc_add(ptr[t], site[t])
       /\ held' = [held EXCEPT ![a] = site[t]]
  /\ lock' = Nobody
  /\ Return(t)
  /\ UNCHANGED <<capacity, packed, status>>

\* libc moves the block or leaves it where it is; then it is recorded again.
ReallocLibc(t) ==
  /\ pc[t] = "realloc" /\ status = "running"
  /\ \E a \in Addrs \ (heap \ {ptr[t]}) :
       /\ heap' = (heap \ {ptr[t]}) \cup {a}
       /\ alloc_add(a, site[t])
       /\ held' = [held EXCEPT ![a] = site[t]]
  /\ lock' = Nobody
  /\ Return(t)
  /\ UNCHANGED <<capacity, packed, status>>

\* libc returns NULL: the block is not recorded any more.  It is where it was, or has been
\* released, if its new size is 0.
ReallocFails(t) ==
  /\ pc[t] = "realloc" /\ status = "running"
  /\ "realloc" \in FailPoints
  /\ heap' \in {heap, heap \ {ptr[t]}}
  /\ Goto(t, "oom")
  /\ UNCHANGED <<lock, map, ptr, site, capacity, packed, status, held>>

ReallocAddFails(t) ==
  /\ pc[t] = "realloc" /\ status = "running"
  /\ \E a \in Addrs \ (heap \ {ptr[t]}) :
       heap' = (heap \ {ptr[t]}) \cup {a} /\ AddFails(t, a)
-------------------------------------------------------------------------
(* memdebug_free *)

\* Variant: free ignores that the pointer has no record.
FreeCall_Unchecked(t, p) ==
  /\ Idle(t)
  /\ lock = Nobody
  /\ p = Null => NullFree
  /\ alloc_remove(p)
  /\ Goto(t, "free") /\ UNCHANGED status
  /\ ptr' = [ptr EXCEPT ![t] = p]
  /\ held' = IF p \in Addrs /\ Found(p) THEN [held EXCEPT ![p] = NoSite] ELSE held
  /\ UNCHANGED <<lock, heap, site, capacity, packed>>

FreeCall(t, p) ==
  /\ Idle(t)
  /\ lock = Nobody
  /\ p = Null => NullFree
  /\ alloc_remove(p)
  /\ IF p = Null \/ Found(p)
     THEN Goto(t, "free") /\ UNCHANGED status
     ELSE mempanic(t)
  /\ ptr' = [ptr EXCEPT ![t] = p]
  /\ held' = IF p \in Addrs /\ Found(p) THEN [held EXCEPT ![p] = NoSite] ELSE held
  /\ UNCHANGED <<lock, heap, site, capacity, packed>>

FreeLibc(t) ==
  /\ pc[t] = "free" /\ status = "running"
  /\ heap' = heap \ {ptr[t]}
  /\ Return(t)
  /\ UNCHANGED <<lock, map, capacity, packed, status, held>>
-------------------------------------------------------------------------
(* print_heap and OOM.  The buffer of print_heap comes from libc directly  *)
(* and lives only until it returns; it takes no address of Addrs.          *)

DumpCall(t) ==
  /\ Idle(t)
  /\ capacity' = [capacity EXCEPT ![t] = num_allocs]
  /\ Goto(t, "dump")
  /\ UNCHANGED <<lock, map, heap, ptr, site, packed, status, held>>

DumpFails(t) ==
  /\ Idle(t)
  /\ "dump" \in FailPoints
  /\ Goto(t, "oom")
  /\ UNCHANGED <<lock, map, heap, ptr, site, capacity, packed, status, held>>

Records == UNION { {<<b, i>> : i \in DOMAIN chain[b]} : b \in Buckets }

DumpPack(t) ==
  /\ pc[t] = "dump" /\ status = "running"
  /\ lock = Nobody
  /\ initialized' = TRUE
  /\ packed' = [packed EXCEPT ![t] = Cardinality(Records)]
  /\ Goto(t, "print")
  /\ UNCHANGED <<lock, chain, num_allocs, heap, ptr, site, capacity, status, held>>

DumpPrint(t) ==
  /\ pc[t] = "print" /\ status = "running"
  /\ capacity' = [capacity EXCEPT ![t] = 0]
  /\ packed' = [packed EXCEPT ![t] = 0]
  /\ Goto(t, "idle")
  /\ UNCHANGED <<lock, map, heap, ptr, site, status, held>>

\* low_mem_print_heap takes the mutex, prints and releases it; then exit().
OOM(t) ==
  /\ pc[t] = "oom" /\ status = "running"
  /\ lock = Nobody
  /\ initialized' = TRUE
  /\ status' = "oom"
  /\ UNCHANGED <<lock, chain, num_allocs, heap, locals, held>>
-------------------------------------------------------------------------
Call(t) ==
  \/ \E s \in Sites : Malloc(t, s) \/ \E p \in Pointers : Realloc(t, p, s)
  \/ \E p \in Pointers : FreeCall(t, p)
  \/ DumpCall(t)

Continue(t) ==
  \/ Register(t) \/ ReallocLibc(t) \/ FreeLibc(t) \/ DumpPack(t) \/ DumpPrint(t) \/ OOM(t)

Fail(t) ==
  MallocFails(t) \/ RegisterFails(t) \/ ReallocFails(t) \/ ReallocAddFails(t) \/ DumpFails(t)

\* The program has exited.
Exited == status # "running" /\ UNCHANGED vars

Next == Exited \/ \E t \in Threads : Call(t) \/ Continue(t) \/ Fail(t)

Spec == Init /\ [][Next]_vars

(***************************************************************************)
(* A thread inside the library goes on, and one that finds the mutex free  *)
(* again and again gets it in the end.  Nothing obliges a thread to call.  *)
(***************************************************************************)
FairSpec == Spec /\ \A t \in Threads : SF_vars(Continue(t))
-------------------------------------------------------------------------
(* Properties *)

Labels == {"idle", "register", "realloc", "free", "dump", "print", "oom", "panic"}

\* Every variable keeps its type.
TypeOK ==
  /\ lock \in Threads \cup {Nobody}
  /\ initialized \in BOOLEAN
  /\ chain \in [Buckets -> Seq([ptr : Addrs, site : Sites])]
  /\ num_allocs \in 0 .. SizeMax
  /\ heap \subseteq Addrs
  /\ pc \in [Threads -> Labels]
  /\ ptr \in [Threads -> Pointers]
  /\ site \in [Threads -> Sites \cup {NoSite}]
  /\ capacity \in [Threads -> 0 .. SizeMax]
  /\ packed \in [Threads -> Nat]
  /\ status \in {"running", "panic", "oom"}
  /\ held \in [Addrs -> Sites \cup {NoSite}]

\* The thread t is about to hand its pointer back to libc.
Releasing(t) == pc[t] \in {"realloc", "free"} /\ ptr[t] # Null

\* libc's free and realloc are only called with an address that is allocated,
\* and no two threads release the same one, however often and from however
\* many threads the program frees a pointer: it panics first.
LibcContract ==
  /\ \A t \in Threads : Releasing(t) => ptr[t] \in heap
  /\ \A s, t \in Threads : Releasing(s) /\ Releasing(t) /\ ptr[s] = ptr[t] => s = t

\* A record is of memory that libc has allocated and that nobody is releasing;
\* no pointer has two records, and each record is in the bucket of its pointer.
\* It is why malloc records after it allocates and free releases after it
\* forgets: libc may give the same address out again at once.
RecordsLive ==
  \A x \in Records :
    LET p == chain[x[1]][x[2]].ptr
    IN  /\ p \in heap /\ x[1] = Hash[p]
        /\ \A t \in Threads : Releasing(t) => ptr[t] # p
        /\ \A y \in Records : chain[y[1]][y[2]].ptr = p => x = y

\* What the map says is what the program did: the pointers it received and has
\* not given back, each with the call that last returned it.
MapMatchesProgram ==
  {<<chain[x[1]][x[2]].ptr, chain[x[1]][x[2]].site>> : x \in Records}
    = {<<a, held[a]>> : a \in {b \in Addrs : held[b] # NoSite}}

\* The total that print_heap prints and sizes its buffer with is the number of
\* records, except while realloc or a failing insertion is between the two.
CountExact == lock = Nobody => num_allocs = Cardinality(Records)

\* The program panics only over a pointer that it does not own.
NoFalsePanic ==
  \A t \in Threads : pc[t] = "panic" => ptr[t] \notin {a \in Addrs : held[a] # NoSite}

\* The buffer of print_heap is long enough for what the loop packs into it.
DumpFits == \A t \in Threads : pc[t] = "print" => packed[t] <= capacity[t]

\* A thread that runs out of memory outside the mutex ends the program, with the
\* heap printed -- unless another one already waits in OOM for a mutex it holds.
StuckInside(t) == pc[t] = "oom" /\ lock = t
OOMExitsOutside ==
  \A t \in Threads :
    pc[t] = "oom" ~> status # "running" \/ \E u \in Threads : StuckInside(u)

\* A thread that runs out of memory ends the program, with the heap printed.
OOMExits == \A t \in Threads : pc[t] = "oom" ~> status # "running"
=========================================================================
