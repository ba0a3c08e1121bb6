# A verification project for apaz-libc

TLA+ models of the header-only C library apaz-libc, TLC configurations that
check them on small instances, and TLAPS proofs for all instances. It covers
the two headers that threads share state through -- the thread pool and the
allocation tracker --, arenas, lists, strings, the UTF-8 codec and the functions
that read files.

## Inventory

Everything is header-only; there is no build, no persistent state, no network.
Threads exist in two places: the pool creates them, and `memdebug.h` guards its
table against threads of the program.

| component | state it keeps | operations | what is hard, what makes it correct |
|---|---|---|---|
| threadpool.h | mutex, LIFO list of tasks, shutdown flag, count of running threads | create, exectask, worker loop, destroy | interleavings, early returns inside critical sections, waiting loops; no task lost or run twice, no use after destroy, destroy returns |
| memdebug.h | static hash map of live allocations, mutex, `num_allocs`, libc's heap | malloc, realloc, free, print_heap, OOM, mempanic | libc is called outside the mutex on one side and inside on the other, failing allocations; map and heap agree, invalid frees are caught first |
| mutex.h | none | init, lock, unlock, destroy | wrapper around pthread_mutex / SRWLOCK; modelled as owner-or-nobody where it is used |
| arena.h | chain of buffers with size and capacity | new, malloc, pop, destroy | capacity arithmetic, pop on a chained arena; blocks are disjoint and inside memory that was allocated |
| list.h | length, capacity and slots in front of the pointer | new, add, addAll, pop, peek, map, filter, flatmap | growth, re-used buffers; a list is the sequence of its elements |
| string.h, apaz-libc.h | blocks of a length, chars and a terminator | new, resize, add, copy, clone, substring, change of case, comparisons, split, conversions to and from lists | copy bounds, who frees what; a String is the sequence of its chars |
| utf8.h | a decoder's position, buffers | encode, decode, read a file | boundary code points, broken sequences, buffers on error paths; exactly well-formed text is accepted |
| file reading (string.h, utf8.h) | FILE and buffer | open and seek, read and close | a file that changes meanwhile, every call of libc may fail; what was taken is released |
| profile.h | static stopwatch variables | init, lap, stop, read | macro control flow |
| variadic.h | none | argument counting macros | compile time only |

How they interact: `arena.h`, `list.h` and `string.h` allocate through the
macros of `memdebug.h`; `arena.h` keeps its records in a list and prints them
with the sort of `memdebug.h`; `apaz-libc.h` joins lists and strings;
`memdebug.h` and `threadpool.h` use `mutex.h`. (`threadpool.h:7` includes the
mutex header under a path, `../apaz-mutex.h/apaz-mutex.h`, that this repository
does not contain; the interface is that of `mutex.h`.) The pool's workers call
back into the program, which may call `exectask` again.

## Modules

| module | models | extends / uses |
|---|---|---|
| `TaskPool` | what the comments of threadpool.h promise: accept while open, start once, finish, close when all are finished | -- |
| `Threadpool` | threadpool.h, one action per step between mutex operations | `INSTANCE TaskPool` for the refinement |
| `ThreadpoolProofs` | inductive invariant, theorems, refinement proof | `Threadpool`, TLAPS |
| `MemDebug` | memdebug.h with MEMDEBUG on, over an external libc heap | -- |
| `MCMemDebug` | the hash functions and symmetry for TLC | `MemDebug` |
| `MemDebugProofs` | inductive invariant and theorems | `MemDebug`, TLAPS |
| `Lists` | what the comments of list.h promise: a list is the sequence of its elements | -- |
| `ListBuffer` | list.h: buffers, their growth and who owns them, and the loops | `INSTANCE Lists` for the refinement |
| `MCListBuffer` | functions for map and flatmap, symmetry | `ListBuffer` |
| `ListBufferProofs` | who owns which buffer, what is in it, what the loops compute | `ListBuffer`, TLAPS |
| `Arena` | arena.h: the chain of arenas, blocks, pop, destroy | -- |
| `ArenaProofs` | inductive invariant and theorems | `Arena`, TLAPS |
| `Utf8` | decoder and encoder of utf8.h as operators; the well-formed texts of the Unicode standard as the reference | -- |
| `TextFiles` | the three readers of files and the encoder, one action per call of libc | `Utf8` |
| `TextFilesProofs` | the codec on one character and on whole texts, inductive invariant and theorems | `TextFiles`, `Loops`, TLAPS |
| `CStrings` | the functions of string.h on `char *` as operators, with their reference | -- |
| `Texts` | what a program may expect of Strings: sequences of chars | `CStrings` |
| `Strings` | Strings and their conversions to lists: blocks, variables, who owns what | `CStrings`, `INSTANCE Texts` for the refinement |
| `Loops` | lemmas on loops written as functions that call themselves with a larger index | TLAPS |
| `StringsProofs` | what the loops of string.h compute, that each String is what it says, who owns it, and that Strings are sequences of chars | `Strings`, `Loops`, TLAPS |
| `TextProgram` | a program that reads a file and works with Strings made of it | `TextFiles`, `Strings` |
| `MCTextProgram` | files, code points and arrays of chars for TLC | `TextProgram` |
| `TextProgramProofs` | the theorems on readers and Strings hold in their composition | `TextProgram`, the two proof modules |

Definitions with a name `X_Variant` next to a definition `X` are plausible bugs
of the code it models. No specification uses them; with `X` replaced by such a
variant, TLC finds the property violated that the variant is meant for, which
shows that the property depends on the code.

### Threadpool and the code

* `pc[t]` is the place of thread `t`: `x_lock`, `x_body`, `x_unlock` are the
  three steps of a critical section `x` (`exec`, `take`, `flag`, `stack`,
  `count`). `exit_unlock` is the unlock before a worker's `return NULL`.
* `Lock` and `Unlock` are `Threadpool_CRITICAL_BEGIN` and `_END`; `AfterLock`
  and `Resume` say where each critical section goes on. The mutex is not
  recursive: a thread that locks it twice waits for itself, as with
  `PTHREAD_MUTEX_INITIALIZER` on Linux and with SRWLOCK.
* A task is one call of `Threadpool_exectask`, and `task_stack` is the sequence
  of the nodes of the linked list. `work` and `waiting` are the locals of the
  code; `arg` is the argument of a pending `exectask`.
* `ExecReject` is the early return at line 70, which skips the unlock: the lock
  stays with the thread.
* `fate`, `runs` and `finished` are history variables; no guard of a library
  step reads them.
* The program around the pool follows the comments: it calls `exectask` between
  create and destroy, destroys once, and its tasks return. A task that still runs
  may call `exectask` while destroy waits, which the comments do not forbid;
  `Refused` says that such a call came after the flag was set. `SpawnMayFail` lets
  `pthread_create` fail, whose result the code ignores.

### MemDebug and the code

* `chain[b]` is the bucket `b` of `allocs`, the array slot first and then the
  linked nodes. An empty sequence is a slot with `ptr == NULL`; hence `Found`
  finds `NULL` in an empty bucket, as the loop of `alloc_remove` does. `Without` has
  its three branches: the slot takes over the record of the next node, or is
  emptied, or a node is linked past.
* `heap` is libc's: the addresses that are allocated. It is external. libc may
  return any address that is free, at once after it was released.
* A critical section that only touches the map is one step (`Register`,
  `FreeCall`, `DumpPack`): no other thread can tell, since the only read
  without the mutex, `num_allocs` in `print_heap`, sees the old or the new value.
  `Realloc` and `ReallocLibc` are separate, because the mutex is held across the
  call of libc, and so are the steps that call OOM with the mutex held. There are no
  sizes: `ReallocFails` leaves the block where it was or, as `realloc(p, 0)` may,
  releases it.
* `held` is history: the pointers the program received and has not given back,
  with the call (`Sites`: file, line, function, size) that returned them last.
  The program may pass any pointer to free and realloc, its own, another
  thread's, one already freed, or one that never existed (`Wild`).
* `status` is how the process ended; `panic` is `exit(MEMPANIC_EXIT_STATUS)`.

### ListBuffer and the code

* `ref[x]` is a variable `List_type x` of the program, `heap` the buffers that are
  allocated, by their address. A buffer has the stored capacity (`cap`), the
  elements it has memory for (`room`) and the elements up to the length (`item`);
  what lies behind the length is never read.
* `Write` stays in the buffer, `Realloc` may move it, `Renew` is a new buffer
  followed by `List_destroy` of the old one. Each operation uses the one the code
  uses. `Place` is libc: a buffer at an address that is free, or at the one it
  replaces.
* `filtered` and `flattened` are the loops of the code as recursive functions of
  the round; `Abstract` has the sequence operators they are meant to compute.
* Contracts of callers that the code does not check are guards: `Pop` of a list
  with elements, `New_of` with room for the items, `Sublist` within the length,
  `AddAll` of a list to itself only without growth. `FlatmapAny` and `SelfAppend` lift
  the ones for flatmap and for `AddAll`, which no comment asks for. `AppendsFreed` is
  the latter: realloc frees the old buffer before the loop reads from it, so what it
  appends is anything.

### Arena and the code

* `chain[1]` is the arena the program has; the others are linked behind it, in
  order. `room` is the memory that really lies behind the buffer pointer, which
  the code does not store, and `base` the distance to the start of that memory.
* `heap` has what malloc gave to the arenas: structs, buffers, lists of records.
* `live` is history: the blocks that the program uses, in the order it got them.
  `GivesUp` is what it stops using with a pop: the last one, wherever it is, or all of
  them. The code does not look at blocks at all: `Arena_pop` shrinks the first arena in
  every case, and the history `strayed` notes that the last block was in another one.
* A size is a number of machine words; arithmetic is modulo `SizeMax + 1`. A request
  may be larger than any arena: the check of line 147 is all that stops it.

### Utf8 and TextFiles and the code

* A text is a sequence of bytes. `Decoded` is one round of `utf8_decodeNext`: the
  switch on the first byte, the continuation bytes as `_utf8_cont_6` returns them,
  and the checks on the result (`Accepts`). `Tried` is the position behind the
  bytes it has looked at, which an error skips as well.
* `WellFormedRanges` is the reference: table 3-7 of the Unicode standard, byte by
  byte, written without the code's arithmetic.
* The length of a file is a `long`, the decoder's an `int`: `AsInt` is the conversion,
  with `IntMax` for INT_MAX. A text that is longer is rejected at once when the int
  is negative, and cut off when it is not.
* `pc` is the next call of libc. `live` is what the running call has open or
  allocated, `owned` what the library handed to the program, `lost` what the last
  call forgot. `Return(what, released, kept)` is each `return`: of what is live,
  `kept` goes to the program, `released` was freed or closed, the rest is lost.
* Every call of libc may fail; `failed` says which did. With MEMDEBUG a failing
  allocation ends the program (`Stop`), without it the call goes on as the code
  does, through the unchecked malloc of `utf8.h:251` too. `memdebug` is chosen once.
* `FileChanges` is another process that appends to the file or cuts it, at any
  point between open and read: the code takes the length with `ftell` and reads later.

### CStrings, Strings and the code

* A `char *` is a sequence that contains its NUL; a char that nobody wrote is
  `Unset`. A String is a block of `heap`: its length, and its chars with the
  terminator behind them. A `String` variable goes by the address in it (`held`),
  as the functions that destroy or move their argument return the new pointer.
* The functions of `string.h` are operators from blocks to a block; the actions say
  what happens to the blocks: `Gets` allocates, `Changes` works in place or through
  realloc, `Gone` frees. `realloc` keeps what fits, the old terminator included, so
  that a String grows by a NUL and chars that nobody wrote.
* `String_add_destroy` copies `AddDestroyCopies` chars. Where this leaves the
  blocks (`Overrun`) the C language promises nothing any more: all that the program has
  is lost, which is no step of `Texts`, and `fault` is set.
* `AnyJoins` and `PartStarts` are contracts of the program. With `AnyJoins = FALSE` it
  joins only Strings for which that copy stays inside; with `PartStarts = {0}` it takes
  parts from the start of a String only, as `String_substring` ignores where they begin.
  `Texts` knows neither: it joins any two texts and takes a part from where it is asked.
* `String_split` is two loops in the code, as here: `Starts` finds where parts
  begin, `Parts` takes each length from the next pointer.
* `list` is a `List_String`, `letters` a `List_char`; what lists do in their buffers
  is the business of `ListBuffer`.

### TextProgram

The program reads files, encodes and decodes while it has no Strings (`Reading`),
takes the content of a file as a String (`TakeContent`, `String_new_fromFile`), and
works with Strings until the last one is gone (`StringWork`). The order is the
program's, so leaving out interleavings of both loses nothing: a reader and a
String share no state.

## Runs

| run | instance | what it shows |
|---|---|---|
| `pool_ops` | 3 workers, 1 client, the main thread, 3 tasks; calls of `exectask` during destroy, failing thread creation; fairness | `TypeOK`, `MutualExclusion`, `MutexHeldInside`, `TasksConserved`, `CountsRunning`, `NoUseAfterDestroy`, `DrainedStaysEmpty`, that the pool implements `TaskPool`, and the liveness properties `DestroyEnds` and `AcceptedFinish` |
| `pool_late_destroy` | 1 worker, 2 tasks | violated: `DestroyReturns` (finding 1) |
| `mem_track` | 2 threads, 3 colliding addresses, 1 wild pointer, 2 sites; every call of libc may fail | `TypeOK`, `LibcContract`, `RecordsLive`, `MapMatchesProgram`, `CountExact`, `NoFalsePanic`, `OOMExitsOutside` |
| `mem_free_null` | 1 thread, may free NULL | violated: `CountExact` (finding 2) |
| `mem_oom` | 1 thread, realloc or a map node may fail | violated: `OOMExits` (finding 3) |
| `mem_dump` | 2 threads, nothing fails | violated: `DumpFits` (finding 4) |
| `list_ops` | 2 lists, 3 buffers, 2 values, at most 3 elements; no list is appended to itself beyond its capacity | `TypeOK`, `Layout`, `Ownership`, `LoopsCorrect`, and that `ListBuffer` implements `Lists` |
| `list_flatmap` | the same, flatmap of any list | violated: `LoopsCorrect` (finding 5) |
| `arena_ops` | first arenas of 6 and 14 words, two chained ones of 8, requests of up to 10, 4 live blocks, MEMDEBUG | `TypeOK`, `InCapacity`, `Disjoint`, `Aligned`, `Recorded`, `HeapExact` |
| `arena_backed` | the same | violated: `Backed` (finding 6) |
| `text_program` | 564 files, 241 sequences of code points, 4 Strings of up to 3 chars, every call of libc may fail; fairness | see below |
| `string_join` | 4 Strings of up to 3 chars, joined as they come | violated: `ImplementsTexts` (finding 7) |

`text_program` is one run for all that deals with text. On the codec: `Decodes`
(utf8_readFile accepts exactly the well-formed texts, gives their code points, and
the position it reports is where the text is broken) and `RoundTrip` (encoding what
was decoded gives the bytes back; which code points the encoder takes). On the
readers: `TypeOK`, `NothingLost` (which paths leave a stream or a block behind, and
that no other does), `ReadsWhole` (a result is what the file holds when it is read, up
to the length it had before: all of it, unless somebody wrote in between), `BuffersFit` (no write behind the end of a block) and `CallsReturn`. On
Strings: `StringsTypeOK`, `Ownership` (every block has one owner), `Comparisons` (the
searches and comparisons against their definition on sequences) and `ImplementsTexts`
(Strings are sequences of chars, within the contracts `AnyJoins = FALSE` and
`PartStarts = {0}`).

`pool_ops` and `mem_track` do not check for deadlock: the leaked mutex and the
OOM that waits for its own mutex really stop the system, which is what
`pool_late_destroy` and `mem_oom` show. For the same reason `MutexHeldInside`,
`DestroyEnds` and `AcceptedFinish` are stated until a task is refused (`Refused`), and
the last two for threads that started: one that did not is counted for ever, and
`Threadpool_destroy` waits for it. In `DestroyReturns`, which the code breaks, there is
no such condition.

Bounds. Two workers are enough for two threads in the worker loop at once, and
three let one leave while two still run; three tasks allow one that runs, one on
the stack and one that is submitted by the first. Three colliding addresses give a
bucket with an array slot, an inner and a last node, so every branch of
`alloc_remove` is taken. `SizeMax` is the width of `size_t` in the model, larger
than the number of addresses. `HasRoom` is the only bound in a guard of
`MemDebug`: it keeps an address for a pending `realloc(NULL)`, so that libc fails
only where `FailPoints` says so. `Threadpool` has none besides the finite set
`Tasks`. Lists start with capacities 0 to 2 and grow to 3 elements, with `Slack` 1
in place of 16, so that every list is full several times, and three buffers let
each of the two lists move. Requests of 0, 3 and 9 words are blocks of 0, 4 and 10:
they fit a first arena of 6 or 14 words, fill it, or overflow it; in the one of 6 the
check of line 147 refuses 10, and in the one of 14 it lets 10 pass to a chained arena
of 8. `MaxLen`, `MaxCap`, `MaxArenas` and `MaxLive` are the bounds in guards
there. The files of `text_program` have the first and the last byte of every range
that the code or the standard tells apart, alone and in sequences that are complete,
broken or cut off, and two texts that are, or may become, too long for `IntMax` = 7: one
of 8 bytes is rejected, one of 17 is read as a single character. The code points are the ends of the ranges of the encoder, alone
and in pairs. Three chars make a word, a delimiter and another word, or two
delimiters with an empty part before, between and behind them; a String and its
three parts take four blocks. `MaxLen` is the bound on lengths, `MaxBlocks` on
blocks and `MaxChars` on the chars of what the program keeps; `Bounded` also keeps
the program to three Strings outside of lists, to one list at a time, to one String
with chars that nobody wrote, and to one String beside a list. malloc gives the
lowest free address, which renames blocks but loses none of what the properties
tell apart. Chars are ASCII, because `toupper` of a negative char is undefined.
Strings are checked with MEMDEBUG off only: it matters where an allocation fails,
and here none does. There is no symmetry where liveness is checked. The theorems
do not depend on any of these bounds.

Fairness. A thread inside the library goes on (the scheduler runs every
thread), a task returns ("Do not exec a task that will not finish"), and a
thread that finds the mutex free again and again gets it in the end (strong
fairness of `Lock`). The last is an assumption about the scheduler: pthread
mutexes do not promise it, but both waiting loops call `sched_yield` so that it
holds in practice. No step of the program (calling exectask, destroy, malloc,
free) is fair. `AcceptedFinish` is for finitely many tasks; the stack is LIFO, and
an endless supply of new tasks would starve the old ones. In `text_program` a
call goes on inside of the library (`WF_vars(Library)`): every call of libc returns.
`CallsReturn` then says that the loops over bytes and code points end on every path.

## Findings

1. `threadpool.h:70`: a rejected `exectask` returns with the mutex locked. The
   comment and the README of the library tell callers to expect the rejection.
   With a task that submits work during destroy, destroy never returns. Safety
   is not affected (`pool_ops`).
2. `memdebug.h:213`: `free(NULL)` decrements `num_allocs` when the bucket of
   NULL is empty.
3. `memdebug.h:495` and `:192`: OOM is called with `alloc_mutex` held and locks
   it again; the program prints the banner of OOM and hangs without the report of the
   heap. `OOMExitsOutside` shows that this is the only way in which running out of memory does not end the program.
4. `memdebug.h:337`: `print_heap` sizes its buffer before it locks.
5. `list.h:349` and `:383`: flatmap copies each sublist to the start of its
   output, and keeps the length of the list when it re-uses the buffer. The trace shows
   both: <<1, 2>> mapped to nothing and <<2>> becomes <<2, 2>>. It is
   right for a list of one element and a result that is not empty, which is the
   contract of `list_ops` (`FirstOnly`).
6. `arena.h:85`: a chained arena allocates its struct and no buffer; every block of
   it lies outside the memory behind its pointer. The arithmetic on capacities is
   otherwise right (`arena_ops`): with `room` as large as the capacity the chain
   would be sound for requests that a chained arena can hold.
7. `string.h:234`: `String_add_destroy` copies as many chars from the second String as
   the result has, behind the chars of the first. That is right only while the first
   has one char at most: a longer one makes it read past the second String and write
   past the result.

Further places where the code does other than a reader expects. The properties
state what it does, and exactly when:

* `String_substring` (`string.h:256`) ignores `start`: it returns the first
  `end - start` chars. With `PartStarts = {1}` TLC finds `ImplementsTexts` violated. No
  comment says what the function returns, so this is no finding.
* `Arena_pop` (`arena.h:216`) shrinks the first arena although the last block may be in
  a chained one: the next request then gets words that are in use (`Disjoint` is stated
  until then). No comment says what a pop gives up.
* A request of more than a chained arena holds is refused only if it is also larger than
  the first one, and only with MEMDEBUG (`arena.h:147`); it goes to a chained arena, and
  beyond its end. `InCapacity` names the case.
* `addAlleq` of a list to itself (`list.h:186-189`) reads the buffer that realloc freed.
  With `SelfAppend = TRUE` TLC finds `LoopsCorrect` and `ImplementsLists` violated: a list
  of one element that was appended to itself has another second element.
* A text longer than INT_MAX is rejected or cut (`utf8.h:54` and `258`); `Decodes` and
  `RoundTrip` are about the others (`IntSized`).
* A thread that `pthread_create` did not start makes `Threadpool_destroy` wait for ever
  (`DestroyEnds`).
* Lost on error paths (`NothingLost`): the stream when `fseek` or `ftell` fails; the
  bytes when `apaz_str_readFile` or `String_new_fromFile` cannot read them; the
  encoder's block when it meets a number that is no code point; a block that could
  not be shrunk, and then the result is NULL with the length of the text.
* An empty file is a read error, since `fread` of one item of length 0 returns 0
  (`ReadsWhole`); the malloc of `utf8.h:251` is not checked (`BuffersFit`); the encoder
  takes surrogates, which the decoder rejects (`RoundTrip`).
* Seen while reading, in code that is not modelled: `STOPWATCH_INIT(STOPWATCH_HOURS)`
  always exits, as the test at `profile.h:109` lacks its `else`; `print_heap` prints
  `num_allocs` after it unlocked.

`Aligned` holds for the struct of MEMDEBUG, 6 words. Without MEMDEBUG it has 5, and
with `Header = 5` TLC finds a chained arena whose blocks are one word off.

`hazards` in `PROJECT.json` lists these and the other places at risk, each with
the properties that cover it, and what these leave out.

## Proofs

`ThreadpoolProofs` proves, for every set of clients, workers (finite) and tasks,
calls of `exectask` during destroy and failing thread creation included:

| theorem | states |
|---|---|
| `Invariance` | `Spec => []IInv` |
| `TypeCorrect`, `Exclusion`, `NoLeakedMutex`, `ExactCount`, `DestroyIsLast`, `NothingAfterDrain`, `Conservation` | each invariant of the run `pool_ops` |
| `Refinement` | `Spec => ImplementsTaskPool` |

They assume only `ThreadsAssumption`: the roles are disjoint, `None` is neither
a thread nor a task, and there are finitely many workers.

None of the invariants is inductive alone, since each reads what another part
promises. `IInv` has these parts:

* `Base`: types; which labels a client, a worker and the main thread can have;
  when `arg` and `work` are set.
* `MutualExclusion`: the holder is the only thread inside. It lets every other
  part treat a body as atomic.
* `CountsRunning`: the counter is the cardinality of the workers that have not
  announced their end. It keeps the decrement above zero, which closes `TypeOK`.
* `Shutdown`: what destroy knows at each of its labels. An empty stack stays so
  because the flag is set; a count of zero means that every worker has left,
  because destroy holds the mutex and none can be between decrement and unlock.
* `Located`: no task is in two places, the accepted ones are exactly those on the
  stack, in a hand or finished, and `runs` agrees with the place. The two lemmas
  `PushElems` and `PopElems` say what the stack operations do to its elements.
* `Quiet`: until a task is refused the holder of the mutex is inside a critical section.

One lemma per part shows that every action keeps it. The refinement maps
`ExecPush` to `Accept`, `CallTask` to `Start`, `TaskReturns` to `Finish`,
`SetShutdown` to `Shut` and `Teardown` to `Close`; the last is where `Shutdown`
and `Located` meet: no worker, no stack, so all that was accepted has finished.

`ArenaProofs` proves, for all sizes that `SizesAssumption` allows and for any
number of arenas, blocks, requests and pops, with and without MEMDEBUG:

| theorem | states |
|---|---|
| `Invariance` | `Spec => []IInv` |
| `TypeCorrect`, `WithinCapacity`, `BlocksDisjoint`, `RecordsKept`, `NothingLeaked` | `TypeOK`, `InCapacity`, `Disjoint`, `Recorded` and `HeapExact` of `arena_ops` |
| `BlocksAligned` | `Aligned`, if the struct in front of a chained buffer is a multiple of the alignment (`Header % Align = 0`) |

`SizesAssumption` says what a C implementation gives: no buffer is larger than half of
the address space. Requests are any numbers for which the rounding does not wrap; that
`buf_size + num_bytes` does not either is proved, with MEMDEBUG from the check of line
147. Without MEMDEBUG nothing in the code keeps a request small, so that it is at most
half of the address space is assumed there. The parts of `IInv`:

* `Base`, `Sized`: types; what the first arena has given out is within its capacity.
* `Placed`: every block is in an existing arena, those of the first one within its
  capacity; a chained arena has one block, at its start.
* `InOrder`: until a pop strays, the blocks of the first arena are in the order of
  `live` and in its used part. A new block begins where the used part ends.
* `Gapless`: until then they also begin at 0, follow each other and end at `buf_size`.
  Without it `Arena_pop`, which only subtracts a size, could cut into an older block:
  `InOrder` alone allows a gap behind the last block.
* `Recorded`, `HeapExact`: inductive beside the rest. `OneMore` and `Apart` say
  how what malloc gave out grows and shrinks by one arena.

`MallocCases` reduces a request to its two outcomes, `FitsStep` and `ChainsStep`,
and does all the arithmetic; the other lemmas take one action or group each.
`BlocksAligned` has an invariant of its own on top, `Steady`: blocks, and the place
where the next one of the first arena begins, are multiples of the alignment. Its
hypothesis is needed: see the end of "Findings".

`MemDebugProofs` proves, for any number of threads, any finite set of addresses
smaller than `SizeMax`, every hash function and every choice of the calls of libc
that fail:

| theorem | states |
|---|---|
| `Invariance` | `Spec => []IInv` |
| `TypeCorrect`, `ReleasesAllocated`, `RecordsAreLive`, `MapIsProgram`, `PanicsJustified` | `TypeOK`, `LibcContract`, `RecordsLive`, `MapMatchesProgram` and `NoFalsePanic` of `mem_track` |
| `CountIsExact` | `CountExact`, in a program that never frees NULL (`~NullFree`); finding 2 is the counterexample otherwise |

The parts of `IInv` follow a pointer through a call:

* `Hashed`: a record is in the bucket its pointer hashes to, and a bucket has no
  pointer twice. The case analysis of `alloc_remove` -- slot, inner node, last node,
  absent -- is in the lemma `Removed`, what it means for the map in `TableRemove`.
* `Tracked`: each record's address is allocated; an address that is between libc and
  the map, on its way in or out, belongs to one thread and has no record. No lock
  covers map and heap together, so this is what excludes that libc gives out an
  address whose record is still there, or that two threads release it.
* `Inside`: `realloc` holds the mutex across its call of libc, so no other step on
  the map can come between.
* `Noted`: the map is exactly what the program was given, with the same sites.
* `Counted`: the counter, but while a thread is in OOM with the mutex, after
  `alloc_add` has counted a record that it cannot insert.

`ListBufferProofs` proves, for any number of lists and buffers, any elements, lengths
and capacities, and any functions passed to map, filter and flatmap:

| theorem | states |
|---|---|
| `ListInvariance` | `Spec => []IInv` |
| `OneOwner`, `TypeCorrect`, `LayoutKept` | `Ownership`, `TypeOK` and `Layout` of `list_ops`, flatmap of any list included |
| `LoopsKept`, `Refinement` | `LoopsCorrect` and `ImplementsLists`, for flatmap of one element at most (`~FlatmapAny`) and no list appended to itself beyond its capacity (`~SelfAppend`); finding 5 and the last section of "Findings" have the counterexamples otherwise |

`IInv` is `Owners` -- `Ownership`, and no buffer at NULL -- and `Sizes`: every buffer is
`Sound`, that is typed, not longer than its capacity, and as large as that says. One
lemma for each of the ways in which operations touch buffers (`WriteStep`, `PlaceStep`,
...) keeps the owners; `Turned` adds that a sound buffer for x changes the sequence of
x and of no other list. What is left per operation is what it makes of a buffer
(`AddedIs`, `SublistIs`, ...).

For the loops, `Rounds` shows that a recursive function over the rounds exists and
`Induct` that what each round keeps holds after the last. `AfterRound` is the invariant
of filter: there is an increasing sequence `at` of exactly the indexes up to i whose
elements are kept, the elements at these are in front, and those behind i have not
moved. At the end `at` is the witness that `Lists` asks for. `FlattenedIs` is
about one element; `FlattenedSound` about any list.

`ListAssumption` says that Null is neither an address nor a list, that the functions
take and return elements or lists, and that the 16 by which a list grows is not 0.

`TextFilesProofs` begins with the codec, for every code point and every text:

| theorem | states |
|---|---|
| `EncodedDecodes` | what the encoder writes for a code point that is no surrogate decodes to it |
| `DecodedEncodes` | where the decoder accepts, the text has exactly the bytes that the encoder would write, all inside of the text |

Together they say that the decoder takes the shortest form only and that no
shift or mask of the one disagrees with the other.

It goes on with the readers and the encoder of texts, for all files, all code points
and every choice of failing calls, with a file that changes meanwhile:

| theorem | states |
|---|---|
| `Invariance` | `Spec => []IInv` |
| `TypeCorrect`, `LeaksExact`, `WholeFileRead`, `WritesFit` | `TypeOK`, `NothingLost`, `ReadsWhole` and `BuffersFit` of `text_program` |
| `TextInvariance` | `Spec => []TextInv` |
| `DecoderCorrect`, `RoundTrips` | `Decodes` and `RoundTrip` of `text_program`, of texts whose length fits into an int |

The parts of `IInv`: `Calls` (which call runs at which step), `Holdings` (what it
holds there: the heart of `NothingLost`), `Failures` (nothing has failed but the malloc
that nobody looks at), `Progress` (at most one code point per byte read and four bytes
per code point written, for `BuffersFit`) and `Contents` (what was read of which
file). `Told` says that the decoder is never told more than there is, and all there is if
its length is an int. `ControlStep`, `TypeStep` and `DataStep` take the steps of the library, one
lemma each the steps of the program.

`Decodes` speaks of a result, and the result comes out of a loop of one action per
character; `TextInv` says how far the loop has come. While the decoder runs, what it
has passed is well-formed and `codepoints` are its characters, so that the text as a
whole is well-formed exactly if the rest is (`Parsing`). While the encoder runs, what
it has written up to the first surrogate is well-formed with these characters, and from
a surrogate on the output is broken at that place (`Encoded`). What a text decodes to
must still be there when the program encodes it (`Kept`, `Copies`): a reader that
forgot its bytes, or decoded other bytes than it returns, would break `RoundTrip`.
`WellFormed` and `Characters` are functions of the position that call themselves
behind the next character; the lemmas of `Loops` solve them, and `LibraryFrame` says
which steps leave texts alone.

`StringsProofs` proves, for all arrays of chars and all bounds:

| theorem | states |
|---|---|
| `OneOwner` | `Ownership`: every String is owned by one variable or one element of the list, and nothing else is allocated |
| `StringsTypes` | `StringsTypeOK`: every String has its length and its terminator |
| `ComparisonsHold` | `Comparisons` |
| `TextsImplemented` | `ImplementsTexts`: Strings implement `Texts`, `String_split` with any delimiter included, within the contracts `~AnyJoins` and `PartStarts = {0}`; finding 7 is a counterexample otherwise |

The invariant is `Owners /\ SoundBlocks`. Its hard step is `String_split`: no part may
have a length below zero, which takes that a match lies in the text (`MatchFits`) and
that every part begins behind the delimiter of the one before it (`StartsAre`). The
loops of `CStrings` and `Starts` are functions that call themselves with a larger
index. `Solution` shows that such functions exist, so that CHOOSE finds one, and
`Downward`, by well-founded induction, that what follows from the larger indexes holds
at all. Each loop then has three lemmas: `...Rounds` (the operator is what a solution
has at 0), `...Runs` (there is one) and `...Is` (what it computes).

For the refinement, `Said` is the text of a block, and each operation has a lemma
`...Text` that maps its step to the one of `Texts`, under the same invariant: without
`Owners` a block could be freed or rewritten under a second pointer to it, without
`SoundBlocks` a length would be no number of chars. `String_split` takes five lemmas. `StartsChain`: the parts
begin at 0 and behind each delimiter, until there is none. `InnerPart` and `LastPart`: what
each part holds, and that no delimiter occurs before its end. `Tails`, by `JoinIs`: the
parts from any one on, with their delimiters, are the text from its beginning on.
`SplitIs` puts them together. `SplitBlocks` adds that each part is in the block that
the list has at its place.

`TextProgramProofs` carries all of this over to the composition: `ProgramOwnership` and
`ProgramStrings`, where a String made of a file's content is one more way to get a
block, `ProgramTexts`, where it is one more new text (under the same two contracts), and `ProgramInvariance`, by the
fact that the composed program does to the readers what `TextFiles` allows.

Each theorem assumes only the named assumptions of its module, and what its row says.

Left to TLC:

* Liveness: `DestroyEnds`, `AcceptedFinish`, `OOMExitsOutside`, `CallsReturn`.
  Fairness and ENABLED are out of the prover's reach.

## Not modelled

* Failing `malloc` of a task node or of `pool->threads`; the code does not look
  at the result.
* The text, grouping and sorting of the reports of `memdebug.h`, and its map
  being `static` in a header, hence one per translation unit.
* The sizes of allocations in `memdebug.h`, but for what `realloc(p, 0)` may do.
* The memory order of the unlocked read in `print_heap`: it is a data race; the
  model lets it return the value before or after a critical section.
* malloc returning NULL in list.h and arena.h: the code writes to the result.
* The lists returned to flatmap by its mapper are values, not buffers; freeing
  each once is one line without a condition.
* Sizes near `SIZE_MAX`, where rounding a request or computing a list's size wraps.
* The report of `Arena_print_memallocs`. It counts popped blocks, since pop leaves
  their records in `given`.
* malloc returning NULL in `string.h`: `HANDLE_OOM` stops the program or returns
  NULL to a program that has to look. Chars above 127, `String_hash`, printing, and
  `_String_setlen_internal`, which nothing calls.
* Strings whose length is near `SIZE_MAX`, and substrings whose end is before their
  start: the length wraps.
* `APAZ_HANDLE_UNLIKELY_ERRORS=0`: the readers then do not look at the results of
  `fseek`, `ftell` and `fread`.
* `profile.h`: straight-line macros around `clock()` and `printf`; no other code reads
  its variables. `variadic.h`: macros without state.

## Plan

`Threadpool`, `MemDebug`, `ListBuffer`, `Arena`, `Utf8`, `TextFiles` and `Strings` are
modelled, checked and, as far as listed above, proved. What is left, most useful
first:

1. A composition of `Arena` or `ListBuffer` with `MemDebug`, through the redefined
   malloc, to show who owns each record of the map.
2. Failing allocations in `list.h`, `arena.h` and `string.h`.

Runs are kept to one per question, within minutes; theorems go into one proof
module per component.
