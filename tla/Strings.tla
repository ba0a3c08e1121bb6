------------------------------ MODULE Strings ------------------------------
(* The Strings of string.h and what apaz-libc.h makes of them: blocks of      *)
(* memory that hold a length, chars and a terminator, and the variables and   *)
(* lists of a program that point to them.  A variable goes by the address     *)
(* that is in it.                                                             *)
EXTENDS CStrings, Functions

CONSTANTS
  Arrays,     \* arrays of chars that the program has, each with its terminator
  Unset,      \* a char that was never written
  PartStarts, \* where the parts begin that the program takes of a String
  AnyJoins,   \* does it join Strings that String_add_destroy overruns?
  MaxLen,     \* bound on the lengths that the program asks for
  MaxBlocks,  \* bound on the Strings at a time, one less without those in lists
  MaxChars    \* bound on the chars in all of them

ASSUME ArraysAssumption == \A a \in Arrays : a \in Seq(0 .. 127) \ {<<>>} /\ Last(a) = NUL
ASSUME BoundsAssumption == MaxLen \in Nat /\ MaxBlocks \in Nat /\ MaxChars \in Nat
ASSUME ProgramAssumption == PartStarts \subseteq Nat /\ AnyJoins \in BOOLEAN

VARIABLES
  heap,       \* the blocks, by address: length and chars with the terminator
  held,       \* the addresses in the program's variables of type String
  list,       \* the addresses in a List_String
  letters,    \* the elements of a List_char
  fault       \* has String_add_destroy overrun a String?

stringVars == <<heap, held, list, letters, fault>>

None == [held |-> FALSE, elems |-> <<>>]
Held(elems) == [held |-> TRUE, elems |-> elems]

StringsInit == heap = <<>> /\ held = {} /\ list = None /\ letters = None /\ fault = FALSE

Data(x) == heap[x].data
String_len(x) == heap[x].len

With(f, a, b) == [c \in DOMAIN f \cup {a} |-> IF c = a THEN b ELSE f[c]]
Without(f, S) == Restrict(f, DOMAIN f \ S)

\* No char that nobody wrote comes before the first NUL.
Written(data) == \E k \in DOMAIN data : data[k] = NUL /\ \A j \in 1 .. k : data[j] # Unset
-------------------------------------------------------------------------
(* The functions, on a heap.                                               *)

\* The addresses that malloc can give out.
Addresses(h) == 1 .. MaxBlocks \ DOMAIN h

Size(h) == FoldFunction(LAMBDA b, n : n + b.len, 0, h)

\* The bounds on the Strings and chars that the program keeps; it writes what it allocated before it
\* allocates more, and has one list at a time.
Bounded ==
  /\ Cardinality(held') < MaxBlocks
  /\ Size(Restrict(heap', held')) + Len(letters'.elems) <= MaxChars
  /\ Size(Without(heap', held')) < MaxChars
  /\ list'.held => Cardinality(held') <= 1 /\ ~letters'.held
  /\ Cardinality({p \in DOMAIN heap' : ~Written(heap'[p].data)}) <= 1

\* A block of length len that begins with chars.
Block(len, chars) ==
  [len |-> len, data |-> [k \in 1 .. len + 1 |->
     IF k = len + 1 THEN NUL ELSE IF k <= Len(chars) THEN chars[k] ELSE Unset]]

_String_new(len) == Block(len, <<>>)
_String_new_of(cstr, len) == Block(len, SubSeq(cstr, 1, len))
_String_new_of_strlen(cstr) == _String_new_of(cstr, apaz_strlen(cstr))

\* Variant: the length is left alone.
_String_resize_Stale(b, new_size) == [Block(new_size, b.data) EXCEPT !.len = b.len]

\* realloc keeps what fits, the old terminator included.
_String_resize(b, new_size) == Block(new_size, b.data)

_String_add(b1, b2) ==
  Block(b1.len + b2.len, SubSeq(b1.data, 1, b1.len) \o SubSeq(b2.data, 1, b2.len))

String_copy(source, dest) ==
  LET minlen == Min({source.len, dest.len})
  IN  [dest EXCEPT !.data = [k \in DOMAIN dest.data |->
         IF k <= minlen THEN source.data[k] ELSE dest.data[k]]]

_String_clone(b) == String_copy(b, _String_new(b.len))

_String_substring(b, start, end) == String_copy(b, _String_new(end - start))

\* String_add_destroy copies as many chars as there are in both.
AddDestroyCopies(base, to_append) == base.len + to_append.len

\* Where it writes, and what of to_append it reads for that.
AddDestroyWrites(base, to_append) == base.len .. base.len + AddDestroyCopies(base, to_append) - 1
AddDestroyReads(base, to_append) == 0 .. AddDestroyCopies(base, to_append) - 1

AddDestroyInBounds(base, to_append) ==
  /\ AddDestroyWrites(base, to_append) \subseteq 0 .. base.len + to_append.len
  /\ AddDestroyReads(base, to_append) \subseteq 0 .. to_append.len

_String_add_destroy(base, to_append) ==
  LET nlen == base.len + to_append.len
  IN  [_String_resize(base, nlen) EXCEPT !.data = [k \in 1 .. nlen + 1 |->
         IF k - 1 \in AddDestroyWrites(base, to_append)
         THEN to_append.data[k - base.len]
         ELSE _String_resize(base, nlen).data[k]]]

toupper == [c \in 0 .. 127 |-> IF c \in 97 .. 122 THEN c - 32 ELSE c]
tolower == [c \in 0 .. 127 |-> IF c \in 65 .. 90 THEN c + 32 ELSE c]

\* Every char before the first NUL.
InPlace(b, case) ==
  [b EXCEPT !.data = [k \in DOMAIN b.data |->
    IF k <= apaz_strlen(b.data) THEN case[b.data[k]] ELSE b.data[k]]]

String_toUpper(b) == InPlace(b, toupper)
String_toLower(b) == InPlace(b, tolower)

String_endsWith(b, suffix) ==
  LET len1 == b.len
      len2 == apaz_strlen(suffix)
  IN  len1 >= len2 /\ apaz_str_equals(From(b.data, len1 - len2), suffix)

\* Variant: the search goes on inside of the delimiter.
Starts_Overlapping(str, delim) ==
  LET next[at \in 0 .. Len(str) - 1] ==
        LET match == apaz_strstr(From(str, at), delim)
        IN  IF match = NotFound THEN <<at>> ELSE <<at>> \o next[at + match + 1]
  IN  next[0]

\* The indexes at which String_split lets a part begin.
Starts(str, delim) ==
  LET next[at \in 0 .. Len(str) - 1] ==
        LET match == apaz_strstr(From(str, at), delim)
        IN  IF match = NotFound THEN <<at>> ELSE <<at>> \o next[at + match + apaz_strlen(delim)]
  IN  next[0]

\* All parts but the last reach up to the delimiter before the next one.
Parts(str, delim) ==
  LET ret == Starts(str, delim)
      lastIdx == Len(ret)
  IN  [k \in 1 .. lastIdx |->
        IF k < lastIdx
        THEN _String_new_of(From(str, ret[k]), (ret[k + 1] - apaz_strlen(delim)) - ret[k])
        ELSE _String_new_of_strlen(From(str, ret[k]))]
-------------------------------------------------------------------------
(* The program's steps.                                                    *)

\* The block b is new, at the lowest address there is.
Gets(b) ==
  \E a \in Addresses(heap) :
    /\ \A c \in Addresses(heap) : a <= c
    /\ heap' = With(heap, a, b)
    /\ held' = held \cup {a}

\* The block of x changes in place; if realloc moves it no old pointer is left.
Changes(x, b) == heap' = [heap EXCEPT ![x] = b] /\ UNCHANGED held

\* The block of x is freed.
Gone(x) == heap' = Without(heap, {x}) /\ held' = held \ {x}

Lists == <<list, letters>>

New ==
  /\ \/ \E len \in 0 .. MaxLen : Gets(_String_new(len))
     \/ \E a \in Arrays : \E len \in 0 .. Len(a) - 1 : Gets(_String_new_of(a, len))
     \/ \E a \in Arrays : Gets(_String_new_of_strlen(a))
  /\ UNCHANGED <<Lists, fault>>

\* The program writes the chars itself.
Fill(x) ==
  /\ Unset \in Range(Data(x))
  /\ \E a \in Arrays : Len(a) > String_len(x) /\ Changes(x, _String_new_of(a, String_len(x)))
  /\ UNCHANGED <<Lists, fault>>

Resize(x) ==
  /\ \E new_size \in 0 .. MaxLen : Changes(x, _String_resize(heap[x], new_size))
  /\ UNCHANGED <<Lists, fault>>

Add(y, z) ==
  /\ String_len(y) + String_len(z) <= MaxLen
  /\ Gets(_String_add(heap[y], heap[z]))
  /\ UNCHANGED <<Lists, fault>>

\* Variant: to_append stays allocated.
AddDestroy_Leaks(x, y) ==
  /\ x # y
  /\ String_len(x) + String_len(y) <= MaxLen
  /\ AddDestroyInBounds(heap[x], heap[y])
  /\ heap' = [heap EXCEPT ![x] = _String_add_destroy(@, heap[y])]
  /\ held' = held \ {y}
  /\ UNCHANGED <<Lists, fault>>

\* Beyond the end of a block the C standard promises nothing any more: what the
\* program has in memory may be lost.
Overrun ==
  /\ heap' = <<>> /\ held' = {} /\ list' = None /\ letters' = None
  /\ fault' = TRUE

AddDestroy(x, y) ==
  /\ x # y
  /\ String_len(x) + String_len(y) <= MaxLen
  /\ \/ /\ AddDestroyInBounds(heap[x], heap[y])
        /\ heap' = Without([heap EXCEPT ![x] = _String_add_destroy(@, heap[y])], {y})
        /\ held' = held \ {y}
        /\ UNCHANGED <<Lists, fault>>
     \/ AnyJoins /\ ~AddDestroyInBounds(heap[x], heap[y]) /\ Overrun

Copy(x, y) ==
  /\ Changes(y, String_copy(heap[x], heap[y]))
  /\ UNCHANGED <<Lists, fault>>

Clone(y) ==
  /\ Gets(_String_clone(heap[y]))
  /\ UNCHANGED <<Lists, fault>>

Substring(y) ==
  /\ \E end \in 0 .. MaxLen : \E start \in PartStarts \cap 0 .. end :
       Gets(_String_substring(heap[y], start, end))
  /\ UNCHANGED <<Lists, fault>>

ChangeCase(x) ==
  /\ Written(Data(x))
  /\ Changes(x, String_toUpper(heap[x])) \/ Changes(x, String_toLower(heap[x]))
  /\ UNCHANGED <<Lists, fault>>

Destroy(x) == Gone(x) /\ UNCHANGED <<Lists, fault>>

Split(x) ==
  /\ Written(Data(x)) /\ ~list.held
  /\ \E a \in Arrays, n \in 1 .. MaxBlocks :
       LET parts == Parts(Data(x), a) IN
       /\ Len(parts) = n
       /\ \E new \in [1 .. n -> Addresses(heap)] :
            /\ \A j, k \in DOMAIN new : j < k => new[j] < new[k]
            /\ \A p \in Range(new), c \in Addresses(heap) : c < p => c \in Range(new)
            /\ heap' = [p \in DOMAIN heap \cup Range(new) |->
                 IF p \in DOMAIN heap THEN heap[p]
                 ELSE parts[CHOOSE k \in DOMAIN new : new[k] = p]]
            /\ list' = Held(new)
  /\ UNCHANGED <<held, letters, fault>>

\* List_String_addeq: the list takes over the String.
ListAdd(x) ==
  /\ list.held
  /\ list' = Held(Append(list.elems, x))
  /\ held' = held \ {x}
  /\ UNCHANGED <<heap, letters, fault>>

\* List_String_map_to_String with one of the functions that work in place.
ListChangeCase ==
  /\ list.held /\ \A p \in Range(list.elems) : Written(heap[p].data)
  /\ \/ heap' = [p \in DOMAIN heap |->
          IF p \in Range(list.elems) THEN String_toUpper(heap[p]) ELSE heap[p]]
     \/ heap' = [p \in DOMAIN heap |->
          IF p \in Range(list.elems) THEN String_toLower(heap[p]) ELSE heap[p]]
  /\ UNCHANGED <<held, Lists, fault>>

\* List_String_foreach with String_printAndDestroy, which destroys the list as well.
ListDestroy ==
  /\ list.held
  /\ heap' = Without(heap, Range(list.elems))
  /\ list' = None
  /\ UNCHANGED <<held, letters, fault>>

String_to_List_char(x) ==
  /\ ~letters.held
  /\ letters' = Held(SubSeq(Data(x), 1, String_len(x)))
  /\ Gone(x)
  /\ UNCHANGED <<list, fault>>

List_char_to_String ==
  /\ letters.held
  /\ Gets(_String_new_of(letters.elems, Len(letters.elems)))
  /\ letters' = None
  /\ UNCHANGED <<list, fault>>

StringsNext ==
  /\ ~fault
  /\ \/ New \/ ListChangeCase \/ ListDestroy \/ List_char_to_String
     \/ \E x \in held :
          \/ Fill(x) \/ Resize(x) \/ ChangeCase(x) \/ Destroy(x) \/ Clone(x) \/ Substring(x)
          \/ Split(x) \/ ListAdd(x) \/ String_to_List_char(x)
          \/ \E y \in held : Add(x, y) \/ AddDestroy(x, y) \/ Copy(x, y)
  /\ Bounded

StringsSpec == StringsInit /\ [][StringsNext]_stringVars
-------------------------------------------------------------------------
\* Types; every block has the length it says, and a terminator behind it.
StringsTypeOK ==
  /\ DOMAIN heap \subseteq 1 .. MaxBlocks
  /\ \A p \in DOMAIN heap :
       /\ Len(heap[p].data) = heap[p].len + 1
       /\ Last(heap[p].data) = NUL
       /\ Range(heap[p].data) \subseteq 0 .. 127 \cup {Unset}
  /\ held \subseteq 1 .. MaxBlocks
  /\ list.elems \in Seq(1 .. MaxBlocks) /\ letters.elems \in Seq(0 .. 127 \cup {Unset})
  /\ list.held \in BOOLEAN /\ letters.held \in BOOLEAN
  /\ fault \in BOOLEAN

\* Whatever chain of operations led here, each String has exactly one owner, a variable or
\* an element of the list, and nothing else is allocated: "Doesn't destroy the string
\* passed" (apaz-libc.h:92), "Destroys the string passed" (apaz-libc.h:65), "destroying
\* neither" and "destroying both" (string.h:210, 225).
Ownership ==
  /\ IsInjective(list.elems)
  /\ held \cap Range(list.elems) = {}
  /\ held \cup Range(list.elems) = DOMAIN heap

\* The comparisons and searches of string.h:42-91 and 284-290 agree with what stands
\* before the first NUL of their arguments; String_endsWith looks at the length instead,
\* and an empty prefix is no prefix (string.h:68).
Comparisons ==
  LET readable == {p \in DOMAIN heap : Written(heap[p].data)} IN
  \A p \in readable :
    \A seq \in {heap[q].data : q \in readable} :
      LET str == heap[p].data
          s == Text(str)
          t == Text(seq)
          found == apaz_strstr(str, seq)
      IN  /\ apaz_str_equals(str, seq) <=> s = t
          /\ apaz_strcmp(str, seq) = 0 <=> s = t
          /\ apaz_strcmp(str, seq) < 0 <=> Before(s, t)
          /\ apaz_str_startsWith(str, seq) <=> t # <<>> /\ IsPrefix(t, s)
          /\ apaz_str_contains(str, seq) <=> t # <<>> /\ \E k \in 0 .. Len(s) : OccursAt(s, t, k)
          /\ found # NotFound =>
               OccursAt(s, t, found) /\ \A k \in 0 .. found - 1 : ~OccursAt(s, t, k)
          /\ Unset \notin Range(str) =>
               (String_endsWith(heap[p], seq) <=> IsSuffix(t, SubSeq(str, 1, heap[p].len)))

Chars(p) == SubSeq(heap[p].data, 1, heap[p].len)

Abstract == INSTANCE Texts WITH
  Names <- 1 .. MaxBlocks, text <- [p \in held |-> Chars(p)],
  list <- [held |-> list.held, elems |-> [k \in DOMAIN list.elems |-> Chars(list.elems[k])]]

\* A String is the sequence of its chars, whatever block it is in: every operation does
\* to it what its name and comment say.
ImplementsTexts == Abstract!Spec
=========================================================================
