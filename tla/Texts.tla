------------------------------- MODULE Texts -------------------------------
(* What a program may expect of string.h and of the conversions of           *)
(* apaz-libc.h: a String is a sequence of chars, whatever block holds it, a  *)
(* List_String a sequence of them and a List_char one of chars.              *)
EXTENDS CStrings, Functions

CONSTANTS
  Names,      \* the variables of type String
  Arrays,     \* arrays of chars that a program has, each with its terminator
  Unset,      \* a char that was never written
  PartStarts  \* where the parts begin that the program takes of a text

VARIABLES
  text,       \* the texts by the names of the Strings that hold them
  list,       \* the texts of a List_String, if there is one
  letters     \* the elements of a List_char, if there is one

vars == <<text, list, letters>>

None == [held |-> FALSE, elems |-> <<>>]
Held(elems) == [held |-> TRUE, elems |-> elems]

Init == text = <<>> /\ list = None /\ letters = None

Has(x) == x \in DOMAIN text
Bind(x, t) == text' = [y \in DOMAIN text \cup {x} |-> IF y = x THEN t ELSE text[y]]
Only(xs) == text' = Restrict(text, xs)
Lists == <<list, letters>>

\* What is printed of a text, searched or compared: all before its first NUL.
Shown(t) == Text(CString(t))

Upper == [c \in 0 .. 127 |-> IF c \in 97 .. 122 THEN c - 32 ELSE c]
Lower == [c \in 0 .. 127 |-> IF c \in 65 .. 90 THEN c + 32 ELSE c]

\* t with its letters in another case, as far as it is shown.
Cased(t, case) == [k \in DOMAIN t |-> IF k <= Len(Shown(t)) /\ t[k] # Unset THEN case[t[k]] ELSE t[k]]

\* A new text is given, or nobody wrote it yet.
New(x) ==
  /\ ~Has(x)
  /\ \/ \E a \in Arrays : \E n \in 0 .. Len(a) - 1 : Bind(x, SubSeq(a, 1, n))
     \/ Has(x)' /\ text'[x] \in Seq({Unset}) /\ Bind(x, text'[x])
  /\ UNCHANGED Lists

Fill(x) ==
  /\ Has(x)
  /\ \E a \in Arrays : Len(a) > Len(text[x]) /\ Bind(x, SubSeq(a, 1, Len(text[x])))
  /\ UNCHANGED Lists

\* A text keeps its beginning; of what is new the first char is the old terminator.
Resize(x) ==
  /\ Has(x) /\ Has(x)'
  /\ LET n == Len(text'[x])
         old == CString(text[x])
     IN  Bind(x, [k \in 1 .. n |-> IF k <= Len(old) THEN old[k] ELSE Unset])
  /\ UNCHANGED Lists

\* "Returns str1str2, destroying neither"
Add(x, y, z) == Has(y) /\ Has(z) /\ ~Has(x) /\ Bind(x, text[y] \o text[z]) /\ UNCHANGED Lists

\* "Returns str1str2, destroying both"
AddDestroy(x, y) ==
  /\ Has(x) /\ Has(y) /\ x # y
  /\ text' = [z \in DOMAIN text \ {y} |-> IF z = x THEN text[x] \o text[y] ELSE text[z]]
  /\ UNCHANGED Lists

\* The beginning of one text is written over that of another.
Copy(x, y) ==
  /\ Has(x) /\ Has(y)
  /\ Bind(y, [k \in DOMAIN text[y] |-> IF k <= Len(text[x]) THEN text[x][k] ELSE text[y][k]])
  /\ UNCHANGED Lists

Clone(x, y) == Has(y) /\ ~Has(x) /\ Bind(x, text[y]) /\ UNCHANGED Lists

\* The part of the text that begins at start, as far as there is text.
Substring(x, y) ==
  /\ Has(y) /\ ~Has(x) /\ Has(x)'
  /\ \E start \in PartStarts :
       Bind(x, [k \in DOMAIN text'[x] |->
                 IF start + k <= Len(text[y]) THEN text[y][start + k] ELSE Unset])
  /\ UNCHANGED Lists

ChangeCase(x) ==
  /\ Has(x)
  /\ \E case \in {Upper, Lower} : Bind(x, Cased(text[x], case))
  /\ UNCHANGED Lists

Destroy(x) == Has(x) /\ Only(DOMAIN text \ {x}) /\ UNCHANGED Lists

\* Put together with the delimiter between them the parts are what is shown of the text,
\* and a part ends where the delimiter first occurs behind its beginning.  An empty
\* delimiter occurs nowhere.
IsSplit(parts, t, delim) ==
  LET n == Len(parts)
      end[k \in 1 .. n] == IF k = n THEN parts[k] ELSE parts[k] \o delim
      Occurs(s, at) == delim # <<>> /\ OccursAt(s, delim, at)
  IN  /\ n > 0
      /\ FlattenSeq(end) = t
      /\ \A k \in 1 .. n : \A at \in 0 .. Len(parts[k]) - 1 :
           ~Occurs(FlattenSeq(SubSeq(end, k, n)), at)
      /\ delim = <<>> => n = 1

Split(x) ==
  /\ Has(x) /\ ~list.held
  /\ \E a \in Arrays : IsSplit(list'.elems, Shown(text[x]), Text(a))
  /\ list' = Held(list'.elems)
  /\ UNCHANGED <<text, letters>>

ListAdd(x) ==
  /\ Has(x) /\ list.held
  /\ list' = Held(Append(list.elems, text[x]))
  /\ Only(DOMAIN text \ {x})
  /\ UNCHANGED letters

ListChangeCase ==
  /\ list.held
  /\ \E case \in {Upper, Lower} :
       list' = Held([k \in DOMAIN list.elems |-> Cased(list.elems[k], case)])
  /\ UNCHANGED <<text, letters>>

ListDestroy == list.held /\ list' = None /\ UNCHANGED <<text, letters>>

ToLetters(x) ==
  /\ Has(x) /\ ~letters.held
  /\ letters' = Held(text[x])
  /\ Only(DOMAIN text \ {x})
  /\ UNCHANGED list

FromLetters(x) ==
  /\ ~Has(x) /\ letters.held
  /\ Bind(x, letters.elems)
  /\ letters' = None
  /\ UNCHANGED list

Next ==
  \/ \E x \in Names :
       \/ New(x) \/ Fill(x) \/ Resize(x) \/ ChangeCase(x) \/ Destroy(x)
       \/ Split(x) \/ ListAdd(x) \/ ToLetters(x) \/ FromLetters(x)
       \/ \E y \in Names : AddDestroy(x, y) \/ Copy(x, y) \/ Clone(x, y) \/ Substring(x, y)
       \/ \E y, z \in Names : Add(x, y, z)
  \/ ListChangeCase \/ ListDestroy

Spec == Init /\ [][Next]_vars
=========================================================================
