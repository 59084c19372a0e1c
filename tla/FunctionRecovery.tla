-------------------------- MODULE FunctionRecovery --------------------------
(***************************************************************************)
(* How generate-n64recomp-config.py tells the recompiler about functions   *)
(* whose size or symbol the decomp's ELF has lost: derive_function_sizes   *)
(* sizes the functions that have none, derive_manual_functions recovers    *)
(* functions from the symbol tables of the input objects, and              *)
(* infer_hidden_object_functions places those of which only name and size  *)
(* are left into the unclaimed parts of an object's text.                  *)
(*                                                                         *)
(* Addresses and sizes are byte counts; an interval is a pair <<first,     *)
(* end>> without its end.  A script that fails refuses; the lists it       *)
(* returns sorted are sets here.  The name of a function that is recovered *)
(* is a sequence of words, of which one of eight hexadecimal digits is the *)
(* number that it spells: the script may put such a word behind a name.    *)
(***************************************************************************)
EXTENDS Integers, Sequences, SequencesExt, FiniteSetsExt

CONSTANTS
  RuntimeOwned,  \* RUNTIME_OWNED_HIDDEN_FUNCTIONS
  Refused        \* the script fails

MaxPadding == 80  \* 0x50

Clashes(a, b) == a[1] < b[2] /\ b[1] < a[2]
Within(a, b)  == b[1] <= a[1] /\ a[2] <= b[2]
Span(f)       == <<f.address, f.address + f.size>>

Total(functions) == FoldLeft(LAMBDA sum, f : sum + f.size, 0, functions)

\* for x in sorted(set): state = op(state, x)
Latest(set) == CHOOSE x \in set : \A y \in set : y[1] <= x[1]
InOrder(op(_, _), state, set) ==
  MapThenFoldSet(LAMBDA x, before : op(before, x), state, LAMBDA x : x, Latest, set)

-----------------------------------------------------------------------------
(* infer_hidden_object_functions: functions is the sequence of the pseudo-   *)
(* functions, [name, size], known a family of the intervals that are taken,  *)
(* text the interval of the object, hints the call destinations.             *)

Clip(known, text) ==
  [k \in {i \in DOMAIN known : Clashes(known[i], text)} |->
     <<Max({known[k][1], text[1]}), Min({known[k][2], text[2]})>>]

Overlapping(known) == \E j, k \in DOMAIN known : j # k /\ Clashes(known[j], known[k])

\* The maximal intervals of the text that none of the taken ones reaches into.
Gaps(taken, text) ==
  {g \in ({text[1]} \cup {i[2] : i \in taken}) \X ({text[2]} \cup {i[1] : i \in taken}) :
     g[1] < g[2] /\ \A i \in taken : ~Clashes(i, g)}

\* Slip: every entry is taken to reach to the end of its gap.
MutBoundary(h, gap, hints) == gap[2]

\* The next entry of the gap, or its end.
Boundary(h, gap, hints) == Min({x \in hints : h < x /\ x < gap[2]} \cup {gap[2]})

\* What each call destination in a gap has room for: <<address, span>>.
HintedSegments(gaps, hints) ==
  UNION {{<<h, Boundary(h, gap, hints) - h>> : h \in {x \in hints : gap[1] <= x /\ x < gap[2]}} :
           gap \in gaps}

\* Functions of exactly that size, else those that leave little padding.
Suitable(left, span) ==
  LET exact == {k \in DOMAIN left : left[k].size = span}
  IN  IF exact # {} THEN exact
      ELSE {k \in DOMAIN left : left[k].size < span /\ span - left[k].size <= MaxPadding}

\* A destination is settled when exactly one function matches.
SettleHint(state, segment) ==
  LET fitting == Suitable(state.left, segment[2])
  IN  IF Cardinality(fitting) # 1 THEN state
      ELSE LET k == CHOOSE k \in fitting : TRUE
           IN  [left    |-> RemoveAt(state.left, k),
                placed  |-> state.placed \cup
                              {[name |-> state.left[k].name, address |-> segment[1],
                                size |-> state.left[k].size]},
                claimed |-> state.claimed \cup {<<segment[1], segment[1] + segment[2]>>}]

\* As many of the next functions as the gap has room for.
Fitting(left, room) == Max({k \in 0..Len(left) : Total(SubSeq(left, 1, k)) <= room})

\* Slip: a gap that is hardly used is no reason to give up.
MutTooLoose(used, room) == FALSE

TooLoose(used, room) == used > 0 /\ room - used > MaxPadding

PackGap(state, gap) ==
  LET room == gap[2] - gap[1]
      n    == Fitting(state.left, room)
      used == Total(SubSeq(state.left, 1, n))
  IN  [left   |-> SubSeq(state.left, n + 1, Len(state.left)),
       placed |-> state.placed \cup
                    {[name |-> state.left[k].name, size |-> state.left[k].size,
                      address |-> gap[1] + Total(SubSeq(state.left, 1, k - 1))] : k \in 1..n},
       loose  |-> state.loose \/ TooLoose(used, room)]

\* The functions fill at least three quarters of the unclaimed text.
Plausible(functions, uncovered) ==
  uncovered # 0 /\ Total(functions) <= uncovered /\ Total(functions) * 4 >= uncovered * 3

\* Slip: functions that no gap has room for are left out.
MutGiveUp(packed) == packed.loose

\* Either all of them have a place or none.
GiveUp(packed) == packed.loose \/ packed.left # <<>>

infer_hidden_object_functions(functions, known, text, hints) ==
  LET taken     == Clip(known, text)
      gaps      == Gaps(Range(taken), text)
      uncovered == FoldSet(LAMBDA g, sum : sum + g[2] - g[1], 0, gaps)
      hinted    == InOrder(SettleHint, [left |-> functions, placed |-> {}, claimed |-> {}],
                           HintedSegments(gaps, hints))
      packed    == InOrder(PackGap, [left |-> hinted.left, placed |-> hinted.placed, loose |-> FALSE],
                           Gaps(Range(taken) \cup hinted.claimed, text))
  IN  IF text[1] >= text[2] \/ functions = <<>> THEN {}
      ELSE IF Overlapping(taken) THEN Refused
      ELSE IF Plausible(functions, uncovered) /\ ~GiveUp(packed) THEN packed.placed
      ELSE {}

-----------------------------------------------------------------------------
(* derive_manual_functions.  An object is [section, text, symbols, anonymous, *)
(* calls]: its linked text interval, its symbol table as a sequence of        *)
(* [name, value, size, kind], the audited functions without a symbol, [name,  *)
(* offset, size], and the call destinations in its text.  A symbol's kind is  *)
(* "func" for a defined function, "notype" for an undefined symbol without a  *)
(* type, "other" for an undefined one with another type.  absolute maps the   *)
(* names that only the linker script places to their addresses.  Sections     *)
(* may be overlays that share addresses (docs/OVERLAYS.md:25), so that the    *)
(* calls in an object's text are those of whatever code is linked there.      *)

\* A sequence, whatever its words are.
IsName(name) == Len(name) \in Nat /\ name = [k \in 1..Len(name) |-> name[k]]

\* What the table, the audit and the text of an object hold are numbers and names.
ObjectWellFormed(object) ==
  /\ object.text \in Nat \X Nat /\ object.calls \subseteq Nat
  /\ object.symbols \in Seq(Range(object.symbols))
  /\ \A s \in Range(object.symbols) : IsName(s.name) /\ s.value \in Nat /\ s.size \in Nat
  /\ \A f \in Range(object.anonymous) : IsName(f.name) /\ f.offset \in Nat /\ f.size \in Nat

Body(object, s) == <<object.text[1] + s.value, object.text[1] + s.value + s.size>>
DefinedIn(object) == {s \in Range(object.symbols) : s.kind = "func" /\ s.size > 0}

\* [name, address, size] of the audited functions.
Anonymous(object) ==
  [k \in DOMAIN object.anonymous |->
     [name |-> object.anonymous[k].name, size |-> object.anonymous[k].size,
      address |-> object.text[1] + object.anonymous[k].offset]]

\* Undefined symbols with a size whose supplied address lies in this object: a
\* declaration may also refer to a function of another object.
Backed(object, absolute) ==
  LET table    == object.symbols
      Owned(s) == /\ s.kind # "func" /\ s.size > 0 /\ s.name \in DOMAIN absolute
                  /\ object.text[1] <= absolute[s.name] /\ absolute[s.name] < object.text[2]
  IN  [k \in {i \in DOMAIN table : Owned(table[i])} |->
         [name |-> table[k].name, address |-> absolute[table[k].name], size |-> table[k].size]]

Fits(f, object) == f.size > 0 /\ f.size % 4 = 0 /\ Within(Span(f), object.text)

\* The checks that make the script fail before anything is inferred.
Unsound(object, absolute) ==
  \/ \E f \in Range(Anonymous(object)) :
       \/ ~Fits(f, object)
       \/ \E s \in DefinedIn(object) : Clashes(Body(object, s), Span(f))
  \/ \E f \in Range(Backed(object, absolute)) : ~Fits(f, object)

\* Where the symbol table has the functions that stay in the object.
Staying(object) ==
  {k \in DOMAIN object.symbols :
     object.symbols[k] \in DefinedIn(object) /\ Within(Body(object, object.symbols[k]), object.text)}

\* Slip: the functions recovered so far are not counted as taken.
MutKnownIntervals(object, absolute) == [k \in Staying(object) |-> Body(object, object.symbols[k])]

\* Defined functions that stay in the object, and the functions recovered so
\* far; a body that is listed twice is there twice.
KnownIntervals(object, absolute) ==
  LET anonymous == Anonymous(object)
      backed    == Backed(object, absolute)
  IN  [i \in ({"anonymous"} \X DOMAIN anonymous) \cup ({"backed"} \X DOMAIN backed)
               \cup ({"staying"} \X Staying(object)) |->
         IF i[1] = "anonymous" THEN Span(anonymous[i[2]])
         ELSE IF i[1] = "backed" THEN Span(backed[i[2]])
         ELSE Body(object, object.symbols[i[2]])]

Manual(object, absolute) == Range(Anonymous(object)) \cup Range(Backed(object, absolute))

Represented(object, absolute) ==
  {f.name : f \in DefinedIn(object) \cup Manual(object, absolute)}
    \cup RuntimeOwned

IsPseudo(s, object, absolute) ==
  /\ s.kind = "notype" /\ s.size > 0 /\ s.size % 4 = 0
  /\ s.name \notin Represented(object, absolute)

PseudoFunctions(object, absolute) ==
  FoldLeft(LAMBDA list, s : IF IsPseudo(s, object, absolute) THEN Append(list, s) ELSE list,
           <<>>, object.symbols)

Hidden(object, absolute) ==
  infer_hidden_object_functions(PseudoFunctions(object, absolute),
                                KnownIntervals(object, absolute), object.text, object.calls)

\* [name, section, address, size] of every function recovered in the objects.
Candidates(objects, absolute) ==
  UNION {{[name |-> f.name, section |-> o.section, address |-> f.address, size |-> f.size] :
            f \in Manual(o, absolute) \cup Hidden(o, absolute)} : o \in objects}

IsBacked(f, objects, absolute) ==
  \E o \in objects : o.section = f.section /\ \E b \in Range(Backed(o, absolute)) :
    b.name = f.name /\ b.address = f.address

\* Slip: a name that occurs twice is emitted twice.
MutEmittedName(f, all, objects, absolute) == f.name

\* Functions that share their name get their address behind it, but for those
\* the linker script knows by that name.
EmittedName(f, all, objects, absolute) ==
  IF IsBacked(f, objects, absolute) \/ \A g \in all \ {f} : g.name # f.name
  THEN f.name ELSE Append(f.name, f.address)

derive_manual_functions(objects, absolute) ==
  IF \E o \in objects : Unsound(o, absolute) \/ Hidden(o, absolute) = Refused THEN Refused
  ELSE LET all == Candidates(objects, absolute)
       IN  IF \E f, g \in all : f # g /\ f.section = g.section /\ f.address = g.address THEN Refused
           ELSE {[f EXCEPT !.name = EmittedName(f, all, objects, absolute)] : f \in all}

-----------------------------------------------------------------------------
(* derive_function_sizes.  symbols is the set of [name, value, size, section, *)
(* kind]: "func", "local" for a function of local binding, "marker" for one   *)
(* of the linker's own names, "data".  ranges maps a section to the set of    *)
(* the text intervals of its objects.  The answer are the sizes, a set of     *)
(* <<name, size>>, and the functions that a warning says were passed over.    *)

Unsized(symbols) == {s \in symbols : s.kind = "func" /\ s.size = 0}

Containing(s, ranges) == {r \in ranges[s.section] : r[1] <= s.value /\ s.value < r[2]}

\* The next symbol of the section or the end of the object's text.
NextAddress(s, end, symbols) ==
  Min({t.value : t \in {u \in symbols : /\ u.section = s.section
                                        /\ u.value > s.value /\ u.value <= end}} \cup {end})

DerivedSize(s, ranges, symbols) ==
  NextAddress(s, (CHOOSE r \in Containing(s, ranges) : TRUE)[2], symbols) - s.value

\* Functions that lie in no object, or in several, are passed over.
Sizable(s, ranges, symbols) ==
  Cardinality(Containing(s, ranges)) = 1 /\ DerivedSize(s, ranges, symbols) % 4 = 0

\* Slip: the first size of a name is good enough.
MutAmbiguous(sizes) == FALSE

Ambiguous(sizes) == \E a, b \in sizes : a[1] = b[1] /\ a[2] # b[2]

derive_function_sizes(symbols, ranges) ==
  LET sized == {s \in Unsized(symbols) : Sizable(s, ranges, symbols)}
      sizes == {<<s.name, DerivedSize(s, ranges, symbols)>> : s \in sized}
  IN  IF Ambiguous(sizes) THEN Refused
      ELSE [sizes |-> sizes, warned |-> Unsized(symbols) \ sized]

=============================================================================
