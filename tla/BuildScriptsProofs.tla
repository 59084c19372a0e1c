------------------------- MODULE BuildScriptsProofs -------------------------
(***************************************************************************)
(* Theorems about the scripts of the build, one part after the other: what *)
(* the scripts that only compute answer, for every task of the form that   *)
(* their input files have; the recovered link, for every program; the      *)
(* chain of evidence, for every set of builds, sources, diagnostics and    *)
(* allowlist entries and any number of rebuilds, kills and edits.          *)
(* FunctionRecoveryProofs has what the loops of the function recovery      *)
(* compute.                                                                *)
(***************************************************************************)
EXTENDS BuildScripts, FunctionRecoveryProofs

-----------------------------------------------------------------------------
(* Tasks: one step leads from a task to its answer. *)

Solved == answer = Pending \/ answer = Answer(task)

\* An answer that is given is the one the script computes.
LEMMA TaskStepSolves ==
  ASSUME Solved, \E set \in Tasks : task \in set, [TaskNext]_tasks
  PROVE  Solved' /\ (\E set \in Tasks : task \in set)'
<1>1. CASE Compute
  BY <1>1 DEF Solved, Compute
<1>2. CASE UNCHANGED tasks
  BY <1>2 DEF Solved, tasks
<1> QED
  BY <1>1, <1>2 DEF TaskNext, Computed

\* A task is one of the inputs, and what answers it is what the script computes.
LEMMA TaskIsSolved ==
  TaskSpec => [](Solved /\ (\E set \in Tasks : task \in set))
<1> DEFINE Inv == Solved /\ (\E set \in Tasks : task \in set)
<1>1. TaskInit => Inv
  BY DEF TaskInit, Solved
<1>2. Inv /\ [TaskNext]_tasks => Inv'
  BY TaskStepSolves
<1> QED
  BY <1>1, <1>2, PTL DEF TaskSpec

-----------------------------------------------------------------------------
(* Function recovery. *)

\* Sizes that are answered are exact.
LEMMA SizesHold ==
  ASSUME WellFormed(task), Solved PROVE SizesAreExact
<1> SUFFICES ASSUME Answered("sizes"), NEW s \in Unsized(task.symbols), s \notin answer.warned
             PROVE  /\ \E z \in answer.sizes : z[1] = s.name
                    /\ \A z \in answer.sizes : z[1] = s.name => ReachesNext(s, z[2])
  BY DEF SizesAreExact
<1> DEFINE sized == {t \in Unsized(task.symbols) : Sizable(t, task.ranges, task.symbols)}
           sizes == {<<t.name, DerivedSize(t, task.ranges, task.symbols)>> : t \in sized}
<1>1. task.script = "sizes" /\ answer # Pending /\ answer # Refused
  BY DEF Answered
<1>2. answer = derive_function_sizes(task.symbols, task.ranges)
  BY <1>1, Zenon DEF Solved, Answer
<1>3. answer = [sizes |-> sizes, warned |-> Unsized(task.symbols) \ sized] /\ ~Ambiguous(sizes)
  BY <1>1, <1>2 DEF derive_function_sizes
<1>4. answer.sizes = sizes /\ s \in sized
  BY <1>3
<1>5. Sizable(s, task.ranges, task.symbols)
  BY <1>4
<1>6. <<s.name, DerivedSize(s, task.ranges, task.symbols)>> \in sizes
  BY <1>4
<1> HIDE DEF sizes
<1>7. ASSUME NEW z \in sizes, z[1] = s.name
      PROVE  z[2] = DerivedSize(s, task.ranges, task.symbols)
  BY <1>3, <1>6, <1>7 DEF Ambiguous
<1>8. SizesWellFormed(task)
  BY <1>1 DEF WellFormed
<1>9. ReachesNext(s, DerivedSize(s, task.ranges, task.symbols))
  BY <1>5, <1>8, DerivedSizeIsExact DEF SizesWellFormed, ReachesNext
<1> QED
  BY <1>4, <1>6, <1>7, <1>9

\* An answered inference fits.
LEMMA HiddenHolds ==
  ASSUME WellFormed(task), Solved
  PROVE  HiddenFits
<1> SUFFICES ASSUME Answered("hidden")
             PROVE  HiddenIsDisjoint /\ HiddenIsComplete /\ PaddingIsBounded
  BY DEF HiddenFits, HiddenIsDisjoint, HiddenIsComplete, PaddingIsBounded
<1> DEFINE functions == task.functions  known == task.known  text == task.text  hints == task.hints
           F == [name : {f.name : f \in Range(functions)}, size : Nat \ {0}]
<1>1. /\ text \in Nat \X Nat /\ hints \in SUBSET Int /\ functions \in Seq(F)
      /\ \A k \in DOMAIN known : Proper(known[k])
  <2>1. HiddenWellFormed(task)
    BY DEF WellFormed, Answered
  <2> QED
    BY <2>1 DEF HiddenWellFormed, Proper, Range
<1>2. HasSizes(F)
  BY DEF HasSizes
<1>3. answer = infer_hidden_object_functions(functions, known, text, hints)
  BY Zenon DEF Solved, Answered, Answer
<1>4. answer # Refused
  BY DEF Answered
<1> HIDE DEF F
<1>5. answer = {} \/ InferredWell(answer, functions, F, known, text, hints)
  BY <1>1, <1>2, <1>3, <1>4, InferenceFits
<1>6. CASE answer = {}
  BY <1>6 DEF HiddenIsDisjoint, HiddenIsComplete, PaddingIsBounded
<1>7. CASE InferredWell(answer, functions, F, known, text, hints)
  <2> DEFINE A == Range(Clip(known, text))
  <2>1. /\ IsText(text)
        /\ answer \in SUBSET Placement(F)
        /\ \A g \in answer :
             /\ g.size > 0 /\ Within(Span(g), text)
             /\ \A a \in A : ~Clashes(Span(g), a)
             /\ \E x \in {h.address : h \in answer} \cup {a[1] : a \in A} \cup hints \cup {text[2]} :
                  g.address + g.size <= x /\ x - (g.address + g.size) <= MaxPadding
        /\ \A g, h \in answer : g # h => ~Clashes(Span(g), Span(h))
        /\ Matched(functions, <<>>, answer)
    BY <1>7 DEF InferredWell, PlacedWell
  <2>2. /\ \A a \in A : a[1] = text[1] \/ \E i \in Range(known) : a[1] = i[1]
        /\ \A f : Proper(f) /\ Within(f, text) => \A i \in Range(known) :
             Clashes(f, i) => \E a \in A : Clashes(f, a)
        /\ ProperIn(A, text)
    BY <1>1, <2>1, ClipFacts
  <2> HIDE DEF A
  <2>3. \A g \in answer : g.address \in Nat /\ g.size \in Nat
    BY <2>1 DEF Placement
  <2>4. HiddenIsDisjoint
    <3> SUFFICES ASSUME NEW f \in answer
                 PROVE  /\ Within(Span(f), text)
                        /\ \A i \in Range(known) : ~Clashes(Span(f), i)
                        /\ \A g \in answer \ {f} : ~Clashes(Span(f), Span(g))
      BY DEF HiddenIsDisjoint
    <3>1. Proper(Span(f)) /\ Within(Span(f), text)
      BY <2>1, <2>3 DEF Proper, Span
    <3> QED
      BY <2>1, <2>2, <3>1
  <2>5. HiddenIsComplete
    <3> SUFFICES ASSUME NEW f \in Range(functions)
                 PROVE  Cardinality({g \in answer : g.name = f.name /\ g.size = f.size}) =
                        Cardinality({k \in DOMAIN functions : functions[k] = f})
      BY DEF HiddenIsComplete
    <3>1. IsFiniteSet(DOMAIN functions)
      <4>1. DOMAIN functions = 1..Len(functions) /\ Len(functions) \in Nat
        BY <1>1
      <4> HIDE DEF functions
      <4>2. IsFiniteSet(1..Len(functions))
        BY <4>1, FS_Interval
      <4> QED
        BY <4>1, <4>2
    <3>2. \A k \in DOMAIN functions : functions[k] \in F
      BY <1>1
    <3>3. f \in F
      BY <3>2 DEF Range
    <3>4. \A x, y \in F : x.name = y.name /\ x.size = y.size => x = y
      BY DEF F
    <3>5. \A k \in DOMAIN functions :
            functions[k].name = f.name /\ functions[k].size = f.size => functions[k] = f
      BY <3>2, <3>3, <3>4
    <3> QED
      BY <2>1, <3>1, <3>5, MatchedCounts
  <2>6. PaddingIsBounded
    <3> SUFFICES ASSUME NEW f \in answer
                 PROVE  LET behind == {x \in {g.address : g \in answer} \cup {i[1] : i \in Range(known)}
                                              \cup hints \cup {text[2]} : x >= f.address + f.size}
                        IN  Min(behind) - (f.address + f.size) <= MaxPadding
      BY DEF PaddingIsBounded
    <3> DEFINE places == {g.address : g \in answer} \cup {i[1] : i \in Range(known)}
                           \cup hints \cup {text[2]}
               end    == f.address + f.size
               behind == {x \in places : x >= end}
    <3>1. PICK x \in {h.address : h \in answer} \cup {a[1] : a \in A} \cup hints \cup {text[2]} :
            end <= x /\ x - end <= MaxPadding
      BY <2>1
    <3>2. end \in Nat /\ end > text[1] /\ text[1] \in Nat /\ text[2] \in Nat
      <4>1. text[1] \in Nat /\ text[2] \in Nat
        BY <2>1 DEF IsText
      <4>2. f.address \in Nat /\ f.size \in Nat /\ f.size > 0
        BY <2>1, <2>3
      <4>3. text[1] <= f.address
        BY <2>1 DEF Within, Span
      <4> QED
        BY <4>1, <4>2, <4>3
    <3>3. places \subseteq Int
      <4>1. \A i \in Range(known) : i[1] \in Int
        BY <1>1 DEF Proper, Range
      <4> QED
        BY <1>1, <2>3, <3>2, <4>1
    <3>4. x \in places /\ x \in Int
      <4>1. CASE x \in {a[1] : a \in A}
        <5>1. x # text[1]
          BY <2>2, <3>1, <3>2, <4>1 DEF ProperIn, Proper
        <5>2. x \in {i[1] : i \in Range(known)}
          BY <2>2, <4>1, <5>1
        <5> QED
          BY <3>3, <5>2
      <4>2. CASE x \notin {a[1] : a \in A}
        BY <3>1, <3>3, <4>2
      <4> QED
        BY <4>1, <4>2
    <3> HIDE DEF places, end
    <3>5. x \in behind
      BY <3>1, <3>2, <3>4
    <3>6. behind \in SUBSET Nat
      <4>1. \A y \in places : y >= end => y \in Nat
        BY <3>2, <3>3
      <4> QED
        BY <4>1
    <3>7. Min(behind) \in behind /\ Min(behind) <= x
      <4> HIDE DEF behind
      <4> QED
        BY <3>5, <3>6, LeastOfNumbers
    <3>8. Min(behind) \in Nat
      BY <3>6, <3>7
    <3>9. Min(behind) - end <= MaxPadding
      <4> DEFINE b == Min(behind)
      <4>1. b \in Nat /\ b <= x
        BY <3>7, <3>8
      <4> HIDE DEF b
      <4>2. b - end <= MaxPadding
        BY <3>1, <3>2, <3>4, <4>1 DEF MaxPadding
      <4> QED
        BY <4>2 DEF b
    <3> QED
      BY <3>9 DEF end, places
  <2> QED
    BY <2>4, <2>5, <2>6
<1> QED
  BY <1>5, <1>6, <1>7

\* Answered functions share a name only as overlays may, and do not overlap.
LEMMA RecoveredHolds ==
  ASSUME WellFormed(task), Solved
  PROVE  RecoveredFits
<1> SUFFICES ASSUME Answered("manual")
             PROVE  NamesClashOnlyAcrossOverlays /\ InferredFitsTheObject
  BY DEF RecoveredFits, NamesClashOnlyAcrossOverlays, InferredFitsTheObject
<1> DEFINE objects == task.objects  absolute == task.absolute
           all == Candidates(objects, absolute)
           NameOf(f) == EmittedName(f, all, objects, absolute)
<1>1. /\ \A o \in objects : ObjectWellFormed(o)
      /\ \A n \in DOMAIN absolute : absolute[n] \in Nat
  BY DEF Answered, WellFormed, ManualWellFormed
<1>2. answer = derive_manual_functions(objects, absolute)
  BY Zenon DEF Solved, Answered, Answer
<1>3. answer # Refused
  BY DEF Answered
<1>4. ~\E o \in objects : Unsound(o, absolute) \/ Hidden(o, absolute) = Refused
  BY <1>2, <1>3 DEF derive_manual_functions
<1>5. /\ ~\E f, g \in all : f # g /\ f.section = g.section /\ f.address = g.address
      /\ answer = {[f EXCEPT !.name = NameOf(f)] : f \in all}
  BY <1>2, <1>3, <1>4, Zenon DEF derive_manual_functions
<1>6. InferredFitsTheObject
  <2> SUFFICES ASSUME NEW o \in objects
               PROVE  LET inferred == {Span(f) : f \in Hidden(o, absolute)}
                          known    == {Body(o, s) : s \in {t \in DefinedIn(o) : Within(Body(o, t), o.text)}}
                                        \cup {Span(f) : f \in Manual(o, absolute)}
                      IN  inferred # {} => \A a, b \in known \cup inferred : a # b => ~Clashes(a, b)
    BY DEF InferredFitsTheObject
  <2>1. ObjectWellFormed(o) /\ ~Unsound(o, absolute) /\ Hidden(o, absolute) # Refused
    BY <1>1, <1>4
  <2> QED
    BY <1>1, <2>1, HiddenLiesIn
<1>7. \A f \in all :
        /\ f = [name |-> f.name, section |-> f.section, address |-> f.address, size |-> f.size]
        /\ IsName(f.name)
  BY <1>1, <1>4, CandidatesAreTyped
<1>8. \A f \in all : IsBacked(f, objects, absolute) => f.address = absolute[f.name]
  BY BackedIsPlaced
<1>9. ASSUME NEW f \in all, NEW g \in all, f # g, NameOf(f) = NameOf(g)
      PROVE  (f.section # g.section /\ f.address = g.address) \/ Borrowed(NameOf(f))
  <2>1. ASSUME NEW x \in all
        PROVE  \/ /\ NameOf(x) = x.name
                  /\ IsBacked(x, objects, absolute) \/ \A y \in all \ {x} : y.name # x.name
               \/ NameOf(x) = Append(x.name, x.address)
    BY Zenon DEF EmittedName
  <2> HIDE DEF NameOf, all
  <2>2. f.address = g.address => f.section # g.section
    BY <1>5, <1>9
  <2>3. IsName(f.name) /\ IsName(g.name)
    BY <1>7
  <2>4. CASE NameOf(f) = Append(f.name, f.address) /\ NameOf(g) = Append(g.name, g.address)
    <3>1. Append(f.name, f.address) = Append(g.name, g.address)
      BY <1>9, <2>4
    <3>2. f.address = g.address
      BY <2>3, <3>1, AppendedApart
    <3> QED
      BY <2>2, <3>2
  <2>5. CASE /\ NameOf(f) = f.name /\ NameOf(g) = g.name
             /\ IsBacked(f, objects, absolute) \/ \A y \in all \ {f} : y.name # f.name
             /\ IsBacked(g, objects, absolute) \/ \A y \in all \ {g} : y.name # g.name
    <3>1. f.name = g.name
      BY <1>9, <2>5
    <3>2. IsBacked(f, objects, absolute) /\ IsBacked(g, objects, absolute)
      BY <1>9, <2>5, <3>1
    <3>3. f.address = g.address
      BY <1>8, <3>1, <3>2
    <3> QED
      BY <2>2, <3>3
  <2>6. CASE NameOf(f) = f.name /\ NameOf(g) = Append(g.name, g.address)
    BY <1>9, <2>6 DEF Borrowed, all
  <2>7. CASE NameOf(f) = Append(f.name, f.address) /\ NameOf(g) = g.name
    BY <1>9, <2>7 DEF Borrowed, all
  <2> QED
    BY <2>1, <2>4, <2>5, <2>6, <2>7
<1>10. NamesClashOnlyAcrossOverlays
  <2> SUFFICES ASSUME NEW x \in answer, NEW y \in answer, x # y, x.name = y.name
               PROVE  (x.section # y.section /\ x.address = y.address) \/ Borrowed(x.name)
    BY DEF NamesClashOnlyAcrossOverlays
  <2>1. PICK f \in all : x = [f EXCEPT !.name = NameOf(f)]
    BY <1>5
  <2>2. PICK g \in all : y = [g EXCEPT !.name = NameOf(g)]
    BY <1>5
  <2> HIDE DEF NameOf, all
  <2>3. x.name = NameOf(f) /\ x.section = f.section /\ x.address = f.address
    BY <1>7, <2>1
  <2>4. y.name = NameOf(g) /\ y.section = g.section /\ y.address = g.address
    BY <1>7, <2>2
  <2>5. f # g
    BY <2>1, <2>2
  <2> QED
    BY <1>9, <2>3, <2>4, <2>5
<1> QED
  BY <1>6, <1>10

-----------------------------------------------------------------------------
(* ROM ranges. *)

\* A segment ends where the next one starts, at the latest.
LEMMA SegmentEndFacts ==
  ASSUME TasksAssumption, NEW layout, LayoutWellFormed(layout), NEW n \in DOMAIN layout
  PROVE  /\ SegmentEnd(layout, n) \in Nat
         /\ \A m \in DOMAIN layout :
              layout[n].start < layout[m].start => SegmentEnd(layout, n) <= layout[m].start
<1> DEFINE S == {s.start : s \in {t \in Range(layout) : t.start > layout[n].start}} \cup {RomSize}
<1>1. S \in SUBSET Nat /\ S # {}
  BY DEF TasksAssumption, LayoutWellFormed, Range
<1>2. SegmentEnd(layout, n) = Min(S)
  BY DEF SegmentEnd
<1>3. Min(S) \in S /\ \A x \in S : Min(S) <= x
  BY <1>1, LeastOfNumbers
<1>4. ASSUME NEW m \in DOMAIN layout, layout[n].start < layout[m].start
      PROVE  layout[m].start \in S
  BY <1>4 DEF Range, LayoutWellFormed
<1> HIDE DEF S
<1> QED
  BY <1>1, <1>2, <1>3, <1>4

\* Segments do not reach into each other.
LEMMA SegmentsApart ==
  ASSUME TasksAssumption, NEW layout, LayoutWellFormed(layout),
         NEW n \in DOMAIN layout, NEW m \in DOMAIN layout, n # m
  PROVE  \/ SegmentEnd(layout, n) <= layout[m].start
         \/ SegmentEnd(layout, m) <= layout[n].start
<1>1. layout[n].start \in Nat /\ layout[m].start \in Nat /\ layout[n].start # layout[m].start
  BY DEF LayoutWellFormed
<1>2. layout[n].start < layout[m].start \/ layout[m].start < layout[n].start
  BY <1>1
<1> QED
  BY <1>2, SegmentEndFacts

\* A blob ends at the latest with its segment, and with every list subsegment
\* behind it.
LEMMA BlobEndFacts ==
  ASSUME TasksAssumption, NEW layout, LayoutWellFormed(layout), NEW n \in DOMAIN layout,
         NEW k \in DOMAIN layout[n].subs
  PROVE  LET subs == layout[n].subs
             end  == BlobEnd(subs, k, SegmentEnd(layout, n))
         IN  /\ end \in Nat /\ end <= SegmentEnd(layout, n)
             /\ \A j \in DOMAIN subs : k < j /\ subs[j].form = "list" => end <= subs[j].start
<1> DEFINE subs == layout[n].subs
           last == SegmentEnd(layout, n)
           end  == BlobEnd(subs, k, last)
           S    == {subs[j].start : j \in {i \in (k + 1)..Len(subs) : subs[i].form = "list"}}
<1>1. DOMAIN subs = 1..Len(subs) /\ Len(subs) \in Nat /\ k \in 1..Len(subs)
  BY DEF LayoutWellFormed
<1>2. \A j \in DOMAIN subs : subs[j].start \in Nat /\ subs[j].start < last
  BY DEF LayoutWellFormed
<1>3. last \in Nat
  BY SegmentEndFacts
<1>4. end = IF S = {} THEN last ELSE Min(S)
  BY DEF BlobEnd
<1> HIDE DEF subs, last, end
<1>5. S \in SUBSET Nat /\ \A x \in S : x < last
  BY <1>1, <1>2
<1>6. ASSUME NEW j \in DOMAIN subs, k < j, subs[j].form = "list"
      PROVE  subs[j].start \in S
  BY <1>1, <1>6
<1> HIDE DEF S
<1>7. CASE S = {}
  BY <1>3, <1>4, <1>6, <1>7 DEF end, subs, last
<1>8. CASE S # {}
  <2>1. end \in S /\ \A x \in S : end <= x
    BY <1>4, <1>5, <1>8, LeastOfNumbers
  <2>2. end \in Nat /\ end <= last
    BY <1>3, <1>5, <2>1
  <2>3. \A j \in DOMAIN subs : k < j /\ subs[j].form = "list" => end <= subs[j].start
    BY <1>6, <2>1
  <2> QED
    BY <2>2, <2>3 DEF end, subs, last
<1> QED
  BY <1>7, <1>8

\* Two blobs of one segment: the one that is listed first ends where the other
\* begins, or is not plausible.
LEMMA BlobsOfASegment ==
  ASSUME TasksAssumption, NEW layout, LayoutWellFormed(layout), NEW n \in DOMAIN layout,
         NEW j \in DOMAIN layout[n].subs, NEW k \in DOMAIN layout[n].subs, j < k,
         layout[n].subs[k].form = "list",
         NEW a, a = <<layout[n].subs[j].start, BlobEnd(layout[n].subs, j, SegmentEnd(layout, n))>>,
         NEW b, b = <<layout[n].subs[k].start, BlobEnd(layout[n].subs, k, SegmentEnd(layout, n))>>
  PROVE  ~Clashes(a, b) /\ ~Clashes(b, a)
<1>1. a[2] \in Nat /\ a[2] <= b[1]
  BY BlobEndFacts
<1>2. b[1] \in Nat
  BY DEF LayoutWellFormed
<1> QED
  BY <1>1, <1>2 DEF Clashes

\* A blob is that of one list subsegment.
LEMMA BlobOrigin ==
  ASSUME NEW layout, NEW a \in RspBlobs(layout)
  PROVE  \E n \in DOMAIN layout : \E k \in DOMAIN layout[n].subs :
           /\ layout[n].subs[k].form = "list"
           /\ a = <<layout[n].subs[k].start, BlobEnd(layout[n].subs, k, SegmentEnd(layout, n))>>
<1> DEFINE Rsp(n) == {j \in DOMAIN layout[n].subs :
                        layout[n].subs[j].form = "list" /\ layout[n].subs[j].kind = "rsp"}
           Blob(n, k) == <<layout[n].subs[k].start, BlobEnd(layout[n].subs, k, SegmentEnd(layout, n))>>
<1>1. PICK n \in {m \in DOMAIN layout : layout[m].code} : a \in {Blob(n, k) : k \in Rsp(n)}
  BY DEF RspBlobs
<1>2. PICK k \in Rsp(n) : a = Blob(n, k)
  BY <1>1
<1> QED
  BY <1>1, <1>2

\* Two blobs share no byte, of one segment or of two.
LEMMA BlobsAreDisjoint ==
  ASSUME TasksAssumption, NEW layout, LayoutWellFormed(layout),
         NEW a \in RspBlobs(layout), NEW b \in RspBlobs(layout), a # b
  PROVE  ~Clashes(a, b)
<1> DEFINE Blob(n, k) == <<layout[n].subs[k].start, BlobEnd(layout[n].subs, k, SegmentEnd(layout, n))>>
<1>1. PICK n \in DOMAIN layout : \E j \in DOMAIN layout[n].subs :
        layout[n].subs[j].form = "list" /\ a = Blob(n, j)
  BY BlobOrigin
<1>2. PICK j \in DOMAIN layout[n].subs : layout[n].subs[j].form = "list" /\ a = Blob(n, j)
  BY <1>1
<1>3. PICK m \in DOMAIN layout : \E k \in DOMAIN layout[m].subs :
        layout[m].subs[k].form = "list" /\ b = Blob(m, k)
  BY BlobOrigin
<1>4. PICK k \in DOMAIN layout[m].subs : layout[m].subs[k].form = "list" /\ b = Blob(m, k)
  BY <1>3
<1>5. CASE n = m
  <2>1. j \in Int /\ k \in Int /\ j # k
    BY <1>2, <1>4, <1>5 DEF LayoutWellFormed
  <2>2. CASE j < k
    BY <1>2, <1>4, <1>5, <2>2, BlobsOfASegment
  <2>3. CASE k < j
    BY <1>2, <1>4, <1>5, <2>3, BlobsOfASegment
  <2> QED
    BY <2>1, <2>2, <2>3
<1>6. CASE n # m
  <2>1. /\ a[1] \in Nat /\ a[2] \in Nat /\ layout[n].start \in Nat /\ SegmentEnd(layout, n) \in Nat
        /\ layout[n].start <= a[1] /\ a[2] <= SegmentEnd(layout, n)
    BY <1>2, BlobEndFacts, SegmentEndFacts DEF LayoutWellFormed
  <2>2. /\ b[1] \in Nat /\ b[2] \in Nat /\ layout[m].start \in Nat /\ SegmentEnd(layout, m) \in Nat
        /\ layout[m].start <= b[1] /\ b[2] <= SegmentEnd(layout, m)
    BY <1>4, BlobEndFacts, SegmentEndFacts DEF LayoutWellFormed
  <2>3. SegmentEnd(layout, n) <= layout[m].start \/ SegmentEnd(layout, m) <= layout[n].start
    BY <1>6, SegmentsApart
  <2> QED
    BY <2>1, <2>2, <2>3 DEF Clashes
<1> QED
  BY <1>5, <1>6

\* Answered blobs are disjoint.
LEMMA BlobsHold ==
  ASSUME WellFormed(task), Solved PROVE VerifiedBlobsAreDisjoint
<1> SUFFICES ASSUME Answered("blobs"), NEW a \in answer, NEW b \in answer, a # b
             PROVE  ~Clashes(a, b)
  BY DEF VerifiedBlobsAreDisjoint
<1>1. task.script = "blobs" /\ answer # Pending /\ answer # Rejected
  BY DEF Answered
<1>2. answer = VerifiedBlobs(task.layout)
  BY <1>1, Zenon DEF Solved, Answer
<1>3. answer = RspBlobs(task.layout)
  BY <1>1, <1>2 DEF VerifiedBlobs
<1>4. LayoutWellFormed(task.layout)
  BY <1>1 DEF WellFormed
<1> QED
  BY <1>3, <1>4, TasksAssumption, BlobsAreDisjoint

\* find_databin_range answers with the range of some databin that is followed
\* by another subsegment.
LEMMA DatabinAnswer ==
  ASSUME NEW layout, NEW range, range = find_databin_range(layout), range # Rejected
  PROVE  \E n \in DOMAIN layout : \E k \in DOMAIN layout[n].subs :
           /\ LaterStarts(layout[n].subs, k) # {}
           /\ range = <<layout[n].subs[k].start, Min(LaterStarts(layout[n].subs, k))>>
<1> DEFINE databins == UNION {{<<n, k>> : k \in {j \in DOMAIN layout[n].subs :
                                layout[n].subs[j].form = "dict" /\ layout[n].subs[j].kind = "databin"}} :
                             n \in DOMAIN layout}
           at == CHOOSE at \in databins : TRUE
<1>1. /\ Cardinality(databins) = 1 /\ LaterStarts(layout[at[1]].subs, at[2]) # {}
      /\ range = <<layout[at[1]].subs[at[2]].start, Min(LaterStarts(layout[at[1]].subs, at[2]))>>
  BY Zenon DEF find_databin_range
<1>2. at \in databins
  <2>1. databins # {}
    <3> HIDE DEF databins, at
    <3>1. Cardinality({}) = 0
      BY FS_EmptySet
    <3> QED
      BY <1>1, <3>1
  <2> HIDE DEF databins
  <2> QED
    BY <2>1, Zenon
<1>3. \A x \in databins : \E n \in DOMAIN layout : \E k \in DOMAIN layout[n].subs : x = <<n, k>>
  OBVIOUS
<1> HIDE DEF at, databins
<1>4. PICK n \in DOMAIN layout : \E k \in DOMAIN layout[n].subs : at = <<n, k>>
  BY <1>2, <1>3
<1>5. PICK k \in DOMAIN layout[n].subs : at = <<n, k>>
  BY <1>4
<1>6. at[1] = n /\ at[2] = k
  BY <1>5
<1> QED
  BY <1>1, <1>6

\* The answered databin stops at the next subsegment.
LEMMA DatabinHolds ==
  ASSUME WellFormed(task), Solved PROVE DatabinIsTight
<1> DEFINE layout == task.layout
<1> SUFFICES ASSUME Answered("databin"), \A n \in DOMAIN layout : Ascending(layout[n].subs)
             PROVE  /\ answer[1] < answer[2]
                    /\ \A n \in DOMAIN layout : \A s \in Range(layout[n].subs) :
                         s.start # answer[1] => s.start <= answer[1] \/ s.start >= answer[2]
  BY DEF DatabinIsTight
<1>1. task.script = "databin" /\ answer # Pending /\ answer # Rejected
  BY DEF Answered
<1>2. answer = find_databin_range(layout)
  BY <1>1, Zenon DEF Solved, Answer
<1>3. LayoutWellFormed(layout)
  BY <1>1 DEF WellFormed
<1> HIDE DEF layout
<1>4. PICK n \in DOMAIN layout : \E k \in DOMAIN layout[n].subs :
        /\ LaterStarts(layout[n].subs, k) # {}
        /\ answer = <<layout[n].subs[k].start, Min(LaterStarts(layout[n].subs, k))>>
  BY <1>1, <1>2, DatabinAnswer
<1>5. PICK k \in DOMAIN layout[n].subs :
        /\ LaterStarts(layout[n].subs, k) # {}
        /\ answer = <<layout[n].subs[k].start, Min(LaterStarts(layout[n].subs, k))>>
  BY <1>4
<1> DEFINE subs == layout[n].subs
           S    == LaterStarts(subs, k)
<1>6. /\ DOMAIN subs = 1..Len(subs) /\ Len(subs) \in Nat
      /\ \A j \in DOMAIN subs : /\ subs[j].start \in Nat /\ layout[n].start <= subs[j].start
                                /\ subs[j].start < SegmentEnd(layout, n)
  BY <1>3 DEF LayoutWellFormed
<1>7. S \in SUBSET Nat
  BY <1>6 DEF LaterStarts
<1>8. answer[2] \in S /\ \A x \in S : answer[2] <= x
  BY <1>5, <1>7, LeastOfNumbers
<1>9. PICK i \in DOMAIN subs : k < i /\ answer[2] = subs[i].start
  BY <1>6, <1>8 DEF LaterStarts
<1>10. answer[1] = subs[k].start /\ answer[1] \in Nat /\ answer[2] \in Nat
  BY <1>5, <1>6, <1>9
<1>11. answer[1] < answer[2]
  BY <1>9, <1>10 DEF Ascending
<1>12. ASSUME NEW m \in DOMAIN layout, NEW j \in DOMAIN layout[m].subs
       PROVE  layout[m].subs[j].start <= answer[1] \/ layout[m].subs[j].start >= answer[2]
  <2> DEFINE x == layout[m].subs[j].start
  <2>1. CASE m = n
    <3>1. j \in Int /\ k \in Int
      BY <1>6, <2>1
    <3>2. CASE j < k
      BY <1>6, <1>10, <2>1, <3>2 DEF Ascending
    <3>3. CASE j = k
      BY <1>10, <2>1, <3>3
    <3>4. CASE k < j
      <4>1. x \in S
        BY <1>6, <2>1, <3>1, <3>4 DEF LaterStarts
      <4> QED
        BY <1>7, <1>8, <4>1
    <3> QED
      BY <3>1, <3>2, <3>3, <3>4
  <2>2. CASE m # n
    <3>1. /\ x \in Nat /\ layout[m].start \in Nat /\ layout[n].start \in Nat
          /\ layout[m].start <= x /\ x < SegmentEnd(layout, m)
      BY <1>3 DEF LayoutWellFormed
    <3>2. SegmentEnd(layout, m) \in Nat /\ SegmentEnd(layout, n) \in Nat
      BY <1>3, TasksAssumption, SegmentEndFacts
    <3>3. SegmentEnd(layout, n) <= layout[m].start \/ SegmentEnd(layout, m) <= layout[n].start
      BY <1>3, <2>2, TasksAssumption, SegmentsApart
    <3>4. layout[n].start <= answer[1] /\ answer[2] < SegmentEnd(layout, n)
      BY <1>6, <1>9, <1>10
    <3> QED
      BY <1>10, <3>1, <3>2, <3>3, <3>4
  <2> QED
    BY <2>1, <2>2
<1> QED
  BY <1>11, <1>12 DEF Range

-----------------------------------------------------------------------------
(* Sums over a finite set. *)

\* h sums the values up over every subset, in whatever order.
AddsUp(h, T, values) ==
  /\ h \in [SUBSET T -> Int] /\ h[{}] = 0
  /\ \A S \in SUBSET T : \A x \in S : h[S] = h[S \ {x}] + values[x]

\* A sum taken in some order is the same in every order.
LEMMA OrderDoesNotMatter ==
  ASSUME NEW T, IsFiniteSet(T), NEW values \in [T -> Int], NEW h \in [SUBSET T -> Int],
         NEW pick, Picks(pick, T), h[{}] = 0,
         \A S \in SUBSET T : S # {} => h[S] = h[S \ {pick[S]}] + values[pick[S]]
  PROVE  AddsUp(h, T, values)
<1> DEFINE Good == {S \in SUBSET T : \A x \in S : h[S] = h[S \ {x}] + values[x]}
<1>1. ASSUME NEW S \in SUBSET T, S # {}, \A x \in S : S \ {x} \in Good
      PROVE  S \in Good
  <2> SUFFICES ASSUME NEW x \in S PROVE h[S] = h[S \ {x}] + values[x]
    BY <1>1
  <2> DEFINE p == pick[S]
  <2>1. p \in S /\ h[S] = h[S \ {p}] + values[p]
    BY <1>1 DEF Picks
  <2> HIDE DEF p
  <2>2. CASE x = p
    BY <2>1, <2>2
  <2>3. CASE x # p
    <3> DEFINE rest == h[(S \ {p}) \ {x}]
    <3>1. h[S \ {p}] = rest + values[x]
      BY <1>1, <2>1, <2>3
    <3>2. h[S \ {x}] = h[(S \ {x}) \ {p}] + values[p]
      BY <1>1, <2>1, <2>3
    <3>3. (S \ {x}) \ {p} = (S \ {p}) \ {x}
      OBVIOUS
    <3>4. h[S \ {x}] = rest + values[p]
      BY <3>2, <3>3
    <3>5. values[x] \in Int /\ values[p] \in Int /\ rest \in Int
      BY <1>1, <2>1
    <3> HIDE DEF rest
    <3> QED
      BY <2>1, <3>1, <3>4, <3>5
  <2> QED
    BY <2>2, <2>3
<1>2. Good \in SUBSET (SUBSET T) /\ {} \in Good
  OBVIOUS
<1>3. \A S \in SUBSET T : S \in Good
  <2> HIDE DEF Good
  <2> QED
    BY <1>1, <1>2, SubsetInduction
<1> QED
  BY <1>3 DEF AddsUp

\* SumFunction sums the values up.
LEMMA SumAddsUp ==
  ASSUME NEW T, IsFiniteSet(T), NEW values \in [T -> Int]
  PROVE  \E h : AddsUp(h, T, values) /\ SumFunction(values) = h[T]
<1> DEFINE one(S) == CHOOSE x \in S : TRUE
           iter == CHOOSE iter : iter = [S \in SUBSET T |->
                     IF S = {} THEN 0 ELSE values[one(S)] + iter[S \ {one(S)}]]
           pick == [S \in SUBSET T |-> one(S)]
           added == [x \in T \X Int |-> values[x[1]] + x[2]]
<1>1. DOMAIN values = T
  OBVIOUS
<1>2. SumFunction(values) = iter[T]
  BY <1>1, Zenon DEF SumFunction, SumFunctionOnSet, FoldFunctionOnSet, MapThenFoldSet
<1>3. \A S \in SUBSET T : S # {} => one(S) \in S
  OBVIOUS
<1>4. Picks(pick, T)
  BY <1>3 DEF Picks
<1>5. added \in [T \X Int -> Int] /\ 0 \in Int
  OBVIOUS
<1>6. PICK h \in [SUBSET T -> Int] : Recurses(h, T, 0, pick, added)
  <2> HIDE DEF pick, added
  <2> QED
    BY <1>4, <1>5, RecursionExists
<1> HIDE DEF one
<1>7. ASSUME NEW S \in SUBSET T
      PROVE  h[S] = IF S = {} THEN 0 ELSE values[one(S)] + h[S \ {one(S)}]
  <2>1. CASE S = {}
    BY <1>6, <2>1 DEF Recurses
  <2>2. CASE S # {}
    <3>1. one(S) \in T /\ S \ {one(S)} \in SUBSET T
      BY <1>3, <2>2
    <3>2. h[S] = added[<<one(S), h[S \ {one(S)}]>>]
      BY <1>6, <2>2 DEF Recurses
    <3>3. <<one(S), h[S \ {one(S)}]>> \in T \X Int
      BY <1>6, <3>1
    <3> QED
      BY <2>2, <3>2, <3>3
  <2> QED
    BY <2>1, <2>2
<1>8. h = [S \in SUBSET T |-> IF S = {} THEN 0 ELSE values[one(S)] + h[S \ {one(S)}]]
  BY <1>7
<1>9. iter = [S \in SUBSET T |-> IF S = {} THEN 0 ELSE values[one(S)] + iter[S \ {one(S)}]]
  BY <1>8, Zenon
<1> HIDE DEF iter
<1>10. \A S \in SUBSET T : iter[S] = IF S = {} THEN 0 ELSE values[one(S)] + iter[S \ {one(S)}]
  BY <1>9, Zenon
<1> DEFINE Good == {S \in SUBSET T : iter[S] = h[S]}
<1>11. \A S \in SUBSET T : S \in Good
  <2>1. {} \in Good
    BY <1>7, <1>10
  <2>2. ASSUME NEW S \in SUBSET T, S # {}, \A x \in S : S \ {x} \in Good
        PROVE  S \in Good
    <3>1. iter[S \ {one(S)}] = h[S \ {one(S)}]
      BY <1>3, <2>2
    <3> QED
      BY <1>7, <1>10, <2>2, <3>1
  <2>3. Good \in SUBSET (SUBSET T)
    OBVIOUS
  <2> HIDE DEF Good
  <2> QED
    BY <2>1, <2>2, <2>3, SubsetInduction
<1>12. SumFunction(values) = h[T]
  BY <1>2, <1>11
<1>13. h[{}] = 0 /\ \A S \in SUBSET T : S # {} => h[S] = h[S \ {pick[S]}] + values[pick[S]]
  <2>1. h[{}] = 0
    BY <1>7
  <2>2. ASSUME NEW S \in SUBSET T, S # {} PROVE h[S] = h[S \ {one(S)}] + values[one(S)]
    <3>1. h[S] = values[one(S)] + h[S \ {one(S)}] /\ values[one(S)] \in Int /\ h[S \ {one(S)}] \in Int
      BY <1>3, <1>7, <2>2
    <3> QED
      BY <3>1
  <2> QED
    BY <2>1, <2>2
<1>14. AddsUp(h, T, values)
  <2> HIDE DEF pick
  <2> QED
    BY <1>4, <1>13, OrderDoesNotMatter
<1> QED
  BY <1>12, <1>14

\* A part of the values has the sum that belongs to the part.
LEMMA SumOfPart ==
  ASSUME NEW T, IsFiniteSet(T), NEW values \in [T -> Int], NEW h, AddsUp(h, T, values),
         NEW A \in SUBSET T, NEW some, some = [k \in A |-> values[k]]
  PROVE  SumFunction(some) = h[A]
<1>1. IsFiniteSet(A) /\ some \in [A -> Int]
  BY FS_Subset
<1>2. PICK g : AddsUp(g, A, some) /\ SumFunction(some) = g[A]
  BY <1>1, SumAddsUp
<1> DEFINE Good == {S \in SUBSET A : g[S] = h[S]}
<1>3. \A S \in SUBSET A : S \in Good
  <2>1. {} \in Good
    BY <1>2 DEF AddsUp
  <2>2. ASSUME NEW S \in SUBSET A, S # {}, \A x \in S : S \ {x} \in Good
        PROVE  S \in Good
    <3>1. PICK x \in S : TRUE
      BY <2>2
    <3>2. g[S] = g[S \ {x}] + some[x]
      BY <1>2 DEF AddsUp
    <3>3. h[S] = h[S \ {x}] + values[x]
      BY DEF AddsUp
    <3> QED
      BY <2>2, <3>2, <3>3
  <2>3. Good \in SUBSET (SUBSET A)
    OBVIOUS
  <2> HIDE DEF Good
  <2> QED
    BY <1>1, <2>1, <2>2, <2>3, SubsetInduction
<1> QED
  BY <1>2, <1>3

\* The sum of the whole is the sum of its two parts.
LEMMA SumOfTwoParts ==
  ASSUME NEW T, IsFiniteSet(T), NEW values \in [T -> Int],
         NEW A, NEW B, T = A \cup B, A \cap B = {},
         NEW a, a = Restrict(values, A), NEW b, b = Restrict(values, B)
  PROVE  /\ SumFunction(a) \in Int /\ SumFunction(b) \in Int
         /\ SumFunction(values) = SumFunction(a) + SumFunction(b)
<1>1. PICK h : AddsUp(h, T, values) /\ SumFunction(values) = h[T]
  BY SumAddsUp
<1>2. SumFunction(a) = h[A] /\ SumFunction(b) = h[B] /\ h[A] \in Int /\ h[B] \in Int
  <2>1. A \in SUBSET T /\ B \in SUBSET T
    OBVIOUS
  <2>2. SumFunction(a) = h[A]
    BY <1>1, <2>1, SumOfPart DEF Restrict
  <2>3. SumFunction(b) = h[B]
    BY <1>1, <2>1, SumOfPart DEF Restrict
  <2> QED
    BY <1>1, <2>1, <2>2, <2>3 DEF AddsUp
<1> DEFINE Good == {S \in SUBSET B : h[A \cup S] = h[A] + h[S]}
<1>3. \A S \in SUBSET B : S \in Good
  <2>1. {} \in Good
    <3>1. A \cup {} = A /\ h[{}] = 0
      BY <1>1 DEF AddsUp
    <3> QED
      BY <1>2, <3>1
  <2>2. ASSUME NEW S \in SUBSET B, S # {}, \A x \in S : S \ {x} \in Good
        PROVE  S \in Good
    <3>1. PICK x \in S : TRUE
      BY <2>2
    <3>2. (A \cup S) \ {x} = A \cup (S \ {x})
      OBVIOUS
    <3>3. h[A \cup S] = h[A \cup (S \ {x})] + values[x]
      <4>1. A \cup S \in SUBSET T /\ x \in A \cup S
        OBVIOUS
      <4> QED
        BY <1>1, <3>2, <4>1 DEF AddsUp
    <3>4. h[S] = h[S \ {x}] + values[x] /\ h[S \ {x}] \in Int /\ values[x] \in Int
      BY <1>1 DEF AddsUp
    <3>5. h[A \cup (S \ {x})] = h[A] + h[S \ {x}]
      BY <2>2
    <3>6. h[A \cup S] = h[A] + h[S]
      BY <1>2, <3>3, <3>4, <3>5
    <3> QED
      BY <3>6
  <2>3. Good \in SUBSET (SUBSET B) /\ IsFiniteSet(B)
    BY FS_Subset
  <2> HIDE DEF Good
  <2> QED
    BY <2>1, <2>2, <2>3, SubsetInduction
<1> QED
  BY <1>1, <1>2, <1>3

\* What each value is at most, as a multiple of another, their sum is as well.
LEMMA SumsCompare ==
  ASSUME NEW T, IsFiniteSet(T), NEW v \in [T -> Int], NEW w \in [T -> Int],
         NEW c \in Int, \A k \in T : v[k] <= c * w[k]
  PROVE  /\ SumFunction(v) \in Int /\ SumFunction(w) \in Int
         /\ SumFunction(v) <= c * SumFunction(w)
<1>1. PICK g : AddsUp(g, T, v) /\ SumFunction(v) = g[T]
  BY SumAddsUp
<1>2. PICK h : AddsUp(h, T, w) /\ SumFunction(w) = h[T]
  BY SumAddsUp
<1> DEFINE Good == {S \in SUBSET T : g[S] <= c * h[S]}
<1>3. \A S \in SUBSET T : S \in Good
  <2>1. {} \in Good
    BY <1>1, <1>2 DEF AddsUp
  <2>2. ASSUME NEW S \in SUBSET T, S # {}, \A x \in S : S \ {x} \in Good
        PROVE  S \in Good
    <3>1. PICK x \in S : TRUE
      BY <2>2
    <3> DEFINE a == g[S \ {x}]  b == h[S \ {x}]  y == v[x]  z == w[x]
    <3>2. g[S] = a + y /\ a \in Int /\ y \in Int
      BY <1>1 DEF AddsUp
    <3>3. h[S] = b + z /\ b \in Int /\ z \in Int
      BY <1>2 DEF AddsUp
    <3>4. a <= c * b /\ y <= c * z
      BY <2>2
    <3> HIDE DEF a, b, y, z
    <3>5. a + y <= c * (b + z)
      <4>1. c * (b + z) = c * b + c * z /\ c * b \in Int /\ c * z \in Int
        BY <3>2, <3>3
      <4> QED
        BY <3>2, <3>4, <4>1
    <3> QED
      BY <3>2, <3>3, <3>5
  <2>3. Good \in SUBSET (SUBSET T)
    OBVIOUS
  <2> HIDE DEF Good
  <2> QED
    BY <2>1, <2>2, <2>3, SubsetInduction
<1>4. g[T] \in Int /\ h[T] \in Int
  BY <1>1, <1>2 DEF AddsUp
<1> QED
  BY <1>1, <1>2, <1>3, <1>4

\* A common factor comes out of a sum.
LEMMA SumScales ==
  ASSUME NEW T, IsFiniteSet(T), NEW v \in [T -> Int], NEW w \in [T -> Int],
         NEW c \in Int, \A k \in T : v[k] = c * w[k]
  PROVE  SumFunction(v) = c * SumFunction(w)
<1>1. PICK g : AddsUp(g, T, v) /\ SumFunction(v) = g[T]
  BY SumAddsUp
<1>2. PICK h : AddsUp(h, T, w) /\ SumFunction(w) = h[T]
  BY SumAddsUp
<1> DEFINE Good == {S \in SUBSET T : g[S] = c * h[S]}
<1>3. \A S \in SUBSET T : S \in Good
  <2>1. {} \in Good
    BY <1>1, <1>2 DEF AddsUp
  <2>2. ASSUME NEW S \in SUBSET T, S # {}, \A x \in S : S \ {x} \in Good
        PROVE  S \in Good
    <3>1. PICK x \in S : TRUE
      BY <2>2
    <3> DEFINE a == g[S \ {x}]  b == h[S \ {x}]  y == v[x]  z == w[x]
    <3>2. g[S] = a + y /\ a \in Int /\ y \in Int
      BY <1>1 DEF AddsUp
    <3>3. h[S] = b + z /\ b \in Int /\ z \in Int
      BY <1>2 DEF AddsUp
    <3>4. a = c * b /\ y = c * z
      BY <2>2
    <3> HIDE DEF a, b, y, z
    <3>5. c * (b + z) = c * b + c * z
      BY <3>3
    <3> QED
      BY <3>2, <3>3, <3>4, <3>5
  <2>3. Good \in SUBSET (SUBSET T)
    OBVIOUS
  <2> HIDE DEF Good
  <2> QED
    BY <2>1, <2>2, <2>3, SubsetInduction
<1> QED
  BY <1>1, <1>2, <1>3

\* Equal values add up to one of them times their number.
LEMMA SumOfConstant ==
  ASSUME NEW T, IsFiniteSet(T), NEW v \in [T -> Int], NEW c \in Int, \A k \in T : v[k] = c
  PROVE  Cardinality(T) \in Nat /\ SumFunction(v) = c * Cardinality(T)
<1>1. PICK g : AddsUp(g, T, v) /\ SumFunction(v) = g[T]
  BY SumAddsUp
<1>2. \A S \in SUBSET T : IsFiniteSet(S) /\ Cardinality(S) \in Nat
  BY FS_Subset, FS_CardinalityType
<1> DEFINE Good == {S \in SUBSET T : g[S] = c * Cardinality(S)}
<1>3. \A S \in SUBSET T : S \in Good
  <2>1. {} \in Good
    BY <1>1, FS_EmptySet DEF AddsUp
  <2>2. ASSUME NEW S \in SUBSET T, S # {}, \A x \in S : S \ {x} \in Good
        PROVE  S \in Good
    <3>1. PICK x \in S : TRUE
      BY <2>2
    <3> DEFINE n == Cardinality(S)  m == Cardinality(S \ {x})
    <3>2. g[S] = g[S \ {x}] + c
      BY <1>1 DEF AddsUp
    <3>3. m = n - 1 /\ n \in Nat /\ m \in Nat
      BY <1>2, FS_RemoveElement
    <3>4. g[S \ {x}] = c * m
      BY <2>2
    <3> HIDE DEF n, m
    <3>5. c * m + c = c * n
      BY <3>3
    <3>6. g[S] = c * n
      BY <3>2, <3>4, <3>5
    <3> QED
      BY <3>6 DEF n
  <2>3. Good \in SUBSET (SUBSET T)
    OBVIOUS
  <2> HIDE DEF Good
  <2> QED
    BY <2>1, <2>2, <2>3, SubsetInduction
<1> QED
  BY <1>1, <1>2, <1>3

-----------------------------------------------------------------------------
(* The slope. *)

\* The deviations from (p, q) when a pair (x, y) is added: arithmetic.
LEMMA DeviationGrows ==
  ASSUME NEW XY \in Int, NEW X \in Int, NEW Y \in Int, NEW n \in Int,
         NEW x \in Int, NEW y \in Int, NEW p \in Int, NEW q \in Int
  PROVE  (XY + x * y) - p * (Y + y) - q * (X + x) + (n + 1) * (p * q)
           = (XY - p * Y - q * X + n * (p * q)) + (x - p) * (y - q)
OBVIOUS

\* The covariance when a pair (p, q) is added: arithmetic.
LEMMA CovarianceGrows ==
  ASSUME NEW XY \in Int, NEW X \in Int, NEW Y \in Int, NEW n \in Int,
         NEW p \in Int, NEW q \in Int
  PROVE  (n + 1) * (XY + p * q) - (X + p) * (Y + q)
           = (n * XY - X * Y) + (XY - p * Y - q * X + n * (p * q))
OBVIOUS

\* Numbers on the same side of 0 have a product that is not negative.
LEMMA SameSign ==
  ASSUME NEW x \in Int, NEW y \in Int, (x <= 0 /\ y <= 0) \/ (x >= 0 /\ y >= 0)
  PROVE  x * y >= 0
OBVIOUS

\* Negative numbers have a positive product.
LEMMA BothNegative ==
  ASSUME NEW x \in Int, NEW y \in Int, x < 0, y < 0
  PROVE  x * y > 0
OBVIOUS

\* Values that rise together: no two of them rise against each other.
RiseTogether(x, y, T) ==
  \A j, k \in T : (x[j] <= x[k] /\ y[j] <= y[k]) \/ (x[k] <= x[j] /\ y[k] <= y[j])

\* The sum of the products (x[k] - x[p]) * (y[k] - y[p]), from the sums of x, y and x * y.
Deviation(x, y, hx, hy, hxy, p, S) ==
  hxy[S] - x[p] * hy[S] - y[p] * hx[S] + Cardinality(S) * (x[p] * y[p])

\* The products of the deviations from a pair of values that rises with the others
\* add up to no less than any one of them.
LEMMA DeviationsAddUp ==
  ASSUME NEW T, IsFiniteSet(T), NEW x \in [T -> Int], NEW y \in [T -> Int],
         RiseTogether(x, y, T), NEW hx, AddsUp(hx, T, x), NEW hy, AddsUp(hy, T, y),
         NEW xy \in [T -> Int], \A k \in T : xy[k] = x[k] * y[k],
         NEW hxy, AddsUp(hxy, T, xy), NEW p \in T
  PROVE  /\ \A S \in SUBSET T : /\ Deviation(x, y, hx, hy, hxy, p, S) \in Int
                                 /\ Deviation(x, y, hx, hy, hxy, p, S) >= 0
         /\ \A S \in SUBSET T : \A i \in S :
              Deviation(x, y, hx, hy, hxy, p, S) >= (x[i] - x[p]) * (y[i] - y[p])
<1> DEFINE D == [S \in SUBSET T |->
             hxy[S] - x[p] * hy[S] - y[p] * hx[S] + Cardinality(S) * (x[p] * y[p])]
<1>1. \A S \in SUBSET T : D[S] = Deviation(x, y, hx, hy, hxy, p, S)
  BY DEF Deviation
<1>2. \A S \in SUBSET T : IsFiniteSet(S) /\ Cardinality(S) \in Nat
  BY FS_Subset, FS_CardinalityType
<1>3. x[p] \in Int /\ y[p] \in Int /\ x[p] * y[p] \in Int
  OBVIOUS
<1>4. ASSUME NEW S \in SUBSET T PROVE D[S] \in Int
  <2>1. hxy[S] \in Int /\ hy[S] \in Int /\ hx[S] \in Int /\ Cardinality(S) \in Int
    BY <1>2 DEF AddsUp
  <2>2. x[p] * hy[S] \in Int /\ y[p] * hx[S] \in Int /\ Cardinality(S) * (x[p] * y[p]) \in Int
    BY <1>3, <2>1
  <2> QED
    BY <2>1, <2>2
<1>5. ASSUME NEW S \in SUBSET T, NEW i \in S
      PROVE  D[S] = D[S \ {i}] + (x[i] - x[p]) * (y[i] - y[p])
  <2> DEFINE R == S \ {i}
             XY == hxy[R]  X == hx[R]  Y == hy[R]  n == Cardinality(R)
             a == x[i]  b == y[i]  c == x[p]  d == y[p]
  <2>1. XY \in Int /\ X \in Int /\ Y \in Int /\ n \in Int
    BY <1>2 DEF AddsUp
  <2>2. a \in Int /\ b \in Int /\ c \in Int /\ d \in Int
    OBVIOUS
  <2>3. hxy[S] = XY + a * b /\ hx[S] = X + a /\ hy[S] = Y + b
    BY DEF AddsUp
  <2>4. Cardinality(S) = n + 1
    <3>1. n = Cardinality(S) - 1 /\ Cardinality(S) \in Nat
      BY <1>2, FS_RemoveElement
    <3> HIDE DEF n
    <3> QED
      BY <3>1
  <2>5. D[S] = (XY + a * b) - c * (Y + b) - d * (X + a) + (n + 1) * (c * d)
    BY <2>3, <2>4
  <2>6. D[R] = XY - c * Y - d * X + n * (c * d)
    OBVIOUS
  <2> HIDE DEF XY, X, Y, n, a, b, c, d
  <2>7. D[S] = D[R] + (a - c) * (b - d)
    BY <2>1, <2>2, <2>5, <2>6, DeviationGrows
  <2> QED
    BY <2>7 DEF a, b, c, d
<1>6. ASSUME NEW i \in T
      PROVE  /\ (x[i] - x[p]) * (y[i] - y[p]) \in Int
             /\ (x[i] - x[p]) * (y[i] - y[p]) >= 0
  <2> DEFINE a == x[i] - x[p]  b == y[i] - y[p]
  <2>1. a \in Int /\ b \in Int
    OBVIOUS
  <2>2. (a <= 0 /\ b <= 0) \/ (a >= 0 /\ b >= 0)
    BY DEF RiseTogether
  <2> HIDE DEF a, b
  <2>3. a * b \in Int /\ a * b >= 0
    BY <2>1, <2>2, SameSign
  <2> QED
    BY <2>3 DEF a, b
<1> DEFINE Good == {S \in SUBSET T : D[S] >= 0}
<1>7. \A S \in SUBSET T : S \in Good
  <2>1. {} \in Good
    <3>1. hxy[{}] = 0 /\ hx[{}] = 0 /\ hy[{}] = 0 /\ Cardinality({}) = 0
      BY FS_EmptySet DEF AddsUp
    <3>2. D[{}] = 0
      BY <1>3, <3>1
    <3> QED
      BY <3>2
  <2>2. ASSUME NEW S \in SUBSET T, S # {}, \A i \in S : S \ {i} \in Good
        PROVE  S \in Good
    <3>1. PICK i \in S : TRUE
      BY <2>2
    <3> DEFINE e == (x[i] - x[p]) * (y[i] - y[p])  f == D[S \ {i}]
    <3>2. D[S] = f + e /\ e \in Int /\ e >= 0 /\ f \in Int /\ f >= 0
      BY <1>4, <1>5, <1>6, <2>2
    <3> HIDE DEF e, f
    <3>3. D[S] >= 0
      BY <3>2
    <3> QED
      BY <3>3
  <2>3. Good \in SUBSET (SUBSET T)
    OBVIOUS
  <2> HIDE DEF Good
  <2> QED
    BY <2>1, <2>2, <2>3, SubsetInduction
<1>8. ASSUME NEW S \in SUBSET T, NEW i \in S
      PROVE  D[S] >= (x[i] - x[p]) * (y[i] - y[p])
  <2> DEFINE e == (x[i] - x[p]) * (y[i] - y[p])  f == D[S \ {i}]
  <2>1. D[S] = f + e /\ e \in Int /\ f \in Int /\ f >= 0
    BY <1>4, <1>5, <1>6, <1>7
  <2> HIDE DEF e, f
  <2>2. D[S] >= e
    BY <2>1
  <2> QED
    BY <2>2 DEF e
<1> HIDE DEF D
<1> QED
  BY <1>1, <1>4, <1>7, <1>8

\* What Covariance computes, of the families x and y and of their products xy.
Covaries(T, x, y, xy) == Cardinality(T) * SumFunction(xy) - SumFunction(x) * SumFunction(y)

\* The covariance of values that rise together is not negative, and positive when two
\* of them differ.
LEMMA CovarianceIsPositive ==
  ASSUME NEW T, IsFiniteSet(T), NEW x \in [T -> Int], NEW y \in [T -> Int],
         RiseTogether(x, y, T),
         NEW xy \in [T -> Int], \A k \in T : xy[k] = x[k] * y[k],
         NEW i \in T, NEW p \in T, x[i] < x[p], y[i] < y[p]
  PROVE  Covaries(T, x, y, xy) > 0
<1>1. PICK hx : AddsUp(hx, T, x) /\ SumFunction(x) = hx[T]
  BY SumAddsUp
<1>2. PICK hy : AddsUp(hy, T, y) /\ SumFunction(y) = hy[T]
  BY SumAddsUp
<1>3. PICK hxy : AddsUp(hxy, T, xy) /\ SumFunction(xy) = hxy[T]
  BY SumAddsUp
<1>4. \A S \in SUBSET T : IsFiniteSet(S) /\ Cardinality(S) \in Nat
  BY FS_Subset, FS_CardinalityType
<1> DEFINE C == [S \in SUBSET T |-> Cardinality(S) * hxy[S] - hx[S] * hy[S]]
           Dev(q, S) == Deviation(x, y, hx, hy, hxy, q, S)
<1>5. ASSUME NEW S \in SUBSET T PROVE C[S] \in Int
  <2>1. hxy[S] \in Int /\ hy[S] \in Int /\ hx[S] \in Int /\ Cardinality(S) \in Int
    BY <1>1, <1>2, <1>3, <1>4 DEF AddsUp
  <2> QED
    BY <2>1
<1>6. ASSUME NEW S \in SUBSET T, NEW q \in S
      PROVE  C[S] = C[S \ {q}] + Dev(q, S \ {q})
  <2> DEFINE R == S \ {q}
             XY == hxy[R]  X == hx[R]  Y == hy[R]  n == Cardinality(R)
             c == x[q]  d == y[q]
  <2>1. XY \in Int /\ X \in Int /\ Y \in Int /\ n \in Int
    BY <1>1, <1>2, <1>3, <1>4 DEF AddsUp
  <2>2. c \in Int /\ d \in Int
    OBVIOUS
  <2>3. hxy[S] = XY + c * d /\ hx[S] = X + c /\ hy[S] = Y + d
    BY <1>1, <1>2, <1>3 DEF AddsUp
  <2>4. Cardinality(S) = n + 1
    <3>1. n = Cardinality(S) - 1 /\ Cardinality(S) \in Nat
      BY <1>4, FS_RemoveElement
    <3> HIDE DEF n
    <3> QED
      BY <3>1
  <2>5. C[S] = (n + 1) * (XY + c * d) - (X + c) * (Y + d)
    BY <2>3, <2>4
  <2>6. C[R] = n * XY - X * Y
    OBVIOUS
  <2>7. Dev(q, R) = XY - c * Y - d * X + n * (c * d)
    BY DEF Deviation
  <2> HIDE DEF XY, X, Y, n, c, d, C, Dev
  <2>8. C[S] = C[R] + Dev(q, R)
    BY <2>1, <2>2, <2>5, <2>6, <2>7, CovarianceGrows
  <2> QED
    BY <2>8
<1>7. ASSUME NEW q \in T
      PROVE  /\ \A S \in SUBSET T : Dev(q, S) \in Int /\ Dev(q, S) >= 0
             /\ \A S \in SUBSET T : \A j \in S : Dev(q, S) >= (x[j] - x[q]) * (y[j] - y[q])
  BY <1>1, <1>2, <1>3, DeviationsAddUp
<1> HIDE DEF C, Dev
<1> DEFINE Good == {S \in SUBSET T : C[S] >= 0}
<1>8. \A S \in SUBSET T : S \in Good
  <2>1. {} \in Good
    <3>1. hxy[{}] = 0 /\ hx[{}] = 0 /\ hy[{}] = 0 /\ Cardinality({}) = 0
      BY <1>1, <1>2, <1>3, FS_EmptySet DEF AddsUp
    <3>2. C[{}] = 0
      BY <3>1 DEF C
    <3> QED
      BY <3>2
  <2>2. ASSUME NEW S \in SUBSET T, S # {}, \A q \in S : S \ {q} \in Good
        PROVE  S \in Good
    <3>1. PICK q \in S : TRUE
      BY <2>2
    <3>2. /\ C[S] = C[S \ {q}] + Dev(q, S \ {q})
          /\ C[S \ {q}] \in Int /\ C[S \ {q}] >= 0
          /\ Dev(q, S \ {q}) \in Int /\ Dev(q, S \ {q}) >= 0
      BY <1>5, <1>6, <1>7, <2>2
    <3>3. C[S] >= 0
      BY <3>2
    <3> QED
      BY <3>3
  <2>3. Good \in SUBSET (SUBSET T)
    OBVIOUS
  <2> HIDE DEF Good
  <2> QED
    BY <2>1, <2>2, <2>3, SubsetInduction
<1>9. C[T] > 0
  <2> DEFINE R == T \ {p}
  <2>1. C[T] = C[R] + Dev(p, R) /\ C[R] \in Int /\ C[R] >= 0
    BY <1>5, <1>6, <1>8
  <2>2. i \in R
    OBVIOUS
  <2>3. (x[i] - x[p]) * (y[i] - y[p]) > 0 /\ (x[i] - x[p]) * (y[i] - y[p]) \in Int
    <3> DEFINE a == x[i] - x[p]  b == y[i] - y[p]
    <3>1. a \in Int /\ b \in Int /\ a < 0 /\ b < 0
      OBVIOUS
    <3> HIDE DEF a, b
    <3>2. a * b > 0 /\ a * b \in Int
      BY <3>1, BothNegative
    <3> QED
      BY <3>2 DEF a, b
  <2>4. Dev(p, R) \in Int /\ Dev(p, R) >= (x[i] - x[p]) * (y[i] - y[p])
    BY <1>7, <2>2
  <2> HIDE DEF R
  <2> DEFINE e == (x[i] - x[p]) * (y[i] - y[p])
  <2>5. e \in Int /\ e > 0 /\ Dev(p, R) >= e
    BY <2>3, <2>4
  <2> HIDE DEF e
  <2> QED
    BY <2>1, <2>4, <2>5
<1> QED
  BY <1>1, <1>2, <1>3, <1>9 DEF C, Covaries

-----------------------------------------------------------------------------
(* The greatest of finitely many numbers. *)

\* Finitely many numbers have a bound.
LEMMA FamilyIsBounded ==
  ASSUME NEW T, IsFiniteSet(T), NEW v \in [T -> Nat]
  PROVE  \E b \in Nat : \A k \in T : v[k] <= b
<1> DEFINE Good == {S \in SUBSET T : \E b \in Nat : \A k \in S : v[k] <= b}
<1>1. \A S \in SUBSET T : S \in Good
  <2>1. {} \in Good
    OBVIOUS
  <2>2. ASSUME NEW S \in SUBSET T, S # {}, \A x \in S : S \ {x} \in Good
        PROVE  S \in Good
    <3>1. PICK x \in S : TRUE
      BY <2>2
    <3>2. PICK b \in Nat : \A k \in S \ {x} : v[k] <= b
      BY <2>2
    <3>3. b + v[x] \in Nat /\ \A k \in S : v[k] <= b + v[x]
      BY <3>2
    <3> QED
      BY <3>3
  <2>3. Good \in SUBSET (SUBSET T)
    OBVIOUS
  <2> HIDE DEF Good
  <2> QED
    BY <2>1, <2>2, <2>3, SubsetInduction
<1> QED
  BY <1>1

ValuesOf(v, T) == {v[k] : k \in T}

\* Their greatest is one of them.
LEMMA GreatestOfFamily ==
  ASSUME NEW T, IsFiniteSet(T), T # {}, NEW v \in [T -> Nat]
  PROVE  /\ Max(ValuesOf(v, T)) \in ValuesOf(v, T) /\ Max(ValuesOf(v, T)) \in Nat
         /\ \A k \in T : v[k] <= Max(ValuesOf(v, T))
<1> DEFINE S == ValuesOf(v, T)
<1>1. S \in SUBSET Nat /\ S # {} /\ \A k \in T : v[k] \in S
  BY DEF ValuesOf
<1>2. PICK b \in Nat : \A k \in T : v[k] <= b
  BY FamilyIsBounded
<1>3. \A m \in S : m <= b
  BY <1>2 DEF ValuesOf
<1> HIDE DEF S
<1>4. Max(S) \in S /\ \A m \in S : m <= Max(S)
  BY <1>1, <1>3, GreatestOfNumbers
<1>5. Max(S) \in S /\ Max(S) \in Nat /\ \A k \in T : v[k] <= Max(S)
  BY <1>1, <1>4
<1> QED
  BY <1>5 DEF S

\* The greatest of finitely many numbers is one of them.
LEMMA GreatestOfFinite ==
  ASSUME NEW S \in SUBSET Nat, IsFiniteSet(S), S # {}
  PROVE  Max(S) \in S /\ \A m \in S : m <= Max(S)
<1> DEFINE v == [k \in S |-> k]
<1>1. v \in [S -> Nat] /\ S = ValuesOf(v, S) /\ \A k \in S : v[k] = k
  BY DEF ValuesOf
<1> HIDE DEF v
<1>2. Max(S) \in S /\ \A k \in S : v[k] <= Max(S)
  BY <1>1, GreatestOfFamily
<1> QED
  BY <1>1, <1>2

\* The greatest of the whole is the greater of the greatest of its two parts.
LEMMA GreatestOfTwoParts ==
  ASSUME NEW A, NEW B, A # {}, B # {}, IsFiniteSet(A \cup B), NEW v \in [A \cup B -> Nat]
  PROVE  Max(ValuesOf(v, A \cup B)) = Max({Max(ValuesOf(v, A)), Max(ValuesOf(v, B))})
<1> DEFINE S == ValuesOf(v, A \cup B)  SA == ValuesOf(v, A)  SB == ValuesOf(v, B)
<1>1. IsFiniteSet(A) /\ IsFiniteSet(B)
  BY FS_Subset
<1>2. Max(S) \in S /\ Max(S) \in Nat /\ \A k \in A \cup B : v[k] <= Max(S)
  BY GreatestOfFamily
<1>3. Max(SA) \in SA /\ Max(SA) \in Nat /\ \A m \in SA : m <= Max(SA)
  <2> DEFINE a == [k \in A |-> v[k]]
  <2>1. a \in [A -> Nat] /\ SA = ValuesOf(a, A) /\ \A m \in SA : \E k \in A : m = a[k]
    BY DEF ValuesOf
  <2> HIDE DEF a
  <2> QED
    BY <1>1, <2>1, GreatestOfFamily
<1>4. Max(SB) \in SB /\ Max(SB) \in Nat /\ \A m \in SB : m <= Max(SB)
  <2> DEFINE b == [k \in B |-> v[k]]
  <2>1. b \in [B -> Nat] /\ SB = ValuesOf(b, B) /\ \A m \in SB : \E k \in B : m = b[k]
    BY DEF ValuesOf
  <2> HIDE DEF b
  <2> QED
    BY <1>1, <2>1, GreatestOfFamily
<1>5. /\ \A m \in SA \cup SB : \E k \in A \cup B : m = v[k]
      /\ S \subseteq SA \cup SB
  BY DEF ValuesOf
<1> HIDE DEF S, SA, SB
<1>6. Max(SA) <= Max(S) /\ Max(SB) <= Max(S)
  BY <1>2, <1>3, <1>4, <1>5
<1>7. Max(S) <= Max(SA) \/ Max(S) <= Max(SB)
  BY <1>2, <1>3, <1>4, <1>5
<1> DEFINE s == Max(S)  x == Max(SA)  y == Max(SB)
<1>8. s \in Int /\ x \in Int /\ y \in Int /\ x <= s /\ y <= s /\ (s <= x \/ s <= y)
  BY <1>2, <1>3, <1>4, <1>6, <1>7
<1> HIDE DEF s, x, y
<1>9. Max({x, y}) \in {x, y} /\ x <= Max({x, y}) /\ y <= Max({x, y})
  BY <1>8, MaxOfTwo
<1>10. s = Max({x, y})
  BY <1>8, <1>9
<1> QED
  BY <1>10 DEF s, x, y, S, SA, SB

-----------------------------------------------------------------------------
(* Windows. *)

Window == Selected(task.rows, task.from, task.to)

\* A window W holds the rows within its bounds under their numbers in the trace.
IsWindow(W, from, to) ==
  /\ DOMAIN W = {k \in DOMAIN task.rows : InWindow(task.rows[k], from, to)}
  /\ W = [k \in DOMAIN W |-> task.rows[k]]
  /\ DOMAIN task.rows \in SUBSET Nat
  /\ IsFiniteSet(DOMAIN W)
  /\ \A k \in DOMAIN W : W[k] \in Range(task.rows) /\ W[k].ms \in Nat

\* What Selected gives is the window.
LEMMA SelectedIsWindow ==
  ASSUME TraceWellFormed(task), NEW from, NEW to
  PROVE  IsWindow(Selected(task.rows, from, to), from, to)
<1> DEFINE W == Selected(task.rows, from, to)
<1>1. PICK n \in Nat : DOMAIN task.rows = 1..n
  <2>1. task.rows \in Seq(Range(task.rows))
    BY DEF TraceWellFormed
  <2> QED
    BY <2>1, LenProperties
<1>2. DOMAIN W = {k \in DOMAIN task.rows : InWindow(task.rows[k], from, to)}
  BY DEF Selected, RestrictValues, Restrict
<1>3. W = [k \in DOMAIN W |-> task.rows[k]]
  BY DEF Selected, RestrictValues, Restrict
<1>4. DOMAIN task.rows \in SUBSET Nat /\ IsFiniteSet(DOMAIN task.rows)
  <2>1. IsFiniteSet(1..n) /\ 1..n \in SUBSET Nat
    BY FS_Interval
  <2> QED
    BY <1>1, <2>1
<1>5. IsFiniteSet(DOMAIN W)
  <2>1. DOMAIN W \subseteq DOMAIN task.rows
    BY <1>2
  <2> HIDE DEF W
  <2> QED
    BY <1>4, <2>1, FS_Subset
<1>6. ASSUME NEW k \in DOMAIN W PROVE W[k] \in Range(task.rows) /\ W[k].ms \in Nat
  <2>1. k \in DOMAIN task.rows /\ W[k] = task.rows[k]
    BY <1>2, <1>3
  <2> QED
    BY <2>1 DEF TraceWellFormed, Range
<1> HIDE DEF W
<1>7. IsWindow(W, from, to)
  BY <1>2, <1>3, <1>4, <1>5, <1>6 DEF IsWindow
<1> QED
  BY <1>7 DEF W

\* The window of the task, and its two halves.
LEMMA WindowFacts ==
  ASSUME TraceWellFormed(task)
  PROVE  /\ IsWindow(Window, task.from, task.to)
         /\ IsWindow(Before, task.from, task.cut)
         /\ IsWindow(After, task.cut + 1, task.to)
BY SelectedIsWindow DEF Window, Before, After

\* Later rows have later times.
LEMMA WindowAscends ==
  ASSUME TraceWellFormed(task), NEW j \in DOMAIN Window, NEW k \in DOMAIN Window, j <= k
  PROVE  Window[j].ms <= Window[k].ms
<1>1. j \in DOMAIN task.rows /\ k \in DOMAIN task.rows
  BY WindowFacts DEF IsWindow
<1>2. Window[j] = task.rows[j] /\ Window[k] = task.rows[k]
  <2>1. Window = [l \in DOMAIN Window |-> task.rows[l]]
    BY WindowFacts DEF IsWindow
  <2> QED
    BY <2>1
<1> QED
  BY <1>1, <1>2 DEF TraceWellFormed

\* The two halves of a cut window, W in A up to the cut and in B behind it.
Cuts(W, A, B) ==
  /\ DOMAIN W = DOMAIN A \cup DOMAIN B /\ DOMAIN A \cap DOMAIN B = {}
  /\ IsFiniteSet(DOMAIN W) /\ DOMAIN W \in SUBSET Nat
  /\ W = [k \in DOMAIN W |-> W[k]]
  /\ A = [k \in DOMAIN A |-> W[k]] /\ B = [k \in DOMAIN B |-> W[k]]
  /\ \A j \in DOMAIN A, k \in DOMAIN B : j < k

\* Before and After cut the window of the task.
LEMMA CutInTwo ==
  ASSUME TraceWellFormed(task), CutWellFormed(task)
  PROVE  Cuts(Window, Before, After)
<1>1. /\ DOMAIN Window = {k \in DOMAIN task.rows : InWindow(task.rows[k], task.from, task.to)}
      /\ Window = [k \in DOMAIN Window |-> task.rows[k]]
      /\ DOMAIN task.rows \in SUBSET Nat /\ IsFiniteSet(DOMAIN Window)
  BY WindowFacts DEF IsWindow
<1>2. /\ DOMAIN Before = {k \in DOMAIN task.rows : InWindow(task.rows[k], task.from, task.cut)}
      /\ Before = [k \in DOMAIN Before |-> task.rows[k]]
  BY WindowFacts DEF IsWindow
<1>3. /\ DOMAIN After = {k \in DOMAIN task.rows : InWindow(task.rows[k], task.cut + 1, task.to)}
      /\ After = [k \in DOMAIN After |-> task.rows[k]]
  BY WindowFacts DEF IsWindow
<1>4. /\ task.cut \in Int /\ task.cut # Open /\ task.cut + 1 # Open
      /\ task.from = Open \/ (task.from \in Int /\ task.from <= task.cut + 1)
      /\ task.to = Open \/ (task.to \in Int /\ task.cut <= task.to)
  BY OpenAssumption DEF TraceWellFormed, CutWellFormed
<1>5. \A k \in DOMAIN task.rows : task.rows[k].ms \in Nat
  BY DEF TraceWellFormed, Range
<1> DEFINE ms(k) == task.rows[k].ms
<1>6. \A k \in DOMAIN Before : k \in DOMAIN Window /\ ms(k) <= task.cut
  BY <1>1, <1>2, <1>4, <1>5 DEF InWindow
<1>7. \A k \in DOMAIN After : k \in DOMAIN Window /\ task.cut < ms(k)
  BY <1>1, <1>3, <1>4, <1>5 DEF InWindow
<1>8. \A k \in DOMAIN Window : k \in DOMAIN Before \/ k \in DOMAIN After
  BY <1>1, <1>2, <1>3, <1>4, <1>5 DEF InWindow
<1>9. \A k \in DOMAIN Window : ms(k) \in Int /\ k \in Nat /\ k \in DOMAIN task.rows
  BY <1>1, <1>5
<1>10. \A j \in DOMAIN Before, k \in DOMAIN After : j < k
  <2> SUFFICES ASSUME NEW j \in DOMAIN Before, NEW k \in DOMAIN After, k <= j PROVE FALSE
    BY <1>6, <1>7, <1>9
  <2>1. ms(k) <= ms(j)
    BY <1>6, <1>7, <1>9 DEF TraceWellFormed
  <2> QED
    BY <1>4, <1>6, <1>7, <1>9, <2>1
<1>11. DOMAIN Before \cap DOMAIN After = {}
  BY <1>6, <1>9, <1>10
<1>12. DOMAIN Window = DOMAIN Before \cup DOMAIN After
  BY <1>6, <1>7, <1>8
<1> HIDE DEF ms
<1>13. Before = [k \in DOMAIN Before |-> Window[k]]
  BY <1>1, <1>2, <1>6
<1>14. After = [k \in DOMAIN After |-> Window[k]]
  BY <1>1, <1>3, <1>7
<1>15. Window = [k \in DOMAIN Window |-> Window[k]] /\ DOMAIN Window \in SUBSET Nat
  BY <1>1
<1> QED
  BY <1>1, <1>10, <1>11, <1>12, <1>13, <1>14, <1>15 DEF Cuts

\* With one half empty, the other is the whole.
LEMMA EmptyHalf ==
  ASSUME NEW W, NEW A, NEW B, Cuts(W, A, B)
  PROVE  /\ DOMAIN A = {} => W = B
         /\ DOMAIN B = {} => W = A
<1>1. ASSUME DOMAIN A = {} PROVE W = B
  <2>1. DOMAIN W = DOMAIN B
    BY <1>1 DEF Cuts
  <2> QED
    BY <2>1 DEF Cuts
<1>2. ASSUME DOMAIN B = {} PROVE W = A
  <2>1. DOMAIN W = DOMAIN A
    BY <1>2 DEF Cuts
  <2> QED
    BY <2>1 DEF Cuts
<1> QED
  BY <1>1, <1>2

\* The numbers of rows add up; the first row is that of the first half, the last
\* row that of the second.
LEMMA EndsOfHalves ==
  ASSUME NEW W, NEW A, NEW B, Cuts(W, A, B), DOMAIN A # {}, DOMAIN B # {}
  PROVE  /\ Count(W) = Count(A) + Count(B)
         /\ FirstRow(W) = FirstRow(A) /\ LastRow(W) = LastRow(B)
<1> DEFINE S == DOMAIN W  P == DOMAIN A  Q == DOMAIN B
<1>1. S = P \cup Q /\ P \cap Q = {} /\ IsFiniteSet(S) /\ S \in SUBSET Nat
      /\ (\A j \in P, k \in Q : j < k) /\ P # {} /\ Q # {}
  BY DEF Cuts
<1>2. A = [k \in P |-> W[k]] /\ B = [k \in Q |-> W[k]]
  BY DEF Cuts
<1> HIDE DEF S, P, Q
<1>3. IsFiniteSet(P) /\ IsFiniteSet(Q) /\ P \in SUBSET Nat /\ Q \in SUBSET Nat
  BY <1>1, FS_Subset
<1>4. Cardinality(S) = Cardinality(P) + Cardinality(Q)
  <2>1. Cardinality(P \cup Q) = Cardinality(P) + Cardinality(Q) - Cardinality(P \cap Q)
    BY <1>3, FS_Union
  <2>2. Cardinality(P) \in Nat /\ Cardinality(Q) \in Nat /\ Cardinality(P \cap Q) = 0
    BY <1>1, <1>3, FS_CardinalityType, FS_EmptySet
  <2> QED
    BY <1>1, <2>1, <2>2
<1>5. Min(S) = Min(P)
  <2>1. Min(S) \in S /\ \A m \in S : Min(S) <= m
    BY <1>1, LeastOfNumbers
  <2>2. Min(P) \in P /\ \A m \in P : Min(P) <= m
    BY <1>1, <1>3, LeastOfNumbers
  <2>3. Min(S) <= Min(P) /\ Min(P) <= Min(S)
    BY <1>1, <2>1, <2>2
  <2> QED
    BY <1>1, <2>1, <2>2, <2>3
<1>6. Max(S) = Max(Q)
  <2>1. Max(S) \in S /\ \A m \in S : m <= Max(S)
    BY <1>1, GreatestOfFinite
  <2>2. Max(Q) \in Q /\ \A m \in Q : m <= Max(Q)
    BY <1>1, <1>3, GreatestOfFinite
  <2>3. Max(S) <= Max(Q) /\ Max(Q) <= Max(S)
    BY <1>1, <2>1, <2>2
  <2> QED
    BY <1>1, <2>1, <2>2, <2>3
<1>7. Min(P) \in P /\ Max(Q) \in Q
  BY <1>1, <1>3, LeastOfNumbers, GreatestOfFinite
<1>8. A[Min(P)] = W[Min(S)] /\ B[Max(Q)] = W[Max(S)]
  BY <1>2, <1>5, <1>6, <1>7
<1> QED
  BY <1>4, <1>8 DEF Count, FirstRow, LastRow, S, P, Q

-----------------------------------------------------------------------------
(* Cadence. *)

\* What a summary of a cadence trace adds up, and the longest intervals of its rows.
Intervals(W) == SumFunction([k \in DOMAIN W |-> W[k].interval])
Frames(W)    == SumFunction([k \in DOMAIN W |-> W[k].frames])
Presents(W)  == SumFunction([k \in DOMAIN W |-> W[k].presents])
Lates(W)     == SumFunction([k \in DOMAIN W |-> W[k].late])
Weights(W)   == SumFunction([k \in DOMAIN W |-> W[k].presents * W[k].mean])
Longests(W)  == {W[k].longest : k \in DOMAIN W}

CadenceRows(W) == IsFiniteSet(DOMAIN W) /\ \A k \in DOMAIN W : CadenceWellFormed(W[k])

\* Sums of what is not negative are not negative, and those of positive numbers are
\* positive when there are any.
LEMMA SumOfNaturals ==
  ASSUME NEW T, IsFiniteSet(T), NEW v \in [T -> Nat]
  PROVE  /\ SumFunction(v) \in Nat
         /\ T # {} /\ (\A k \in T : v[k] # 0) => SumFunction(v) > 0
<1> DEFINE zero == [k \in T |-> 0]  one == [k \in T |-> 1]
<1>1. zero \in [T -> Int] /\ (\A k \in T : zero[k] = 0) /\ v \in [T -> Int]
  OBVIOUS
<1>2. one \in [T -> Int] /\ (\A k \in T : one[k] = 1)
  OBVIOUS
<1> HIDE DEF zero, one
<1>3. SumFunction(zero) = 0
  <2>1. Cardinality(T) \in Nat /\ SumFunction(zero) = 0 * Cardinality(T)
    BY <1>1, SumOfConstant
  <2> QED
    BY <2>1
<1>4. SumFunction(v) \in Int /\ SumFunction(zero) <= 1 * SumFunction(v)
  <2>1. \A k \in T : zero[k] <= 1 * v[k]
    BY <1>1
  <2> QED
    BY <1>1, <2>1, SumsCompare
<1>5. SumFunction(v) \in Nat
  BY <1>3, <1>4
<1>6. ASSUME T # {}, \A k \in T : v[k] # 0 PROVE SumFunction(v) > 0
  <2>1. Cardinality(T) \in Nat /\ SumFunction(one) = 1 * Cardinality(T)
    BY <1>2, SumOfConstant
  <2>2. Cardinality(T) # 0
    BY <1>6, FS_EmptySet
  <2>3. \A k \in T : one[k] <= 1 * v[k]
    BY <1>2, <1>6
  <2>4. SumFunction(one) <= 1 * SumFunction(v)
    BY <1>1, <1>2, <2>3, SumsCompare
  <2> QED
    BY <1>5, <2>1, <2>2, <2>4
<1> QED
  BY <1>5, <1>6

\* A sum over a window is that over its two halves.
LEMMA SumOfHalves ==
  ASSUME NEW W, NEW A, NEW B, Cuts(W, A, B), NEW v \in [DOMAIN W -> Int],
         NEW a, a = [k \in DOMAIN A |-> a[k]], \A k \in DOMAIN A : a[k] = v[k],
         NEW b, b = [k \in DOMAIN B |-> b[k]], \A k \in DOMAIN B : b[k] = v[k]
  PROVE  /\ SumFunction(a) \in Int /\ SumFunction(b) \in Int
         /\ SumFunction(v) = SumFunction(a) + SumFunction(b)
<1> DEFINE T == DOMAIN W  P == DOMAIN A  Q == DOMAIN B
<1>1. a = Restrict(v, P) /\ b = Restrict(v, Q) /\ v \in [T -> Int]
  BY DEF Restrict
<1>2. IsFiniteSet(T) /\ T = P \cup Q /\ P \cap Q = {}
  BY DEF Cuts
<1> HIDE DEF T, P, Q
<1>3. /\ SumFunction(a) \in Int /\ SumFunction(b) \in Int
      /\ SumFunction(v) = SumFunction(a) + SumFunction(b)
  BY <1>1, <1>2, SumOfTwoParts
<1> QED
  BY <1>3

\* The rows of the halves are rows of the whole.
LEMMA RowsOfHalves ==
  ASSUME NEW W, NEW A, NEW B, Cuts(W, A, B)
  PROVE  /\ \A k \in DOMAIN A : k \in DOMAIN W /\ A[k] = W[k]
         /\ \A k \in DOMAIN B : k \in DOMAIN W /\ B[k] = W[k]
<1>1. \A k \in DOMAIN A : A[k] = W[k]
  <2>1. A = [k \in DOMAIN A |-> W[k]]
    BY DEF Cuts
  <2> QED
    BY <2>1
<1>2. \A k \in DOMAIN B : B[k] = W[k]
  <2>1. B = [k \in DOMAIN B |-> W[k]]
    BY DEF Cuts
  <2> QED
    BY <2>1
<1> QED
  BY <1>1, <1>2 DEF Cuts

\* What the sums of a cadence window are, and that no presents have no weight.
LEMMA CadenceNumbers ==
  ASSUME NEW W, CadenceRows(W)
  PROVE  /\ Intervals(W) \in Nat /\ (DOMAIN W # {} => Intervals(W) > 0)
         /\ Frames(W) \in Nat /\ Presents(W) \in Nat /\ Lates(W) \in Nat /\ Weights(W) \in Nat
         /\ Presents(W) = 0 => Weights(W) = 0
<1> DEFINE T == DOMAIN W
           interval == [k \in T |-> W[k].interval]  frames == [k \in T |-> W[k].frames]
           presents == [k \in T |-> W[k].presents]  late == [k \in T |-> W[k].late]
           weight == [k \in T |-> W[k].presents * W[k].mean]
           mean == [k \in T |-> W[k].mean]
<1>1. IsFiniteSet(T)
  BY DEF CadenceRows
<1>2. interval \in [T -> Nat] /\ \A k \in T : interval[k] # 0
  BY DEF CadenceRows, CadenceWellFormed
<1>3. frames \in [T -> Nat] /\ presents \in [T -> Nat] /\ late \in [T -> Nat] /\ mean \in [T -> Nat]
  BY DEF CadenceRows, CadenceWellFormed
<1>4. weight \in [T -> Nat] /\ \A k \in T : weight[k] = presents[k] * mean[k]
  BY DEF CadenceRows, CadenceWellFormed
<1>5. /\ Intervals(W) = SumFunction(interval) /\ Frames(W) = SumFunction(frames)
      /\ Presents(W) = SumFunction(presents) /\ Lates(W) = SumFunction(late)
      /\ Weights(W) = SumFunction(weight)
  BY DEF Intervals, Frames, Presents, Lates, Weights
<1> HIDE DEF T, interval, frames, presents, late, weight, mean
<1>6. Intervals(W) \in Nat /\ (T # {} => Intervals(W) > 0)
  BY <1>1, <1>2, <1>5, SumOfNaturals
<1>7. Frames(W) \in Nat
  BY <1>1, <1>3, <1>5, SumOfNaturals
<1>8. Presents(W) \in Nat
  BY <1>1, <1>3, <1>5, SumOfNaturals
<1>9. Lates(W) \in Nat
  BY <1>1, <1>3, <1>5, SumOfNaturals
<1>10. Weights(W) \in Nat
  BY <1>1, <1>4, <1>5, SumOfNaturals
<1>11. Presents(W) = 0 => Weights(W) = 0
  <2>1. PICK b \in Nat : \A k \in T : mean[k] <= b
    BY <1>1, <1>3, FamilyIsBounded
  <2>2. \A k \in T : weight[k] <= b * presents[k]
    <3> TAKE k \in T
    <3> DEFINE x == presents[k]  y == mean[k]
    <3>1. x \in Nat /\ y \in Nat /\ y <= b
      BY <1>3, <2>1
    <3> HIDE DEF x, y
    <3>2. x * y <= b * x
      BY <3>1
    <3> QED
      BY <1>4, <3>2 DEF x, y
  <2>3. weight \in [T -> Int] /\ presents \in [T -> Int] /\ b \in Int
    BY <1>3, <1>4
  <2>4. SumFunction(weight) <= b * SumFunction(presents)
    BY <1>1, <2>2, <2>3, SumsCompare
  <2> QED
    BY <1>5, <1>10, <2>1, <2>4
<1> QED
  BY <1>6, <1>7, <1>8, <1>9, <1>10, <1>11 DEF T

\* The report on a cadence window that has rows.
LEMMA CadenceReport ==
  ASSUME NEW W, CadenceRows(W), DOMAIN W # {}
  PROVE  Cadence(W) =
           [rows |-> Count(W), start |-> FirstRow(W).ms, end |-> LastRow(W).ms,
            hz |-> <<Frames(W) * 1000, Intervals(W)>>,
            presents |-> Presents(W), mean |-> Quotient(Weights(W), Presents(W)),
            longest |-> Max(Longests(W)),
            late |-> Lates(W), lateness |-> Quotient(Lates(W) * 100, Presents(W))]
<1>1. Intervals(W) \in Nat /\ Intervals(W) > 0
  BY CadenceNumbers
<1>2. ~(Intervals(W) <= 0)
  BY <1>1
<1>3. MaxOf(LAMBDA r : r.longest, W) = Max(Longests(W))
  <2>1. {r.longest : r \in Range(W)} = Longests(W)
    BY DEF Longests, Range
  <2> QED
    BY <2>1 DEF MaxOf
<1> QED
  BY <1>2, <1>3, ZenonT(60)
     DEF Cadence, SumOf, Intervals, Frames, Presents, Lates, Weights, Weight

\* The sums of a cut cadence window are those of its halves, its longest interval is
\* the longer of theirs.
LEMMA CadenceOfHalves ==
  ASSUME NEW W, NEW A, NEW B, Cuts(W, A, B), CadenceRows(W), DOMAIN A # {}, DOMAIN B # {}
  PROVE  /\ CadenceRows(A) /\ CadenceRows(B)
         /\ Intervals(W) = Intervals(A) + Intervals(B)
         /\ Frames(W) = Frames(A) + Frames(B)
         /\ Presents(W) = Presents(A) + Presents(B)
         /\ Lates(W) = Lates(A) + Lates(B)
         /\ Weights(W) = Weights(A) + Weights(B)
         /\ Max(Longests(W)) = Max({Max(Longests(A)), Max(Longests(B))})
<1>1. /\ \A k \in DOMAIN A : k \in DOMAIN W /\ A[k] = W[k]
      /\ \A k \in DOMAIN B : k \in DOMAIN W /\ B[k] = W[k]
  BY RowsOfHalves
<1>2. /\ IsFiniteSet(DOMAIN W) /\ DOMAIN W = DOMAIN A \cup DOMAIN B
      /\ \A k \in DOMAIN W : CadenceWellFormed(W[k])
  BY DEF CadenceRows, Cuts
<1>3. IsFiniteSet(DOMAIN A) /\ IsFiniteSet(DOMAIN B)
  BY <1>2, FS_Subset
<1>4. CadenceRows(A) /\ CadenceRows(B)
  BY <1>1, <1>2, <1>3 DEF CadenceRows
<1>5. Intervals(W) = Intervals(A) + Intervals(B)
  <2> DEFINE v == [k \in DOMAIN W |-> W[k].interval]
             a == [k \in DOMAIN A |-> A[k].interval]  b == [k \in DOMAIN B |-> B[k].interval]
  <2>1. v \in [DOMAIN W -> Int]
    BY <1>2 DEF CadenceWellFormed
  <2>2. a = [k \in DOMAIN A |-> a[k]] /\ \A k \in DOMAIN A : a[k] = v[k]
    BY <1>1
  <2>3. b = [k \in DOMAIN B |-> b[k]] /\ \A k \in DOMAIN B : b[k] = v[k]
    BY <1>1
  <2> HIDE DEF v, a, b
  <2>4. SumFunction(v) = SumFunction(a) + SumFunction(b)
    BY <2>1, <2>2, <2>3, SumOfHalves
  <2> QED
    BY <2>4 DEF v, a, b, Intervals
<1>6. Frames(W) = Frames(A) + Frames(B)
  <2> DEFINE v == [k \in DOMAIN W |-> W[k].frames]
             a == [k \in DOMAIN A |-> A[k].frames]  b == [k \in DOMAIN B |-> B[k].frames]
  <2>1. v \in [DOMAIN W -> Int]
    BY <1>2 DEF CadenceWellFormed
  <2>2. a = [k \in DOMAIN A |-> a[k]] /\ \A k \in DOMAIN A : a[k] = v[k]
    BY <1>1
  <2>3. b = [k \in DOMAIN B |-> b[k]] /\ \A k \in DOMAIN B : b[k] = v[k]
    BY <1>1
  <2> HIDE DEF v, a, b
  <2>4. SumFunction(v) = SumFunction(a) + SumFunction(b)
    BY <2>1, <2>2, <2>3, SumOfHalves
  <2> QED
    BY <2>4 DEF v, a, b, Frames
<1>7. Presents(W) = Presents(A) + Presents(B)
  <2> DEFINE v == [k \in DOMAIN W |-> W[k].presents]
             a == [k \in DOMAIN A |-> A[k].presents]  b == [k \in DOMAIN B |-> B[k].presents]
  <2>1. v \in [DOMAIN W -> Int]
    BY <1>2 DEF CadenceWellFormed
  <2>2. a = [k \in DOMAIN A |-> a[k]] /\ \A k \in DOMAIN A : a[k] = v[k]
    BY <1>1
  <2>3. b = [k \in DOMAIN B |-> b[k]] /\ \A k \in DOMAIN B : b[k] = v[k]
    BY <1>1
  <2> HIDE DEF v, a, b
  <2>4. SumFunction(v) = SumFunction(a) + SumFunction(b)
    BY <2>1, <2>2, <2>3, SumOfHalves
  <2> QED
    BY <2>4 DEF v, a, b, Presents
<1>8. Lates(W) = Lates(A) + Lates(B)
  <2> DEFINE v == [k \in DOMAIN W |-> W[k].late]
             a == [k \in DOMAIN A |-> A[k].late]  b == [k \in DOMAIN B |-> B[k].late]
  <2>1. v \in [DOMAIN W -> Int]
    BY <1>2 DEF CadenceWellFormed
  <2>2. a = [k \in DOMAIN A |-> a[k]] /\ \A k \in DOMAIN A : a[k] = v[k]
    BY <1>1
  <2>3. b = [k \in DOMAIN B |-> b[k]] /\ \A k \in DOMAIN B : b[k] = v[k]
    BY <1>1
  <2> HIDE DEF v, a, b
  <2>4. SumFunction(v) = SumFunction(a) + SumFunction(b)
    BY <2>1, <2>2, <2>3, SumOfHalves
  <2> QED
    BY <2>4 DEF v, a, b, Lates
<1>9. Weights(W) = Weights(A) + Weights(B)
  <2> DEFINE v == [k \in DOMAIN W |-> W[k].presents * W[k].mean]
             a == [k \in DOMAIN A |-> A[k].presents * A[k].mean]
             b == [k \in DOMAIN B |-> B[k].presents * B[k].mean]
  <2>1. v \in [DOMAIN W -> Int]
    BY <1>2 DEF CadenceWellFormed
  <2>2. a = [k \in DOMAIN A |-> a[k]] /\ \A k \in DOMAIN A : a[k] = v[k]
    BY <1>1
  <2>3. b = [k \in DOMAIN B |-> b[k]] /\ \A k \in DOMAIN B : b[k] = v[k]
    BY <1>1
  <2> HIDE DEF v, a, b
  <2>4. SumFunction(v) = SumFunction(a) + SumFunction(b)
    BY <2>1, <2>2, <2>3, SumOfHalves
  <2> QED
    BY <2>4 DEF v, a, b, Weights
<1>10. Max(Longests(W)) = Max({Max(Longests(A)), Max(Longests(B))})
  <2> DEFINE v == [k \in DOMAIN W |-> W[k].longest]  P == DOMAIN A  Q == DOMAIN B
  <2>1. /\ Longests(W) = ValuesOf(v, P \cup Q)
        /\ Longests(A) = ValuesOf(v, P) /\ Longests(B) = ValuesOf(v, Q)
    <3>1. DOMAIN W = P \cup Q
      BY <1>2
    <3>2. \A k \in P \cup Q : v[k] = W[k].longest
      BY <1>2
    <3>3. /\ \A k \in P : A[k].longest = v[k]
          /\ \A k \in Q : B[k].longest = v[k]
      BY <1>1, <3>2
    <3>4. Longests(W) = ValuesOf(v, DOMAIN W)
      BY Zenon DEF Longests, ValuesOf
    <3> HIDE DEF v
    <3>5. Longests(A) = ValuesOf(v, P)
      BY <3>3 DEF Longests, ValuesOf
    <3>6. Longests(B) = ValuesOf(v, Q)
      BY <3>3 DEF Longests, ValuesOf
    <3> QED
      BY <3>1, <3>4, <3>5, <3>6
  <2>2. v \in [P \cup Q -> Nat] /\ IsFiniteSet(P \cup Q) /\ P # {} /\ Q # {}
    BY <1>2 DEF CadenceWellFormed
  <2> HIDE DEF v, P, Q
  <2>3. Max(ValuesOf(v, P \cup Q)) = Max({Max(ValuesOf(v, P)), Max(ValuesOf(v, Q))})
    BY <2>2, GreatestOfTwoParts
  <2> QED
    BY <2>1, <2>3
<1> QED
  BY <1>4, <1>5, <1>6, <1>7, <1>8, <1>9, <1>10

\* In rows that fit together the weights stay below the longest interval per present,
\* and the late presents below all of them.
LEMMA CadenceBounds ==
  ASSUME NEW W, CadenceRows(W), DOMAIN W # {}, \A k \in DOMAIN W : ~Mismatched(W[k])
  PROVE  /\ Max(Longests(W)) \in Nat
         /\ Weights(W) <= Max(Longests(W)) * Presents(W)
         /\ Lates(W) <= Presents(W)
<1> DEFINE T == DOMAIN W  S == Longests(W)
           longest == [k \in T |-> W[k].longest]  late == [k \in T |-> W[k].late]
           presents == [k \in T |-> W[k].presents]
           weight == [k \in T |-> W[k].presents * W[k].mean]
<1>1. IsFiniteSet(T) /\ T # {}
  BY DEF CadenceRows
<1>2. longest \in [T -> Nat] /\ late \in [T -> Int] /\ presents \in [T -> Int]
  BY DEF CadenceRows, CadenceWellFormed
<1>3. weight \in [T -> Int]
  BY DEF CadenceRows, CadenceWellFormed
<1>4. S = ValuesOf(longest, T)
  BY DEF Longests, ValuesOf
<1>5. \A k \in T : late[k] <= 1 * presents[k]
  BY DEF CadenceRows, CadenceWellFormed, Mismatched
<1>6. Max(S) \in Nat /\ \A k \in T : longest[k] <= Max(S)
  <2> HIDE DEF T, S, longest
  <2> QED
    BY <1>1, <1>2, <1>4, GreatestOfFamily
<1>7. \A k \in T : weight[k] <= Max(S) * presents[k]
  <2> SUFFICES ASSUME NEW k \in T PROVE weight[k] <= Max(S) * presents[k]
    OBVIOUS
  <2> DEFINE x == W[k].presents  y == W[k].mean  m == Max(S)
  <2>1. x \in Nat /\ y \in Nat /\ y <= W[k].longest /\ W[k].longest \in Nat
    BY DEF CadenceRows, CadenceWellFormed, Mismatched
  <2>2. m \in Nat /\ W[k].longest <= m
    BY <1>6
  <2>3. y <= m
    BY <2>1, <2>2
  <2>4. weight[k] = x * y /\ presents[k] = x
    OBVIOUS
  <2> HIDE DEF x, y, m
  <2>5. x * y <= m * x
    BY <2>1, <2>2, <2>3
  <2> QED
    BY <2>4, <2>5 DEF m
<1>8. Weights(W) = SumFunction(weight) /\ Presents(W) = SumFunction(presents)
      /\ Lates(W) = SumFunction(late)
  BY DEF Weights, Presents, Lates
<1> HIDE DEF T, S, longest, late, presents, weight
<1>9. SumFunction(weight) <= Max(S) * SumFunction(presents)
  <2> DEFINE m == Max(S)
  <2>1. m \in Int /\ \A k \in T : weight[k] <= m * presents[k]
    BY <1>6, <1>7
  <2> HIDE DEF m
  <2>2. SumFunction(weight) <= m * SumFunction(presents)
    BY <1>1, <1>2, <1>3, <2>1, SumsCompare
  <2> QED
    BY <2>2 DEF m
<1>10. SumFunction(late) <= SumFunction(presents)
  <2>1. /\ SumFunction(late) \in Int /\ SumFunction(presents) \in Int
        /\ SumFunction(late) <= 1 * SumFunction(presents)
    BY <1>1, <1>2, <1>5, SumsCompare
  <2> QED
    BY <2>1
<1> QED
  BY <1>6, <1>8, <1>9, <1>10 DEF S

\* What Quotient reports when nothing is divided by nothing.
LEMMA QuotientFacts ==
  ASSUME NEW a \in Int, NEW b \in Int
  PROVE  /\ (b = 0 => a = 0) => Quotient(a, b)[1] = a
         /\ Quotient(a, b)[2] = IF b = 0 THEN 1 ELSE b
BY DEF Quotient

\* A cadence window reports the sum of its halves.
LEMMA CadenceJoins ==
  ASSUME NEW W, NEW A, NEW B, Cuts(W, A, B), CadenceRows(W), DOMAIN A # {}, DOMAIN B # {},
         NEW w, w = Cadence(W), NEW a, a = Cadence(A), NEW b, b = Cadence(B)
  PROVE  /\ w.rows = a.rows + b.rows /\ w.start = a.start /\ w.end = b.end
         /\ w.hz = <<a.hz[1] + b.hz[1], a.hz[2] + b.hz[2]>>
         /\ w.presents = a.presents + b.presents
         /\ w.mean[1] = a.mean[1] + b.mean[1]
         /\ w.late = a.late + b.late
         /\ w.longest = Max({a.longest, b.longest})
<1>1. /\ CadenceRows(A) /\ CadenceRows(B)
      /\ Intervals(W) = Intervals(A) + Intervals(B)
      /\ Frames(W) = Frames(A) + Frames(B)
      /\ Presents(W) = Presents(A) + Presents(B)
      /\ Lates(W) = Lates(A) + Lates(B)
      /\ Weights(W) = Weights(A) + Weights(B)
      /\ Max(Longests(W)) = Max({Max(Longests(A)), Max(Longests(B))})
  BY CadenceOfHalves
<1>2. Count(W) = Count(A) + Count(B) /\ FirstRow(W) = FirstRow(A) /\ LastRow(W) = LastRow(B)
  BY EndsOfHalves
<1>3. DOMAIN W # {}
  BY DEF Cuts
<1>4. /\ w.rows = Count(W) /\ w.start = FirstRow(W).ms /\ w.end = LastRow(W).ms
      /\ w.hz = <<Frames(W) * 1000, Intervals(W)>> /\ w.presents = Presents(W)
      /\ w.mean = Quotient(Weights(W), Presents(W)) /\ w.longest = Max(Longests(W))
      /\ w.late = Lates(W)
  BY <1>3, CadenceReport
<1>5. /\ a.rows = Count(A) /\ a.start = FirstRow(A).ms /\ a.end = LastRow(A).ms
      /\ a.hz = <<Frames(A) * 1000, Intervals(A)>> /\ a.presents = Presents(A)
      /\ a.mean = Quotient(Weights(A), Presents(A)) /\ a.longest = Max(Longests(A))
      /\ a.late = Lates(A)
  BY <1>1, CadenceReport
<1>6. /\ b.rows = Count(B) /\ b.start = FirstRow(B).ms /\ b.end = LastRow(B).ms
      /\ b.hz = <<Frames(B) * 1000, Intervals(B)>> /\ b.presents = Presents(B)
      /\ b.mean = Quotient(Weights(B), Presents(B)) /\ b.longest = Max(Longests(B))
      /\ b.late = Lates(B)
  BY <1>1, CadenceReport
<1>7. Frames(A) \in Nat /\ Presents(A) \in Nat /\ Weights(A) \in Nat
      /\ (Presents(A) = 0 => Weights(A) = 0)
  BY <1>1, CadenceNumbers
<1>8. Frames(B) \in Nat /\ Presents(B) \in Nat /\ Weights(B) \in Nat
      /\ (Presents(B) = 0 => Weights(B) = 0)
  BY <1>1, CadenceNumbers
<1>9. Frames(W) * 1000 = Frames(A) * 1000 + Frames(B) * 1000
  BY <1>1, <1>7, <1>8
<1>10. w.hz = <<a.hz[1] + b.hz[1], a.hz[2] + b.hz[2]>>
  <2>1. a.hz[1] = Frames(A) * 1000 /\ a.hz[2] = Intervals(A)
    BY <1>5
  <2>2. b.hz[1] = Frames(B) * 1000 /\ b.hz[2] = Intervals(B)
    BY <1>6
  <2> QED
    BY <1>1, <1>4, <1>9, <2>1, <2>2
<1>11. w.mean[1] = a.mean[1] + b.mean[1]
  <2>1. a.mean[1] = Weights(A)
    BY <1>5, <1>7, QuotientFacts
  <2>2. b.mean[1] = Weights(B)
    BY <1>6, <1>8, QuotientFacts
  <2>3. Weights(W) \in Int /\ Presents(W) \in Int /\ (Presents(W) = 0 => Weights(W) = 0)
    BY <1>1, <1>7, <1>8
  <2>4. w.mean[1] = Weights(W)
    BY <1>4, <2>3, QuotientFacts
  <2> QED
    BY <1>1, <2>1, <2>2, <2>4
<1>12. w.rows = a.rows + b.rows /\ w.start = a.start /\ w.end = b.end
  BY <1>2, <1>4, <1>5, <1>6
<1>13. w.presents = a.presents + b.presents /\ w.late = a.late + b.late
  BY <1>1, <1>4, <1>5, <1>6
<1>14. w.longest = Max({a.longest, b.longest})
  BY <1>1, <1>4, <1>5, <1>6
<1> QED
  BY <1>10, <1>11, <1>12, <1>13, <1>14

\* A cadence report adds up, and stays within its bounds.
LEMMA CadenceHolds ==
  ASSUME WellFormed(task), Solved PROVE CadenceAdds
<1> SUFFICES ASSUME Answered("cadence") PROVE CadenceAdds
  BY Zenon DEF CadenceAdds
<1>1. task.script = "cadence" /\ answer # Pending /\ answer # NothingThere
  BY DEF Answered
<1>2. answer = Cadence(Window)
  BY <1>1, Zenon DEF Solved, Answer, Window
<1>3. /\ TraceWellFormed(task) /\ CutWellFormed(task)
      /\ \A row \in Range(task.rows) : CadenceWellFormed(row)
  BY <1>1 DEF WellFormed
<1>4. Cuts(Window, Before, After)
  BY <1>3, CutInTwo
<1>5. CadenceRows(Window) /\ \A k \in DOMAIN Window : Window[k] \in Range(task.rows)
  <2>1. IsWindow(Window, task.from, task.to)
    BY <1>3, WindowFacts
  <2>2. IsFiniteSet(DOMAIN Window) /\ \A k \in DOMAIN Window : Window[k] \in Range(task.rows)
    BY <2>1, Zenon DEF IsWindow
  <2> QED
    BY <1>3, <2>2, Zenon DEF CadenceRows
<1>6. DOMAIN Window # {}
  BY <1>1, <1>2, Zenon DEF Cadence
<1>7. (DOMAIN Before = {} => Window = After) /\ (DOMAIN After = {} => Window = Before)
  BY <1>4, EmptyHalf
<1> DEFINE Joined(a, b) ==
         /\ answer.rows = a.rows + b.rows /\ answer.start = a.start /\ answer.end = b.end
         /\ answer.hz = <<a.hz[1] + b.hz[1], a.hz[2] + b.hz[2]>>
         /\ answer.presents = a.presents + b.presents
         /\ answer.mean[1] = a.mean[1] + b.mean[1]
         /\ answer.late = a.late + b.late
         /\ answer.longest = Max({a.longest, b.longest})
<1>8. DOMAIN Before # {} /\ DOMAIN After # {} => Joined(Cadence(Before), Cadence(After))
  BY <1>2, <1>4, <1>5, CadenceJoins
<1>9. ASSUME \A row \in Range(task.rows) : ~Mismatched(row)
      PROVE  /\ answer.mean[1] <= answer.longest * answer.mean[2]
             /\ answer.lateness[1] <= 100 * answer.lateness[2]
  <2> DEFINE L == Max(Longests(Window))  P == Presents(Window)  Q == Weights(Window)
             late == Lates(Window)
  <2>1. L \in Nat /\ Q <= L * P /\ late <= P
    BY <1>5, <1>6, <1>9, CadenceBounds
  <2>2. P \in Nat /\ Q \in Nat /\ late \in Nat /\ (P = 0 => Q = 0)
    BY <1>5, CadenceNumbers
  <2>3. /\ answer.mean = Quotient(Q, P) /\ answer.lateness = Quotient(late * 100, P)
        /\ answer.longest = L
    BY <1>2, <1>5, <1>6, CadenceReport
  <2> HIDE DEF L, P, Q, late
  <2>4. answer.mean[1] = Q /\ answer.mean[2] = IF P = 0 THEN 1 ELSE P
    BY <2>2, <2>3, QuotientFacts
  <2>5. answer.lateness[1] = late * 100 /\ answer.lateness[2] = IF P = 0 THEN 1 ELSE P
    <3>1. late * 100 \in Int /\ (P = 0 => late * 100 = 0)
      BY <2>1, <2>2
    <3> QED
      BY <2>2, <2>3, <3>1, QuotientFacts
  <2>6. answer.mean[1] <= L * answer.mean[2]
    BY <2>1, <2>2, <2>4
  <2> QED
    BY <2>1, <2>2, <2>3, <2>5, <2>6
<1> HIDE DEF Joined
<1>10. Halved(Cadence, Joined)
  BY <1>2, <1>7, <1>8 DEF Halved
<1> QED
  BY <1>9, <1>10 DEF CadenceAdds, Halved, Joined

-----------------------------------------------------------------------------
(* Audio. *)

AudioRows(W) == IsFiniteSet(DOMAIN W) /\ \A k \in DOMAIN W : AudioWellFormed(W[k])

\* What a summary of an audio trace counts, and the gaps and peaks of its records.
Over50(W)  == SumOf(LAMBDA r : Exceeds(r, 50), W)
Over100(W) == SumOf(LAMBDA r : Exceeds(r, 100), W)
Errors(W)  == SumOf(LAMBDA r : r.errors, W)
GapTimes(W) == {W[k].gap : k \in DOMAIN W}
Peaks(W)    == {W[k].peak : k \in DOMAIN W}

\* The report on an audio window that has records.
LEMMA AudioReport ==
  ASSUME NEW W, DOMAIN W # {}
  PROVE  Audio(W) =
           [rows |-> Count(W), start |-> FirstRow(W).ms, end |-> LastRow(W).ms,
            longest |-> Max(GapTimes(W)), over50 |-> Over50(W), over100 |-> Over100(W),
            queue |-> LastRow(W).queue, peak |-> Max(Peaks(W)), errors |-> Errors(W)]
<1>1. {r.gap : r \in Range(W)} = GapTimes(W) /\ {r.peak : r \in Range(W)} = Peaks(W)
  BY DEF GapTimes, Peaks, Range
<1>2. MaxOf(LAMBDA r : r.gap, W) = Max(GapTimes(W)) /\ MaxOf(LAMBDA r : r.peak, W) = Max(Peaks(W))
  BY <1>1 DEF MaxOf
<1>3. MaxOf(LAMBDA r : r.gap, W) = Max(GapTimes(W))
  BY <1>2
<1>4. MaxOf(LAMBDA r : r.peak, W) = Max(Peaks(W))
  BY <1>2
<1> QED
  BY <1>3, <1>4, Zenon DEF Audio, SumOf, Over50, Over100, Errors, LatestQueue

\* The counts of a cut audio window are those of its halves, its greatest gap and peak
\* the greater of theirs.
LEMMA AudioOfHalves ==
  ASSUME NEW W, NEW A, NEW B, Cuts(W, A, B), AudioRows(W), DOMAIN A # {}, DOMAIN B # {}
  PROVE  /\ Over50(W) = Over50(A) + Over50(B) /\ Over100(W) = Over100(A) + Over100(B)
         /\ Errors(W) = Errors(A) + Errors(B)
         /\ Max(GapTimes(W)) = Max({Max(GapTimes(A)), Max(GapTimes(B))})
         /\ Max(Peaks(W)) = Max({Max(Peaks(A)), Max(Peaks(B))})
<1>1. /\ \A k \in DOMAIN A : k \in DOMAIN W /\ A[k] = W[k]
      /\ \A k \in DOMAIN B : k \in DOMAIN W /\ B[k] = W[k]
  BY RowsOfHalves
<1>2. /\ IsFiniteSet(DOMAIN W) /\ DOMAIN W = DOMAIN A \cup DOMAIN B
      /\ \A k \in DOMAIN W : AudioWellFormed(W[k])
  BY DEF AudioRows, Cuts
<1>3. Over50(W) = Over50(A) + Over50(B)
  <2> DEFINE v == [k \in DOMAIN W |-> Exceeds(W[k], 50)]
             a == [k \in DOMAIN A |-> Exceeds(A[k], 50)]
             b == [k \in DOMAIN B |-> Exceeds(B[k], 50)]
  <2>1. v \in [DOMAIN W -> Int]
    BY <1>2 DEF AudioWellFormed, Exceeds
  <2>2. a = [k \in DOMAIN A |-> a[k]] /\ \A k \in DOMAIN A : a[k] = v[k]
    BY <1>1
  <2>3. b = [k \in DOMAIN B |-> b[k]] /\ \A k \in DOMAIN B : b[k] = v[k]
    BY <1>1
  <2> HIDE DEF v, a, b
  <2>4. SumFunction(v) = SumFunction(a) + SumFunction(b)
    BY <2>1, <2>2, <2>3, SumOfHalves
  <2> QED
    BY <2>4 DEF v, a, b, Over50, SumOf
<1>4. Over100(W) = Over100(A) + Over100(B)
  <2> DEFINE v == [k \in DOMAIN W |-> Exceeds(W[k], 100)]
             a == [k \in DOMAIN A |-> Exceeds(A[k], 100)]
             b == [k \in DOMAIN B |-> Exceeds(B[k], 100)]
  <2>1. v \in [DOMAIN W -> Int]
    BY <1>2 DEF AudioWellFormed, Exceeds
  <2>2. a = [k \in DOMAIN A |-> a[k]] /\ \A k \in DOMAIN A : a[k] = v[k]
    BY <1>1
  <2>3. b = [k \in DOMAIN B |-> b[k]] /\ \A k \in DOMAIN B : b[k] = v[k]
    BY <1>1
  <2> HIDE DEF v, a, b
  <2>4. SumFunction(v) = SumFunction(a) + SumFunction(b)
    BY <2>1, <2>2, <2>3, SumOfHalves
  <2> QED
    BY <2>4 DEF v, a, b, Over100, SumOf
<1>5. Errors(W) = Errors(A) + Errors(B)
  <2> DEFINE v == [k \in DOMAIN W |-> W[k].errors]
             a == [k \in DOMAIN A |-> A[k].errors]
             b == [k \in DOMAIN B |-> B[k].errors]
  <2>1. v \in [DOMAIN W -> Int]
    BY <1>2 DEF AudioWellFormed, Exceeds
  <2>2. a = [k \in DOMAIN A |-> a[k]] /\ \A k \in DOMAIN A : a[k] = v[k]
    BY <1>1
  <2>3. b = [k \in DOMAIN B |-> b[k]] /\ \A k \in DOMAIN B : b[k] = v[k]
    BY <1>1
  <2> HIDE DEF v, a, b
  <2>4. SumFunction(v) = SumFunction(a) + SumFunction(b)
    BY <2>1, <2>2, <2>3, SumOfHalves
  <2> QED
    BY <2>4 DEF v, a, b, Errors, SumOf
<1>6. Max(GapTimes(W)) = Max({Max(GapTimes(A)), Max(GapTimes(B))})
  <2> DEFINE v == [k \in DOMAIN W |-> W[k].gap]  P == DOMAIN A  Q == DOMAIN B
  <2>1. /\ GapTimes(W) = ValuesOf(v, P \cup Q)
        /\ GapTimes(A) = ValuesOf(v, P) /\ GapTimes(B) = ValuesOf(v, Q)
    <3>1. DOMAIN W = P \cup Q
      BY <1>2
    <3>2. \A k \in P \cup Q : v[k] = W[k].gap
      BY <1>2
    <3>3. /\ \A k \in P : A[k].gap = v[k]
          /\ \A k \in Q : B[k].gap = v[k]
      BY <1>1, <3>2
    <3>4. GapTimes(W) = ValuesOf(v, DOMAIN W)
      BY Zenon DEF GapTimes, ValuesOf
    <3> HIDE DEF v
    <3>5. GapTimes(A) = ValuesOf(v, P)
      BY <3>3 DEF GapTimes, ValuesOf
    <3>6. GapTimes(B) = ValuesOf(v, Q)
      BY <3>3 DEF GapTimes, ValuesOf
    <3> QED
      BY <3>1, <3>4, <3>5, <3>6
  <2>2. v \in [P \cup Q -> Nat] /\ IsFiniteSet(P \cup Q) /\ P # {} /\ Q # {}
    BY <1>2 DEF AudioWellFormed
  <2> HIDE DEF v, P, Q
  <2>3. Max(ValuesOf(v, P \cup Q)) = Max({Max(ValuesOf(v, P)), Max(ValuesOf(v, Q))})
    BY <2>2, GreatestOfTwoParts
  <2> QED
    BY <2>1, <2>3
<1>7. Max(Peaks(W)) = Max({Max(Peaks(A)), Max(Peaks(B))})
  <2> DEFINE v == [k \in DOMAIN W |-> W[k].peak]  P == DOMAIN A  Q == DOMAIN B
  <2>1. /\ Peaks(W) = ValuesOf(v, P \cup Q)
        /\ Peaks(A) = ValuesOf(v, P) /\ Peaks(B) = ValuesOf(v, Q)
    <3>1. DOMAIN W = P \cup Q
      BY <1>2
    <3>2. \A k \in P \cup Q : v[k] = W[k].peak
      BY <1>2
    <3>3. /\ \A k \in P : A[k].peak = v[k]
          /\ \A k \in Q : B[k].peak = v[k]
      BY <1>1, <3>2
    <3>4. Peaks(W) = ValuesOf(v, DOMAIN W)
      BY Zenon DEF Peaks, ValuesOf
    <3> HIDE DEF v
    <3>5. Peaks(A) = ValuesOf(v, P)
      BY <3>3 DEF Peaks, ValuesOf
    <3>6. Peaks(B) = ValuesOf(v, Q)
      BY <3>3 DEF Peaks, ValuesOf
    <3> QED
      BY <3>1, <3>4, <3>5, <3>6
  <2>2. v \in [P \cup Q -> Nat] /\ IsFiniteSet(P \cup Q) /\ P # {} /\ Q # {}
    BY <1>2 DEF AudioWellFormed
  <2> HIDE DEF v, P, Q
  <2>3. Max(ValuesOf(v, P \cup Q)) = Max({Max(ValuesOf(v, P)), Max(ValuesOf(v, Q))})
    BY <2>2, GreatestOfTwoParts
  <2> QED
    BY <2>1, <2>3
<1> QED
  BY <1>3, <1>4, <1>5, <1>6, <1>7

\* An audio window reports the sum of its halves.
LEMMA AudioJoins ==
  ASSUME NEW W, NEW A, NEW B, Cuts(W, A, B), AudioRows(W), DOMAIN A # {}, DOMAIN B # {},
         NEW w, w = Audio(W), NEW a, a = Audio(A), NEW b, b = Audio(B)
  PROVE  /\ w.rows = a.rows + b.rows /\ w.start = a.start /\ w.end = b.end
         /\ w.over50 = a.over50 + b.over50 /\ w.over100 = a.over100 + b.over100
         /\ w.errors = a.errors + b.errors /\ w.queue = b.queue
         /\ w.longest = Max({a.longest, b.longest}) /\ w.peak = Max({a.peak, b.peak})
<1>1. /\ Over50(W) = Over50(A) + Over50(B) /\ Over100(W) = Over100(A) + Over100(B)
      /\ Errors(W) = Errors(A) + Errors(B)
      /\ Max(GapTimes(W)) = Max({Max(GapTimes(A)), Max(GapTimes(B))})
      /\ Max(Peaks(W)) = Max({Max(Peaks(A)), Max(Peaks(B))})
  BY AudioOfHalves, SMTT(60)
<1>2. Count(W) = Count(A) + Count(B) /\ FirstRow(W) = FirstRow(A) /\ LastRow(W) = LastRow(B)
  BY EndsOfHalves
<1>3. DOMAIN W # {}
  BY DEF Cuts
<1>4. /\ w.rows = Count(W) /\ w.start = FirstRow(W).ms /\ w.end = LastRow(W).ms
      /\ w.longest = Max(GapTimes(W)) /\ w.over50 = Over50(W) /\ w.over100 = Over100(W)
      /\ w.queue = LastRow(W).queue /\ w.peak = Max(Peaks(W)) /\ w.errors = Errors(W)
  BY <1>3, AudioReport
<1>5. /\ a.rows = Count(A) /\ a.start = FirstRow(A).ms
      /\ a.longest = Max(GapTimes(A)) /\ a.over50 = Over50(A) /\ a.over100 = Over100(A)
      /\ a.peak = Max(Peaks(A)) /\ a.errors = Errors(A)
  BY AudioReport
<1>6. /\ b.rows = Count(B) /\ b.end = LastRow(B).ms
      /\ b.longest = Max(GapTimes(B)) /\ b.over50 = Over50(B) /\ b.over100 = Over100(B)
      /\ b.queue = LastRow(B).queue /\ b.peak = Max(Peaks(B)) /\ b.errors = Errors(B)
  BY AudioReport
<1> QED
  BY <1>1, <1>2, <1>4, <1>5, <1>6

\* An audio report adds up.
LEMMA AudioHolds ==
  ASSUME WellFormed(task), Solved PROVE AudioAdds
<1> SUFFICES ASSUME Answered("audio") PROVE AudioAdds
  BY Zenon DEF AudioAdds
<1>1. task.script = "audio" /\ answer # Pending /\ answer # NothingThere
  BY DEF Answered
<1>2. answer = Audio(Window)
  BY <1>1, Zenon DEF Solved, Answer, Window
<1>3. /\ TraceWellFormed(task) /\ CutWellFormed(task)
      /\ \A row \in Range(task.rows) : AudioWellFormed(row)
  BY <1>1 DEF WellFormed
<1>4. Cuts(Window, Before, After)
  BY <1>3, CutInTwo
<1>5. AudioRows(Window)
  BY <1>3, WindowFacts DEF AudioRows, IsWindow
<1>6. (DOMAIN Before = {} => Window = After) /\ (DOMAIN After = {} => Window = Before)
  BY <1>4, EmptyHalf
<1> DEFINE Joined(a, b) ==
      /\ answer.rows = a.rows + b.rows /\ answer.start = a.start /\ answer.end = b.end
      /\ answer.over50 = a.over50 + b.over50 /\ answer.over100 = a.over100 + b.over100
      /\ answer.errors = a.errors + b.errors /\ answer.queue = b.queue
      /\ answer.longest = Max({a.longest, b.longest}) /\ answer.peak = Max({a.peak, b.peak})
<1>7. DOMAIN Before # {} /\ DOMAIN After # {} => Joined(Audio(Before), Audio(After))
  BY <1>2, <1>4, <1>5, AudioJoins
<1> HIDE DEF Joined
<1>8. Halved(Audio, Joined)
  BY <1>2, <1>6, <1>7 DEF Halved
<1> QED
  BY <1>8 DEF AudioAdds, Halved, Joined

-----------------------------------------------------------------------------
(* Memory. *)

\* What rises along the rows rises together.
LEMMA AscendingRiseTogether ==
  ASSUME NEW T \in SUBSET Nat, NEW x \in [T -> Int], NEW y \in [T -> Int],
         \A j, k \in T : j <= k => x[j] <= x[k] /\ y[j] <= y[k]
  PROVE  RiseTogether(x, y, T)
BY DEF RiseTogether

\* What is left of the covariance when one of the factors is c: arithmetic.
LEMMA NothingToCovary ==
  ASSUME NEW n \in Int, NEW c \in Int, NEW X \in Int
  PROVE  n * (c * X) - X * (c * n) = 0
OBVIOUS

\* One of two families that does not change leaves no covariance.
LEMMA CovarianceOfConstant ==
  ASSUME NEW T, IsFiniteSet(T), NEW x \in [T -> Int], NEW y \in [T -> Int],
         NEW xy \in [T -> Int], \A k \in T : xy[k] = x[k] * y[k],
         NEW p \in T, \A k \in T : y[k] = y[p]
  PROVE  Covaries(T, x, y, xy) = 0
<1> DEFINE c == y[p]
<1>1. c \in Int /\ \A k \in T : y[k] = c
  OBVIOUS
<1> HIDE DEF c
<1>2. \A k \in T : xy[k] = c * x[k]
  <2> SUFFICES ASSUME NEW k \in T PROVE xy[k] = c * x[k]
    OBVIOUS
  <2> DEFINE a == x[k]
  <2>1. a \in Int /\ xy[k] = a * c
    BY <1>1
  <2> HIDE DEF a
  <2>2. xy[k] = c * a
    BY <1>1, <2>1
  <2> QED
    BY <2>2 DEF a
<1>3. SumFunction(xy) = c * SumFunction(x)
  BY <1>1, <1>2, SumScales
<1>4. Cardinality(T) \in Nat /\ SumFunction(y) = c * Cardinality(T)
  BY <1>1, SumOfConstant
<1>5. SumFunction(x) \in Int
  <2>1. PICK h : AddsUp(h, T, x) /\ SumFunction(x) = h[T]
    BY SumAddsUp
  <2> QED
    BY <2>1 DEF AddsUp
<1> DEFINE n == Cardinality(T)  X == SumFunction(x)
<1>6. n \in Int /\ X \in Int
  BY <1>1, <1>4, <1>5
<1> HIDE DEF n, X
<1>7. n * (c * X) - X * (c * n) = 0
  BY <1>1, <1>6, NothingToCovary
<1> QED
  BY <1>3, <1>4, <1>7 DEF n, X, Covaries

\* Memory that never shrinks and ends higher shows a slope, steady memory has none.
LEMMA LeaksHold ==
  ASSUME WellFormed(task), Solved PROVE LeaksShow
<1> SUFFICES ASSUME Answered("memory") PROVE LeaksShow
  BY DEF LeaksShow
<1> DEFINE T == DOMAIN Window
           x == [k \in T |-> Window[k].ms]  y == [k \in T |-> Window[k].rss]
           xy == [k \in T |-> Window[k].ms * Window[k].rss]
           xx == [k \in T |-> Window[k].ms * Window[k].ms]
           first == Min(T)  last == Max(T)
<1>1. task.script = "memory" /\ answer # Pending /\ answer # NothingThere
  BY DEF Answered
<1>2. answer = Memory(Window)
  BY <1>1, Zenon DEF Solved, Answer, Window
<1>3. TraceWellFormed(task) /\ \A row \in Range(task.rows) : row.rss \in Nat
  BY <1>1 DEF WellFormed
<1>4. T # {}
  BY <1>1, <1>2 DEF Memory
<1>5. T \in SUBSET Nat /\ IsFiniteSet(T)
      /\ \A k \in T : Window[k].ms \in Nat /\ Window[k].rss \in Nat
  <2>1. T \subseteq DOMAIN task.rows /\ DOMAIN task.rows \in SUBSET Nat
    <3>1. /\ T = {k \in DOMAIN task.rows : InWindow(task.rows[k], task.from, task.to)}
          /\ DOMAIN task.rows \in SUBSET Nat
      BY <1>3, WindowFacts DEF IsWindow
    <3> HIDE DEF T
    <3> QED
      BY <3>1
  <2>2. IsFiniteSet(T) /\ \A k \in T : Window[k] \in Range(task.rows) /\ Window[k].ms \in Nat
    BY <1>3, WindowFacts DEF IsWindow
  <2> HIDE DEF T
  <2> QED
    BY <1>3, <2>1, <2>2
<1>6. /\ first \in T /\ \A k \in T : first <= k
      /\ last \in T /\ \A k \in T : k <= last
  <2> HIDE DEF T
  <2> QED
    BY <1>4, <1>5, LeastOfNumbers, GreatestOfFinite
<1>7. \A j, k \in T : j <= k => Window[j].ms <= Window[k].ms
  BY <1>3, WindowAscends
<1>8. /\ Covariance(Window) = Covaries(T, x, y, xy)
      /\ Variance(Window) = Covaries(T, x, x, xx)
  BY Zenon DEF Covaries, Covariance, Variance, Count, SumOf
<1>9. /\ answer.start = Window[first].ms /\ answer.end = Window[last].ms
      /\ answer.least = Min({r.rss : r \in Range(Window)})
      /\ answer.most = Max({r.rss : r \in Range(Window)})
      /\ answer.delta = Window[last].rss - Window[first].rss
      /\ answer.slope = Quotient(Covariance(Window), Variance(Window))
  BY <1>2, <1>4 DEF Memory, FirstRow, LastRow, MaxOf
<1>10. /\ x \in [T -> Int] /\ y \in [T -> Int] /\ xy \in [T -> Int] /\ xx \in [T -> Int]
       /\ \A k \in T : xy[k] = x[k] * y[k]
       /\ \A k \in T : xx[k] = x[k] * x[k]
       /\ \A k \in T : x[k] = Window[k].ms /\ y[k] = Window[k].rss
  BY <1>5
<1> HIDE DEF T, x, y, xy, xx, first, last
<1>11. ASSUME \A j, k \in T : j < k => Window[j].rss <= Window[k].rss,
              answer.start < answer.end, answer.delta > 0
       PROVE  answer.slope[1] > 0 /\ answer.slope[2] > 0
  <2>1. x[first] < x[last] /\ y[first] < y[last]
    <3>1. first \in T /\ last \in T
      BY <1>6
    <3>2. /\ x[first] = Window[first].ms /\ x[last] = Window[last].ms
          /\ y[first] = Window[first].rss /\ y[last] = Window[last].rss
      BY <1>10, <3>1
    <3>3. y[first] \in Int /\ y[last] \in Int
      BY <1>10, <3>1
    <3>4. answer.start = x[first] /\ answer.end = x[last] /\ answer.delta = y[last] - y[first]
      BY <1>9, <3>2
    <3>5. QED
      BY <1>11, <3>3, <3>4
  <2>2. \A j, k \in T : j <= k => x[j] <= x[k] /\ y[j] <= y[k]
    <3> SUFFICES ASSUME NEW j \in T, NEW k \in T, j <= k
                 PROVE  x[j] <= x[k] /\ y[j] <= y[k]
      OBVIOUS
    <3>1. x[j] <= x[k]
      BY <1>7, <1>10
    <3>2. CASE j = k
      BY <1>5, <1>10, <3>1, <3>2
    <3>3. CASE j < k
      BY <1>10, <1>11, <3>1, <3>3
    <3>4. j \in Nat /\ k \in Nat
      BY <1>5
    <3> QED
      BY <3>2, <3>3, <3>4
  <2>3. RiseTogether(x, y, T)
    BY <1>5, <1>10, <2>2, AscendingRiseTogether
  <2>4. RiseTogether(x, x, T)
    BY <1>5, <1>10, <2>2, AscendingRiseTogether
  <2>5. Covariance(Window) > 0
    BY <1>5, <1>6, <1>8, <1>10, <2>1, <2>3, CovarianceIsPositive
  <2>6. Variance(Window) > 0
    BY <1>5, <1>6, <1>8, <1>10, <2>1, <2>4, CovarianceIsPositive
  <2>7. answer.slope = <<Covariance(Window), Variance(Window)>>
    BY <1>9, <2>6 DEF Quotient
  <2> QED
    BY <2>5, <2>6, <2>7
<1>12. ASSUME answer.start = answer.end PROVE answer.slope[1] = 0
  <2>1. ASSUME NEW k \in T PROVE x[k] = x[first]
    <3>1. x[first] <= x[k] /\ x[k] <= x[last]
      BY <1>6, <1>7, <1>10
    <3>2. x[first] = x[last] /\ x[first] \in Int /\ x[k] \in Int
      BY <1>6, <1>9, <1>10, <1>12
    <3> QED
      BY <3>1, <3>2
  <2>2. Covaries(T, x, x, xx) = 0
    BY <1>5, <1>6, <1>10, <2>1, CovarianceOfConstant
  <2> QED
    BY <1>8, <1>9, <2>2 DEF Quotient
<1>13. ASSUME answer.least = answer.most PROVE answer.slope[1] = 0
  <2> DEFINE R == {r.rss : r \in Range(Window)}
  <2>1. R = ValuesOf(y, T) /\ y \in [T -> Nat]
    BY <1>5, <1>10 DEF ValuesOf, Range, T, y
  <2>2. \A k \in T : y[k] \in R /\ y[k] \in Nat
    BY <2>1 DEF ValuesOf
  <2>3. R \in SUBSET Nat /\ R # {}
    BY <1>4, <2>1 DEF ValuesOf
  <2>4. answer.least = Min(R) /\ answer.most = Max(R)
    BY <1>9
  <2> HIDE DEF R
  <2>5. \A k \in T : y[k] <= Max(R)
    BY <1>4, <1>5, <2>1, GreatestOfFamily
  <2>6. Min(R) \in Nat /\ \A m \in R : Min(R) <= m
    BY <2>3, LeastOfNumbers
  <2>7. ASSUME NEW k \in T PROVE y[k] = Min(R)
    <3>1. Min(R) <= y[k] /\ y[k] <= Max(R) /\ y[k] \in Nat
      BY <2>2, <2>5, <2>6
    <3>2. Min(R) = Max(R)
      BY <1>13, <2>4
    <3> QED
      BY <2>6, <3>1, <3>2
  <2>8. Covariance(Window) = 0
    <3>1. \A k \in T : y[k] = y[first]
      BY <1>6, <2>7
    <3>2. Covaries(T, x, y, xy) = 0
      BY <1>5, <1>6, <1>10, <3>1, CovarianceOfConstant
    <3> QED
      BY <1>8, <3>2
  <2> QED
    BY <1>9, <2>8 DEF Quotient
<1> QED
  BY <1>11, <1>12, <1>13 DEF LeaksShow, Window, T

\* The windows of the three summaries add up.
LEMMA WindowsHold ==
  ASSUME WellFormed(task), Solved PROVE WindowsAdd
BY CadenceHolds, AudioHolds, LeaksHold DEF WindowsAdd

-----------------------------------------------------------------------------
(* What the scripts answer. *)

\* Whatever an object, its known functions and its call destinations look like:
\* infer_hidden_object_functions places all of its pseudo-functions or none, in
\* free text, and leaves no hole behind them that could be a function.
THEOREM HiddenIsRight == TaskSpec => []HiddenFits
<1>1. Solved /\ (\E set \in Tasks : task \in set) => HiddenFits
  BY TasksAssumption, HiddenHolds DEF TasksAssumption
<1> QED
  BY <1>1, TaskIsSolved, PTL

\* Over any objects, overlays that share addresses included, derive_manual_functions
\* hands a name to the recompiler twice only for one address of two overlays or
\* where a name is another's with its address behind it, and what it infers fits
\* between the functions that the object, the linker script and the audit place there.
THEOREM RecoveryIsSound == TaskSpec => []RecoveredFits
<1>1. Solved /\ (\E set \in Tasks : task \in set) => RecoveredFits
  BY TasksAssumption, RecoveredHolds DEF TasksAssumption
<1> QED
  BY <1>1, TaskIsSolved, PTL

\* Whatever the symbol table, each function without a size that no warning of
\* derive_function_sizes names gets one, and every size handed on under its name is
\* right for it: up to the next symbol or the end of the object's text.
THEOREM SizesAreRight == TaskSpec => []SizesAreExact
<1>1. Solved /\ (\E set \in Tasks : task \in set) => SizesAreExact
  BY TasksAssumption, SizesHold DEF TasksAssumption
<1> QED
  BY <1>1, TaskIsSolved, PTL

\* In whatever order the subsegments are listed, no byte of the ROM is verified as
\* part of two RSP blobs; in every ascending list no other subsegment starts inside
\* the data given to aspMain.
THEOREM RangesAreApart == TaskSpec => []RangesKeepApart
<1>1. Solved /\ (\E set \in Tasks : task \in set) => RangesKeepApart
  BY TasksAssumption, BlobsHold, DatabinHolds DEF TasksAssumption, RangesKeepApart
<1> QED
  BY <1>1, TaskIsSolved, PTL

\* Cut anywhere, a window of a cadence or audio trace reports the sum of its
\* halves, and a leak shows in the slope of every window of a memory trace: for
\* traces of any length, with any values and any bounds of the window.
THEOREM WindowsAlwaysAdd == TaskSpec => []WindowsAdd
<1>1. Solved /\ (\E set \in Tasks : task \in set) => WindowsAdd
  BY TasksAssumption, WindowsHold DEF TasksAssumption
<1> QED
  BY <1>1, TaskIsSolved, PTL

-----------------------------------------------------------------------------
(* Link. *)

\* Where Min looks for the generated table.
LEMMA AutoIsSecond == SelectInSeq(Injected, LAMBDA script : script = "auto") = 2
<1> DEFINE I == {i \in 1..Len(Injected) : Injected[i] = "auto"}
<1>1. I = {2}
  BY DEF Injected
<1>2. Min(I) = 2
  BY <1>1 DEF Min
<1> QED
  BY <1>1, <1>2 DEF SelectInSeq

\* What insert does at the third place.
LEMMA InsertBehindTwo ==
  ASSUME NEW a, NEW b, NEW c, NEW d
  PROVE  InsertAt(<<a, b, c>>, 3, d) = <<a, b, d, c>>
<1> DEFINE S == {a, b, c, d}  s == <<a, b, c>>  t == <<a, b, d, c>>
           x == SubSeq(s, 1, 2)  w == <<d>>  y == SubSeq(s, 3, 3)  p == x \o w  z == p \o y
<1>1. s \in Seq(S) /\ Len(s) = 3 /\ s[1] = a /\ s[2] = b /\ s[3] = c
  OBVIOUS
<1>2. t \in Seq(S) /\ Len(t) = 4 /\ t[1] = a /\ t[2] = b /\ t[3] = d /\ t[4] = c
  OBVIOUS
<1>3. w \in Seq(S) /\ Len(w) = 1 /\ w[1] = d
  OBVIOUS
<1> HIDE DEF s, t, S, w
<1>4. x \in Seq(S) /\ Len(x) = 2 /\ x[1] = a /\ x[2] = b
  <2>1. \A i \in 1..2 : s[i] \in S
    BY <1>1, ElementOfSeq
  <2>2. /\ x \in Seq(S) /\ Len(x) = IF 1 <= 2 THEN 2 - 1 + 1 ELSE 0
        /\ \A i \in 1 .. 2 - 1 + 1 : x[i] = s[1 + i - 1]
    BY <2>1, SubSeqProperties
  <2> HIDE DEF x
  <2> QED
    BY <1>1, <2>2
<1>5. y \in Seq(S) /\ Len(y) = 1 /\ y[1] = c
  <2>1. \A i \in 3..3 : s[i] \in S
    BY <1>1, ElementOfSeq
  <2>2. /\ y \in Seq(S) /\ Len(y) = IF 3 <= 3 THEN 3 - 3 + 1 ELSE 0
        /\ \A i \in 1 .. 3 - 3 + 1 : y[i] = s[3 + i - 1]
    BY <2>1, SubSeqProperties
  <2> HIDE DEF y
  <2> QED
    BY <1>1, <2>2
<1> HIDE DEF x, y
<1>6. p \in Seq(S) /\ Len(p) = 3 /\ p[1] = a /\ p[2] = b /\ p[3] = d
  <2>1. /\ p \in Seq(S) /\ Len(p) = Len(x) + Len(w)
        /\ \A i \in 1 .. Len(x) + Len(w) : p[i] = IF i <= Len(x) THEN x[i] ELSE w[i - Len(x)]
    BY <1>3, <1>4, ConcatProperties
  <2> HIDE DEF p
  <2> QED
    BY <1>3, <1>4, <2>1
<1> HIDE DEF p
<1>7. z \in Seq(S) /\ Len(z) = 4 /\ z[1] = a /\ z[2] = b /\ z[3] = d /\ z[4] = c
  <2>1. /\ z \in Seq(S) /\ Len(z) = Len(p) + Len(y)
        /\ \A i \in 1 .. Len(p) + Len(y) : z[i] = IF i <= Len(p) THEN p[i] ELSE y[i - Len(p)]
    BY <1>5, <1>6, ConcatProperties
  <2> HIDE DEF z
  <2> QED
    BY <1>5, <1>6, <2>1
<1>8. \A i \in 1..Len(z) : z[i] = t[i]
  BY <1>2, <1>7
<1>9. z = t
  BY <1>2, <1>7, <1>8, SeqEqual, Zenon
<1> QED
  BY <1>1, <1>9 DEF InsertAt, s, t, w, x, y, p

\* What append does to two scripts.
LEMMA AppendToTwo ==
  ASSUME NEW a, NEW b, NEW c PROVE Append(<<a, b>>, c) = <<a, b, c>>
<1> DEFINE S == {a, b, c}  s == Append(<<a, b>>, c)  t == <<a, b, c>>
<1>1. <<a, b>> \in Seq(S) /\ c \in S /\ Len(<<a, b>>) = 2 /\ <<a, b>>[1] = a /\ <<a, b>>[2] = b
  OBVIOUS
<1>2. t \in Seq(S) /\ Len(t) = 3 /\ t[1] = a /\ t[2] = b /\ t[3] = c
  OBVIOUS
<1>3. s \in Seq(S) /\ Len(s) = 3 /\ s[1] = a /\ s[2] = b /\ s[3] = c
  BY <1>1, AppendProperties
<1> HIDE DEF S, s, t
<1>4. \A i \in 1..Len(s) : s[i] = t[i]
  BY <1>2, <1>3
<1> QED
  BY <1>2, <1>3, <1>4, SeqEqual, Zenon DEF s, t

\* The rewired command has the filtered table, the corrections and the provided symbols.
LEMMA RewireResult ==
  InsertAt(ReplaceAt(Injected, 2, "filtered"), 3, "corrections") = Rewired
<1>1. ReplaceAt(Injected, 2, "filtered") = <<"undefined", "filtered", "provided">>
  BY DEF ReplaceAt, Injected
<1> QED
  BY <1>1, InsertBehindTwo DEF Rewired

\* What the link uses, once per shape of the command.
LEMMA PristineUses ==
  ASSUME command = Pristine
  PROVE  Uses("auto") /\ ~Uses("filtered") /\ ~Uses("corrections") /\ ~Uses("provided")
<1>1. /\ DOMAIN Pristine = {1, 2} /\ Pristine[1] = "undefined" /\ Pristine[2] = "auto"
  BY DEF Pristine
<1> QED
  BY <1>1 DEF Uses

\* The rewired command no longer reads the generated table.
LEMMA RewiredUses ==
  ASSUME command = Rewired
  PROVE  ~Uses("auto") /\ Uses("filtered") /\ Uses("corrections") /\ Uses("provided")
<1>1. /\ DOMAIN Rewired = {1, 2, 3, 4} /\ Rewired[1] = "undefined" /\ Rewired[2] = "filtered"
      /\ Rewired[3] = "corrections" /\ Rewired[4] = "provided"
  BY DEF Rewired
<1> QED
  BY <1>1 DEF Uses

\* The first link misses what neither the generated table nor an object has.
LEMMA FirstUndefined ==
  ASSUME command = Pristine PROVE Undefined = Missing
<1>1. ASSUME NEW n \in Names
      PROVE  Resolved(n) = <<"undefined">> <=> n \notin AutoNames /\ n \notin Defined
  BY PristineUses DEF Resolved, Assigned
<1> QED
  BY <1>1 DEF Undefined, Missing, Names, AutoNames, Defined

-----------------------------------------------------------------------------
(* The second link. *)

\* A name says which symbol is meant, so the sets of names say what the symbol is.
LEMMA SymbolOfItsName ==
  ASSUME InputsAssumption, symbols \in Inputs, NEW s \in symbols
  PROVE  /\ s.object \in {"none", "text", "data"} /\ s.auto \in BOOLEAN
         /\ s.name \in Names
         /\ s.name \in Defined <=> s.object # "none"
         /\ s.name \in TextNames <=> s.object = "text"
         /\ s.name \in AutoNames <=> s.auto
<1>1. \A t \in symbols : s.name = t.name => s = t
  BY DEF InputsAssumption
<1>2. s.object \in {"none", "text", "data"} /\ s.auto \in BOOLEAN
  BY DEF InputsAssumption
<1>3. s.name \in Names
  BY DEF Names
<1>4. s.name \in Defined <=> s.object # "none"
  BY <1>1 DEF Defined
<1>5. s.name \in TextNames <=> s.object = "text"
  BY <1>1 DEF TextNames
<1>6. s.name \in AutoNames <=> s.auto
  BY <1>1 DEF AutoNames
<1> QED
  BY <1>2, <1>3, <1>4, <1>5, <1>6

\* With all three files as the scripts write them each symbol is what the
\* contract says.
LEMMA SecondResolves ==
  ASSUME InputsAssumption, symbols \in Inputs, NEW s \in symbols,
         command = Rewired, step = "second", FilesInv
  PROVE  /\ Resolved(s.name) = Contract(s)
         /\ Resolved(s.name) # <<"undefined">>
<1> DEFINE n == s.name
<1>1. /\ ~Assigned(n) \/ n \in AutoNames \ Defined
      /\ n \in AutoNames \ Defined => Assigned(n)
  BY RewiredUses DEF Assigned, FilesInv, PastFilter
<1>2. /\ DOMAIN corrected = Correctable
      /\ \A m \in Correctable : corrected[m] = encoded_address(m)
  BY DEF FilesInv, PastCorrect
<1>3. /\ DOMAIN provided = Missing
      /\ \A m \in Missing : provided[m] = symbol_address(m)
  BY DEF FilesInv, PastRecover
<1>4. n \in Correctable <=> s.object = "data" /\ encoded_address(n) # NoAddress
  BY SymbolOfItsName DEF Correctable
<1>5. n \in Missing <=> s.object = "none" /\ ~s.auto
  BY SymbolOfItsName DEF Missing
<1>6. CASE s.object = "data" /\ encoded_address(n) # NoAddress
  <2>1. Resolved(n) = <<"address", encoded_address(n)>>
    BY <1>2, <1>4, <1>6, RewiredUses DEF Resolved
  <2>2. Contract(s) = <<"address", encoded_address(n)>>
    BY <1>6 DEF Contract
  <2> QED
    BY <2>1, <2>2
<1>7. CASE s.object = "text" \/ (s.object = "data" /\ encoded_address(n) = NoAddress)
  <2>1. Resolved(n) = <<"object">>
    BY <1>1, <1>2, <1>4, <1>7, SymbolOfItsName DEF Resolved
  <2>2. Contract(s) = <<"object">>
    BY <1>7 DEF Contract
  <2> QED
    BY <2>1, <2>2
<1>8. CASE s.object = "none" /\ s.auto
  <2>1. Resolved(n) = <<"generated">>
    BY <1>1, <1>2, <1>4, <1>8, SymbolOfItsName DEF Resolved
  <2>2. Contract(s) = <<"generated">>
    BY <1>8 DEF Contract
  <2> QED
    BY <2>1, <2>2
<1>9. CASE s.object = "none" /\ ~s.auto
  <2>1. Resolved(n) = <<"address", symbol_address(n)>>
    BY <1>1, <1>2, <1>3, <1>4, <1>5, <1>9, RewiredUses, SymbolOfItsName DEF Resolved
  <2>2. Contract(s) = <<"address", symbol_address(n)>>
    BY <1>9 DEF Contract
  <2> QED
    BY <2>1, <2>2
<1> QED
  BY <1>6, <1>7, <1>8, <1>9, SymbolOfItsName

\* The second link leaves no name undefined.
LEMMA SecondLinks ==
  ASSUME InputsAssumption, symbols \in Inputs,
         command = Rewired, step = "second", FilesInv
  PROVE  Undefined = {}
BY SecondResolves DEF Undefined, Names

-----------------------------------------------------------------------------
(* The steps. *)

\* LinkInv holds at first and is kept by every step of the link.
LEMMA LinkInitInv ==
  ASSUME LinkInit PROVE LinkInv
<1>1. symbols \in Inputs /\ step = "configure" /\ linked = Lost
  BY DEF LinkInit
<1>2. CommandInv
  BY <1>1 DEF CommandInv
<1>3. FilesInv
  BY <1>1 DEF FilesInv, PastRecover, PastFilter, PastCorrect
<1>4. RecoveredLinkIsExact /\ RefusedIsHopeless
  BY <1>1 DEF RecoveredLinkIsExact, RefusedIsHopeless
<1> QED
  BY <1>1, <1>2, <1>3, <1>4 DEF LinkInv

\* The symbols never change, so what is said of them alone stays.
LEMMA SymbolsStay ==
  ASSUME symbols' = symbols
  PROVE  /\ Names' = Names /\ Defined' = Defined /\ TextNames' = TextNames
         /\ AutoNames' = AutoNames /\ Missing' = Missing /\ Correctable' = Correctable
         /\ Recoverable' = Recoverable
BY DEF Names, Defined, TextNames, AutoNames, Missing, Correctable, Recoverable

\* A step that stores no link keeps RecoveredLinkIsExact.
LEMMA NothingLinked ==
  ASSUME linked' = Lost PROVE RecoveredLinkIsExact'
BY DEF RecoveredLinkIsExact

LEMMA ConfigureInv ==
  ASSUME LinkInv, Configure PROVE LinkInv'
<1>1. /\ symbols' = symbols /\ step = "configure" /\ step' = "first" /\ command' = Pristine
      /\ linked' = linked
  BY DEF Configure
<1>2. linked = Lost /\ symbols \in Inputs
  BY <1>1 DEF LinkInv
<1>3. CommandInv'
  BY <1>1 DEF CommandInv
<1>4. FilesInv'
  BY <1>1 DEF FilesInv, PastRecover, PastFilter, PastCorrect
<1>5. RefusedIsHopeless'
  BY <1>1 DEF RefusedIsHopeless
<1> QED
  BY <1>1, <1>2, <1>3, <1>4, <1>5, NothingLinked DEF LinkInv

LEMMA FirstNinjaInv ==
  ASSUME LinkInv, FirstNinja PROVE LinkInv'
<1>1. /\ symbols' = symbols /\ step = "first" /\ command' = command
      /\ step' = "linked" \/ (step' = "recover" /\ linked' = linked)
  BY DEF FirstNinja, Ninja
<1>2. linked = Lost /\ symbols \in Inputs /\ command = Pristine
  BY <1>1 DEF LinkInv, CommandInv
<1>3. CommandInv'
  BY <1>1, <1>2 DEF CommandInv
<1>4. FilesInv'
  BY <1>1 DEF FilesInv, PastRecover, PastFilter, PastCorrect
<1>5. RefusedIsHopeless'
  BY <1>1 DEF RefusedIsHopeless
<1>6. RecoveredLinkIsExact'
  BY <1>1, <1>2, PristineUses DEF RecoveredLinkIsExact, Uses
<1> QED
  BY <1>1, <1>2, <1>3, <1>4, <1>5, <1>6 DEF LinkInv

LEMMA RecoverInv ==
  ASSUME InputsAssumption, LinkInv, Recover PROVE LinkInv'
<1>1. symbols' = symbols /\ step = "recover" /\ command' = command /\ linked' = linked
  BY DEF Recover
<1>2. linked = Lost /\ symbols \in Inputs /\ command = Pristine
  BY <1>1 DEF LinkInv, CommandInv
<1>3. Undefined = Missing
  BY <1>2, FirstUndefined
<1>4. CASE \E n \in Undefined : symbol_address(n) = NoAddress
  <2>1. step' = "refused"
    BY <1>4 DEF Recover
  <2>2. ~Recoverable
    <3>1. PICK n \in Missing : symbol_address(n) = NoAddress
      BY <1>3, <1>4
    <3>2. PICK s \in symbols : s.name = n
      BY <3>1 DEF Missing, Names
    <3>3. s.object = "none" /\ ~s.auto
      BY <1>2, <3>1, <3>2, SymbolOfItsName DEF Missing
    <3> QED
      BY <3>1, <3>2, <3>3 DEF Recoverable
  <2>3. CommandInv' /\ FilesInv'
    BY <2>1 DEF CommandInv, FilesInv, PastRecover, PastFilter, PastCorrect
  <2>4. RefusedIsHopeless'
    BY <1>1, <2>1, <2>2, SymbolsStay DEF RefusedIsHopeless
  <2> QED
    BY <1>1, <1>2, <2>1, <2>3, <2>4, NothingLinked DEF LinkInv
<1>5. CASE ~\E n \in Undefined : symbol_address(n) = NoAddress
  <2>1. step' = "inject" /\ provided' = [n \in Missing |-> symbol_address(n)]
    BY <1>3, <1>5 DEF Recover
  <2>2. CommandInv'
    BY <1>1, <1>2, <2>1 DEF CommandInv
  <2>3. FilesInv'
    BY <1>1, <1>3, <1>5, <2>1, SymbolsStay DEF FilesInv, PastRecover, PastFilter, PastCorrect
  <2>4. RefusedIsHopeless'
    BY <2>1 DEF RefusedIsHopeless
  <2> QED
    BY <1>1, <1>2, <2>1, <2>2, <2>3, <2>4, NothingLinked DEF LinkInv
<1> QED
  BY <1>4, <1>5

LEMMA InjectInv ==
  ASSUME LinkInv, Inject PROVE LinkInv'
<1>1. /\ symbols' = symbols /\ step = "inject" /\ linked' = linked
      /\ provided' = provided /\ filtered' = filtered /\ corrected' = corrected
  BY DEF Inject, files
<1>2. linked = Lost /\ symbols \in Inputs /\ command = Pristine /\ FilesInv
  BY <1>1 DEF LinkInv, CommandInv
<1>3. command' = Append(Pristine, "provided") /\ step' = "filter"
  BY <1>2 DEF Inject
<1>4. Append(Pristine, "provided") = Injected
  BY AppendToTwo DEF Pristine, Injected
<1>5. CommandInv'
  BY <1>3, <1>4 DEF CommandInv
<1>6. FilesInv'
  BY <1>1, <1>2, <1>3, SymbolsStay DEF FilesInv, PastRecover, PastFilter, PastCorrect
<1>7. RefusedIsHopeless'
  BY <1>3 DEF RefusedIsHopeless
<1> QED
  BY <1>1, <1>2, <1>3, <1>5, <1>6, <1>7, NothingLinked DEF LinkInv

LEMMA FilterInv ==
  ASSUME LinkInv, Filter PROVE LinkInv'
<1>1. /\ symbols' = symbols /\ step = "filter" /\ linked' = linked
      /\ command' = command /\ provided' = provided /\ corrected' = corrected
  BY DEF Filter
<1>2. linked = Lost /\ symbols \in Inputs /\ command = Injected /\ FilesInv
  BY <1>1 DEF LinkInv, CommandInv
<1>3. CASE AutoNames \cap Defined = {}
  <2>1. step' = "refused"
    BY <1>3 DEF Filter
  <2>2. ~Recoverable
    BY <1>3 DEF Recoverable, AutoNames, Defined
  <2>3. CommandInv' /\ FilesInv'
    BY <2>1 DEF CommandInv, FilesInv, PastRecover, PastFilter, PastCorrect
  <2>4. RefusedIsHopeless'
    BY <1>1, <2>1, <2>2, SymbolsStay DEF RefusedIsHopeless
  <2> QED
    BY <1>1, <1>2, <2>1, <2>3, <2>4, NothingLinked DEF LinkInv
<1>4. CASE AutoNames \cap Defined # {}
  <2>1. step' = "correct" /\ filtered' = AutoNames \ Defined
    BY <1>4 DEF Filter
  <2>2. CommandInv'
    BY <1>1, <1>2, <2>1 DEF CommandInv
  <2>3. FilesInv'
    BY <1>1, <1>2, <2>1, SymbolsStay DEF FilesInv, PastRecover, PastFilter, PastCorrect
  <2>4. RefusedIsHopeless'
    BY <2>1 DEF RefusedIsHopeless
  <2> QED
    BY <1>1, <1>2, <2>1, <2>2, <2>3, <2>4, NothingLinked DEF LinkInv
<1> QED
  BY <1>3, <1>4

LEMMA CorrectInv ==
  ASSUME LinkInv, Correct PROVE LinkInv'
<1>1. /\ symbols' = symbols /\ step = "correct" /\ step' = "rewire" /\ linked' = linked
      /\ command' = command /\ provided' = provided /\ filtered' = filtered
      /\ corrected' = [n \in Correctable |-> encoded_address(n)]
  BY DEF Correct
<1>2. linked = Lost /\ symbols \in Inputs /\ command = Injected /\ FilesInv
  BY <1>1 DEF LinkInv, CommandInv
<1>3. CommandInv'
  BY <1>1, <1>2 DEF CommandInv
<1>4. FilesInv'
  BY <1>1, <1>2, SymbolsStay DEF FilesInv, PastRecover, PastFilter, PastCorrect
<1>5. RefusedIsHopeless'
  BY <1>1 DEF RefusedIsHopeless
<1> QED
  BY <1>1, <1>2, <1>3, <1>4, <1>5, NothingLinked DEF LinkInv

LEMMA RewireInv ==
  ASSUME InputsAssumption, LinkInv, Rewire PROVE LinkInv'
<1>1. /\ symbols' = symbols /\ step = "rewire" /\ step' = "second" /\ linked' = linked
      /\ provided' = provided /\ filtered' = filtered /\ corrected' = corrected
  BY DEF Rewire, files
<1>2. linked = Lost /\ symbols \in Inputs /\ command = Injected /\ FilesInv
  BY <1>1 DEF LinkInv, CommandInv
<1>3. command' = InsertAt(ReplaceAt(Injected, 2, "filtered"), 2 + 1, "corrections")
  BY <1>2, AutoIsSecond DEF Rewire
<1>4. command' = Rewired
  BY <1>3, RewireResult
<1>5. CommandInv'
  BY <1>1, <1>4 DEF CommandInv
<1>6. FilesInv'
  BY <1>1, <1>2, SymbolsStay DEF FilesInv, PastRecover, PastFilter, PastCorrect
<1>8. RefusedIsHopeless'
  BY <1>1 DEF RefusedIsHopeless
<1> QED
  BY <1>1, <1>2, <1>5, <1>6, <1>8, NothingLinked DEF LinkInv

LEMMA SecondNinjaInv ==
  ASSUME InputsAssumption, LinkInv, SecondNinja PROVE LinkInv'
<1>1. symbols' = symbols /\ step = "second" /\ command' = command
  BY DEF SecondNinja, Ninja
<1>2. symbols \in Inputs /\ command = Rewired /\ FilesInv
  BY <1>1 DEF LinkInv, CommandInv
<1>3. linked' = [n \in Names |-> Resolved(n)] /\ step' = "linked"
  BY <1>1, <1>2, SecondLinks DEF SecondNinja, Ninja
<1>4. CommandInv'
  BY <1>3 DEF CommandInv
<1>5. FilesInv'
  BY <1>3 DEF FilesInv, PastRecover, PastFilter, PastCorrect
<1>6. RefusedIsHopeless'
  BY <1>3 DEF RefusedIsHopeless
<1>7. ASSUME NEW s \in symbols
      PROVE  linked'[s.name] = Contract(s)
  BY <1>1, <1>2, <1>3, SecondResolves DEF Names
<1>8. RecoveredLinkIsExact'
  BY <1>1, <1>7 DEF RecoveredLinkIsExact, Contract
<1> QED
  BY <1>1, <1>2, <1>3, <1>4, <1>5, <1>6, <1>8 DEF LinkInv

LEMMA RestartInv ==
  ASSUME LinkInv, Restart PROVE LinkInv'
<1>1. /\ symbols' = symbols /\ step # "linked" /\ step' = "configure" /\ linked' = linked
  BY DEF Restart
<1>2. linked = Lost /\ symbols \in Inputs
  BY <1>1 DEF LinkInv
<1>3. CommandInv' /\ FilesInv'
  BY <1>1 DEF CommandInv, FilesInv, PastRecover, PastFilter, PastCorrect
<1>4. RefusedIsHopeless'
  BY <1>1 DEF RefusedIsHopeless
<1> QED
  BY <1>1, <1>2, <1>3, <1>4, NothingLinked DEF LinkInv

LEMMA LinkStutters ==
  ASSUME LinkInv, UNCHANGED linkVars PROVE LinkInv'
BY DEF LinkInv, linkVars, files, CommandInv, FilesInv, PastRecover, PastFilter, PastCorrect,
       RecoveredLinkIsExact, RefusedIsHopeless, Recoverable, Undefined, Resolved, Assigned,
       Uses, Names, Defined, TextNames, AutoNames, Missing, Correctable, Contract

\* LinkInv is inductive.
LEMMA LinkInvariant == LinkSpec => []LinkInv
<1>1. LinkInit => LinkInv
  BY LinkInitInv
<1>2. ASSUME LinkInv, [LinkNext]_linkVars
      PROVE  LinkInv'
  <2> USE InputsAssumption
  <2>1. CASE LinkStep
    BY <1>2, <2>1, ConfigureInv, FirstNinjaInv, RecoverInv, InjectInv, FilterInv, CorrectInv,
       RewireInv, SecondNinjaInv DEF LinkStep
  <2>2. CASE Restart
    BY <1>2, <2>2, RestartInv
  <2>3. CASE Finished \/ UNCHANGED linkVars
    BY <1>2, <2>3, LinkStutters DEF Finished
  <2> QED
    BY <1>2, <2>1, <2>2, <2>3 DEF LinkNext
<1> QED
  BY <1>1, <1>2, PTL DEF LinkSpec

\* Whatever names the decomp leaves undefined and however often the build is
\* killed and started again: a second link that succeeds has resolved every
\* symbol to the address its name or the corrections call for.
THEOREM LinkIsExact == LinkSpec => []RecoveredLinkIsExact
<1>1. LinkInv => RecoveredLinkIsExact
  BY DEF LinkInv
<1> QED
  BY <1>1, LinkInvariant, PTL

\* The recovery only gives up on a program it could not have linked, and never
\* once the second link has begun.
THEOREM LinkRefusesLittle == LinkSpec => []RefusalsAreDeserved
<1>1. LinkInv => RefusalsAreDeserved
  <2> SUFFICES ASSUME LinkInv PROVE RefusalsAreDeserved
    OBVIOUS
  <2>1. RefusedIsHopeless
    BY DEF LinkInv
  <2>2. step = "second" => Undefined = {}
    BY InputsAssumption, SecondLinks DEF LinkInv, CommandInv
  <2> QED
    BY <2>1, <2>2 DEF RefusalsAreDeserved
<1> QED
  BY <1>1, LinkInvariant, PTL

-----------------------------------------------------------------------------
(* Chain: what a guard says about the files. *)

\* What the guard of a stage says about the files it is about to read.
LEMMA ConfigReady ==
  ASSUME At("config") PROVE job = "config" /\ G1Current
BY DEF At, Ready

LEMMA RecompileReady ==
  ASSUME At("cpu") PROVE job = "cpu" /\ config \in Builds
BY DEF At, Ready

LEMMA AuditMayRun ==
  ASSUME At("audit") PROVE job = "audit" /\ AuditReady
BY DEF At, Ready

LEMMA RecordReady ==
  ASSUME At("record") PROVE job = "record" /\ elf \in Exact
BY DEF At, Ready, ExactRebuild

LEMMA G1IsFile ==
  ASSUME ChainTypeOK, Intact(g1) PROVE g1 \in G1File
BY DEF ChainTypeOK, Intact

LEMMA CurrentElf ==
  ASSUME ChainTypeOK, G1Current PROVE elf \in Builds
BY G1IsFile DEF G1Current, G1File

LEMMA AuditIsRecord ==
  ASSUME ChainTypeOK, Intact(g2) PROVE g2 \in AuditRecord /\ g2.of \in DigestRecord
BY DEF ChainTypeOK, Intact, AuditRecord

-----------------------------------------------------------------------------
(* The types.  An audit can only record files of the kinds AuditReady asks   *)
(* for; this is why DigestRecord has no place for a missing file.            *)

\* What the audit digests is there to be digested.
LEMMA DigestsTyped ==
  ASSUME ChainAssumption, ChainTypeOK, JobInv, At("audit")
  PROVE  Digests \in DigestRecord
<1>1. /\ Present(config) /\ Present(rspConfig) /\ Present(metadata)
      /\ Present(g1) /\ Present(rsp) /\ Intact(dynamic)
  BY AuditMayRun DEF AuditReady
<1>2. /\ g1 \in G1File \cup {Torn} /\ config \in Builds \cup {Torn}
      /\ rspConfig \in {Torn, Whole} /\ metadata \in Builds \cup {Torn}
      /\ dynamic \in Stamps /\ rsp \in {Torn, Whole}
      /\ cpu \in [Files -> Builds \cup {None, Torn}]
  BY <1>1 DEF ChainTypeOK, Present, Intact
<1> QED
  BY <1>2 DEF Digests, DigestRecord

\* A file that a kill cuts is torn or what it was.
LEMMA CutTyped ==
  ASSUME NEW stage, NEW file, NEW T, file \in T, Torn \in T, NEW new \in Cut(stage, file)
  PROVE  new \in T
BY DEF Cut

\* ChainTypeOK holds at first and is kept by every step.
LEMMA TypeInit == ASSUME ChainAssumption, ChainInit PROVE ChainTypeOK
BY DEF ChainAssumption, ChainInit, ChainTypeOK, Idle

LEMMA TypeStep ==
  ASSUME ChainAssumption, IInv, [ChainNext]_chain
  PROVE  ChainTypeOK'
<1> USE ChainAssumption DEF ChainAssumption, IInv, inputs, derived, output, Idle, Stages
<1>1. CASE Rebuild
  BY <1>1 DEF ChainTypeOK, Rebuild, Change
<1>2. CASE RecordG1
  <2>1. elf \in Builds
    BY <1>2, RecordReady DEF RecordG1
  <2>2. g1' \in G1File
    BY <1>2, <2>1 DEF RecordG1, FreshFor, G1File
  <2> QED
    BY <1>2, <2>2 DEF RecordG1, ChainTypeOK
<1>3. CASE EditAllowlist
  BY <1>3 DEF ChainTypeOK, EditAllowlist, Change
<1>4. CASE StartGenerate
  BY <1>4 DEF ChainTypeOK, StartGenerate
<1>5. CASE WriteInventory
  BY <1>5 DEF ChainTypeOK, WriteInventory
<1>6. CASE WriteConfig
  <2>1. elf \in Builds
    BY <1>6, ConfigReady, CurrentElf DEF WriteConfig
  <2> QED
    BY <1>6, <2>1 DEF ChainTypeOK, WriteConfig
<1>7. CASE WriteMetadata
  <2>1. elf \in Builds
    BY <1>7, CurrentElf DEF WriteMetadata, At, JobInv, PastConfig
  <2> QED
    BY <1>7, <2>1 DEF ChainTypeOK, WriteMetadata
<1>8. CASE AuditDynamicCode
  BY <1>8 DEF ChainTypeOK, AuditDynamicCode, FreshFor
<1>9. CASE FinalizeRspInventory
  BY <1>9 DEF ChainTypeOK, FinalizeRspInventory
<1>10. CASE WriteRspConfig
  BY <1>10 DEF ChainTypeOK, WriteRspConfig
<1>11. CASE Recompile
  <2>1. config \in Builds
    BY <1>11, RecompileReady DEF Recompile
  <2>2. cpu' \in [Files -> Builds \cup {None, Torn}] /\ n64Log' \subseteq Lines
    BY <1>11, <2>1 DEF Recompile, ChainTypeOK
  <2> QED
    BY <1>11, <2>2 DEF ChainTypeOK, Recompile
<1>12. CASE RecompileRsp
  BY <1>12 DEF ChainTypeOK, RecompileRsp
<1>13. CASE AuditGeneration
  <2>1. g2' \in AuditRecord
    BY <1>13, DigestsTyped DEF AuditGeneration, AuditRecord, ChainTypeOK
  <2> QED
    BY <1>13, <2>1 DEF ChainTypeOK, AuditGeneration
<1>14. CASE Refuse
  BY <1>14 DEF ChainTypeOK, Refuse
<1>15. CASE Kill
  <2>1. /\ g1' \in G1File \cup {None, Torn}
        /\ inventory' \in {None, Torn, Whole} /\ rspInventory' \in {None, Torn, Whole}
        /\ config' \in Builds \cup {None, Torn} /\ metadata' \in Builds \cup {None, Torn}
        /\ dynamic' \in Stamps \cup {None, Torn} /\ rspConfig' \in {None, Torn, Whole}
        /\ rsp' \in {None, Torn, Whole} /\ g2' \in AuditRecord \cup {None, Torn}
    BY <1>15, CutTyped DEF Kill, ChainTypeOK, Cut
  <2>2. cpu' \in [Files -> Builds \cup {None, Torn}] /\ n64Log' \subseteq Lines
    <3>1. CASE job = "cpu"
      <4>1. config \in Builds
        BY <1>15, <3>1 DEF Kill, Ready
      <4> QED
        BY <1>15, <3>1, <4>1 DEF Kill, CutOutput, ChainTypeOK
    <3>2. CASE job # "cpu"
      BY <1>15, <3>2 DEF Kill, ChainTypeOK
    <3> QED
      BY <3>1, <3>2
  <2>3. rspLog' \subseteq Lines
    BY <1>15 DEF Kill, ChainTypeOK
  <2>4. job' = "idle" /\ changes' \in 0..MaxChanges /\ elf' = elf /\ allowlist' = allowlist
    BY <1>15 DEF Kill, Change, ChainTypeOK
  <2> QED
    BY <2>1, <2>2, <2>3, <2>4 DEF ChainTypeOK
<1>16. CASE UNCHANGED chain
  BY <1>16 DEF ChainTypeOK, chain
<1> QED
  BY <1>1, <1>2, <1>3, <1>4, <1>5, <1>6, <1>7, <1>8, <1>9, <1>10, <1>11, <1>12,
     <1>13, <1>14, <1>15, <1>16 DEF ChainNext, GenerateStep

-----------------------------------------------------------------------------
(* The running script: no action of the developer comes between its writes,  *)
(* so that what it found when it began still holds when it audits.           *)

\* A running stage has what its guard found until it ends.
LEMMA JobStep ==
  ASSUME ChainAssumption, IInv, [ChainNext]_chain
  PROVE  JobInv'
<1> USE DEF JobInv, PastConfig, PastMetadata, PastRspConfig, PastRecompile,
            G1Current, Intact, IInv, inputs, derived, output, Idle
<1>1. CASE Rebuild
  BY <1>1 DEF Rebuild
<1>2. CASE RecordG1
  BY <1>2 DEF RecordG1
<1>3. CASE EditAllowlist
  BY <1>3 DEF EditAllowlist
<1>4. CASE StartGenerate
  BY <1>4 DEF StartGenerate
<1>5. CASE WriteInventory
  BY <1>5 DEF WriteInventory
<1>6. CASE WriteConfig
  BY <1>6, ConfigReady DEF WriteConfig
<1>7. CASE WriteMetadata
  BY <1>7 DEF WriteMetadata, At
<1>8. CASE AuditDynamicCode
  BY <1>8 DEF AuditDynamicCode, At
<1>9. CASE FinalizeRspInventory
  BY <1>9 DEF FinalizeRspInventory, At
<1>10. CASE WriteRspConfig
  BY <1>10 DEF WriteRspConfig, At
<1>11. CASE Recompile
  <2>1. elf \in Builds /\ config = elf /\ metadata = elf /\ rspConfig = Whole
    BY <1>11, CurrentElf, RecompileReady DEF Recompile
  <2>2. n64Log' = Diagnostics[elf] /\ \A f \in Emitted[elf] : cpu'[f] = elf
    BY <1>11, <2>1 DEF Recompile, ChainAssumption
  <2> QED
    BY <1>11, <2>1, <2>2 DEF Recompile, At
<1>12. CASE RecompileRsp
  BY <1>12 DEF RecompileRsp, At, Ready
<1>13. CASE AuditGeneration
  BY <1>13 DEF AuditGeneration
<1>14. CASE Refuse
  BY <1>14 DEF Refuse
<1>15. CASE Kill
  BY <1>15 DEF Kill
<1>16. CASE UNCHANGED chain
  BY <1>16 DEF chain
<1> QED
  BY <1>1, <1>2, <1>3, <1>4, <1>5, <1>6, <1>7, <1>8, <1>9, <1>10, <1>11, <1>12,
     <1>13, <1>14, <1>15, <1>16 DEF ChainNext, GenerateStep

-----------------------------------------------------------------------------
(* The audit: once it is written it stays about the rebuild it was made of.  *)

\* Only the audit itself writes a whole evidence file.
LEMMA OnlyAuditsWriteEvidence ==
  ASSUME [ChainNext]_chain, Intact(g2)', ~AuditGeneration
  PROVE  g2' = g2
<1>1. CASE Kill
  BY <1>1 DEF Kill, Cut, Intact
<1>2. CASE ~Kill
  BY <1>2 DEF ChainNext, GenerateStep, Rebuild, RecordG1, EditAllowlist, StartGenerate,
     WriteInventory, WriteConfig, WriteMetadata, AuditDynamicCode, FinalizeRspInventory,
     WriteRspConfig, Recompile, RecompileRsp, Refuse, chain
<1> QED
  BY <1>1, <1>2

\* An audit record stands for what was there when it was written.
LEMMA AuditStep ==
  ASSUME ChainAssumption, IInv, [ChainNext]_chain
  PROVE  AuditInv'
<1>1. CASE AuditGeneration
  <2>1. /\ Intact(g1) /\ g1.elf = elf /\ config = elf /\ metadata = elf
        /\ rspConfig = Whole /\ rsp = Whole
        /\ n64Log = Diagnostics[elf] /\ rspLog = RspDiagnostics
        /\ \A f \in Emitted[elf] : cpu[f] = elf
    BY <1>1 DEF IInv, JobInv, PastConfig, PastMetadata, PastRspConfig, PastRecompile,
       G1Current, AuditGeneration, At
  <2>2. g2'.of = Digests
        /\ n64Log \cup rspLog \subseteq g2'.interpreted \cup g2'.unresolved
    BY <1>1 DEF AuditGeneration
  <2>3. /\ Digests.g1 = g1 /\ Digests.config = config /\ Digests.metadata = metadata
        /\ Digests.rspConfig = rspConfig /\ Digests.rsp = rsp /\ Digests.cpu = cpu
    BY DEF Digests
  <2> QED
    BY <2>1, <2>2, <2>3 DEF AuditInv, AuditOf, Intact
<1>2. CASE ~AuditGeneration
  BY <1>2, OnlyAuditsWriteEvidence DEF IInv, AuditInv, AuditOf, Intact
<1> QED
  BY <1>1, <1>2

-----------------------------------------------------------------------------

\* The three parts together are inductive.
LEMMA IInvInit == ASSUME ChainAssumption, ChainInit PROVE IInv
BY TypeInit DEF ChainInit, IInv, JobInv, AuditInv, PastConfig, PastMetadata, PastRspConfig,
   PastRecompile, Intact, Idle

LEMMA IInvStep ==
  ASSUME ChainAssumption, IInv, [ChainNext]_chain PROVE IInv'
BY TypeStep, JobStep, AuditStep DEF IInv

LEMMA InductiveInvariant == ChainSpec => []IInv
<1>1. ChainInit => IInv
  BY IInvInit, ChainAssumption
<1>2. IInv /\ [ChainNext]_chain => IInv'
  BY IInvStep, ChainAssumption
<1> QED
  BY <1>1, <1>2, PTL DEF ChainSpec

\* Every file of the chain is missing, torn or of its kind, and an evidence file
\* only speaks of files that were there when audit-generation-logs.py read them.
THEOREM ChainTypeCorrect == ChainSpec => []ChainTypeOK
<1>1. IInv => ChainTypeOK
  BY DEF IInv
<1> QED
  BY <1>1, InductiveInvariant, PTL

\* Whatever was rebuilt, killed and repeated before: when the gate of
\* verify-generated-evidence.py opens, configuration, metadata and every source
\* the configuration calls for stem from the rebuild that G1.json certifies.
THEOREM GateIsCurrent == ChainSpec => []AcceptedIsCurrent
<1>1. IInv => AcceptedIsCurrent
  <2> SUFFICES ASSUME IInv, VerifyPasses
               PROVE  /\ Intact(g1) /\ config = g1.elf /\ metadata = g1.elf
                      /\ \A f \in Emitted[g1.elf] : cpu[f] = g1.elf
                      /\ rspConfig = Whole /\ rsp = Whole
    BY DEF AcceptedIsCurrent
  <2>1. Intact(g2) /\ g2.of = Digests
    BY DEF VerifyPasses
  <2>2. /\ Digests.g1 = g1 /\ Digests.config = config /\ Digests.metadata = metadata
        /\ Digests.rspConfig = rspConfig /\ Digests.rsp = rsp /\ Digests.cpu = cpu
    BY DEF Digests
  <2>3. Intact(g2.of.g1) /\ AuditOf(g2.of.g1.elf)
    BY <2>1 DEF IInv, AuditInv
  <2> QED
    BY <2>1, <2>2, <2>3 DEF AuditOf
<1> QED
  BY <1>1, InductiveInvariant, PTL

\* When the gate opens, every diagnostic the recompilers print for the certified
\* rebuild was interpreted in the audit: no truncated log or cut-short run of
\* generate-game.sh gets by.
THEOREM GateIsInterpreted == ChainSpec => []AcceptedIsInterpreted
<1>1. IInv => AcceptedIsInterpreted
  <2> SUFFICES ASSUME IInv, VerifyPasses
               PROVE  Diagnostics[g1.elf] \cup RspDiagnostics \subseteq g2.interpreted
    BY DEF AcceptedIsInterpreted
  <2>1. Intact(g2) /\ g2.of.g1 = g1 /\ g2.unresolved = {}
    BY DEF VerifyPasses, Digests
  <2> QED
    BY <2>1 DEF IInv, AuditInv, AuditOf
<1> QED
  BY <1>1, InductiveInvariant, PTL

\* An audit that newer G1 or dynamic-code evidence has overtaken stays dead:
\* since the stamps of record-g1-evidence.py and audit-dynamic-code.py are new,
\* no later file has the digest it recorded, and a torn one never had it.
THEOREM OvertakenStaysDead == ChainSpec => OvertakenAuditIsDead
<1>1. ASSUME IInv, [ChainNext]_chain, Intact(g2), g2' = g2, g2.of.g1 # g1
      PROVE  g2'.of.g1 # g1'
  <2>1. Intact(g2.of.g1) /\ AuditedG1 = g2.of.g1.stamp
    BY <1>1 DEF IInv, AuditInv, AuditedG1
  <2>2. CASE RecordG1
    BY <1>1, <2>1, <2>2 DEF RecordG1, FreshFor
  <2>3. CASE Kill
    BY <1>1, <2>1, <2>3 DEF Kill, Cut, Intact
  <2>4. CASE ~RecordG1 /\ ~Kill
    BY <1>1, <2>4 DEF ChainNext, GenerateStep, Rebuild, EditAllowlist, StartGenerate,
       WriteInventory, WriteConfig, WriteMetadata, AuditDynamicCode, FinalizeRspInventory,
       WriteRspConfig, Recompile, RecompileRsp, AuditGeneration, Refuse, chain, inputs
  <2> QED
    BY <2>2, <2>3, <2>4
<1>2. ASSUME IInv, [ChainNext]_chain, Intact(g2), g2' = g2, g2.of.dynamic # dynamic
      PROVE  g2'.of.dynamic # dynamic'
  <2>1. g2.of.dynamic \in Stamps /\ AuditedDynamic = g2.of.dynamic /\ Torn \notin Stamps
    BY <1>2, AuditIsRecord, ChainAssumption
       DEF IInv, AuditedDynamic, DigestRecord, ChainAssumption
  <2>2. CASE AuditDynamicCode
    BY <1>2, <2>1, <2>2 DEF AuditDynamicCode, FreshFor
  <2>3. CASE Kill
    BY <1>2, <2>1, <2>3 DEF Kill, Cut
  <2>4. CASE ~AuditDynamicCode /\ ~Kill
    BY <1>2, <2>4 DEF ChainNext, GenerateStep, Rebuild, RecordG1, EditAllowlist,
       StartGenerate, WriteInventory, WriteConfig, WriteMetadata, FinalizeRspInventory,
       WriteRspConfig, Recompile, RecompileRsp, AuditGeneration, Refuse, chain, derived
  <2> QED
    BY <2>2, <2>3, <2>4
<1>3. IInv /\ [ChainNext]_chain =>
        [Intact(g2) /\ g2' = g2 =>
           /\ g2.of.g1 # g1 => g2'.of.g1 # g1'
           /\ g2.of.dynamic # dynamic => g2'.of.dynamic # dynamic']_chain
  BY <1>1, <1>2
<1> QED
  BY <1>3, InductiveInvariant, PTL DEF ChainSpec, OvertakenAuditIsDead

-----------------------------------------------------------------------------
(* The parts of the build as one. *)

\* Each part goes through its own behaviours, whichever of them runs.
LEMMA LinkIsItself == Spec => LinkSpec
<1>1. Init => LinkInit
  BY DEF Init, LinkRests
<1>2. [Next]_scripts => [LinkNext]_linkVars
  BY DEF Next, Link, Chain, Script, scripts
<1> QED
  BY <1>1, <1>2, PTL DEF Spec, LinkSpec

LEMMA ChainIsItself == Spec => ChainSpec
<1>1. Init => ChainInit
  BY DEF Init, ChainRests
<1>2. [Next]_scripts => [ChainNext]_chain
  BY DEF Next, Link, Chain, Script, scripts
<1> QED
  BY <1>1, <1>2, PTL DEF Spec, ChainSpec

\* A task that never was is never answered.
TasksRun ==
  IF part = "tasks" THEN Solved /\ (\E set \in Tasks : task \in set) ELSE TaskRests

\* A task that is never given has no answer, and one that is given goes its own way.
LEMMA TasksAreThemselves == Spec => []TasksRun
<1>1. Init => TasksRun
  BY DEF Init, TasksRun, TaskInit, Solved
<1>2. TasksRun /\ [Next]_scripts => TasksRun'
  <2>1. ASSUME TasksRun, Script(TaskNext) PROVE TasksRun'
    BY <2>1, TaskStepSolves DEF Script, TasksRun
  <2>2. ASSUME TasksRun, UNCHANGED <<part, tasks>> PROVE TasksRun'
    BY <2>2 DEF TasksRun, TaskRests, Solved, tasks
  <2> QED
    BY <2>1, <2>2 DEF Next, Link, Chain, scripts
<1> QED
  BY <1>1, <1>2, PTL DEF Spec

\* What the scripts promise holds of the whole build: the link is exact, the gate
\* only opens for current and interpreted evidence, and every answer is right.
THEOREM BuildIsSafe ==
  Spec => []( /\ RecoveredLinkIsExact /\ RefusalsAreDeserved
              /\ AcceptedIsCurrent /\ AcceptedIsInterpreted
              /\ HiddenFits /\ RecoveredFits /\ SizesAreExact /\ RangesKeepApart
              /\ WindowsAdd )
<1>1. TasksRun => HiddenFits /\ RecoveredFits /\ SizesAreExact /\ RangesKeepApart /\ WindowsAdd
  <2>1. CASE part = "tasks"
    BY <2>1, TasksAssumption, HiddenHolds, RecoveredHolds, SizesHold, BlobsHold, DatabinHolds,
       WindowsHold DEF TasksRun, TasksAssumption, RangesKeepApart
  <2>2. CASE part # "tasks"
    <3>1. TasksRun => answer = Pending
      BY <2>2 DEF TasksRun, TaskRests
    <3>2. answer = Pending => \A script : ~Answered(script)
      BY DEF Answered
    <3> QED
      BY <3>1, <3>2 DEF HiddenFits, HiddenIsDisjoint, HiddenIsComplete, PaddingIsBounded,
         RecoveredFits, NamesClashOnlyAcrossOverlays, InferredFitsTheObject, SizesAreExact,
         RangesKeepApart, VerifiedBlobsAreDisjoint, DatabinIsTight,
         WindowsAdd, CadenceAdds, AudioAdds, LeaksShow
  <2> QED
    BY <2>1, <2>2
<1>2. Spec => [](HiddenFits /\ RecoveredFits /\ SizesAreExact /\ RangesKeepApart /\ WindowsAdd)
  BY <1>1, TasksAreThemselves, PTL
<1>3. Spec => [](RecoveredLinkIsExact /\ RefusalsAreDeserved)
  BY LinkIsItself, LinkIsExact, LinkRefusesLittle, PTL
<1>4. Spec => [](AcceptedIsCurrent /\ AcceptedIsInterpreted)
  BY ChainIsItself, GateIsCurrent, GateIsInterpreted, PTL
<1> QED
  BY <1>2, <1>3, <1>4, PTL

=============================================================================
