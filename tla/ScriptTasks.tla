---------------------------- MODULE ScriptTasks -----------------------------
(***************************************************************************)
(* The scripts that compute an answer from what they read and keep no      *)
(* state: one step from the task to its answer, for every task of a        *)
(* bounded set, and what has to be true of the answers.                    *)
(***************************************************************************)
EXTENDS FunctionRecovery, TraceSummary, RomLayout

CONSTANTS
  Tasks,   \* for each script, the set of its tasks; the field `script` names it
  Pending  \* no answer yet

\* What the files that the scripts read look like, whatever they contain:
\* addresses and sizes are numbers, a known function has a body, and a symbol with
\* a name and a size is that symbol.  Objects may share addresses, as overlays do.
HiddenWellFormed(t) ==
  /\ t.text \in Nat \X Nat /\ t.hints \subseteq Nat
  /\ \A i \in Range(t.known) : i \in Int \X Int /\ i[1] < i[2]
  /\ t.functions \in Seq([name : {f.name : f \in Range(t.functions)}, size : Nat \ {0}])

ManualWellFormed(t) ==
  /\ \A o \in t.objects : ObjectWellFormed(o)
  /\ \A n \in DOMAIN t.absolute : t.absolute[n] \in Nat

\* A symbol table holds addresses and text intervals; the segments of a ROM layout
\* start apart and the subsegments start inside their segment, in any order.
SizesWellFormed(t) ==
  /\ \A s \in t.symbols : s.value \in Nat
  /\ \A s \in Unsized(t.symbols) : t.ranges[s.section] \subseteq Nat \X Nat

LayoutWellFormed(layout) ==
  /\ \A n \in DOMAIN layout : layout[n].start \in Nat /\ layout[n].subs \in Seq(Range(layout[n].subs))
  /\ \A n, m \in DOMAIN layout : n # m => layout[n].start # layout[m].start
  /\ \A n \in DOMAIN layout : \A k \in DOMAIN layout[n].subs :
       /\ layout[n].subs[k].start \in Nat
       /\ layout[n].start <= layout[n].subs[k].start
       /\ layout[n].subs[k].start < SegmentEnd(layout, n)

\* A trace has its rows in the order of time, and a cadence row is only written
\* for an interval; a cut lies in its window.
TraceWellFormed(t) ==
  /\ t.rows \in Seq(Range(t.rows)) /\ \A row \in Range(t.rows) : row.ms \in Nat
  /\ \A j, k \in DOMAIN t.rows : j <= k => t.rows[j].ms <= t.rows[k].ms
  /\ t.from \in Int \cup {Open} /\ t.to \in Int \cup {Open}

CutWellFormed(t) ==
  t.cut \in Int /\ (t.from = Open \/ t.from <= t.cut + 1) /\ (t.to = Open \/ t.cut <= t.to)

CadenceWellFormed(row) ==
  /\ row.interval \in Nat \ {0} /\ row.frames \in Nat /\ row.presents \in Nat
  /\ row.mean \in Nat /\ row.longest \in Nat /\ row.late \in Nat
AudioWellFormed(row) ==
  row.gap \in Nat /\ row.queue \in Nat /\ row.peak \in Nat /\ row.errors \in Nat

WellFormed(t) ==
  /\ t.script = "hidden" => HiddenWellFormed(t)
  /\ t.script = "manual" => ManualWellFormed(t)
  /\ t.script = "sizes" => SizesWellFormed(t)
  /\ t.script \in {"cadence", "audio", "memory"} => TraceWellFormed(t)
  /\ t.script \in {"cadence", "audio"} => CutWellFormed(t)
  /\ t.script = "cadence" => \A row \in Range(t.rows) : CadenceWellFormed(row)
  /\ t.script = "audio" => \A row \in Range(t.rows) : AudioWellFormed(row)
  /\ t.script = "memory" => \A row \in Range(t.rows) : row.rss \in Nat
  /\ t.script \in {"blobs", "databin"} => LayoutWellFormed(t.layout)

ASSUME TasksAssumption ==
  /\ RomSize \in Nat
  /\ \A set \in Tasks : \A t \in set : WellFormed(t)

VARIABLES task, answer

tasks == <<task, answer>>

TaskInit == (\E set \in Tasks : task \in set) /\ answer = Pending

Answer(t) ==
  CASE t.script = "hidden"  -> infer_hidden_object_functions(t.functions, t.known, t.text, t.hints)
    [] t.script = "manual"  -> derive_manual_functions(t.objects, t.absolute)
    [] t.script = "sizes"   -> derive_function_sizes(t.symbols, t.ranges)
    [] t.script = "cadence" -> Cadence(Selected(t.rows, t.from, t.to))
    [] t.script = "audio"   -> Audio(Selected(t.rows, t.from, t.to))
    [] t.script = "memory"  -> Memory(Selected(t.rows, t.from, t.to))
    [] t.script = "blobs"   -> VerifiedBlobs(t.layout)
    [] t.script = "databin" -> find_databin_range(t.layout)

Compute  == answer = Pending /\ answer' = Answer(task) /\ UNCHANGED task
Computed == answer # Pending /\ UNCHANGED tasks

TaskNext == Compute \/ Computed
TaskSpec == TaskInit /\ [][TaskNext]_tasks

Answered(script) ==
  task.script = script /\ answer \notin {Pending, Refused, NothingThere, Rejected}

-----------------------------------------------------------------------------
(* Function recovery. *)

\* An inferred function lies in the object's text, outside every function that
\* is known, and no two of them overlap.
HiddenIsDisjoint ==
  Answered("hidden") => \A f \in answer :
    /\ Within(Span(f), task.text)
    /\ \A i \in Range(task.known) : ~Clashes(Span(f), i)
    /\ \A g \in answer \ {f} : ~Clashes(Span(f), Span(g))

\* Inference is all or nothing: each pseudo-function of the object is placed,
\* with its recorded size, exactly once, or none of them is.
HiddenIsComplete ==
  Answered("hidden") /\ answer # {} => \A f \in Range(task.functions) :
    Cardinality({g \in answer : g.name = f.name /\ g.size = f.size}) =
    Cardinality({k \in DOMAIN task.functions : task.functions[k] = f})

\* At most 0x50 bytes are left behind an inferred function before the next
\* function, known or inferred, the next call destination or the object's end.
PaddingIsBounded ==
  Answered("hidden") => \A f \in answer :
    LET behind == {x \in {g.address : g \in answer} \cup {i[1] : i \in Range(task.known)}
                           \cup task.hints \cup {task.text[2]} : x >= f.address + f.size}
    IN  Min(behind) - (f.address + f.size) <= MaxPadding

\* Whatever calls and sizes suggest, infer_hidden_object_functions places all of
\* an object's pseudo-functions or none, in free text, and leaves no hole behind
\* them that could be a function of its own.
HiddenFits == HiddenIsDisjoint /\ HiddenIsComplete /\ PaddingIsBounded

\* Two recovered functions, one of which has for its own name what the script
\* makes of the other's name and address.
Borrowed(name) ==
  \E c, d \in Candidates(task.objects, task.absolute) :
    name = c.name /\ name = Append(d.name, d.address)

\* Static helpers of the same name are recovered in several objects and told
\* apart by their addresses: N64Recomp gets a name twice only for one address of
\* two overlays, or when it is borrowed.
NamesClashOnlyAcrossOverlays ==
  Answered("manual") => \A f, g \in answer : f # g /\ f.name = g.name =>
    \/ f.section # g.section /\ f.address = g.address
    \/ Borrowed(f.name)

\* As soon as something is inferred in an object, the functions it defines,
\* those the linker script or the audit places there and the inferred ones are
\* pairwise disjoint.
InferredFitsTheObject ==
  Answered("manual") => \A o \in task.objects :
    LET inferred == {Span(f) : f \in Hidden(o, task.absolute)}
        known    == {Body(o, s) : s \in {t \in DefinedIn(o) : Within(Body(o, t), o.text)}}
                      \cup {Span(f) : f \in Manual(o, task.absolute)}
    IN  inferred # {} => \A a, b \in known \cup inferred : a # b => ~Clashes(a, b)

\* What derive_manual_functions hands to the recompiler fits together: by name
\* over all objects as far as overlays do not share addresses, and by address
\* inside each object.
RecoveredFits == NamesClashOnlyAcrossOverlays /\ InferredFitsTheObject

\* A function of that size reaches up to the next symbol or the end of its
\* object's text, with no symbol inside.
ReachesNext(s, size) ==
  /\ s.value + size \in {r[2] : r \in Containing(s, task.ranges)}
                          \cup {t.value : t \in task.symbols}
  /\ \E r \in Containing(s, task.ranges) : s.value + size <= r[2]
  /\ ~\E t \in task.symbols : /\ t.section = s.section
                              /\ s.value < t.value /\ t.value < s.value + size

\* A size is handed on by name.  Each function that has none and that no warning
\* names gets one, and whatever is handed on under its name is right for it,
\* namesakes in other sections included.  Nothing is said of a function that a
\* warning passed over: it may get the size of a namesake.
SizesAreExact ==
  Answered("sizes") => \A s \in Unsized(task.symbols) \ answer.warned :
    /\ \E z \in answer.sizes : z[1] = s.name
    /\ \A z \in answer.sizes : z[1] = s.name => ReachesNext(s, z[2])

-----------------------------------------------------------------------------
(* Traces. *)

\* The two halves of the window.
Before == Selected(task.rows, task.from, task.cut)
After  == Selected(task.rows, task.cut + 1, task.to)

\* The whole is one half when the other is empty, else it is Joined from both.
Halved(Summary(_), Joined(_, _)) ==
  /\ DOMAIN Before = {} => answer = Summary(After)
  /\ DOMAIN After = {} => answer = Summary(Before)
  /\ DOMAIN Before # {} /\ DOMAIN After # {} => Joined(Summary(Before), Summary(After))

\* The counters of a row are read one after the other while the renderer counts
\* on (snappad_rt64_context.cpp:486), so that they need not fit together.
Mismatched(row) == row.presents < row.late \/ row.longest < row.mean

\* Cut anywhere, a window of a cadence trace reports the sum of its halves: no
\* row is lost or counted twice at a bound, and the overall mean is the mean of
\* all intervals, not of the rows.  If every row fits together, the mean is no
\* longer than the longest interval and no more presents were late than there were.
CadenceAdds ==
  Answered("cadence") =>
    /\ Halved(Cadence, LAMBDA a, b :
         /\ answer.rows = a.rows + b.rows /\ answer.start = a.start /\ answer.end = b.end
         /\ answer.hz = <<a.hz[1] + b.hz[1], a.hz[2] + b.hz[2]>>
         /\ answer.presents = a.presents + b.presents
         /\ answer.mean[1] = a.mean[1] + b.mean[1]
         /\ answer.late = a.late + b.late
         /\ answer.longest = Max({a.longest, b.longest}))
    /\ (\A row \in Range(task.rows) : ~Mismatched(row)) =>
         /\ answer.mean[1] <= answer.longest * answer.mean[2]
         /\ answer.lateness[1] <= 100 * answer.lateness[2]

\* The same for the audio trace; the final queue is that of the second half.
AudioAdds ==
  Answered("audio") =>
    Halved(Audio, LAMBDA a, b :
      /\ answer.rows = a.rows + b.rows /\ answer.start = a.start /\ answer.end = b.end
      /\ answer.over50 = a.over50 + b.over50 /\ answer.over100 = a.over100 + b.over100
      /\ answer.errors = a.errors + b.errors /\ answer.queue = b.queue
      /\ answer.longest = Max({a.longest, b.longest}) /\ answer.peak = Max({a.peak, b.peak}))

\* A leak shows: memory that never shrinks over a window and ends higher than
\* it began has a positive slope, steady memory or a single instant has none.
LeaksShow ==
  Answered("memory") =>
    LET rows    == Selected(task.rows, task.from, task.to)
        growing == \A j, k \in DOMAIN rows : j < k => rows[j].rss <= rows[k].rss
    IN  /\ growing /\ answer.start < answer.end /\ answer.delta > 0 =>
             answer.slope[1] > 0 /\ answer.slope[2] > 0
        /\ answer.start = answer.end \/ answer.least = answer.most => answer.slope[1] = 0

\* The windows of the three summaries neither lose nor invent a row, whatever
\* bounds the developer gives them.
WindowsAdd == CadenceAdds /\ AudioAdds /\ LeaksShow

-----------------------------------------------------------------------------
(* ROM ranges. *)

\* No byte of the ROM is verified as part of two RSP blobs, in whatever order
\* splat.yaml lists the subsegments.  A blob may still reach over a subsegment
\* that is written as a mapping, which does not end it.
VerifiedBlobsAreDisjoint ==
  Answered("blobs") => \A a, b \in answer : a # b => ~Clashes(a, b)

Ascending(subs) == \A j, k \in DOMAIN subs : j < k => subs[j].start < subs[k].start

\* If splat.yaml lists the subsegments in ascending order, the data that aspMain is
\* given is not empty and no other subsegment, of either form, starts inside it.
\* In another order a later entry with a lower start would be taken for the end.
DatabinIsTight ==
  Answered("databin") /\ (\A n \in DOMAIN task.layout : Ascending(task.layout[n].subs)) =>
    /\ answer[1] < answer[2]
    /\ \A n \in DOMAIN task.layout : \A s \in Range(task.layout[n].subs) :
         s.start # answer[1] => s.start <= answer[1] \/ s.start >= answer[2]

\* The ranges that the scripts read off a list of starts keep apart: RSP blobs
\* from each other in any list, aspMain's data from everything in an ascending one.
RangesKeepApart == VerifiedBlobsAreDisjoint /\ DatabinIsTight

=============================================================================
