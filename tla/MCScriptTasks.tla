---------------------------- MODULE MCScriptTasks ---------------------------
(***************************************************************************)
(* The tasks that TLC has the scripts compute.                             *)
(***************************************************************************)
EXTENDS ScriptTasks

\* Up to three pseudo-functions in a text of which nothing, a part, the head or
\* two overlapping parts are known.
Function(name, size) == [name |-> name, size |-> size]
FunctionNames == <<"f1", "f2", "f3">>
FunctionSeqs ==
  UNION {{[k \in 1..n |-> Function(FunctionNames[k], z[k])] : z \in [1..n -> {40, 60, 84, 316}]} :
           n \in 1..3}
HiddenTasks ==
  {[script |-> "hidden", functions |-> f, known |-> k, text |-> <<0, t>>, hints |-> h] :
     f \in FunctionSeqs,
     k \in {<<>>, <<<<0, 40>>>>, <<<<40, 60>>>>, <<<<0, 40>>, <<100, 120>>>>,
            <<<<0, 40>>, <<20, 60>>>>, <<<<-20, 20>>>>},
     t \in {100, 160, 400},
     h \in {{}, {0}, {40}, {60}, {40, 100}, {0, 60, 100}}}

\* Two objects of a hundred bytes that define, declare and hide functions; the
\* linker script supplies addresses in either of them.
Symbol(name, value, size, kind) == [name |-> <<name>>, value |-> value, size |-> size, kind |-> kind]
Audited(name, offset, size) == [name |-> name, offset |-> offset, size |-> size]
Object(section, first, table, anonymous, calls) ==
  [section |-> section, text |-> <<first, first + 100>>, symbols |-> table,
   anonymous |-> anonymous, calls |-> calls]
Supplied(b, others) == [n \in {<<"b">>} \cup DOMAIN others |-> IF n = <<"b">> THEN b ELSE others[n]]
NoOther   == [n \in {} |-> 0]
Other(a)  == [n \in {<<"b2">>} |-> a]
Entry == <<Symbol("f", 0, 20, "func")>>
Lost3 == {x \o y \o z : x \in {<<>>, <<Symbol("b", 0, 20, "notype")>>},
                       y \in {<<>>, <<Symbol("h", 0, 40, "notype")>>, <<Symbol("h", 0, 60, "notype")>>},
                       z \in {<<>>, <<Symbol("b2", 0, 20, "other")>>, <<Symbol("h2", 0, 20, "notype")>>}}
SectionTasks ==
  {[script |-> "manual", absolute |-> a,
    objects |-> {Object(".main", 0, Entry \o g \o x, n, {}), Object(".main", 100, Entry \o y, <<>>, c)}] :
     g \in {<<>>, <<Symbol("g", 0, 60, "func")>>}, x \in Lost3, y \in Lost3,
     n \in {<<>>, <<Audited(<<"a">>, 60, 20)>>}, c \in {{}, {140}},
     a \in {Supplied(20, NoOther), Supplied(140, Other(80)), Supplied(10, Other(120))}}

\* Two overlays that share addresses; a function of the second may be called what
\* a hidden one of the first would be.
OverlayTasks ==
  {[script |-> "manual", absolute |-> Supplied(b, NoOther),
    objects |-> {Object(".beach", 0, Entry \o x, <<>>, {}), Object(".album", first, Entry \o y, n, {})}] :
     x \in Lost3, y \in Lost3, first \in {0, 40}, b \in {40, 80},
     n \in {<<>>, <<Audited(<<"h", 20>>, 80, 20)>>}}

\* Functions without a size and other symbols of two sections; f and g occur
\* twice, an odd symbol, a local one and one outside the objects are among them.
Linked(name, value, size, section, kind) ==
  [name |-> name, value |-> value, size |-> size, section |-> section, kind |-> kind]
SymbolPool ==
  {Linked("f", 0, 0, "x", "func"), Linked("g", 8, 0, "x", "func"), Linked("d", 6, 0, "x", "data"),
   Linked("d2", 12, 4, "x", "data"), Linked("g", 20, 0, "x", "func"), Linked("f", 32, 0, "y", "func"),
   Linked("l", 36, 0, "y", "local"), Linked("m", 40, 0, "y", "func"), Linked("o", 60, 0, "y", "func")}
SizeTasks ==
  {[script |-> "sizes", symbols |-> s, ranges |-> r] :
     s \in SUBSET SymbolPool,
     r \in {[x |-> {<<0, 16>>, <<16, 28>>}, y |-> {<<32, 48>>}],
            [x |-> {<<0, 28>>}, y |-> {<<32, 40>>, <<40, 64>>}]}}

\* Up to three rows at session times 1..4, every window and cut.
Times == {<<1>>, <<4>>, <<1, 2>>, <<2, 3>>, <<3, 4>>, <<1, 2, 4>>, <<1, 3, 4>>}
Traces(Values, Row(_, _)) ==
  UNION {{[k \in DOMAIN t |-> Row(t[k], v[k])] : v \in [DOMAIN t -> Values]} : t \in Times}
Windowed(script, traces) ==
  {[script |-> script, rows |-> r, from |-> f, cut |-> c, to |-> t] :
     r \in traces, f \in {Open, 2}, c \in 1..3, t \in {Open, 3}}
\* A mean of 70 marks a row that does not fit together.
CadenceRow(ms, v) ==
  [ms |-> ms, interval |-> 100, frames |-> v[1], presents |-> v[1], mean |-> v[2],
   longest |-> IF v[2] = 70 THEN 65 ELSE v[2] + 5,
   late |-> IF v[2] = 70 THEN v[1] + 1 ELSE IF v[2] > 50 THEN v[1] ELSE 0]
AudioRow(ms, v) ==
  [ms |-> ms, gap |-> v[1], queue |-> v[2], peak |-> v[2] + 5, errors |-> ms % 2]
CadenceTasks == Windowed("cadence", Traces({<<0, 20>>, <<2, 20>>, <<2, 60>>, <<3, 60>>, <<0, 70>>}, CadenceRow))
AudioTasks   == Windowed("audio", Traces({50000, 50001, 100001} \X {1, 9}, AudioRow))
MemoryTasks  ==
  {[script |-> "memory", rows |-> r, from |-> f, to |-> t] :
     r \in UNION {{[k \in DOMAIN s |-> [ms |-> s[k], rss |-> z[k]]] : z \in [DOMAIN s -> {5, 6, 9}]} :
                   s \in Times \cup {<<2, 2>>, <<1, 2, 2>>, <<3, 3, 3>>}},
     f \in {Open, 2}, t \in {Open, 3}}

\* Up to three subsegments in any order.
Layout(subs) == <<[start |-> 0, code |-> TRUE, subs |-> subs], [start |-> 40, code |-> FALSE, subs |-> <<>>]>>
Subsegments == [start : {0, 8, 20}, form : {"list", "dict"}, kind : {"rsp", "data"}]
BlobTasks ==
  {[script |-> "blobs", layout |-> Layout(s)] : s \in UNION {[1..n -> Subsegments] : n \in 1..3}}
DatabinTasks ==
  {[script |-> "databin", layout |-> Layout([k \in 1..3 |-> [start |-> s[k], form |-> q[k][1], kind |-> q[k][2]]])] :
     s \in [1..3 -> {8, 16, 24}], q \in [1..3 -> {<<"dict", "databin">>, <<"list", "rsp">>, <<"dict", "data">>}]}

MCTasks == {HiddenTasks, SectionTasks, OverlayTasks, SizeTasks, CadenceTasks, AudioTasks, MemoryTasks,
            BlobTasks, DatabinTasks}
MCRuntimeOwned == {}

=============================================================================
