--------------------------- MODULE LinkRecovery ----------------------------
(***************************************************************************)
(* How build-decomp.sh gets the pinned decomp linked.  The first ninja     *)
(* fails on symbols that no object defines; recover-decomp-address-        *)
(* symbols.py provides those whose name carries their address, and         *)
(* filter-decomp-defined-symbols.py takes the generated absolute           *)
(* assignments away from symbols that the objects define themselves.  Both *)
(* edit the link command in build.ninja; the second ninja links with it.   *)
(* The build may be killed anywhere and started again; the scripts' files  *)
(* of the last attempt are still there then.                               *)
(*                                                                         *)
(* A symbol is the sequence of the words of its name that "_" separates.   *)
(* A word of eight hexadecimal digits is the address it spells.            *)
(***************************************************************************)
EXTENDS Integers, Sequences, SequencesExt

CONSTANTS
  Inputs,      \* the sets of symbols a build may meet
  Addresses,   \* the words of eight hexadecimal digits
  HexWords,    \* the words of hexadecimal digits, addresses included
  ScopeWords,  \* the words that begin with a small letter
  Digits,      \* the words of decimal digits
  Aliases,     \* AUDITED_ALIASES: name -> address
  NoAddress,   \* the name carries no address
  Lost,        \* a file that is not there
  MaxRestarts  \* bound on killed builds

ASSUME LinkAssumption == Addresses \subseteq HexWords /\ MaxRestarts \in Nat

\* A program has one symbol of each name: no object, or one, has it as text or
\* as data.
ASSUME InputsAssumption ==
  \A input \in Inputs : \A s, t \in input :
    /\ s.object \in {"none", "text", "data"} /\ s.auto \in BOOLEAN
    /\ s.name = t.name => s = t

VARIABLES
  symbols,   \* [name, object, auto]: one record per symbol the program refers to
  step,      \* the step of build-decomp.sh that comes next
  restarts,  \* killed builds so far
  command,   \* the -T options of the link rule in build.ninja, in order
  provided,  \* snappad_undefined_syms.ld: name -> address
  filtered,  \* snappad_undefined_syms_filtered.txt: the names still assigned
  corrected, \* snappad_defined_symbol_corrections.ld: name -> address
  linked     \* what the last successful link made of each symbol

files    == <<provided, filtered, corrected>>
linkVars == <<symbols, step, restarts, command, files, linked>>

Pristine == <<"undefined", "auto">>
Names == {s.name : s \in symbols}
NoMap == [n \in {} |-> NoAddress]

\* What a symbol is for the compiler: "text", "data", or no object has it.
Defined   == {s.name : s \in {t \in symbols : t.object # "none"}}
TextNames == {s.name : s \in {t \in symbols : t.object = "text"}}
AutoNames == {s.name : s \in {t \in symbols : t.auto}}

\* symbol_address: D_<address>, D_<address>_<hex>, D_<scope>..._<address>.
DirectName(n) ==
  /\ Len(n) \in {2, 3} /\ n[1] = "D" /\ n[2] \in Addresses
  /\ Len(n) = 3 => n[3] \in HexWords
ScopedName(n) == Len(n) >= 3 /\ n[1] = "D" /\ n[2] \in ScopeWords /\ Last(n) \in Addresses

symbol_address(n) ==
  CASE DirectName(n)        -> n[2]
    [] ScopedName(n)        -> Last(n)
    [] n \in DOMAIN Aliases -> Aliases[n]
    [] OTHER                -> NoAddress

\* ..._hitbox_<digits> and ..._pal lie behind the address in their name.
Embedded(n) ==
  \/ Len(n) >= 2 /\ n[Len(n) - 1] = "hitbox" /\ Last(n) \in Digits
  \/ Len(n) >= 2 /\ Last(n) = "pal"

\* encoded_address: the first word that is an address.
encoded_address(n) ==
  IF Embedded(n) \/ Range(n) \cap Addresses = {} THEN NoAddress
  ELSE n[SelectInSeq(n, LAMBDA word : word \in Addresses)]

-----------------------------------------------------------------------------
(* The linker: assignments win over objects, PROVIDE only fills gaps. *)

Uses(script) == \E k \in DOMAIN command : command[k] = script

\* The assignments of the scripts written by the two links.  The decompilation's
\* own undefined_syms.txt, and objects that fail to compile, are left out.
Assigned(n) ==
  \/ Uses("auto") /\ n \in AutoNames
  \/ Uses("filtered") /\ n \in filtered

Resolved(n) ==
  IF Uses("corrections") /\ n \in DOMAIN corrected THEN <<"address", corrected[n]>>
  ELSE IF Assigned(n) THEN <<"generated">>
  ELSE IF n \in Defined THEN <<"object">>
  ELSE IF Uses("provided") /\ n \in DOMAIN provided THEN <<"address", provided[n]>>
  ELSE <<"undefined">>

Undefined == {n \in Names : Resolved(n) = <<"undefined">>}

LinkInit ==
  /\ symbols \in Inputs
  /\ step = "configure" /\ restarts = 0
  /\ command = <<>> /\ provided = NoMap /\ filtered = {} /\ corrected = NoMap
  /\ linked = Lost

\* configure.py writes build.ninja anew.
Configure ==
  /\ step = "configure" /\ step' = "first"
  /\ command' = Pristine
  /\ UNCHANGED <<symbols, restarts, files, linked>>

\* ninja: the link succeeds, or its log names the undefined references.
Ninja(here, failed) ==
  /\ step = here
  /\ IF Undefined = {}
     THEN linked' = [n \in Names |-> Resolved(n)] /\ step' = "linked"
     ELSE linked' = linked /\ step' = failed
  /\ UNCHANGED <<symbols, restarts, command, files>>

FirstNinja  == Ninja("first", "recover")
SecondNinja == Ninja("second", "refused")

\* recover and render_linker_script: one name without an audited address and
\* nothing is written.
Recover ==
  /\ step = "recover"
  /\ IF \E n \in Undefined : symbol_address(n) = NoAddress
     THEN step' = "refused" /\ UNCHANGED provided
     ELSE /\ provided' = [n \in Undefined |-> symbol_address(n)]
          /\ step' = "inject"
  /\ UNCHANGED <<symbols, restarts, command, filtered, corrected, linked>>

\* inject_linker_script: behind the two options of the pinned rule.
Inject ==
  /\ step = "inject"
  /\ IF command = Pristine
     THEN command' = Append(Pristine, "provided") /\ step' = "filter"
     ELSE /\ command' = command
          /\ step' = IF IsPrefix(Append(Pristine, "provided"), command)
                     THEN "filter" ELSE "refused"
  /\ UNCHANGED <<symbols, restarts, files, linked>>

\* filter_assignments; that nothing overlaps is an error.
Filter ==
  /\ step = "filter"
  /\ IF AutoNames \cap Defined = {}
     THEN step' = "refused" /\ UNCHANGED filtered
     ELSE filtered' = AutoNames \ Defined /\ step' = "correct"
  /\ UNCHANGED <<symbols, restarts, command, provided, corrected, linked>>

\* Slip: code symbols are corrected as well.
MutCorrectable == {n \in Defined : encoded_address(n) # NoAddress}

\* render_corrections(defined - text_symbols).
Correctable == {n \in Defined \ TextNames : encoded_address(n) # NoAddress}

Correct ==
  /\ step = "correct" /\ step' = "rewire"
  /\ corrected' = [n \in Correctable |-> encoded_address(n)]
  /\ UNCHANGED <<symbols, restarts, command, provided, filtered, linked>>

\* Slip: the filtered table takes the place of the option behind the generated.
MutRewire ==
  /\ step = "rewire" /\ step' = "second"
  /\ LET k == SelectInSeq(command, LAMBDA script : script = "auto") + 1
     IN  command' = InsertAt(ReplaceAt(command, k, "filtered"), k + 1, "corrections")
  /\ UNCHANGED <<symbols, restarts, files, linked>>

\* inject_filtered_script and the marker: the filtered table takes the place
\* of the generated one, the corrections follow it; one write.
Rewire ==
  /\ step = "rewire" /\ step' = "second"
  /\ LET k == SelectInSeq(command, LAMBDA script : script = "auto")
     IN  command' = InsertAt(ReplaceAt(command, k, "filtered"), k + 1, "corrections")
  /\ UNCHANGED <<symbols, restarts, files, linked>>

\* A write that is cut short leaves an empty file.
CutShort(here, file, empty) == IF step = here THEN {file, empty} ELSE {file}

\* Killed or refused, the build is started again.
Restart ==
  /\ step \notin {"configure", "linked"}
  /\ restarts < MaxRestarts /\ restarts' = restarts + 1
  /\ step' = "configure"
  /\ command' \in CutShort("inject", command, <<>>) \cup CutShort("rewire", command, <<>>)
  /\ provided' \in CutShort("recover", provided, NoMap)
  /\ filtered' \in CutShort("filter", filtered, {})
  /\ corrected' \in CutShort("correct", corrected, NoMap)
  /\ UNCHANGED <<symbols, linked>>

Finished == step \in {"linked", "refused"} /\ UNCHANGED linkVars

LinkStep ==
  \/ Configure \/ FirstNinja \/ Recover \/ Inject \/ Filter \/ Correct
  \/ Rewire \/ SecondNinja

LinkNext == LinkStep \/ Restart \/ Finished
LinkSpec == LinkInit /\ [][LinkNext]_linkVars

-----------------------------------------------------------------------------
(* Properties. *)

\* What a recovered link has to be, whatever earlier attempts left behind: code
\* keeps its object definition, data moves to the address in its name unless it
\* is an embedded sub-object, a generated assignment only serves symbols that
\* no object has, and only audited addresses fill the gaps.
Contract(s) ==
  IF s.object = "text" \/ (s.object = "data" /\ encoded_address(s.name) = NoAddress)
  THEN <<"object">>
  ELSE IF s.object = "data" THEN <<"address", encoded_address(s.name)>>
  ELSE IF s.auto THEN <<"generated">>
  ELSE <<"address", symbol_address(s.name)>>
RecoveredLinkIsExact ==
  linked # Lost /\ Uses("filtered") => \A s \in symbols : linked[s.name] = Contract(s)

\* No restart leaves the build files in a state the scripts cannot handle: a
\* program whose gaps can all be filled ends up linked.
Recoverable ==
  /\ \A s \in symbols : s.object = "none" /\ ~s.auto => symbol_address(s.name) # NoAddress
  /\ \E s \in symbols : s.object # "none" /\ s.auto
EventuallyLinked == Recoverable => <>(step = "linked")

\* Whatever files earlier attempts left behind, the build only gives up on a
\* program that cannot be recovered, and never at the second link.
RefusedIsHopeless   == step = "refused" => ~Recoverable
RefusalsAreDeserved == RefusedIsHopeless /\ (step = "second" => Undefined = {})

-----------------------------------------------------------------------------
(* The inductive invariant behind RecoveredLinkIsExact and                   *)
(* RefusalsAreDeserved: what the link command and the scripts' files hold    *)
(* when the script that reads them runs.                                     *)

Injected == <<"undefined", "auto", "provided">>
Rewired  == <<"undefined", "filtered", "corrections", "provided">>

\* The names that neither the generated table nor an object has.
Missing == (Names \ AutoNames) \ Defined

PastRecover == step \in {"inject", "filter", "correct", "rewire", "second"}
PastFilter  == step \in {"correct", "rewire", "second"}
PastCorrect == step \in {"rewire", "second"}

CommandInv ==
  /\ step \in {"first", "recover", "inject"} => command = Pristine
  /\ step \in {"filter", "correct", "rewire"} => command = Injected
  /\ step = "second" => command = Rewired

FilesInv ==
  /\ PastRecover => /\ provided = [n \in Missing |-> symbol_address(n)]
                    /\ \A n \in Missing : symbol_address(n) # NoAddress
  /\ PastFilter  => filtered = AutoNames \ Defined
  /\ PastCorrect => corrected = [n \in Correctable |-> encoded_address(n)]

LinkInv ==
  /\ symbols \in Inputs /\ (linked # Lost => step = "linked")
  /\ CommandInv /\ FilesInv
  /\ RecoveredLinkIsExact /\ RefusedIsHopeless

=============================================================================
