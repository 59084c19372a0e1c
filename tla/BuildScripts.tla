---------------------------- MODULE BuildScripts ----------------------------
(***************************************************************************)
(* The scripts of the build: the recovery of the decomp's link, the chain  *)
(* of evidence behind the generated code, and the scripts that only        *)
(* compute.  The three read each other's results only once they are done,  *)
(* so a behaviour is one of one part while the others rest.                *)
(***************************************************************************)
EXTENDS LinkRecovery, EvidenceChain, ScriptTasks

VARIABLE part  \* "link", "chain" or "tasks"

scripts == <<part, linkVars, chain, tasks>>

LinkRests  == LinkInit /\ symbols = {}
ChainRests == ChainInit /\ allowlist = {}
TaskRests  == task = [script |-> "none"] /\ answer = Pending

Init ==
  \/ part = "link"  /\ LinkInit  /\ ChainRests /\ TaskRests
  \/ part = "chain" /\ LinkRests /\ ChainInit  /\ TaskRests
  \/ part = "tasks" /\ LinkRests /\ ChainRests /\ TaskInit

Link(A)   == part = "link"  /\ A /\ UNCHANGED <<part, chain, tasks>>
Chain(A)  == part = "chain" /\ A /\ UNCHANGED <<part, linkVars, tasks>>
Script(A) == part = "tasks" /\ A /\ UNCHANGED <<part, linkVars, chain>>

Next == Link(LinkNext) \/ Chain(ChainNext) \/ Script(TaskNext)

\* A build that was started goes on until it ends or is killed; a started
\* generation likewise, and the developer generates again for as long as there
\* is something to generate.
Fairness ==
  /\ WF_scripts(Link(LinkStep))
  /\ WF_scripts(Chain(StartGenerate))
  /\ WF_scripts(Chain(GenerateStep))
  /\ WF_scripts(Chain(RecordG1))
  /\ WF_scripts(Chain(Refuse))

Spec == Init /\ [][Next]_scripts /\ Fairness

=============================================================================
