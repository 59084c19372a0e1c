-------------------------- MODULE MCEvidenceChain --------------------------
(***************************************************************************)
(* The instance of EvidenceChain that TLC checks: b3 is a rebuild that is  *)
(* not exact, b1 has a source and b2 a diagnostic that the other lacks; e2 *)
(* overlaps e1, e3 is not documented.                                      *)
(***************************************************************************)
EXTENDS EvidenceChain

CONSTANTS b1, b2, b3, f1, f2, lookup, l1, l2, e1, e2, e3

MCBuilds == {b1, b2, b3}
MCExact  == {b1, b2}
MCFiles  == {lookup, f1, f2}
MCLines  == {l1, l2}
MCStamps == 1..3
MCEntries    == {e1, e2, e3}
MCDocumented == {e1, e2}
MCEmitted     == [b \in MCBuilds |-> IF b = b1 THEN MCFiles ELSE {lookup, f1}]
MCDiagnostics == [b \in MCBuilds |-> IF b = b1 THEN {l1} ELSE {l1, l2}]
MCRspDiagnostics == {l1}
MCMatches == [e \in MCEntries |-> CASE e = e1 -> {l1} [] e = e2 -> {l1, l2} [] e = e3 -> {l2}]

=============================================================================
