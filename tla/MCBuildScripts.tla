--------------------------- MODULE MCBuildScripts ---------------------------
(***************************************************************************)
(* The instance of BuildScripts that TLC checks; that of the chain of      *)
(* evidence is in MCEvidenceChain, that of the tasks in MCScriptTasks.     *)
(***************************************************************************)
EXTENDS BuildScripts, MCEvidenceChain, MCScriptTasks

-----------------------------------------------------------------------------
(* Link: every kind of name for a symbol that no object has, that one has as *)
(* text and that one has as data; programs of up to three of them.           *)

Sym(name, object, auto) == [name |-> name, object |-> object, auto |-> auto]
Catalogue == {
  Sym(<<"D", "800A0000">>, "none", FALSE),
  Sym(<<"D", "beach", "800B0000">>, "none", FALSE),
  Sym(<<"plain">>, "none", FALSE),
  Sym(<<"D", "F00800">>, "none", FALSE),
  Sym(<<"D", "800A0000", "pal">>, "none", TRUE),
  Sym(<<"func", "800C0000">>, "text", TRUE),
  Sym(<<"beach", "800C0000", "0">>, "data", TRUE),
  Sym(<<"D", "800A0000", "hitbox", "0">>, "data", TRUE),
  Sym(<<"D", "800B0000", "0">>, "data", TRUE),
  Sym(<<"D", "800B0000", "pal">>, "data", FALSE)}
MCInputs     == UNION {kSubset(k, Catalogue) : k \in 0..3}
MCAddresses  == {"800A0000", "800B0000", "800C0000"}
MCHexWords   == MCAddresses \cup {"0", "F00800"}
MCScopeWords == {"beach", "pal"}
MCDigits     == {"0"}
MCAliases    == [n \in {<<"D", "F00800">>} |-> "00F00800"]

=============================================================================
