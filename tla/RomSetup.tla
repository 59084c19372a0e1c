------------------------------ MODULE RomSetup ------------------------------
(***************************************************************************)
(* The private copy of the ROM (rom_setup.mm, ensure_rom_installed in      *)
(* snappad_runner.cpp): set-up asks for a ROM until a valid one is         *)
(* installed, the runner validates it into a copy of its own and plays,    *)
(* and the ROM manager replaces or removes it while the game runs.  An     *)
(* import writes two files, a removal deletes three; each file operation   *)
(* is a step, may fail as the code provides for, and the process may be    *)
(* killed between any two.                                                 *)
(*                                                                         *)
(* A file is missing, good - the normalized ROM with the expected SHA-1 -  *)
(* or bad.  Writing to the target is atomic; how N64ModernRuntime writes   *)
(* its copy is not known here, so a kill may leave that torn.  Application *)
(* Support can be written, as in SDL_main before.                          *)
(***************************************************************************)

VARIABLES
  base,     \* baserom.z64
  copy,     \* pokemonsnap.n64.us.z64, the runtime's copy
  config,   \* rom.cfg exists; it is written and removed and nothing reads it
  stage,    \* "off", "setup", "ensure", "playing" or "failed"
  write,    \* the file operation that an import or a removal makes next
  promised, \* history: what was last promised for the next launch: "nothing",
            \* "starts" (imported and not touched since) or "asks" (removed)
  carried   \* history: that promise at the launch of this session, until set-up
            \* has asked for a ROM and got one

romFiles == <<base, copy, config>>
romVars  == <<romFiles, stage, write, promised, carried>>

RomInit ==
  /\ base = "missing" /\ copy = "missing" /\ config = FALSE
  /\ stage = "off" /\ write = "none"
  /\ promised = "nothing" /\ carried = "nothing"

\* Slip: rom.cfg, the last file of an import, is taken for proof of the ROM.
MutInstalled == config

\* validateInstalledROM.
Installed == base = "good"

\* snappad_prepare_rom_setup.
PrepareRomSetup ==
  /\ stage = "off"
  /\ stage' = IF Installed THEN "ensure" ELSE "setup"
  /\ carried' = promised
  /\ UNCHANGED <<romFiles, write, promised>>

\* There is no window scene to ask in.
PrepareFails ==
  /\ stage = "off" /\ ~Installed
  /\ stage' = "failed" /\ carried' = promised
  /\ UNCHANGED <<romFiles, write, promised>>

\* installROMFromURL got a ROM that passes normalizedROMData; any other file is
\* refused before anything is written.
PickRom ==
  /\ stage \in {"setup", "playing"} /\ write = "none"
  /\ write' = "rom"
  /\ UNCHANGED <<romFiles, stage, promised, carried>>

WriteRom ==
  /\ write = "rom"
  /\ base' = "good" /\ write' = "config"
  /\ promised' = "nothing"
  /\ UNCHANGED <<copy, config, stage, carried>>

\* With rom.cfg the import is complete: set-up ends, the manager says so.
WriteConfig ==
  /\ write = "config"
  /\ config' = TRUE /\ write' = "none" /\ promised' = "starts"
  /\ stage' = IF stage = "setup" THEN "ensure" ELSE stage
  /\ carried' = IF stage = "setup" THEN "nothing" ELSE carried
  /\ UNCHANGED <<base, copy>>

\* Storage is full: the import is reported as failed, what is written stays.
WriteFails ==
  /\ write \in {"rom", "config"}
  /\ write' = "none"
  /\ UNCHANGED <<romFiles, stage, promised, carried>>

\* ensure_rom_installed: the stored copy is loaded if it is valid, otherwise it
\* is made from baserom.z64, which select_rom validates again.
LoadRom ==
  /\ stage = "ensure"
  /\ \/ copy = "good" /\ UNCHANGED copy
     \/ copy # "good" /\ base = "good" /\ copy' = "good"
  /\ stage' = "playing"
  /\ UNCHANGED <<base, config, write, promised, carried>>

\* The copy cannot be saved.
LoadFails ==
  /\ stage = "ensure" /\ copy # "good"
  /\ copy' \in {copy, "bad"} /\ stage' = "failed"
  /\ UNCHANGED <<base, config, write, promised, carried>>

\* removeROM: baserom.z64 goes first, and only that must succeed.
RemoveRom ==
  /\ stage = "playing" /\ write = "none"
  /\ base' = "missing" /\ write' = "remove_copy"
  /\ promised' = "nothing"
  /\ UNCHANGED <<copy, config, stage, carried>>

RemoveCopy ==
  /\ write = "remove_copy"
  /\ copy' \in {"missing", copy} /\ write' = "remove_config"
  /\ UNCHANGED <<base, config, stage, promised, carried>>

\* "SnapPad will ask for a ROM the next time it launches."
RemoveConfig ==
  /\ write = "remove_config"
  /\ config' \in {FALSE, config} /\ write' = "none" /\ promised' = "asks"
  /\ UNCHANGED <<base, copy, stage, carried>>

\* The process is gone, in the middle of a copy if it was making one.
RomProcessEnds ==
  /\ stage' = "off" /\ write' = "none" /\ carried' = "nothing"
  /\ copy' \in IF stage = "ensure" /\ copy # "good" THEN {copy, "bad"} ELSE {copy}
  /\ UNCHANGED <<base, config, promised>>

\* A file decays while the application is not running.
Decay ==
  /\ stage = "off"
  /\ \/ base # "missing" /\ base' = "bad" /\ UNCHANGED copy
     \/ copy # "missing" /\ copy' = "bad" /\ UNCHANGED base
  /\ promised' = IF base' = "bad" /\ promised = "starts" THEN "nothing" ELSE promised
  /\ UNCHANGED <<config, stage, write, carried>>

RomStep ==
  \/ PrepareRomSetup \/ PrepareFails \/ PickRom \/ WriteRom \/ WriteConfig \/ WriteFails
  \/ LoadRom \/ LoadFails \/ RemoveRom \/ RemoveCopy \/ RemoveConfig

-----------------------------------------------------------------------------
(* Properties. *)

\* What the last session promised comes true, wherever the process was killed
\* since and whichever of the other files could not be removed or written: a
\* removed ROM is not played again before a ROM is chosen, a verified one is
\* not asked for again.
RomPromisesKept ==
  /\ carried = "asks"   => stage \notin {"ensure", "playing"}
  /\ carried = "starts" => stage # "setup"

-----------------------------------------------------------------------------
(* The inductive invariant behind it. *)

RomTypeOK ==
  /\ base \in {"missing", "good", "bad"} /\ copy \in {"missing", "good", "bad"}
  /\ config \in BOOLEAN
  /\ stage \in {"off", "setup", "ensure", "playing", "failed"}
  /\ write \in {"none", "rom", "config", "remove_copy", "remove_config"}
  /\ promised \in {"nothing", "starts", "asks"} /\ carried \in {"nothing", "starts", "asks"}

\* A promise is about baserom.z64 alone; the file that follows it in an import
\* or a removal finds it as it was left.
PromiseIsOnDisk ==
  /\ promised = "asks" => base = "missing"
  /\ promised = "starts" => base = "good"
  /\ write = "config" => base = "good"
  /\ write \in {"remove_copy", "remove_config"} => base = "missing"
  /\ write # "none" => stage \in {"setup", "playing"}

RomInv == RomTypeOK /\ PromiseIsOnDisk /\ RomPromisesKept

=============================================================================
