----------------------------- MODULE AppLaunch ------------------------------
(***************************************************************************)
(* A launch as SDL_main runs it (ios_main.mm): the session log first, then *)
(* the ROM set-up, then the game; the log is finished only on the way out  *)
(* of a launch that failed.  Composes SessionLog with RomSetup.            *)
(***************************************************************************)
EXTENDS SessionLog, RomSetup

launch == <<vars, romVars>>

LaunchInit == Init /\ RomInit

\* snappad_start_diagnostics_log comes before snappad_prepare_rom_setup.
LogStep == stage = "off" /\ Start /\ UNCHANGED romVars
SetupStep == pc = "running" /\ RomStep /\ UNCHANGED vars

LaunchFails == stage = "failed" /\ Finish /\ RomProcessEnds
QuitGame    == stage = "playing" /\ Quit /\ RomProcessEnds
Killed      == Crash /\ RomProcessEnds
Shelved     == pc = "down" /\ Decay /\ UNCHANGED vars
NoMore      == Rest /\ UNCHANGED romVars

LaunchNext == LogStep \/ SetupStep \/ LaunchFails \/ QuitGame \/ Killed \/ Shelved \/ NoMore

LaunchSpec == LaunchInit /\ [][LaunchNext]_launch

=============================================================================
