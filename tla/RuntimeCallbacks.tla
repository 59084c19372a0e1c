-------------------------- MODULE RuntimeCallbacks --------------------------
(***************************************************************************)
(* What other threads call into: the audio of the runner, the motion queue *)
(* of the gyro and the hooks behind shutter and scorer.  They share no     *)
(* state, so a behaviour is one of one part while the others rest.         *)
(***************************************************************************)
EXTENDS AudioLifecycle, GyroMotion, PhotoScore

VARIABLE part  \* "audio", "gyro" or "photo"

callbacks == <<part, vars, gyroVars, photoVars>>

PhotoRests == PhotoInit /\ ~tracing

RuntimeInit ==
  /\ Init /\ GyroInit
  /\ \/ part \in {"audio", "gyro"} /\ PhotoRests
     \/ part = "photo" /\ PhotoInit

OfAudio(A) == part = "audio" /\ A /\ UNCHANGED <<part, gyroVars, photoVars>>
OfGyro(A)  == part = "gyro"  /\ A /\ UNCHANGED <<part, vars, photoVars>>
OfPhoto(A) == part = "photo" /\ A /\ UNCHANGED <<part, vars, gyroVars>>

RuntimeNext == OfAudio(Next) \/ OfGyro(GyroNext) \/ OfPhoto(PhotoNext)

RuntimeSpec == RuntimeInit /\ [][RuntimeNext]_callbacks

=============================================================================
