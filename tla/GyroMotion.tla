----------------------------- MODULE GyroMotion -----------------------------
(***************************************************************************)
(* The gyro input of the touch overlay one atomic access at a time         *)
(* (ios_main.mm): the main thread starts and stops the motion manager, its *)
(* handler runs on a serial queue and stores the axes, which the game      *)
(* polls.  A generation tells the handlers of a session from those of the  *)
(* next, but a handler asks before it stores.                              *)
(*                                                                         *)
(* The value of an axis is the generation of the session whose sample it   *)
(* is; the filter and the orientation are left out.  When the overlay      *)
(* wants the gyro is the subject of TouchOverlay, here it may change its   *)
(* mind at any time.                                                       *)
(***************************************************************************)
EXTENDS Naturals, Sequences

CONSTANTS
  MaxGeneration, \* bound on starts and stops together
  MaxBlocks      \* bound on the samples that wait in the motion queue

ASSUME GyroAssumption == MaxGeneration \in Nat /\ MaxBlocks \in Nat \ {0}

VARIABLES
  generation, \* g_gyro_generation
  gyroActive, \* g_gyro_input_active
  gyroX,      \* g_gyro_x: whose sample, 0 for zero
  gyroY,      \* g_gyro_y
  delivering, \* the session whose updates the motion manager delivers, 0 for none
  motionMain, \* where the main thread is in stopGyroMotion or updateGyroMotionState
  blocks,     \* the motion queue: the session each waiting handler captured
  handler,    \* where the running handler is
  owner,      \* the session it captured
  overtaken   \* history: since the axes were stored last as they should be, the
              \* generation changed under a handler that had passed its checks

axes      == <<gyroX, gyroY>>
queueing  == <<blocks, handler, owner>>
gyroVars  == <<generation, gyroActive, axes, delivering, motionMain, queueing, overtaken>>

GyroInit ==
  /\ generation = 0 /\ gyroActive = FALSE /\ gyroX = 0 /\ gyroY = 0
  /\ delivering = 0 /\ motionMain = "idle"
  /\ blocks = <<>> /\ handler = "idle" /\ owner = 0
  /\ overtaken = FALSE

Passed == handler \in {"store_x", "store_y"}

-----------------------------------------------------------------------------
(* The main thread. *)

\* fetch_add at the head of stopGyroMotion and of a start.
NewGeneration(first) ==
  /\ motionMain = "idle" /\ generation < MaxGeneration
  /\ generation' = generation + 1 /\ motionMain' = first
  /\ overtaken' = (overtaken \/ Passed)
  /\ UNCHANGED <<gyroActive, axes, delivering, queueing>>

StopGyro  == NewGeneration("stop_updates")
StartGyro == delivering = 0 /\ NewGeneration("start_x")

StopUpdates ==
  /\ motionMain = "stop_updates"
  /\ delivering' = 0 /\ motionMain' = "deactivate"
  /\ UNCHANGED <<generation, gyroActive, axes, queueing, overtaken>>

Deactivate ==
  /\ motionMain = "deactivate"
  /\ gyroActive' = FALSE /\ motionMain' = "stop_x"
  /\ UNCHANGED <<generation, axes, delivering, queueing, overtaken>>

ZeroX ==
  /\ \/ motionMain = "stop_x"  /\ motionMain' = "stop_y"
     \/ motionMain = "start_x" /\ motionMain' = "start_y"
  /\ gyroX' = 0
  /\ UNCHANGED <<generation, gyroActive, gyroY, delivering, queueing, overtaken>>

ZeroY ==
  /\ \/ motionMain = "stop_y"  /\ motionMain' = "idle"
     \/ motionMain = "start_y" /\ motionMain' = "activate"
  /\ gyroY' = 0
  /\ UNCHANGED <<generation, gyroActive, gyroX, delivering, queueing, overtaken>>

Activate ==
  /\ motionMain = "activate"
  /\ gyroActive' = TRUE /\ motionMain' = "start_updates"
  /\ UNCHANGED <<generation, axes, delivering, queueing, overtaken>>

StartUpdates ==
  /\ motionMain = "start_updates"
  /\ delivering' = generation /\ motionMain' = "idle"
  /\ UNCHANGED <<generation, gyroActive, axes, queueing, overtaken>>

-----------------------------------------------------------------------------
(* The motion queue, one handler at a time. *)

Sample ==
  /\ delivering # 0 /\ Len(blocks) < MaxBlocks
  /\ blocks' = Append(blocks, delivering)
  /\ UNCHANGED <<generation, gyroActive, axes, delivering, motionMain, handler, owner,
                 overtaken>>

Run ==
  /\ handler = "idle" /\ blocks # <<>>
  /\ owner' = Head(blocks) /\ blocks' = Tail(blocks) /\ handler' = "active"
  /\ UNCHANGED <<generation, gyroActive, axes, delivering, motionMain, overtaken>>

CheckActive ==
  /\ handler = "active"
  /\ handler' = IF gyroActive THEN "generation" ELSE "idle"
  /\ UNCHANGED <<generation, gyroActive, axes, delivering, motionMain, blocks, owner,
                 overtaken>>

\* Slip: being active is thought to be enough.
MutCheckGeneration ==
  /\ handler = "generation"
  /\ handler' = "store_x"
  /\ UNCHANGED <<generation, gyroActive, axes, delivering, motionMain, blocks, owner,
                 overtaken>>

CheckGeneration ==
  /\ handler = "generation"
  /\ handler' = IF generation = owner THEN "store_x" ELSE "idle"
  /\ UNCHANGED <<generation, gyroActive, axes, delivering, motionMain, blocks, owner,
                 overtaken>>

StoreX ==
  /\ handler = "store_x"
  /\ gyroX' = owner /\ handler' = "store_y"
  /\ UNCHANGED <<generation, gyroActive, gyroY, delivering, motionMain, blocks, owner,
                 overtaken>>

\* A handler of the current session that stores both axes repairs them.
StoreY ==
  /\ handler = "store_y"
  /\ gyroY' = owner /\ handler' = "idle"
  /\ overtaken' = (overtaken /\ generation # owner)
  /\ UNCHANGED <<generation, gyroActive, gyroX, delivering, motionMain, blocks, owner>>

\* The bound is reached and the queue has run dry.
AllStill ==
  /\ generation = MaxGeneration /\ motionMain = "idle" /\ delivering = 0
  /\ handler = "idle" /\ blocks = <<>>
  /\ UNCHANGED gyroVars

GyroNext ==
  \/ StopGyro \/ StartGyro
  \/ StopUpdates \/ Deactivate \/ ZeroX \/ ZeroY \/ Activate \/ StartUpdates
  \/ Sample \/ Run \/ CheckActive \/ CheckGeneration \/ StoreX \/ StoreY
  \/ AllStill

GyroSpec == GyroInit /\ [][GyroNext]_gyroVars

-----------------------------------------------------------------------------
(* Properties. *)

\* Outside a stop and a start the axes are zero or a sample of the session that
\* runs: a handler of an older one stores nothing, however late the queue gets
\* to it - unless the generation changed between its checks and its stores, and
\* then only until the next sample.  In particular nothing is left of a session
\* when the gyro stands still.
AxesAreOfThisSession ==
  motionMain = "idle" /\ ~overtaken => {gyroX, gyroY} \subseteq {0, generation}

-----------------------------------------------------------------------------
(* The inductive invariant behind it. *)

GyroTypeOK ==
  /\ generation \in Nat /\ gyroX \in Nat /\ gyroY \in Nat /\ delivering \in Nat
  /\ gyroActive \in BOOLEAN /\ overtaken \in BOOLEAN
  /\ motionMain \in {"idle", "stop_updates", "deactivate", "stop_x", "stop_y",
                     "start_x", "start_y", "activate", "start_updates"}
  /\ blocks \in Seq(Nat) /\ owner \in Nat
  /\ handler \in {"idle", "active", "generation", "store_x", "store_y"}

\* The main thread has yet to zero the axis.
ToZeroX == motionMain \in {"stop_updates", "deactivate", "stop_x", "start_x"}
ToZeroY == ToZeroX \/ motionMain \in {"stop_y", "start_y"}

\* A handler that was not overtaken stores for the current session.
AxesInv ==
  /\ ~overtaken /\ Passed => owner = generation
  /\ ~overtaken /\ ~ToZeroX => gyroX \in {0, generation}
  /\ ~overtaken /\ ~ToZeroY => gyroY \in {0, generation}
  /\ handler = "store_y" => gyroX \in {0, owner}

GyroInv == GyroTypeOK /\ AxesInv

=============================================================================
