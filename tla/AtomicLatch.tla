---------------------------- MODULE AtomicLatch ----------------------------
(***************************************************************************)
(* What a tap latch promises (the class comment of touch_tap_latch.h): per *)
(* button, a number of polls that will still see the tap.  Granting,       *)
(* taking and dropping polls are indivisible.                              *)
(***************************************************************************)
EXTENDS Naturals

CONSTANTS Buttons, MaxPolls

VARIABLES credit, delivered

AbstractInit ==
  /\ credit = [b \in Buttons |-> 0]
  /\ delivered = [b \in Buttons |-> 0]

\* A tap grants polls and never shortens one that is still visible.
Grant(b, polls) ==
  /\ credit[b] < polls
  /\ credit' = [credit EXCEPT ![b] = polls]
  /\ UNCHANGED delivered

\* One poll sees the button.
Take(b) ==
  /\ credit[b] > 0
  /\ credit' = [credit EXCEPT ![b] = @ - 1]
  /\ delivered' = [delivered EXCEPT ![b] = @ + 1]

\* A clear takes every remaining poll back.
Drop(b) ==
  /\ credit' = [credit EXCEPT ![b] = 0]
  /\ UNCHANGED delivered

AbstractNext ==
  \E b \in Buttons : Take(b) \/ Drop(b) \/ \E polls \in 1..MaxPolls : Grant(b, polls)

AbstractSpec == AbstractInit /\ [][AbstractNext]_<<credit, delivered>>
=============================================================================
