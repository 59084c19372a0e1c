------------------------- MODULE MCTestInputReplay -------------------------
(* A step held for one poll, two steps with two and one, and four steps.    *)
EXTENDS TestInputReplay

Short == <<[frame |-> "a", polls |-> 1]>>
Long  == <<[frame |-> "b", polls |-> 2], [frame |-> "stick_up", polls |-> 1]>>
Longer == <<[frame |-> "b", polls |-> 2], [frame |-> "neutral", polls |-> 3],
            [frame |-> "a", polls |-> 1], [frame |-> "start", polls |-> 14]>>

MCRoutes == {Short, Long, Longer}
MCBegin == [r \in MCRoutes |->
  CASE r = Short  -> <<0, 1>>
    [] r = Long   -> <<0, 2, 3>>
    [] r = Longer -> <<0, 2, 5, 6, 20>>]
=============================================================================
