--------------------------- MODULE MCScreenRefresh ---------------------------
(* ScreenRefresh on screens of one to three tiles. *)
EXTENDS ScreenRefresh

OneRegion  == {{2}}
NoRegion   == {}
NoTarget   == {}
TwoTargets == {[box |-> {1, 2}, image |-> [t \in {1, 2} |-> 2]],
               [box |-> {2}, image |-> [t \in {2} |-> 2]]}
==============================================================================
