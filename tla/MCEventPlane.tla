---------------------------- MODULE MCEventPlane ----------------------------
(* Small worker fleets with which TLC checks EventPlane.                   *)
EXTENDS EventPlane

CONSTANTS e1, g1, c1, c2, p1, p2

(* two workers registered for one group *)
OneGroup == [c \in Consumers |-> g1]

=============================================================================
