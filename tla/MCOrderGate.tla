----------------------------- MODULE MCOrderGate ----------------------------
(* Instances of OrderGate for TLC. *)
EXTENDS OrderGate

CONSTANTS c1, c2, r1

\* Two closes and a replacement on one underlying and right; c2 is the dear one.
ByWalk == [w \in Walks |-> w]
OneKey == [w \in Walks |-> "key"]
WalkSizes == [w \in Walks |-> IF w = c2 THEN 1 ELSE 2]
WalkPrices == [w \in Walks |-> IF w = c2 THEN 2 ELSE 1]

=============================================================================
