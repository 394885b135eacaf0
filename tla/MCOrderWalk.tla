---------------------------- MODULE MCOrderWalk ----------------------------
(* Instances of OrderWalk for TLC. *)
EXTENDS OrderWalk, TLC

CONSTANTS j1, j2, j3, c1, c2, c3

ThreeJobs == {j1, j2, j3}
TargetFirstThree == [j \in Jobs |-> IF j = j1 THEN 3 ELSE 1]
TargetFirstTwo == [j \in Jobs |-> IF j = j1 THEN 2 ELSE 1]
OwnContract == [j \in Jobs |-> IF j = j1 THEN c1 ELSE IF j = j2 THEN c2 ELSE c3]
SharedContract == [j \in Jobs |-> IF j = j2 THEN c2 ELSE c1]
OneOpening == {j1}
ThirdOpening == {j3}
Symmetric == Permutations({j2, j3})

\* j1 works alone; j2 and j3 work together, for at most two price steps: some of the
\* behaviours of Spec.
Apart ==
  \A j \in Jobs :
    /\ pc[j] = "idle" /\ pc'[j] # "idle" =>
         \A k \in Jobs : (j = j1) # (k = j1) => pc[k] = "idle"
    /\ j # j1 /\ pc'[j] = "quote" => index'[j] <= 2

\* j3 and the others work in no order of one another's: beside each other, if the gate lets them,
\* or not both.  Some of the behaviours of FairSpec, each fair to every job.
NotAfter ==
  \A j, k \in Jobs :
    (j = j3) # (k = j3) /\ pc[j] = "idle" /\ pc'[j] # "idle" => pc[k] # "done"
============================================================================
