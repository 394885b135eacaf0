------------------------------- MODULE MCTick -------------------------------
(* Instances of Tick for TLC: slot 2 is outside the session, and the last time has no *)
(* session after it, so that a time asked for may have no place.                      *)
EXTENDS Tick

CONSTANTS p1, p2

TwoFires == {p1, p2}
Asked == {1, Horizon}
MarketHours == Times \ {2, Horizon}

=============================================================================
