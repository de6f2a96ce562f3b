-------------------------- MODULE MCSessionManager --------------------------
(* Instances of SessionManager for TLC.  Sessions, blocks and handlers are *)
(* interchangeable; the symmetry is used by safety runs only.              *)
EXTENDS SessionManager, TLC

CONSTANTS a, b, near, far, h1, h2

TwoIds      == {a, b}
OneId       == {a}
TwoCidrs    == {near, far}
OneCidr     == {near}
TwoHandlers == {h1, h2}
OneHandler  == {h1}

Interchangeable ==
  Permutations(TwoIds) \cup Permutations(TwoCidrs) \cup Permutations(TwoHandlers)

(* That ExpiresAt passes matters to a session that is active; of another,   *)
(* nothing reads it.  VerifyAccess, which only takes the lock and gives it  *)
(* back, is left to the run about contention.                               *)
Bounded ==
  Init /\ [][/\ Next
             /\ \A id \in lapsed' \ lapsed : mem[id] = "active"
             /\ \A h \in Workers : op'[h] # "verify"]_vars
=============================================================================
