---------------------------- MODULE MCSharedStore ----------------------------
(* The shared data directory for TLC.                                       *)
EXTENDS SharedStore, TLC

CONSTANTS p1, p2, s1, s2, k1, k2, strict, unrestricted

TwoProcs  == {p1, p2}
TwoSids   == {s1, s2}
TwoKeys   == {k1, k2}
BothModes == {strict, unrestricted}

Interchangeable == Permutations(TwoProcs) \cup Permutations(TwoSids)
                     \cup Permutations(TwoKeys) \cup Permutations(BothModes)

(* Once both files have had two savers at once nothing is claimed of them,   *)
(* and the behaviour ends.                                                  *)
Bounded == StoreInit /\ [][mixed # Sealed /\ StoreNext]_svars

(* What no guard and no property of the run reads makes no difference: what *)
(* a temporary file holds that is to be cut before it is next written, what *)
(* a field was meant to be that is excepted, and what "session end" said.   *)
Seen == <<dir, file, [f \in Sealed |-> IF tmp[f] # Missing /\ \A p \in Procs : ~AtFile(p, f)
                                       THEN Empty ELSE tmp[f]],
          fd, who, step, keying, hold, view,
          [x \in Fields |-> IF x \in lost \/ \E f \in mixed : x \in FieldsOf(f)
                            THEN Unset ELSE meant[x]],
          late, lost, mixed, runs>>
=============================================================================
