--------------------------- MODULE MCServerObjects ---------------------------
(* What is made on the server for TLC: permanent grants, playgrounds, and   *)
(* the account and rule of a session's address.  The components share no    *)
(* variable, so a behaviour of all interleaves a behaviour of each, and it  *)
(* is enough that one of them moves (focus); the others keep one initial    *)
(* state.  Requests about grants are bounded by MaxCalls.                   *)
EXTENDS PermanentGrants, Playground, AddressPolicy, TLC

CONSTANTS alice, tmp, near, g1, g2, guest, h1, h2, MaxCalls

TwoNames    == {alice, tmp}
OneName     == {alice}
TmpOnly     == {tmp}
Nobody      == {}
OneBlock    == {near}
TwoGrants   == {g1, g2}
TwoHandlers == {h1, h2}
OneHandler  == {h1}
OneOwner    == {guest}
BothModes   == {"strict", "unrestricted"}
StrictMode  == {"strict"}

VARIABLES focus, calls

Nowhere == [form |-> "other", written |-> "v6", ip |-> 0, ones |-> 0]

Init == /\ focus \in {"grants", "playground", "address"} /\ calls = 0
        /\ focus # "grants" => mode = "strict" /\ origin = [n \in Names |-> "none"]
        /\ focus # "address" => text = Nowhere
        /\ GrantInit /\ PlayInit /\ AddressInit

Begun == \E w \in Clerks : at[w] = "idle" /\ at'[w] # "idle"

Next == /\ \/ focus = "grants" /\ GrantNext /\ UNCHANGED <<pvars, addressVars>>
           \/ focus = "playground" /\ PlayNext /\ UNCHANGED <<gvars, addressVars>>
           \/ focus = "address" /\ AddressNext /\ UNCHANGED <<gvars, pvars>>
        /\ calls' = calls + (IF Begun THEN 1 ELSE 0)
        /\ calls' <= MaxCalls
        /\ UNCHANGED focus

Spec == Init /\ [][Next]_<<gvars, pvars, addressVars, focus, calls>>

(* What nothing in this run reads makes no difference: `announced`; that a  *)
(* session lapsed which is not live, nor will be after a restart; and what  *)
(* the other histories say of a playground that is spoiled.                 *)
Seen == <<gvars, there, dbs, unrecorded \ spoiled, memory, saved,
          IF restartsP = MaxPlayRestarts THEN lapsed \cap live
                                         ELSE lapsed \cap (live \cup saved.live),
          step, task, spoiled, bare \ spoiled, faultsP, restartsP,
          addressVars, focus, calls>>

Interchangeable == Permutations(TwoGrants) \cup Permutations(TwoHandlers)
=============================================================================
