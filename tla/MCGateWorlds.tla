----------------------------- MODULE MCGateWorlds -----------------------------
(* Two worlds of the gate in one run.  In "lockout" there is one session, two *)
(* browsers and time for two lockouts; in "tokens" two sessions, the owner    *)
(* alone and time for tokens to age.                                          *)
EXTENDS MCWebGate

CONSTANT TokensTime

VARIABLE world

Within == /\ world = "lockout" => /\ status[b] = "none"
                                  /\ \A g \in Procs : sid[g] # b
          /\ world = "tokens" => /\ now <= TokensTime /\ pc[guest] = "idle"
                                 /\ \A id \in Ids : expires[id] <= TokensTime + 1

WorldsInit == Init /\ world \in {"lockout", "tokens"} /\ Within
WorldsNext == Next /\ UNCHANGED world /\ Within'
Worlds     == WorldsInit /\ [][WorldsNext]_<<vars, world>>
=============================================================================
