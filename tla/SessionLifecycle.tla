-------------------------- MODULE SessionLifecycle --------------------------
(***************************************************************************)
(* What the session manager promises its callers about a session's status. *)
(*                                                                         *)
(* A session starts, and then ends once, by expiry or by revocation.  The  *)
(* manager answers from memory and saves to a store, so that after a crash *)
(* it goes on from the last save.  A save records everything that memory   *)
(* holds at that moment: the store is never written with an older picture, *)
(* so a restart may forget recent changes but never mixes old and new      *)
(* ones, and a session whose end was saved never comes back.               *)
(*                                                                         *)
(* Two saves at once may leave the store unreadable until the later of the *)
(* two is over.  A daemon killed before that does not start again, which   *)
(* is the one way in which what was saved is lost.                         *)
(*                                                                         *)
(* Nothing is said here of locks, goroutines, MySQL or the firewall.       *)
(* SessionManager is shown to implement this specification.                *)
(***************************************************************************)
CONSTANTS
  Ids,          \* session identifiers
  Unreadable    \* a store that does not open

VARIABLES status,   \* what callers are told of each session
          durable,  \* what a restart would bring back
          up        \* the daemon runs

vars == <<status, durable, up>>

Nothing == [id \in Ids |-> "none"]

Init == status = Nothing /\ durable = Nothing /\ up = TRUE

(* A new session becomes visible. *)
Begin(id) == /\ up /\ status[id] = "none"
             /\ status' = [status EXCEPT ![id] = "active"]
             /\ UNCHANGED <<durable, up>>

(* Somebody ends a session; ending one that has expired is allowed, and    *)
(* the later reason replaces the earlier.                                  *)
Revoke(id) == /\ up /\ status[id] # "none"
              /\ status' = [status EXCEPT ![id] = "revoked"]
              /\ UNCHANGED <<durable, up>>

(* The reaper expires some active sessions together. *)
Expire == /\ up
          /\ \E S \in SUBSET {id \in Ids : status[id] = "active"} :
               status' = [id \in Ids |-> IF id \in S THEN "expired" ELSE status[id]]
          /\ UNCHANGED <<durable, up>>

(* Everything in memory is saved. *)
Save == up /\ durable' = status /\ UNCHANGED <<status, up>>

(* Two saves get in each other's way. *)
Spoil == up /\ durable' = Unreadable /\ UNCHANGED <<status, up>>

(* The process dies and starts again from the store, if that opens. *)
Crash == /\ durable # Unreadable
         /\ status' = durable
         /\ UNCHANGED <<durable, up>>

CrashForGood == /\ durable = Unreadable
                /\ status' = Nothing /\ up' = FALSE
                /\ UNCHANGED durable

Next == \/ \E id \in Ids : Begin(id) \/ Revoke(id)
        \/ Expire \/ Save \/ Spoil \/ Crash \/ CrashForGood

Spec == Init /\ [][Next]_vars
=============================================================================
