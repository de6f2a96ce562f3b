---------------------------- MODULE WebGateProofs ----------------------------
(***************************************************************************)
(* For any sessions, browsers, addresses and limits: a request is served   *)
(* only under a session whose gate its browser has passed, a lockout lets  *)
(* no more wrong attempts through than the limit, and locks nobody out who *)
(* has not made them.                                                      *)
(***************************************************************************)
EXTENDS WebGate, SequenceTheorems, TLAPS

Inv == TokenInv /\ ServedIsVerified

USE GateNullsAssumption DEF Procs

(* At the start there is no token and no request. *)
LEMMA InitToken == Init => Inv
  <1> SUFFICES ASSUME Init PROVE Inv
    OBVIOUS
  <1>1. now \in Nat /\ tokens = {} /\ verified = {}
    BY DEF Init
  <1>2. /\ pc \in [Procs -> Pcs] /\ sid \in [Procs -> Ids \cup {NoId}]
        /\ via \in [Clients -> Ids \cup {NoId}]
        /\ cookie \in [Clients -> [holder : Clients, sid : Ids, issued : Nat] \cup {NoToken}]
    BY DEF Init, Pcs
  <1>3. \A c \in Clients : pc[c] = "idle" /\ cookie[c] = NoToken /\ via[c] = NoId
    BY DEF Init
  <1> QED
    BY <1>1, <1>2, <1>3 DEF Inv, TokenInv, ServedIsVerified

(* Steps that add no token, cookie or verification, and lead no goroutine  *)
(* to the gate or past it.                                                 *)
LEMMA QuietStep ==
  ASSUME Inv, verified' = verified, tokens' \subseteq tokens, now' \in Nat,
         NEW g \in Procs, NEW p \in Pcs, NEW id \in Ids \cup {NoId},
         p \notin {"verify", "issue"},
         cookie' = cookie \/ cookie' = [cookie EXCEPT ![g] = NoToken],
         pc' = [pc EXCEPT ![g] = p],
         sid' = sid \/ sid' = [sid EXCEPT ![g] = id],
         via' = via \/ via' = [via EXCEPT ![g] = NoId]
  PROVE  Inv'
  <1>1. pc' \in [Procs -> Pcs] /\ sid' \in [Procs -> Ids \cup {NoId}]
    BY DEF Inv, TokenInv
  <1>2. via' \in [Clients -> Ids \cup {NoId}]
    BY DEF Inv, TokenInv
  <1>3. \A c \in Clients : pc'[c] \in {"verify", "issue"} => c # g
    BY DEF Inv, TokenInv
  <1>4. \A c \in Clients : c # g => pc'[c] = pc[c] /\ sid'[c] = sid[c]
    BY DEF Inv, TokenInv
  <1>5. \A c \in Clients : via'[c] # NoId => via'[c] = via[c]
    BY DEF Inv, TokenInv
  <1>6. /\ cookie' \in [Clients -> [holder : Clients, sid : Ids, issued : Nat] \cup {NoToken}]
        /\ \A c \in Clients : cookie'[c] # NoToken => cookie'[c] = cookie[c]
    BY DEF Inv, TokenInv
  <1>7. tokens' \subseteq [holder : Clients, sid : Ids, issued : Nat]
    BY DEF Inv, TokenInv
  <1> QED
    BY <1>1, <1>2, <1>3, <1>4, <1>5, <1>6, <1>7 DEF Inv, TokenInv, ServedIsVerified

(* The same for steps of no goroutine. *)
LEMMA StillStep ==
  ASSUME Inv, UNCHANGED <<verified, cookie, pc, sid, via>>,
         tokens' \subseteq tokens, now' \in Nat
  PROVE  Inv'
  BY DEF Inv, TokenInv, ServedIsVerified

(* ActiveSession finds a session or none. *)
LEMMA ActiveSessionType == ActiveSession \subseteq Ids \cup {NoId}
  BY DEF ActiveSession

(* A browser comes to the gate. *)
LEMMA GatePostStep ==
  ASSUME Inv, NEW c \in Clients, GatePost(c)
  PROVE  Inv'
  <1>1. PICK id \in ActiveSession \ {NoId} : sid' = [sid EXCEPT ![c] = id]
    BY DEF GatePost, Found
  <1>2. id \in Ids
    BY <1>1, ActiveSessionType
  <1>3. pc' = [pc EXCEPT ![c] = "verify"]
    BY DEF GatePost, Goto
  <1>4. UNCHANGED <<now, via, tokens, cookie, verified>>
    BY DEF GatePost, webVars, attempts
  <1>5. pc' \in [Procs -> Pcs] /\ sid' \in [Procs -> Ids \cup {NoId}]
    BY <1>1, <1>2, <1>3 DEF Inv, TokenInv, Pcs
  <1>6. /\ sid'[c] \in Ids /\ pc'[c] = "verify"
        /\ \A d \in Clients \ {c} : pc'[d] = pc[d] /\ sid'[d] = sid[d]
    BY <1>1, <1>2, <1>3 DEF Inv, TokenInv
  <1> QED
    BY <1>4, <1>5, <1>6 DEF Inv, TokenInv, ServedIsVerified

(* A request that is over. *)
LEMMA FinishStep ==
  ASSUME Inv, NEW c \in Clients, Finish(c), verified' = verified, now' = now,
         tokens' \subseteq tokens,
         cookie' = cookie \/ cookie' = [cookie EXCEPT ![c] = NoToken]
  PROVE  Inv'
  <1>1. /\ pc' = [pc EXCEPT ![c] = "idle"] /\ sid' = [sid EXCEPT ![c] = NoId]
        /\ via' = [via EXCEPT ![c] = NoId]
    BY DEF Finish, Goto, Found
  <1>2. c \in Procs /\ "idle" \in Pcs /\ "idle" \notin {"verify", "issue"}
    BY DEF Pcs
  <1>3. now' \in Nat
    BY DEF Inv, TokenInv
  <1> QED
    BY <1>1, <1>2, <1>3, QuietStep

(* A step of goroutine g to another place in its request. *)
LEMMA MoveStep ==
  ASSUME Inv, NEW g \in Procs, NEW p \in Pcs \ {"verify", "issue"}, Goto(g, p),
         UNCHANGED <<now, verified, cookie>>, tokens' \subseteq tokens,
         NEW id \in Ids \cup {NoId}, sid' = sid \/ Found(g, id), via' = via
  PROVE  Inv'
  <1>1. pc' = [pc EXCEPT ![g] = p] /\ (sid' = sid \/ sid' = [sid EXCEPT ![g] = id])
    BY DEF Goto, Found
  <1>2. now' \in Nat /\ p \in Pcs /\ p \notin {"verify", "issue"}
    BY DEF Inv, TokenInv
  <1> QED
    BY <1>1, <1>2, QuietStep

(* The gate refuses, counts, or admits. *)
LEMMA VerifyAccessStep ==
  ASSUME Inv, NEW c \in Clients, VerifyAccess(c)
  PROVE  Inv'
  <1>1. UNCHANGED <<now, tokens, cookie>> /\ sid[c] \in Ids
    BY DEF VerifyAccess, webVars, Inv, TokenInv
  <1>2. CASE Finish(c) /\ verified' = verified
    BY <1>1, <1>2, FinishStep
  <1>3. CASE Admit(c, sid[c]) /\ Goto(c, "issue") /\ UNCHANGED <<sid, via>>
    <2>1. verified' = verified \cup {<<c, sid[c]>>} /\ pc' = [pc EXCEPT ![c] = "issue"]
      BY <1>3 DEF Admit, Goto
    <2>2. /\ pc' \in [Procs -> Pcs] /\ pc'[c] = "issue"
          /\ \A d \in Clients \ {c} : pc'[d] = pc[d]
      BY <2>1 DEF Inv, TokenInv, Pcs
    <2> QED
      BY <1>1, <1>3, <2>1, <2>2 DEF Inv, TokenInv, ServedIsVerified
  <1> QED
    BY <1>2, <1>3 DEF VerifyAccess, CountFailure, attempts

(* A token is issued to the browser that has just been admitted. *)
LEMMA IssueTokenStep ==
  ASSUME Inv, NEW c \in Clients, IssueToken(c)
  PROVE  Inv'
  <1> DEFINE t == [holder |-> c, sid |-> sid[c], issued |-> now]
  <1>1. /\ tokens' = tokens \cup {t} /\ cookie' = [cookie EXCEPT ![c] = t]
        /\ Finish(c) /\ now' = now /\ verified' = verified
    BY DEF IssueToken, attempts
  <1>2. /\ pc' = [pc EXCEPT ![c] = "idle"] /\ sid' = [sid EXCEPT ![c] = NoId]
        /\ via' = [via EXCEPT ![c] = NoId]
    BY <1>1 DEF Finish, Goto, Found
  <1>3. sid[c] \in Ids /\ <<c, sid[c]>> \in verified /\ now \in Nat
    BY DEF IssueToken, Inv, TokenInv
  <1>4. /\ t \in [holder : Clients, sid : Ids, issued : Nat]
        /\ t.holder = c /\ t.sid = sid[c]
    BY <1>3
  <1> HIDE DEF t
  <1>5. /\ tokens' \subseteq [holder : Clients, sid : Ids, issued : Nat]
        /\ \A u \in tokens' : <<u.holder, u.sid>> \in verified
    BY <1>1, <1>3, <1>4 DEF Inv, TokenInv
  <1>6. /\ cookie' \in [Clients -> [holder : Clients, sid : Ids, issued : Nat] \cup {NoToken}]
        /\ \A d \in Clients : cookie'[d] # NoToken => cookie'[d].holder = d
    BY <1>1, <1>4 DEF Inv, TokenInv
  <1>7. /\ pc' \in [Procs -> Pcs] /\ sid' \in [Procs -> Ids \cup {NoId}]
        /\ via' \in [Clients -> Ids \cup {NoId}]
    BY <1>2 DEF Inv, TokenInv, Pcs
  <1>8. /\ pc'[c] = "idle" /\ via'[c] = NoId
        /\ \A d \in Clients \ {c} : pc'[d] = pc[d] /\ sid'[d] = sid[d] /\ via'[d] = via[d]
    BY <1>2 DEF Inv, TokenInv
  <1> QED
    BY <1>1, <1>3, <1>5, <1>6, <1>7, <1>8 DEF Inv, TokenInv, ServedIsVerified

(* Validate drops tokens at most. *)
LEMMA DropAgedDrops == ASSUME NEW t, DropAged(t) PROVE tokens' \subseteq tokens
  BY DEF DropAged

(* The cookie is a token of the store: its holder has passed that gate. *)
LEMMA ValidateStep ==
  ASSUME Inv, NEW c \in Clients, Validate(c)
  PROVE  Inv'
  <1>1. UNCHANGED <<now, cookie, verified>> /\ tokens' \subseteq tokens
    BY DropAgedDrops DEF Validate, attempts
  <1>2. CASE Finish(c)
    BY <1>1, <1>2, FinishStep
  <1>3. CASE /\ Fresh(cookie[c]) /\ cookie[c].sid = sid[c] /\ Goto(c, "handler")
             /\ via' = [via EXCEPT ![c] = sid[c]] /\ UNCHANGED sid
    <2>1. cookie[c] \in tokens /\ cookie[c] # NoToken
      BY <1>3 DEF Fresh, Inv, TokenInv
    <2>2. <<c, sid[c]>> \in verified /\ sid[c] \in Ids
      BY <1>3, <2>1 DEF Inv, TokenInv
    <2>3. /\ pc' \in [Procs -> Pcs] /\ pc'[c] = "handler"
          /\ \A d \in Clients \ {c} : pc'[d] = pc[d]
      BY <1>3 DEF Goto, Inv, TokenInv, Pcs
    <2>4. via' \in [Clients -> Ids \cup {NoId}] /\ via'[c] = sid[c]
          /\ \A d \in Clients \ {c} : via'[d] = via[d]
      BY <1>3, <2>2 DEF Inv, TokenInv
    <2>5. tokens' \subseteq [holder : Clients, sid : Ids, issued : Nat]
      BY <1>1 DEF Inv, TokenInv
    <2> QED
      BY <1>1, <1>3, <2>2, <2>3, <2>4, <2>5 DEF Inv, TokenInv, ServedIsVerified
  <1> QED
    BY <1>2, <1>3 DEF Validate

(* The requests. *)
LEMMA RequestStep ==
  ASSUME Inv, NEW c \in Clients, Request(c)
  PROVE  Inv'
  <1> USE DEF webVars, mgrVars, attempts
  <1>1. CASE GatePost(c)
    BY <1>1, GatePostStep
  <1>2. CASE GateGet(c)
    BY <1>2, DropAgedDrops, StillStep DEF GateGet, Inv, TokenInv
  <1>3. CASE RequireAuth(c)
    <2>1. PICK id \in Ids : Found(c, id)
      BY <1>3, ActiveSessionType DEF RequireAuth
    <2> QED
      BY <1>3, <2>1, MoveStep DEF RequireAuth, Pcs
  <1>4. CASE SetupPost(c)
    <2>1. PICK id \in Ids : Found(c, id)
      BY <1>4 DEF SetupPost
    <2> QED
      BY <1>4, <2>1, MoveStep DEF SetupPost, Pcs
  <1> QED
    BY <1>1, <1>2, <1>3, <1>4 DEF Request

(* The steps of a request that is served. *)
LEMMA ServeStep ==
  ASSUME Inv, NEW c \in Clients, Serve(c)
  PROVE  Inv'
  <1> USE DEF webVars, mgrVars, attempts
  <1>1. CASE VerifyAccess(c)
    BY <1>1, VerifyAccessStep
  <1>2. CASE IssueToken(c)
    BY <1>2, IssueTokenStep
  <1>3. CASE Validate(c)
    BY <1>3, ValidateStep
  <1>4. CASE BuildDashBase(c)
    <2>1. PICK id \in Ids \cup {NoId} : Found(c, id)
      BY <1>4, ActiveSessionType DEF BuildDashBase
    <2> QED
      BY <1>4, <2>1, MoveStep DEF BuildDashBase, Pcs
  <1>5. CASE ListDatabases(c)
    <2>1. CASE Finish(c)
      BY <1>5, <2>1, FinishStep DEF ListDatabases
    <2>2. CASE Goto(c, "panic") /\ UNCHANGED <<sid, via>>
      BY <1>5, <2>2, MoveStep DEF ListDatabases, Pcs
    <2> QED
      BY <1>5, <2>1, <2>2 DEF ListDatabases
  <1>6. CASE Recover(c)
    BY <1>6, FinishStep DEF Recover
  <1>7. CASE SessionEndPost(c)
    <2>1. CASE Finish(c)
      BY <1>7, <2>1, FinishStep DEF SessionEndPost
    <2>2. CASE \E id \in Ids \cup {NoId} : Found(c, id) /\ Goto(c, "clear") /\ UNCHANGED via
      BY <1>7, <2>2, MoveStep DEF SessionEndPost, Pcs
    <2> QED
      BY <1>7, <2>1, <2>2, ActiveSessionType DEF SessionEndPost
  <1>8. CASE RevokeSession(c)
    BY <1>8, MoveStep DEF RevokeSession, Pcs
  <1>9. CASE End(c)
    BY <1>9, MoveStep DEF End, Pcs
  <1>10. CASE Register(c)
    <2>1. CASE Finish(c)
      BY <1>10, <2>1, FinishStep DEF Register
    <2>2. CASE Goto(c, "save") /\ UNCHANGED <<sid, via>>
      BY <1>10, <2>2, MoveStep DEF Register, Pcs
    <2> QED
      BY <1>10, <2>1, <2>2 DEF Register
  <1> QED
    BY <1>1, <1>2, <1>3, <1>4, <1>5, <1>6, <1>7, <1>8, <1>9, <1>10 DEF Serve

(* The steps handlers and the reaper have in common. *)
LEMMA SharedStep ==
  ASSUME Inv, NEW g \in Procs, Shared(g)
  PROVE  Inv'
  <1> USE DEF webVars, mgrVars, attempts
  <1>1. CASE OnRevoke(g)
    <2>1. CASE Goto(g, "save") /\ UNCHANGED <<sid, via>>
      BY <1>1, <2>1, MoveStep DEF OnRevoke, Pcs
    <2>2. CASE g \in Clients /\ Finish(g)
      BY <1>1, <2>2, FinishStep DEF OnRevoke
    <2> QED
      BY <1>1, <2>1, <2>2 DEF OnRevoke
  <1>2. CASE Persist(g)
    <2>1. CASE Goto(g, "idle") /\ UNCHANGED <<sid, via, cookie>>
      BY <1>2, <2>1, MoveStep DEF Persist, Pcs
    <2>2. CASE g \in Clients /\ Finish(g)
               /\ (cookie' = cookie \/ cookie' = [cookie EXCEPT ![g] = NoToken])
      BY <1>2, <2>2, FinishStep DEF Persist
    <2>3. CASE Goto(g, "undo") /\ UNCHANGED <<sid, via, cookie>>
      BY <1>2, <2>3, MoveStep DEF Persist, Pcs
    <2> QED
      BY <1>2, <2>1, <2>2, <2>3 DEF Persist
  <1>3. CASE Stall(g)
    BY <1>3, StillStep DEF Stall, Inv, TokenInv
  <1> QED
    BY <1>1, <1>2, <1>3 DEF Shared

(* No step of the program breaks it. *)
LEMMA NextToken == Inv /\ [Next]_vars => Inv'
  <1> SUFFICES ASSUME Inv, [Next]_vars PROVE Inv'
    OBVIOUS
  <1> USE DEF webVars, mgrVars, attempts
  <1>1. ASSUME NEW c \in Clients, Request(c) \/ Serve(c) PROVE Inv'
    BY <1>1, RequestStep, ServeStep
  <1>2. ASSUME NEW g \in Procs, Shared(g) PROVE Inv'
    BY <1>2, SharedStep
  <1>3. CASE Tick
    BY <1>3, MoveStep DEF Tick, Pcs
  <1>4. CASE Reap
    <2>1. PICK p \in {"idle", "revoke"} : Goto(Reaper, p)
      BY <1>4 DEF Reap
    <2> QED
      BY <1>4, <2>1, MoveStep DEF Reap, Pcs
  <1>5. CASE Advance
    BY <1>5, StillStep DEF Advance, Inv, TokenInv
  <1>6. CASE UNCHANGED vars
    BY <1>6, StillStep DEF vars, Inv, TokenInv
  <1> QED
    BY <1>1, <1>2, <1>3, <1>4, <1>5, <1>6 DEF Next

(* A request is served under a session only if its browser once passed the *)
(* gate of that session: requireAuth with Validate, and IssueToken after   *)
(* VerifyAccess, see to it, however requests interleave.                   *)
THEOREM ServedOnlyVerified == Spec => []ServedIsVerified
  <1>1. Init /\ [][Next]_vars => []Inv
    BY InitToken, NextToken, PTL
  <1>2. Inv => ServedIsVerified
    BY DEF Inv
  <1> QED
    BY <1>1, <1>2, PTL DEF Spec, Safety

-----------------------------------------------------------------------------
(* The attempts.  Only VerifyAccess touches what is kept of them.          *)

USE LimitsAssumption

AttemptTypes ==
  /\ failed \in [Ids -> 0..MaxAttempts + MaxTime + 1]
  /\ lastAttempt \in [Ids -> Time]
  /\ failures \in [Ids -> Seq(Time)]

LockoutInv == AttemptTypes /\ AttemptsInv /\ LockoutBound

(* The clock goes on, the attempts stay.                                   *)
LEMMA AttemptsStay ==
  ASSUME LockoutInv, UNCHANGED <<failed, lastAttempt, failures>>,
         now \in Nat, now' \in Nat, now <= now'
  PROVE  LockoutInv'
  <1>1. AttemptTypes' /\ LockoutBound'
    BY DEF LockoutInv, AttemptTypes, LockoutBound
  <1>2. \A id \in Ids : lastAttempt[id] \in Nat
    BY DEF LockoutInv, AttemptTypes, Time
  <1>3. AttemptsInv'
    BY <1>2 DEF LockoutInv, AttemptsInv
  <1> QED
    BY <1>1, <1>3 DEF LockoutInv

(* One failure more: it is let through to the check only when there are    *)
(* fewer than the limit, or the last one is a window ago.                  *)
LEMMA CountFailureStep ==
  ASSUME LockoutInv, now \in Time, now' = now,
         NEW id \in Ids, ~LockedOut(id), CountFailure(id)
  PROVE  LockoutInv'
  <1> DEFINE old == failures[id]
             new == Append(old, now)
             count == Len(old)
  <1>1. /\ failed \in [Ids -> 0..MaxAttempts + MaxTime + 1]
        /\ lastAttempt \in [Ids -> Time] /\ failures \in [Ids -> Seq(Time)]
        /\ AttemptsInv /\ LockoutBound
    BY DEF LockoutInv, AttemptTypes
  <1>2. /\ failed' = [failed EXCEPT ![id] = @ + 1]
        /\ lastAttempt' = [lastAttempt EXCEPT ![id] = now]
        /\ failures' = [failures EXCEPT ![id] = new]
    BY DEF CountFailure
  <1>3. /\ old \in Seq(Time) /\ count \in Nat
        /\ \A n \in 1..count : old[n] \in Time
    BY <1>1, ElementOfSeq, LenProperties
  <1>4. /\ failed[id] = count
        /\ \A n \in 1..count : old[n] <= lastAttempt[id]
        /\ lastAttempt[id] <= now /\ count <= MaxAttempts + lastAttempt[id]
    BY <1>1 DEF AttemptsInv
  <1>5. now \in Nat /\ now <= MaxTime /\ lastAttempt[id] \in Nat
    BY <1>1 DEF Time
  <1>6. count >= MaxAttempts => lastAttempt[id] + Window <= now
    BY <1>3, <1>4, <1>5 DEF LockedOut
  <1>7. /\ new \in Seq(Time) /\ Len(new) = count + 1
        /\ \A n \in 1..count : new[n] = old[n]
        /\ new[count + 1] = now
    BY <1>3, AppendProperties
  <1> HIDE DEF old, new, count
  <1>8. /\ failures'[id] = new /\ failed'[id] = count + 1 /\ lastAttempt'[id] = now
        /\ \A d \in Ids \ {id} : /\ failures'[d] = failures[d] /\ failed'[d] = failed[d]
                                 /\ lastAttempt'[d] = lastAttempt[d]
    BY <1>1, <1>2, <1>4
  <1>9. count + 1 <= MaxAttempts + now
    BY <1>3, <1>4, <1>5, <1>6
  <1>10. AttemptTypes'
    <2>1. count + 1 \in 0..MaxAttempts + MaxTime + 1
      BY <1>3, <1>5, <1>9
    <2>2. failed' \in [Ids -> 0..MaxAttempts + MaxTime + 1]
      BY <1>1, <1>2, <1>4, <2>1
    <2>3. lastAttempt' \in [Ids -> Time] /\ failures' \in [Ids -> Seq(Time)]
      BY <1>1, <1>2, <1>7
    <2> QED
      BY <2>2, <2>3 DEF AttemptTypes, Time
  <1>11. AttemptsInv'
    <2> SUFFICES ASSUME NEW d \in Ids
                 PROVE  /\ failed'[d] = Len(failures'[d])
                        /\ Len(failures'[d]) > 0
                             => failures'[d][Len(failures'[d])] = lastAttempt'[d]
                        /\ \A n \in 1..Len(failures'[d]) : failures'[d][n] <= lastAttempt'[d]
                        /\ lastAttempt'[d] <= now
                        /\ Len(failures'[d]) <= MaxAttempts + lastAttempt'[d]
      BY DEF AttemptsInv
    <2>1. CASE d # id
      BY <1>1, <1>8, <2>1 DEF AttemptsInv
    <2>2. CASE d = id
      <3>1. \A n \in 1..count + 1 : new[n] <= now
        <4> SUFFICES ASSUME NEW n \in 1..count + 1 PROVE new[n] <= now
          OBVIOUS
        <4>1. CASE n = count + 1
          BY <1>5, <1>7, <4>1
        <4>2. CASE n \in 1..count
          <5>1. new[n] = old[n] /\ old[n] <= lastAttempt[id] /\ old[n] \in Nat
            BY <1>3, <1>4, <1>7, <4>2 DEF Time
          <5> QED
            BY <1>4, <1>5, <5>1
        <4> QED
          BY <1>3, <4>1, <4>2
      <3> QED
        BY <1>5, <1>7, <1>8, <1>9, <2>2, <3>1
    <2> QED
      BY <2>1, <2>2
  <1>12. LockoutBound'
    <2> SUFFICES ASSUME NEW d \in Ids, NEW n \in 1..Len(failures'[d]) - MaxAttempts
                 PROVE  failures'[d][n] + Window <= failures'[d][n + MaxAttempts]
      BY DEF LockoutBound
    <2>1. CASE d # id
      BY <1>1, <1>8, <2>1 DEF LockoutBound
    <2>2. CASE d = id
      <3>0. failures'[d] = new
        BY <1>8, <2>2
      <3>1. n \in 1..count + 1 - MaxAttempts /\ failures'[d] = new
        BY <1>3, <1>7, <3>0
      <3>2. n \in 1..count
        BY <1>3, <3>1
      <3>3. CASE n = count + 1 - MaxAttempts
        <4>1. count >= MaxAttempts /\ new[n + MaxAttempts] = now
          BY <1>3, <1>7, <3>1, <3>3
        <4>2. new[n] <= lastAttempt[id] /\ new[n] \in Nat
          BY <1>3, <1>4, <1>7, <3>2 DEF Time
        <4> QED
          BY <1>5, <1>6, <3>1, <4>1, <4>2
      <3>4. CASE n \in 1..count - MaxAttempts
        <4>1. n \in 1..count /\ n + MaxAttempts \in 1..count
          BY <1>3, <3>4
        <4>2. old[n] + Window <= old[n + MaxAttempts]
          BY <1>1, <3>4 DEF LockoutBound, old, count
        <4>3. new[n] = old[n] /\ new[n + MaxAttempts] = old[n + MaxAttempts]
          BY <1>7, <4>1
        <4> QED
          BY <3>1, <4>2, <4>3
      <3> QED
        BY <1>3, <3>1, <3>3, <3>4
    <2> QED
      BY <2>1, <2>2
  <1> QED
    BY <1>10, <1>11, <1>12 DEF LockoutInv

(* The right key begins the account anew.                                  *)
LEMMA AdmitStep ==
  ASSUME LockoutInv, now \in Time, now' = now, NEW c, NEW id \in Ids, Admit(c, id)
  PROVE  LockoutInv'
  <1>1. /\ failed \in [Ids -> 0..MaxAttempts + MaxTime + 1]
        /\ lastAttempt \in [Ids -> Time] /\ failures \in [Ids -> Seq(Time)]
        /\ AttemptsInv /\ LockoutBound
    BY DEF LockoutInv, AttemptTypes
  <1>2. /\ failed' = [failed EXCEPT ![id] = 0] /\ lastAttempt' = lastAttempt
        /\ failures' = [failures EXCEPT ![id] = <<>>]
    BY DEF Admit
  <1>3. /\ failures'[id] = <<>> /\ failed'[id] = 0
        /\ \A d \in Ids \ {id} : failures'[d] = failures[d] /\ failed'[d] = failed[d]
    BY <1>1, <1>2
  <1>4. <<>> \in Seq(Time) /\ Len(<<>>) = 0
    OBVIOUS
  <1>5. \A d \in Ids : lastAttempt[d] \in Nat
    BY <1>1 DEF Time
  <1>6. AttemptTypes'
    BY <1>1, <1>2, <1>4 DEF AttemptTypes, Time
  <1>7. AttemptsInv'
    <2> SUFFICES ASSUME NEW d \in Ids
                 PROVE  /\ failed'[d] = Len(failures'[d])
                        /\ Len(failures'[d]) > 0
                             => failures'[d][Len(failures'[d])] = lastAttempt'[d]
                        /\ \A n \in 1..Len(failures'[d]) : failures'[d][n] <= lastAttempt'[d]
                        /\ lastAttempt'[d] <= now
                        /\ Len(failures'[d]) <= MaxAttempts + lastAttempt'[d]
      BY DEF AttemptsInv
    <2>1. CASE d # id
      BY <1>1, <1>2, <1>3, <2>1 DEF AttemptsInv
    <2>2. CASE d = id
      <3>1. lastAttempt[d] <= now
        BY <1>1 DEF AttemptsInv
      <3> QED
        BY <1>2, <1>3, <1>4, <1>5, <2>2, <3>1
    <2> QED
      BY <2>1, <2>2
  <1>8. LockoutBound'
    BY <1>1, <1>3, <1>4 DEF LockoutBound
  <1> QED
    BY <1>6, <1>7, <1>8 DEF LockoutInv

(* Every other step of the program.                                        *)
LEMMA NextAttempts ==
  ASSUME TypeOK, TokenInv, LockoutInv, [Next]_vars
  PROVE  LockoutInv'
  <1> USE DEF webVars, mgrVars, attempts
  <1>0. now \in Time /\ now \in Nat
    BY DEF TypeOK, Time
  <1>1. ASSUME NEW c \in Clients, VerifyAccess(c) PROVE LockoutInv'
    <2>1. now' = now /\ sid[c] \in Ids
      BY <1>1 DEF VerifyAccess, TokenInv
    <2>2. CASE UNCHANGED attempts
      BY <1>0, <2>1, <2>2, AttemptsStay
    <2>3. CASE ~LockedOut(sid[c]) /\ CountFailure(sid[c])
      BY <1>0, <2>1, <2>3, CountFailureStep
    <2>4. CASE Admit(c, sid[c])
      BY <1>0, <2>1, <2>4, AdmitStep
    <2> QED
      BY <1>1, <2>2, <2>3, <2>4 DEF VerifyAccess
  <1>2. CASE UNCHANGED <<failed, lastAttempt, failures>> /\ now' = now
    BY <1>0, <1>2, AttemptsStay
  <1>3. CASE Advance
    BY <1>0, <1>3, AttemptsStay DEF Advance
  <1>4. ASSUME NEW c \in Clients, Request(c)
        PROVE  UNCHANGED <<failed, lastAttempt, failures>> /\ now' = now
    BY <1>4 DEF Request, GatePost, GateGet, RequireAuth, SetupPost
  <1>5. ASSUME NEW c \in Clients, Serve(c), ~VerifyAccess(c)
        PROVE  UNCHANGED <<failed, lastAttempt, failures>> /\ now' = now
    BY <1>5 DEF Serve, IssueToken, Validate, BuildDashBase, ListDatabases, Recover,
                SessionEndPost, RevokeSession, End, Register
  <1>6. ASSUME NEW g \in Procs, Shared(g)
        PROVE  UNCHANGED <<failed, lastAttempt, failures>> /\ now' = now
    BY <1>6 DEF Shared, OnRevoke, Persist, Stall
  <1>7. CASE Tick \/ Reap \/ UNCHANGED vars
    BY <1>2, <1>7 DEF Tick, Reap, vars
  <1> QED
    BY <1>1, <1>2, <1>3, <1>4, <1>5, <1>6, <1>7 DEF Next

(* The counters of the stored sessions are within the limit, their times   *)
(* at the start of the clock.                                              *)
LEMMA InitAttempts == Init => LockoutInv
  <1> SUFFICES ASSUME Init PROVE LockoutInv
    OBVIOUS
  <1>1. /\ failed \in [Ids -> 0..MaxAttempts] /\ now = 0
        /\ lastAttempt = [id \in Ids |-> 0]
        /\ failures = [id \in Ids |-> [n \in 1..failed[id] |-> 0]]
    BY DEF Init
  <1>2. ASSUME NEW id \in Ids
        PROVE  /\ failures[id] \in Seq(Time) /\ Len(failures[id]) = failed[id]
               /\ \A n \in 1..failed[id] : failures[id][n] = 0
               /\ failed[id] \in 0..MaxAttempts
    <2>1. failed[id] \in 0..MaxAttempts /\ failures[id] = [n \in 1..failed[id] |-> 0]
      BY <1>1
    <2>2. 0 \in Time /\ failed[id] \in Nat
      BY <2>1 DEF Time
    <2>3. failures[id] \in [1..failed[id] -> Time]
      BY <2>1, <2>2
    <2> QED
      BY <2>1, <2>2, <2>3
  <1>3. AttemptTypes
    BY <1>1, <1>2 DEF AttemptTypes, Time
  <1>4. AttemptsInv
    <2> SUFFICES ASSUME NEW id \in Ids
                 PROVE  /\ failed[id] = Len(failures[id])
                        /\ Len(failures[id]) > 0
                             => failures[id][Len(failures[id])] = lastAttempt[id]
                        /\ \A n \in 1..Len(failures[id]) : failures[id][n] <= lastAttempt[id]
                        /\ lastAttempt[id] <= now
                        /\ Len(failures[id]) <= MaxAttempts + lastAttempt[id]
      BY DEF AttemptsInv
    <2>1. lastAttempt[id] = 0 /\ now = 0
      BY <1>1
    <2> QED
      BY <1>2, <2>1
  <1>5. LockoutBound
    <2> SUFFICES ASSUME NEW id \in Ids, NEW n \in 1..Len(failures[id]) - MaxAttempts
                 PROVE  FALSE
      BY DEF LockoutBound
    <2> QED
      BY <1>2
  <1> QED
    BY <1>3, <1>4, <1>5 DEF LockoutInv

-----------------------------------------------------------------------------
(* The types of the rest.                                                  *)

(* Requests, and the steps of one that is served.                          *)
LEMMA RequestTypes ==
  ASSUME TypeOK, NEW c \in Clients, Request(c)
  PROVE  TypeOK'
  <1> USE DEF webVars, mgrVars, attempts, Goto, Found
  <1>1. CASE GatePost(c)
    BY <1>1, ActiveSessionType DEF GatePost, TypeOK, Pcs
  <1>2. CASE GateGet(c)
    BY <1>2 DEF GateGet, DropAged, TypeOK
  <1>3. CASE RequireAuth(c)
    BY <1>3, ActiveSessionType DEF RequireAuth, TypeOK, Pcs
  <1>4. CASE SetupPost(c)
    <2>1. PICK id \in Ids, e \in (now + 1)..Never :
            expires' = [expires EXCEPT ![id] = e] /\ sid' = [sid EXCEPT ![c] = id]
      BY <1>4 DEF SetupPost
    <2>2. e \in 0..Never
      BY <2>1 DEF TypeOK, Time, Never
    <2> QED
      BY <1>4, <2>1, <2>2 DEF SetupPost, TypeOK, Pcs
  <1> QED
    BY <1>1, <1>2, <1>3, <1>4 DEF Request

LEMMA FinishTypes ==
  ASSUME TypeOK, NEW c \in Clients, Finish(c)
  PROVE  /\ pc' \in [Procs -> Pcs] /\ sid' \in [Procs -> Ids \cup {NoId}]
         /\ via' \in [Clients -> Ids \cup {NoId}]
  BY DEF Finish, Goto, Found, TypeOK, Pcs

LEMMA ServeTypes ==
  ASSUME TypeOK, TokenInv, AttemptTypes', NEW c \in Clients, Serve(c)
  PROVE  TypeOK'
  <1> USE DEF webVars, mgrVars, attempts, Goto, Found, AttemptTypes
  <1>1. CASE VerifyAccess(c)
    <2>1. UNCHANGED <<now, status, expires, lock, tick, tokens, cookie>>
      BY <1>1 DEF VerifyAccess
    <2>2. verified' \subseteq Clients \X Ids
      BY <1>1 DEF VerifyAccess, CountFailure, Admit, TypeOK, TokenInv
    <2>3. CASE Finish(c)
      BY <2>1, <2>2, <2>3, FinishTypes DEF TypeOK
    <2>4. CASE pc' = [pc EXCEPT ![c] = "issue"] /\ UNCHANGED <<sid, via>>
      BY <2>1, <2>2, <2>4 DEF TypeOK, Pcs
    <2> QED
      BY <1>1, <2>3, <2>4 DEF VerifyAccess
  <1>2. CASE IssueToken(c)
    <2> DEFINE t == [holder |-> c, sid |-> sid[c], issued |-> now]
    <2>1. t \in Token
      BY <1>2 DEF IssueToken, TokenInv, TypeOK, Token
    <2>2. /\ tokens' = tokens \cup {t} /\ cookie' = [cookie EXCEPT ![c] = t]
          /\ UNCHANGED <<now, status, expires, lock, tick, verified>> /\ Finish(c)
      BY <1>2 DEF IssueToken
    <2> HIDE DEF t
    <2> QED
      BY <2>1, <2>2, FinishTypes DEF TypeOK
  <1>3. CASE Validate(c)
    <2>1. tokens' \subseteq tokens
      BY <1>3, DropAgedDrops DEF Validate
    <2>2. CASE Finish(c)
      BY <1>3, <2>1, <2>2, FinishTypes DEF Validate, TypeOK
    <2>3. CASE /\ pc' = [pc EXCEPT ![c] = "handler"] /\ via' = [via EXCEPT ![c] = sid[c]]
               /\ UNCHANGED sid
      BY <1>3, <2>1, <2>3 DEF Validate, TypeOK, Pcs
    <2> QED
      BY <1>3, <2>2, <2>3 DEF Validate
  <1>4. CASE BuildDashBase(c)
    BY <1>4, ActiveSessionType DEF BuildDashBase, TypeOK, Pcs
  <1>5. CASE ListDatabases(c)
    BY <1>5, FinishTypes DEF ListDatabases, TypeOK, Pcs
  <1>6. CASE Recover(c)
    BY <1>6, FinishTypes DEF Recover, TypeOK
  <1>7. CASE SessionEndPost(c)
    <2>1. UNCHANGED <<now, tick, status, expires, lock, tokens, cookie, failed, lastAttempt,
                      verified, failures>>
      BY <1>7 DEF SessionEndPost
    <2>2. CASE Finish(c)
      BY <2>1, <2>2, FinishTypes DEF TypeOK
    <2>3. CASE \E id \in Ids \cup {NoId} : /\ sid' = [sid EXCEPT ![c] = id] /\ UNCHANGED via
                                          /\ pc' = [pc EXCEPT ![c] = "clear"]
      BY <2>1, <2>3 DEF TypeOK, Pcs
    <2> QED
      BY <1>7, <2>2, <2>3, ActiveSessionType DEF SessionEndPost
  <1>8. CASE RevokeSession(c)
    BY <1>8 DEF RevokeSession, TypeOK, Pcs
  <1>9. CASE End(c)
    BY <1>9 DEF End, TypeOK, Pcs
  <1>10. CASE Register(c)
    BY <1>10, FinishTypes DEF Register, TypeOK, Pcs
  <1> QED
    BY <1>1, <1>2, <1>3, <1>4, <1>5, <1>6, <1>7, <1>8, <1>9, <1>10 DEF Serve

LEMMA SharedTypes ==
  ASSUME TypeOK, NEW g \in Procs, Shared(g)
  PROVE  TypeOK'
  <1> USE DEF webVars, mgrVars, attempts, Goto, Found
  <1>1. CASE OnRevoke(g)
    BY <1>1, FinishTypes DEF OnRevoke, TypeOK, Pcs
  <1>2. CASE Persist(g)
    <2>1. /\ UNCHANGED <<now, tick, status, expires, tokens, failed, lastAttempt, verified,
                         failures>>
          /\ lock' = "leaked"
      BY <1>2 DEF Persist
    <2>2. cookie' \in [Clients -> Token \cup {NoToken}]
      BY <1>2 DEF Persist, TypeOK
    <2>3. CASE g \in Clients /\ Finish(g)
      BY <2>1, <2>2, <2>3, FinishTypes DEF TypeOK
    <2>4. CASE UNCHANGED <<sid, via>> /\ \E p \in {"idle", "undo"} : pc' = [pc EXCEPT ![g] = p]
      BY <2>1, <2>2, <2>4 DEF TypeOK, Pcs
    <2> QED
      BY <1>2, <2>3, <2>4 DEF Persist
  <1>3. CASE Stall(g)
    BY <1>3 DEF Stall, TypeOK
  <1> QED
    BY <1>1, <1>2, <1>3 DEF Shared

(* All the steps together. *)
LEMMA NextTypes ==
  ASSUME TypeOK, TokenInv, AttemptTypes', [Next]_vars
  PROVE  TypeOK'
  <1> USE DEF webVars, mgrVars, attempts, Goto, Found
  <1>1. ASSUME NEW c \in Clients, Request(c) \/ Serve(c) PROVE TypeOK'
    BY <1>1, RequestTypes, ServeTypes
  <1>2. ASSUME NEW g \in Procs, Shared(g) PROVE TypeOK'
    BY <1>2, SharedTypes
  <1>3. CASE Tick
    BY <1>3 DEF Tick, TypeOK, Pcs
  <1>4. CASE Reap
    BY <1>4 DEF Reap, TypeOK, Pcs, Time
  <1>5. CASE Advance
    BY <1>5 DEF Advance, TypeOK, Time
  <1>6. CASE UNCHANGED vars
    BY <1>6 DEF vars, TypeOK
  <1> QED
    BY <1>1, <1>2, <1>3, <1>4, <1>5, <1>6 DEF Next

LEMMA InitTypes == Init => TypeOK
  <1> SUFFICES ASSUME Init PROVE TypeOK
    OBVIOUS
  <1>1. AttemptTypes
    BY InitAttempts DEF LockoutInv
  <1>2. 0 \in Time
    BY DEF Time
  <1> QED
    BY <1>1, <1>2 DEF Init, TypeOK, AttemptTypes, Pcs

LEMMA GateStep ==
  ASSUME GateInv, ServedIsVerified, [Next]_vars
  PROVE  (GateInv /\ ServedIsVerified)'
  <1>1. LockoutInv /\ Inv
    BY DEF GateInv, TypeOK, LockoutInv, AttemptTypes, Inv
  <1>2. LockoutInv'
    BY <1>1, NextAttempts DEF GateInv
  <1>3. TypeOK'
    BY <1>2, NextTypes DEF GateInv, LockoutInv
  <1>4. Inv'
    BY <1>1, NextToken
  <1> QED
    BY <1>2, <1>3, <1>4 DEF GateInv, LockoutInv, Inv

-----------------------------------------------------------------------------
(* What the gate keeps of the attempts is right, whatever the requests do  *)
(* to one another: VerifyAccess.                                           *)
THEOREM GateInvariance == Spec => []GateInv
  <1>1. Init => GateInv /\ ServedIsVerified
    BY InitToken, InitAttempts, InitTypes DEF GateInv, Inv, LockoutInv
  <1>2. GateInv /\ ServedIsVerified /\ [Next]_vars => (GateInv /\ ServedIsVerified)'
    BY GateStep
  <1> QED
    BY <1>1, <1>2, PTL DEF Spec, Safety

THEOREM GateTypes == Spec => []TypeOK
  <1>1. GateInv => TypeOK
    BY DEF GateInv
  <1> QED
    BY <1>1, GateInvariance, PTL

(* In no window of time are more wrong attempts let through to the check   *)
(* than the limit, although the count is not reset when a lockout ends:    *)
(* VerifyAccess.                                                           *)
THEOREM LockoutHolds == Spec => []LockoutBound
  <1>1. GateInv => LockoutBound
    BY DEF GateInv
  <1> QED
    BY <1>1, GateInvariance, PTL

(* A session refuses the right key only after that many wrong attempts,    *)
(* the last of them within the window: VerifyAccess.                       *)
THEOREM LockoutDeserved == Spec => []LockoutHasCause
  <1>1. ASSUME GateInv, NEW id \in Ids, LockedOut(id)
        PROVE  /\ Len(failures[id]) >= MaxAttempts
               /\ now < failures[id][Len(failures[id])] + Window
    <2>1. /\ failed[id] = Len(failures[id]) /\ failed[id] \in Nat /\ failed[id] > 0
          /\ failures[id][Len(failures[id])] = lastAttempt[id]
      BY <1>1 DEF GateInv, TypeOK, AttemptsInv, LockedOut
    <2>2. now \in Nat /\ lastAttempt[id] \in Nat
      BY <1>1 DEF GateInv, TypeOK, Time
    <2> QED
      BY <1>1, <2>1, <2>2 DEF LockedOut
  <1>2. GateInv => LockoutHasCause
    BY <1>1 DEF LockoutHasCause
  <1> QED
    BY <1>2, GateInvariance, PTL
=============================================================================
