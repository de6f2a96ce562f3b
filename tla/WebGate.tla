------------------------------- MODULE WebGate -------------------------------
(***************************************************************************)
(* The way into the dashboard: the gate with its lockout                   *)
(* (Manager.VerifyAccess), the web tokens (internal/web/auth.go), the      *)
(* middleware requireAuth, and the handlers behind it, which look the      *)
(* live session up a second time.                                          *)
(*                                                                         *)
(* One serve process from its start on: sessions are in its store already  *)
(* or are started through the setup form.  What a session provisions is    *)
(* the matter of SessionManager.  Of the manager's lock only what matters  *)
(* here is kept: `lock` is "free"; "leaked" once a persist has kept a read *)
(* lock (readers still get in, a writer never does); "stalled" once a      *)
(* writer waits for it (nobody gets in).                                   *)
(*                                                                         *)
(* Time is counted in ticks; every browser has one request at a time.      *)
(***************************************************************************)
EXTENDS Naturals, Sequences

CONSTANTS
  Ids,          \* session identifiers
  Clients,      \* browsers
  Reaper,       \* the goroutine Start launches
  NoId, NoToken,   \* ActiveSession found none; no cookie
  Permitted,    \* <<client, id>>: the client's address is in the session's block
  MaxAttempts,  \* maxFailedAttempts
  Window,       \* lockoutWindow
  TokenAge,     \* tokenMaxAge
  MaxTime       \* bound on the clock

ASSUME GateNullsAssumption ==
  /\ NoId \notin Ids /\ Reaper \notin Clients
  /\ NoToken \notin [holder : Clients, sid : Ids, issued : Nat]
ASSUME PermittedAssumption == Permitted \subseteq Clients \X Ids
ASSUME LimitsAssumption ==
  /\ MaxAttempts \in Nat \ {0} /\ Window \in Nat \ {0}
  /\ TokenAge \in Nat /\ MaxTime \in Nat

VARIABLES
  now,
  status,       \* Status in m.sessions, "none" before New has registered it
  expires,      \* ExpiresAt
  failed,       \* FailedAttempts
  lastAttempt,  \* LastAttempt
  lock,         \* see above
  tick,         \* the time reap has read, 0 when it is done with it
  tokens,       \* authStore.tokens
  cookie,       \* the token each browser presents
  pc,           \* where each goroutine is
  sid,          \* the session of the last look-up of its request
  via,          \* the session requireAuth let the request in for
  verified,     \* history: <<client, id>> that VerifyAccess has accepted
  failures      \* history: the times of the wrong attempts since then, by id

vars == <<now, status, expires, failed, lastAttempt, lock, tick, tokens, cookie,
          pc, sid, via, verified, failures>>

Procs  == Clients \cup {Reaper}
Time   == 0..MaxTime
Never  == MaxTime + 1
Pcs    == {"idle", "verify", "issue", "validate", "handler", "listing", "panic",
           "clear", "mark", "register", "undo", "reap", "revoke", "save"}
Token  == [holder : Clients, sid : Ids, issued : Time]

TypeOK ==
  /\ now \in Time
  /\ status \in [Ids -> {"none", "active", "expired", "revoked"}]
  /\ expires \in [Ids -> 0..Never]
  /\ failed \in [Ids -> 0..MaxAttempts + MaxTime + 1]
  /\ lastAttempt \in [Ids -> Time]
  /\ lock \in {"free", "leaked", "stalled"}
  /\ tick \in Time
  /\ tokens \subseteq Token /\ cookie \in [Clients -> Token \cup {NoToken}]
  /\ pc \in [Procs -> Pcs]
  /\ sid \in [Procs -> Ids \cup {NoId}]
  /\ via \in [Clients -> Ids \cup {NoId}]
  /\ verified \subseteq Clients \X Ids
  /\ failures \in [Ids -> Seq(Time)]

(* The attempt counters of stored sessions are as the last save had them.  *)
(* Sessions that had ended by then play no part.                           *)
Init ==
  /\ now = 0
  /\ status \in [Ids -> {"none", "active"}]
  /\ expires \in [Ids -> 0..Never]
  /\ failed \in [Ids -> 0..MaxAttempts]
  /\ \A id \in Ids : IF status[id] = "none" THEN expires[id] = 0 /\ failed[id] = 0
                                            ELSE expires[id] > 0
  /\ lastAttempt = [id \in Ids |-> 0]
  /\ lock = "free" /\ tick = 0
  /\ tokens = {} /\ cookie = [c \in Clients |-> NoToken]
  /\ pc = [g \in Procs |-> "idle"] /\ sid = [g \in Procs |-> NoId]
  /\ via = [c \in Clients |-> NoId]
  /\ verified = {}
  /\ failures = [id \in Ids |-> [n \in 1..failed[id] |-> 0]]

IsLive(id) == status[id] = "active" /\ now < expires[id]

(* The map is searched in random order: any live session may be found.     *)
ActiveSession == LET live == {id \in Ids : IsLive(id)}
                 IN  IF live = {} THEN {NoId} ELSE live
CanRead == lock # "stalled"

Goto(g, p)   == pc' = [pc EXCEPT ![g] = p]
Found(g, id) == sid' = [sid EXCEPT ![g] = id]
Finish(c)    == /\ Goto(c, "idle") /\ Found(c, NoId)
                /\ via' = [via EXCEPT ![c] = NoId]

attempts == <<failed, lastAttempt, verified, failures>>
webVars  == <<tokens, cookie>>
mgrVars  == <<status, expires, lock>>

-----------------------------------------------------------------------------
(* The gate. *)

GatePost(c) ==
  /\ pc[c] = "idle" /\ CanRead
  /\ \E id \in ActiveSession \ {NoId} : Found(c, id)
  /\ Goto(c, "verify")
  /\ UNCHANGED <<now, tick, via, mgrVars, webVars, attempts>>

(* Slip: the session is locked only after one attempt more. *)
LockedOutLate(id) ==
  failed[id] > MaxAttempts /\ now - lastAttempt[id] < Window

(* Slip: the comparison of the attempts is lost. *)
LockedOutNever(id) == FALSE

LockedOut(id) ==
  failed[id] >= MaxAttempts /\ now - lastAttempt[id] < Window

(* An attempt from a wrong address, or with a wrong key, is counted. *)
CountFailure(id) ==
  /\ failed' = [failed EXCEPT ![id] = @ + 1]
  /\ lastAttempt' = [lastAttempt EXCEPT ![id] = now]
  /\ failures' = [failures EXCEPT ![id] = Append(@, now)]
  /\ UNCHANGED verified

(* Slip: a right key leaves the count as it is. *)
AdmitKeepsCount(c, id) ==
  /\ verified' = verified \cup {<<c, id>>}
  /\ failures' = [failures EXCEPT ![id] = <<>>]
  /\ UNCHANGED <<failed, lastAttempt>>

Admit(c, id) ==
  /\ failed' = [failed EXCEPT ![id] = 0]
  /\ verified' = verified \cup {<<c, id>>}
  /\ failures' = [failures EXCEPT ![id] = <<>>]
  /\ UNCHANGED lastAttempt

(* One critical section.  A session that is over, or locked, refuses the   *)
(* attempt without counting it; the key is checked last, and a stored hash *)
(* that does not parse is an error that counts nothing either.             *)
VerifyAccess(c) ==
  /\ pc[c] = "verify" /\ lock = "free"
  /\ LET id == sid[c]
         refused == ~IsLive(id) \/ LockedOut(id)
     IN  \/ (refused \/ <<c, id>> \in Permitted) /\ Finish(c) /\ UNCHANGED attempts
         \/ ~refused /\ CountFailure(id) /\ Finish(c)
         \/ /\ ~refused /\ <<c, id>> \in Permitted
            /\ Admit(c, id)
            /\ Goto(c, "issue") /\ UNCHANGED <<sid, via>>
  /\ UNCHANGED <<now, tick, mgrVars, webVars>>

(* Slip: the session is looked up once more for the token. *)
IssueTokenLookedUp(c) ==
  /\ pc[c] = "issue"
  /\ \E id \in ActiveSession \ {NoId} :
       LET t == [holder |-> c, sid |-> id, issued |-> now]
       IN  tokens' = tokens \cup {t} /\ cookie' = [cookie EXCEPT ![c] = t]
  /\ Finish(c)
  /\ UNCHANGED <<now, tick, mgrVars, attempts>>

(* The session may be over by now. *)
IssueToken(c) ==
  /\ pc[c] = "issue"
  /\ LET t == [holder |-> c, sid |-> sid[c], issued |-> now]
     IN  tokens' = tokens \cup {t} /\ cookie' = [cookie EXCEPT ![c] = t]
  /\ Finish(c)
  /\ UNCHANGED <<now, tick, mgrVars, attempts>>

-----------------------------------------------------------------------------
(* Tokens and the middleware. *)

Fresh(t) == t \in tokens /\ now - t.issued <= TokenAge

(* Validate drops a token that has grown too old. *)
DropAged(t) == tokens' = IF Fresh(t) THEN tokens ELSE tokens \ {t}

(* GET / and GET /gate: only the token is looked at. *)
GateGet(c) ==
  /\ pc[c] = "idle" /\ CanRead /\ ActiveSession # {NoId}
  /\ DropAged(cookie[c])
  /\ UNCHANGED <<now, tick, cookie, pc, sid, via, mgrVars, attempts>>

(* No live session, and a client from elsewhere, are turned away.          *)
RequireAuth(c) ==
  /\ pc[c] = "idle" /\ CanRead
  /\ \E id \in ActiveSession \ {NoId} : <<c, id>> \in Permitted /\ Found(c, id)
  /\ Goto(c, "validate")
  /\ UNCHANGED <<now, tick, via, mgrVars, webVars, attempts>>

(* Slip: any fresh token will do. *)
ValidateAnySession(c) ==
  /\ pc[c] = "validate"
  /\ DropAged(cookie[c])
  /\ IF Fresh(cookie[c])
     THEN Goto(c, "handler") /\ via' = [via EXCEPT ![c] = sid[c]] /\ UNCHANGED sid
     ELSE Finish(c)
  /\ UNCHANGED <<now, tick, cookie, mgrVars, attempts>>

(* The token must be for the session found. *)
Validate(c) ==
  /\ pc[c] = "validate"
  /\ DropAged(cookie[c])
  /\ IF Fresh(cookie[c]) /\ cookie[c].sid = sid[c]
     THEN Goto(c, "handler") /\ via' = [via EXCEPT ![c] = sid[c]] /\ UNCHANGED sid
     ELSE Finish(c)
  /\ UNCHANGED <<now, tick, cookie, mgrVars, attempts>>

-----------------------------------------------------------------------------
(* Handlers behind the middleware. *)

(* buildDashBase looks for the live session again, lists the databases,    *)
(* and then uses what it has found.                                        *)
BuildDashBase(c) ==
  /\ pc[c] = "handler" /\ CanRead
  /\ \E id \in ActiveSession : Found(c, id)
  /\ Goto(c, "listing")
  /\ UNCHANGED <<now, tick, via, mgrVars, webVars, attempts>>

(* The list fails, or the page is built, or there is no session to use.    *)
ListDatabases(c) ==
  /\ pc[c] = "listing"
  /\ \/ Finish(c)
     \/ sid[c] = NoId /\ Goto(c, "panic") /\ UNCHANGED <<sid, via>>
  /\ UNCHANGED <<now, tick, mgrVars, webVars, attempts>>

(* net/http recovers: the connection is closed without an answer. *)
Recover(c) ==
  /\ pc[c] = "panic" /\ Finish(c)
  /\ UNCHANGED <<now, tick, mgrVars, webVars, attempts>>

(* handleSessionEnd ends the session it finds, not the one of requireAuth. *)
SessionEndPost(c) ==
  /\ pc[c] = "handler" /\ CanRead
  /\ \E id \in ActiveSession :
       IF id = NoId THEN Finish(c)
                    ELSE Found(c, id) /\ Goto(c, "clear") /\ UNCHANGED via
  /\ UNCHANGED <<now, tick, mgrVars, webVars, attempts>>

RevokeSession(c) ==
  /\ pc[c] = "clear"
  /\ tokens' = {t \in tokens : t.sid # sid[c]}
  /\ Goto(c, "mark")
  /\ UNCHANGED <<now, tick, cookie, sid, via, mgrVars, attempts>>

End(c) ==
  /\ pc[c] = "mark" /\ lock = "free"
  /\ status' = [status EXCEPT ![sid[c]] = "revoked"]
  /\ Goto(c, "revoke")
  /\ UNCHANGED <<now, tick, expires, lock, sid, via, webVars, attempts>>

-----------------------------------------------------------------------------
(* The manager behind them. *)

(* handleSetupPost: the expiry is set before provisioning begins. *)
SetupPost(c) ==
  /\ pc[c] = "idle" /\ CanRead /\ ActiveSession = {NoId}
  /\ \E id \in Ids, e \in (now + 1)..Never :
       /\ expires[id] = 0
       /\ expires' = [expires EXCEPT ![id] = e]
       /\ Found(c, id)
  /\ Goto(c, "register")
  /\ UNCHANGED <<now, tick, via, status, lock, webVars, attempts>>

Register(c) ==
  /\ pc[c] = "register"
  /\ \/ Finish(c) /\ UNCHANGED status     \* the provisioning has failed
     \/ /\ lock = "free"
        /\ status' = [status EXCEPT ![sid[c]] = "active"]
        /\ Goto(c, "save") /\ UNCHANGED <<sid, via>>
  /\ UNCHANGED <<now, tick, expires, lock, webVars, attempts>>

Tick ==
  /\ pc[Reaper] = "idle"
  /\ tick' = now
  /\ Goto(Reaper, "reap")
  /\ UNCHANGED <<now, sid, via, mgrVars, webVars, attempts>>

Reap ==
  LET expired == {id \in Ids : status[id] = "active" /\ expires[id] <= tick}
  IN  /\ pc[Reaper] = "reap" /\ lock = "free"
      /\ status' = [id \in Ids |-> IF id \in expired THEN "expired" ELSE status[id]]
      /\ tick' = 0
      /\ Goto(Reaper, IF expired = {} THEN "idle" ELSE "revoke")
      /\ UNCHANGED <<now, expires, lock, sid, via, webVars, attempts>>

(* OnRevoke; a handler returns its error without a save. *)
OnRevoke(g) ==
  /\ pc[g] = "revoke"
  /\ \/ Goto(g, "save") /\ UNCHANGED <<sid, via>>
     \/ g \in Clients /\ Finish(g)
  /\ UNCHANGED <<now, tick, mgrVars, webVars, attempts>>

(* persist leaves a read lock behind.  When the save fails End returns the *)
(* error and keeps the cookie, and New goes on to take its session back.   *)
Persist(g) ==
  /\ pc[g] = "save" /\ CanRead
  /\ lock' = "leaked"
  /\ \/ g = Reaper /\ Goto(g, "idle") /\ UNCHANGED <<sid, via, cookie>>
     \/ g \in Clients /\ Finish(g)
        /\ cookie' \in {cookie} \cup
             IF via[g] = NoId THEN {} ELSE {[cookie EXCEPT ![g] = NoToken]}
     \/ /\ g \in Clients /\ via[g] = NoId
        /\ Goto(g, "undo") /\ UNCHANGED <<sid, via, cookie>>
  /\ UNCHANGED <<now, tick, status, expires, tokens, attempts>>

(* A writer waits for the lost read lock, and everybody for the writer.    *)
Stall(g) ==
  /\ pc[g] \in {"verify", "mark", "register", "reap", "undo"} /\ lock = "leaked"
  /\ lock' = "stalled"
  /\ UNCHANGED <<now, tick, status, expires, pc, sid, via, webVars, attempts>>

Advance ==
  /\ now < MaxTime
  /\ now' = now + 1
  /\ UNCHANGED <<tick, pc, sid, via, mgrVars, webVars, attempts>>

-----------------------------------------------------------------------------
Request(c) == GatePost(c) \/ GateGet(c) \/ RequireAuth(c) \/ SetupPost(c)

Serve(c) == \/ VerifyAccess(c) \/ IssueToken(c) \/ Validate(c)
            \/ BuildDashBase(c) \/ ListDatabases(c) \/ Recover(c)
            \/ SessionEndPost(c) \/ RevokeSession(c) \/ End(c) \/ Register(c)

Shared(g) == OnRevoke(g) \/ Persist(g) \/ Stall(g)

Next == \/ \E c \in Clients : Request(c) \/ Serve(c)
        \/ \E g \in Procs : Shared(g)
        \/ Tick \/ Reap \/ Advance

(* A request that is served runs on, and the ticker ticks.  The lock is    *)
(* never held from one step to the next, so a writer that can go on does.  *)
Fairness ==
  /\ \A c \in Clients : WF_vars(Serve(c))
  /\ \A g \in Procs : WF_vars(Shared(g))
  /\ WF_vars(Tick \/ Reap)

Safety == Init /\ [][Next]_vars
Spec == Safety /\ Fairness

-----------------------------------------------------------------------------
(* Properties. *)

(* In no window of time are more wrong attempts let through to the check   *)
(* than the limit, unless the right key was shown in between: although the *)
(* count is never reset when a lockout ends, and a single further failure  *)
(* starts the next one.                                                    *)
LockoutBound ==
  \A id \in Ids : \A n \in 1..Len(failures[id]) - MaxAttempts :
    failures[id][n] + Window <= failures[id][n + MaxAttempts]

(* Nobody is locked out of a session that has not seen that many wrong     *)
(* attempts since the right key was last shown, one of them just now.       *)
LockoutHasCause ==
  \A id \in Ids : LockedOut(id) =>
    /\ Len(failures[id]) >= MaxAttempts
    /\ now < failures[id][Len(failures[id])] + Window

(* A request is served under a session only if its browser once passed the *)
(* gate of that very session, whatever sessions and tokens it has had      *)
(* since, and whichever of several live sessions is found.                 *)
ServedIsVerified ==
  \A c \in Clients : via[c] # NoId => <<c, via[c]>> \in verified

(* The inductive invariant behind it: a token, a token about to be issued, *)
(* and a cookie that is still in the store belong to a browser that the    *)
(* gate has accepted for that session.                                     *)
TokenInv ==
  /\ now \in Nat
  /\ pc \in [Procs -> Pcs] /\ sid \in [Procs -> Ids \cup {NoId}]
  /\ via \in [Clients -> Ids \cup {NoId}]
  /\ tokens \subseteq [holder : Clients, sid : Ids, issued : Nat]
  /\ cookie \in [Clients -> [holder : Clients, sid : Ids, issued : Nat] \cup {NoToken}]
  /\ \A t \in tokens : <<t.holder, t.sid>> \in verified
  /\ \A c \in Clients :
       /\ pc[c] \in {"verify", "issue"} => sid[c] \in Ids
       /\ pc[c] = "issue" => <<c, sid[c]>> \in verified
       /\ cookie[c] # NoToken => cookie[c].holder = c

(* What VerifyAccess keeps of the attempts: how many, and when the last.    *)
(* Beyond the limit there is one for a tick at most.                        *)
AttemptsInv ==
  \A id \in Ids :
    LET count == Len(failures[id])
    IN  /\ failed[id] = count
        /\ count > 0 => failures[id][count] = lastAttempt[id]
        /\ \A n \in 1..count : failures[id][n] <= lastAttempt[id]
        /\ lastAttempt[id] <= now
        /\ count <= MaxAttempts + lastAttempt[id]

GateInv == TypeOK /\ TokenInv /\ AttemptsInv /\ LockoutBound

-----------------------------------------------------------------------------
(* What the documentation and the comments say, and the code does not do.  *)

(* auth.go:129, "Find active session via manager.  If none -> redirect     *)
(* /setup": a dashboard request without a live session is answered.        *)
DashboardAnswers == \A c \in Clients : pc[c] # "panic"

=============================================================================
