--------------------------- MODULE SessionManager ---------------------------
(***************************************************************************)
(* The session manager of one flashaccess process and the side effects it  *)
(* drives: internal/session/manager.go (New, End, VerifyAccess,            *)
(* SetPlaygroundDB, the reaper, persist), the hooks of                     *)
(* internal/access/activator.go, and the MySQL and ufw calls they make.    *)
(*                                                                         *)
(* Goroutines are the HTTP handlers (Workers) and the reaper.  They share  *)
(* one sync.RWMutex, modelled by `writer`, the goroutine that has called   *)
(* Lock (from its announcement on, when RLock starts to block), and        *)
(* `readers`, the read locks not yet released.  Every statement that may   *)
(* block or fail, or between which another goroutine may run, is a step.   *)
(*                                                                         *)
(* MySQL and ufw calls and the save may fail, the process may be killed    *)
(* between any two steps, and a session's ExpiresAt may pass at any        *)
(* moment.                                                                 *)
(*                                                                         *)
(* A save is SaveAll of encrypted_persister.go: it opens and truncates one *)
(* temporary file, the same for all goroutines, writes it, and renames it  *)
(* over the store.  No lock is held, so several goroutines may be in it.   *)
(* All of them write lists of the same length (LockInv freezes memory when *)
(* the first one begins), so a whole write replaces an earlier one.        *)
(***************************************************************************)
EXTENDS Naturals, FiniteSets

CONSTANTS
  Ids,          \* session identifiers newID can draw (all different)
  Cidrs,        \* address blocks the setup form can name
  Workers,      \* HTTP handler goroutines
  Reaper,       \* the goroutine Start launches
  NoId, NoCidr, NoOne,   \* null values
  Damaged, Absent,       \* a file that holds no whole list; no file
  MaxFaults,    \* bound on failing MySQL, ufw and save calls
  MaxRestarts   \* bound on restarts of the process

Ended  == {"expired", "revoked"}
Status == {"none", "active"} \cup Ended
Lists  == [Ids -> Status]

ASSUME NullsAssumption ==
  NoId \notin Ids /\ NoCidr \notin Cidrs /\ NoOne \notin Workers \cup {Reaper}
ASSUME FilesAssumption ==
  /\ Damaged \notin Lists /\ Absent \notin Lists
  /\ Damaged # Absent
ASSUME ReaperAssumption == Reaper \notin Workers
ASSUME BoundsAssumption == MaxFaults \in Nat /\ MaxRestarts \in Nat

VARIABLES
  mem,        \* m.sessions: the Status of each session, "none" if not in it
  disk,       \* what the session store holds: a list, or Damaged
  tmp,        \* what its temporary file holds: a list, Damaged, or Absent
  fd,         \* where the file a goroutine is writing to is by now
  overlapped, \* history: this process has had two saves under way at once
  used,       \* ids newID has drawn
  cidr,       \* AllowedCIDR of each id drawn
  lapsed,     \* ids whose ExpiresAt has passed
  acked,      \* ids whose New returned without error
  users,      \* ids whose MySQL account tmp_<id> exists
  rules,      \* blocks with an ufw allow rule on the database port
  readers,    \* read locks of m.mu not yet released
  writer,     \* goroutine holding or waiting in m.mu.Lock with the writer mutex
  pc,         \* where each goroutine is; "idle" between calls
  op,         \* the call it is in
  cur,        \* the session it works on
  work,       \* ids whose resources the call still has to deal with
  err,        \* OnRevoke has collected an error
  snap,       \* the list persist is about to save
  disturbed,  \* history: ids some failure or crash interrupted
  faults, restarts

files    == <<disk, tmp, fd, overlapped>>
idVars   == <<used, cidr, lapsed>>
extVars  == <<users, rules>>
lockVars == <<readers, writer>>
taskVars == <<pc, op, cur, work, err, snap>>
bounds   == <<disturbed, faults, restarts>>
vars == <<mem, files, idVars, acked, extVars, lockVars, taskVars, bounds>>

Procs  == Workers \cup {Reaper}
Ops    == {"none", "new", "end", "verify", "playground", "reap"}
Pcs    == {"idle", "createUser", "allow", "rollback", "register", "mark",
           "verify", "setpg", "reap", "undo", "rlock", "rlock2", "save",
           "write", "rename", "revoke", "deny", "off"}
Places == {"none", "tmp", "disk", "gone"}
Saving == {"save", "write", "rename"}     \* inside SaveAll
InFile == {"write", "rename"}             \* with the temporary file made

NothingListed == [id \in Ids |-> "none"]

TypeOK ==
  /\ mem \in Lists /\ disk \in Lists \cup {Damaged}
  /\ tmp \in Lists \cup {Damaged, Absent}
  /\ fd \in [Procs -> Places] /\ overlapped \in BOOLEAN
  /\ used \in SUBSET Ids /\ lapsed \in SUBSET Ids /\ acked \in SUBSET Ids
  /\ cidr \in [Ids -> Cidrs \cup {NoCidr}]
  /\ users \in SUBSET Ids /\ rules \in SUBSET Cidrs
  /\ readers \in Nat /\ writer \in Procs \cup {NoOne}
  /\ pc \in [Procs -> Pcs] /\ op \in [Procs -> Ops]
  /\ cur \in [Procs -> Ids \cup {NoId}] /\ work \in [Procs -> SUBSET Ids]
  /\ err \in [Procs -> BOOLEAN] /\ snap \in [Procs -> Lists]
  /\ disturbed \in SUBSET Ids
  /\ faults \in 0..MaxFaults /\ restarts \in 0..MaxRestarts

AtRest(v) == [g \in Procs |-> v]

Init ==
  /\ mem = NothingListed /\ disk = NothingListed
  /\ tmp = Absent /\ fd = AtRest("none") /\ overlapped = FALSE
  /\ used = {} /\ lapsed = {} /\ acked = {}
  /\ cidr = [id \in Ids |-> NoCidr]
  /\ users = {} /\ rules = {}
  /\ readers = 0 /\ writer = NoOne
  /\ pc = AtRest("idle") /\ op = AtRest("none")
  /\ cur = AtRest(NoId) /\ work = AtRest({})
  /\ err = AtRest(FALSE) /\ snap = AtRest(NothingListed)
  /\ disturbed = {} /\ faults = 0 /\ restarts = 0

-----------------------------------------------------------------------------
(* Control of a goroutine. *)

Goto(g, p) == pc' = [pc EXCEPT ![g] = p]

Call(g, o, id, p) ==
  /\ op' = [op EXCEPT ![g] = o]
  /\ cur' = [cur EXCEPT ![g] = id]
  /\ Goto(g, p)

Return(g) ==
  /\ Goto(g, "idle")
  /\ op' = [op EXCEPT ![g] = "none"]
  /\ cur' = [cur EXCEPT ![g] = NoId]
  /\ work' = [work EXCEPT ![g] = {}]
  /\ err' = [err EXCEPT ![g] = FALSE]
  /\ snap' = [snap EXCEPT ![g] = NothingListed]

(* A call to MySQL, to ufw or to the store fails; the sessions in S may    *)
(* no longer be as the manager has them.                                   *)
Fault(S) ==
  /\ faults < MaxFaults
  /\ faults' = faults + 1
  /\ disturbed' = disturbed \cup S
  /\ UNCHANGED restarts

IsLive(id) == mem[id] = "active" /\ id \notin lapsed

(* ActiveSession takes a read lock for the look-up: it waits for a writer. *)
ActiveSession == {id \in Ids : IsLive(id)}
CanRead == writer = NoOne

-----------------------------------------------------------------------------
(* New: handleSetupPost up to manager.go:122. *)

(* Two setup forms may both find no session alive. *)
SetupPost(g) ==
  /\ pc[g] = "idle" /\ CanRead /\ ActiveSession = {}
  /\ \E id \in Ids \ used, c \in Cidrs :
       /\ used' = used \cup {id}
       /\ cidr' = [cidr EXCEPT ![id] = c]
       /\ Call(g, "new", id, "createUser")
       /\ work' = [work EXCEPT ![g] = {id}]
  /\ UNCHANGED <<mem, files, lapsed, acked, extVars, lockVars, err, snap, bounds>>

CreateUser(g) ==
  /\ pc[g] = "createUser"
  /\ users' = users \cup {cur[g]}
  /\ Goto(g, "allow")
  /\ UNCHANGED <<mem, files, idVars, acked, rules, lockVars, op, cur, work, err,
                 snap, bounds>>

(* CREATE USER, GRANT or FLUSH fails.  The clean-up uses the same context  *)
(* and ignores its own error, so the account may exist or not.             *)
CreateUserFails(g) ==
  /\ pc[g] = "createUser"
  /\ users' \in {users, users \cup {cur[g]}}
  /\ Fault({cur[g]})
  /\ Return(g)
  /\ UNCHANGED <<mem, files, idVars, acked, rules, lockVars>>

Allow(g) ==
  /\ pc[g] = "allow"
  /\ rules' = rules \cup {cidr[cur[g]]}
  /\ Goto(g, "register")
  /\ UNCHANGED <<mem, files, idVars, acked, users, lockVars, op, cur, work, err,
                 snap, bounds>>

(* ufw exits with an error, before or after the rule took effect. *)
AllowFails(g) ==
  /\ pc[g] = "allow"
  /\ rules' \in {rules, rules \cup {cidr[cur[g]]}}
  /\ Fault({cur[g]})
  /\ Goto(g, "rollback")
  /\ UNCHANGED <<mem, files, idVars, acked, users, lockVars, op, cur, work, err,
                 snap>>

(* _ = DropUser: its error is ignored. *)
Rollback(g) ==
  /\ pc[g] = "rollback"
  /\ users' \in {users, users \ {cur[g]}}
  /\ Return(g)
  /\ UNCHANGED <<mem, files, idVars, acked, rules, lockVars, bounds>>

-----------------------------------------------------------------------------
(* The other calls.  Each is made for a live session that the handler has  *)
(* looked up, and has it no longer locked when the call begins.  The web   *)
(* tokens and the playground databases these handlers also deal with are   *)
(* no part of this module's state.                                         *)

HandlerCall(g, o, p) ==
  /\ pc[g] = "idle" /\ CanRead
  /\ \E id \in ActiveSession : Call(g, o, id, p)
  /\ UNCHANGED <<mem, files, idVars, acked, extVars, lockVars, work, err, snap,
                 bounds>>

SessionEndPost(g)   == HandlerCall(g, "end", "mark")
GatePost(g)         == HandlerCall(g, "verify", "verify")
PlaygroundCreate(g) == HandlerCall(g, "playground", "setpg")

(* The ticker fires; reap reads the clock before it takes the lock. *)
Tick ==
  /\ pc[Reaper] = "idle"
  /\ work' = [work EXCEPT ![Reaper] = lapsed]
  /\ Call(Reaper, "reap", NoId, "reap")
  /\ UNCHANGED <<mem, files, idVars, acked, extVars, lockVars, err, snap, bounds>>

-----------------------------------------------------------------------------
(* m.mu.Lock: a writer announces itself, and then waits for the readers.   *)

Locking == {"register", "mark", "verify", "setpg", "reap", "undo"}

Lock(g) ==
  /\ pc[g] \in Locking /\ writer = NoOne
  /\ writer' = g
  /\ UNCHANGED <<mem, files, idVars, acked, extVars, readers, taskVars, bounds>>

Holds(g) == writer = g /\ readers = 0

(* New registers the session; after a failed save it takes it out again,   *)
(* and returns the error.                                                  *)
NewSection(g) ==
  /\ pc[g] \in {"register", "undo"} /\ Holds(g)
  /\ mem' = [mem EXCEPT ![cur[g]] = IF pc[g] = "register" THEN "active" ELSE "none"]
  /\ writer' = NoOne
  /\ IF pc[g] = "undo"
     THEN Return(g)
     ELSE Goto(g, "rlock") /\ UNCHANGED <<op, cur, work, err, snap>>
  /\ UNCHANGED <<files, idVars, acked, extVars, readers, bounds>>

(* Slip: End forgets to set the status. *)
EndSectionForgets(g) ==
  /\ pc[g] = "mark" /\ Holds(g)
  /\ writer' = NoOne
  /\ Goto(g, "revoke")
  /\ work' = [work EXCEPT ![g] = {cur[g]}]
  /\ UNCHANGED <<mem, files, idVars, acked, extVars, readers, op, cur, err, snap,
                 bounds>>

(* Slip: the session is marked and saved, and OnRevoke is never called. *)
EndSectionSkipsRevoke(g) ==
  /\ pc[g] = "mark" /\ Holds(g)
  /\ writer' = NoOne
  /\ mem' = [mem EXCEPT ![cur[g]] = "revoked"]
  /\ Goto(g, "rlock")
  /\ UNCHANGED <<files, idVars, acked, extVars, readers, op, cur, work, err, snap,
                 bounds>>

(* End marks the session, whatever its status, and releases the lock       *)
(* before OnRevoke; of a session that is not there it returns ErrNotFound. *)
EndSection(g) ==
  /\ pc[g] = "mark" /\ Holds(g)
  /\ writer' = NoOne
  /\ IF mem[cur[g]] = "none"
     THEN mem' = mem /\ Return(g)
     ELSE /\ mem' = [mem EXCEPT ![cur[g]] = "revoked"]
          /\ Goto(g, "revoke")
          /\ work' = [work EXCEPT ![g] = {cur[g]}]
          /\ UNCHANGED <<op, cur, err, snap>>
  /\ UNCHANGED <<files, idVars, acked, extVars, readers, bounds>>

(* Slip: VerifyAccess without its deferred Unlock. *)
VerifySectionKeepsLock(g) ==
  /\ pc[g] = "verify" /\ Holds(g)
  /\ Return(g)
  /\ UNCHANGED <<mem, files, idVars, acked, extVars, lockVars, bounds>>

(* VerifyAccess touches the attempt counters only, which are left out here.*)
VerifySection(g) ==
  /\ pc[g] = "verify" /\ Holds(g)
  /\ writer' = NoOne
  /\ Return(g)
  /\ UNCHANGED <<mem, files, idVars, acked, extVars, readers, bounds>>

(* SetPlaygroundDB persists while its deferred Unlock is still to come:    *)
(* the goroutine reaches persist as the holder of the write lock.          *)
SetPlaygroundDB(g) ==
  /\ pc[g] = "setpg" /\ Holds(g)
  /\ IF mem[cur[g]] = "none"
     THEN Return(g) /\ writer' = NoOne
     ELSE Goto(g, "rlock") /\ UNCHANGED <<writer, op, cur, work, err, snap>>
  /\ UNCHANGED <<mem, files, idVars, acked, extVars, readers, bounds>>

(* Slip: the expired sessions overwrite each other in the list. *)
ReapSectionKeepsLast ==
  LET expired == {id \in work[Reaper] : mem[id] = "active"}
  IN  /\ pc[Reaper] = "reap" /\ Holds(Reaper)
      /\ mem' = [id \in Ids |-> IF id \in expired THEN "expired" ELSE mem[id]]
      /\ writer' = NoOne
      /\ IF expired = {}
         THEN Return(Reaper)
         ELSE /\ Goto(Reaper, "revoke")
              /\ work' = [work EXCEPT ![Reaper] = {CHOOSE id \in expired : TRUE}]
              /\ UNCHANGED <<op, cur, err, snap>>
      /\ UNCHANGED <<files, idVars, acked, extVars, readers, bounds>>

(* reap: what had lapsed at the tick and is still active expires. *)
ReapSection ==
  LET expired == {id \in work[Reaper] : mem[id] = "active"}
  IN  /\ pc[Reaper] = "reap" /\ Holds(Reaper)
      /\ mem' = [id \in Ids |-> IF id \in expired THEN "expired" ELSE mem[id]]
      /\ writer' = NoOne
      /\ IF expired = {}
         THEN Return(Reaper)
         ELSE /\ Goto(Reaper, "revoke")
              /\ work' = [work EXCEPT ![Reaper] = expired]
              /\ UNCHANGED <<op, cur, err, snap>>
      /\ UNCHANGED <<files, idVars, acked, extVars, readers, bounds>>

-----------------------------------------------------------------------------
(* persist: two RLock calls, the copy, one RUnlock, and the save. *)

(* Slip: the list is copied under no lock that outlives the copy. *)
RLockOnce(g) ==
  /\ pc[g] = "rlock" /\ CanRead
  /\ Goto(g, "rlock2")
  /\ UNCHANGED <<mem, files, idVars, acked, extVars, lockVars, op, cur, work, err,
                 snap, bounds>>

FirstRLock(g) ==
  /\ pc[g] = "rlock" /\ CanRead
  /\ readers' = readers + 1
  /\ Goto(g, "rlock2")
  /\ UNCHANGED <<mem, files, idVars, acked, extVars, writer, op, cur, work, err,
                 snap, bounds>>

(* Slip: both read locks are released before the save. *)
SnapshotUnlocksBoth(g) ==
  /\ pc[g] = "rlock2" /\ CanRead
  /\ snap' = [snap EXCEPT ![g] = mem]
  /\ readers' = readers - 1
  /\ Goto(g, "save")
  /\ UNCHANGED <<mem, files, idVars, acked, extVars, writer, op, cur, work, err,
                 bounds>>

(* Slip: an RUnlock too many. *)
SnapshotUnlocksThrice(g) ==
  /\ pc[g] = "rlock2" /\ CanRead
  /\ snap' = [snap EXCEPT ![g] = mem]
  /\ readers' = readers - 2
  /\ Goto(g, "save")
  /\ UNCHANGED <<mem, files, idVars, acked, extVars, writer, op, cur, work, err,
                 bounds>>

(* The second read lock is the one RUnlock gives back after the copy. *)
Snapshot(g) ==
  /\ pc[g] = "rlock2" /\ CanRead
  /\ snap' = [snap EXCEPT ![g] = mem]
  /\ Goto(g, "save")
  /\ UNCHANGED <<mem, files, idVars, acked, extVars, lockVars, op, cur, work, err,
                 bounds>>

(* SaveAll seals the list and opens the temporary file: O_TRUNC empties the *)
(* file that another goroutine may be writing or about to rename.          *)
OpenTmp(g) ==
  /\ pc[g] = "save"
  /\ tmp' = Damaged
  /\ fd' = [fd EXCEPT ![g] = "tmp"]
  /\ overlapped' = (overlapped \/ \E h \in Procs \ {g} : pc[h] \in InFile)
  /\ Goto(g, "write")
  /\ UNCHANGED <<mem, disk, idVars, acked, extVars, lockVars, op, cur, work, err,
                 snap, bounds>>

(* Slip: a buffered write that is never flushed. *)
WriteTmpUnflushed(g) ==
  /\ pc[g] = "write"
  /\ fd' = [fd EXCEPT ![g] = "none"]
  /\ Goto(g, "rename")
  /\ UNCHANGED <<mem, disk, tmp, overlapped, idVars, acked, extVars, lockVars, op,
                 cur, work, err, snap, bounds>>

(* The write goes to the file that was opened, wherever a rename has put   *)
(* it since; then it is closed.                                            *)
WriteTmp(g) ==
  /\ pc[g] = "write"
  /\ tmp' = IF fd[g] = "tmp" THEN snap[g] ELSE tmp
  /\ disk' = IF fd[g] = "disk" THEN snap[g] ELSE disk
  /\ fd' = [fd EXCEPT ![g] = "none"]
  /\ Goto(g, "rename")
  /\ UNCHANGED <<mem, overlapped, idVars, acked, extVars, lockVars, op, cur, work,
                 err, snap, bounds>>

(* What other goroutines have open moves along. *)
Moved(place) == CASE place = "tmp"  -> "disk"
                  [] place = "disk" -> "gone"
                  [] OTHER          -> place

RenameTmp(g) ==
  /\ pc[g] = "rename" /\ tmp # Absent
  /\ disk' = tmp
  /\ tmp' = Absent
  /\ fd' = [h \in Procs |-> Moved(fd[h])]
  /\ acked' = IF op[g] = "new" THEN acked \cup {cur[g]} ELSE acked
  /\ Return(g)
  /\ UNCHANGED <<mem, overlapped, idVars, extVars, lockVars, bounds>>

(* persist returns an error: New gives back what it has provisioned, End   *)
(* returns it, reap ignores it.  The session New gives up may already be   *)
(* in the store: another goroutine's save has it.                          *)
SaveErr(g) ==
  /\ fd' = [fd EXCEPT ![g] = "none"]
  /\ IF op[g] = "new"
     THEN Goto(g, "revoke") /\ UNCHANGED <<op, cur, work, err, snap>>
     ELSE Return(g)
  /\ UNCHANGED <<mem, overlapped, idVars, acked, extVars, lockVars>>

GivenUp(g) == IF op[g] = "new" THEN {cur[g]} ELSE {}

(* Slip: New ignores the error of persist. *)
SaveAllFailsUnnoticed(g) ==
  /\ pc[g] \in Saving
  /\ Fault({})
  /\ acked' = IF op[g] = "new" THEN acked \cup {cur[g]} ELSE acked
  /\ fd' = [fd EXCEPT ![g] = "none"]
  /\ Return(g)
  /\ UNCHANGED <<mem, disk, tmp, overlapped, idVars, extVars, lockVars>>

(* The seal, the open, the write or the rename fails.  A write that fails  *)
(* may have left part of the list in the file.                             *)
SaveAllFails(g) ==
  /\ pc[g] \in Saving
  /\ Fault(GivenUp(g))
  /\ tmp' \in IF fd[g] = "tmp" THEN {tmp, Damaged} ELSE {tmp}
  /\ disk' \in IF fd[g] = "disk" THEN {disk, Damaged} ELSE {disk}
  /\ SaveErr(g)

(* The rename finds no temporary file: another save has renamed it.        *)
RenameTmpFails(g) ==
  /\ pc[g] = "rename" /\ tmp = Absent
  /\ disturbed' = disturbed \cup GivenUp(g)
  /\ SaveErr(g)
  /\ UNCHANGED <<disk, tmp, faults, restarts>>

-----------------------------------------------------------------------------
(* OnRevoke: DropUser, then Deny whatever DropUser said. *)

DropUser(g) ==
  /\ pc[g] = "revoke"
  /\ \E id \in work[g] : /\ cur' = [cur EXCEPT ![g] = id]
                         /\ users' = users \ {id}
  /\ Goto(g, "deny")
  /\ UNCHANGED <<mem, files, idVars, acked, rules, lockVars, op, work, err, snap,
                 bounds>>

(* A timeout: the statement may have run or not. *)
DropUserFails(g) ==
  /\ pc[g] = "revoke"
  /\ \E id \in work[g] : /\ cur' = [cur EXCEPT ![g] = id]
                         /\ users' \in {users, users \ {id}}
                         /\ Fault({id})
  /\ Goto(g, "deny")
  /\ err' = [err EXCEPT ![g] = TRUE]
  /\ UNCHANGED <<mem, files, idVars, acked, rules, lockVars, op, work, snap>>

(* OnRevoke is done with cur[g].  The reaper goes on to the next expired   *)
(* session and ignores errors, as New does; End returns an error unsaved.  *)
AfterRevoke(g, failed) ==
  LET left == work[g] \ {cur[g]}
      next == CASE op[g] = "new" -> "undo"
                [] op[g] = "reap" /\ left # {} -> "revoke"
                [] OTHER -> "rlock"
  IN  IF op[g] = "end" /\ failed
      THEN Return(g)
      ELSE /\ Goto(g, next)
           /\ work' = [work EXCEPT ![g] = left]
           /\ err' = [err EXCEPT ![g] = FALSE]
           /\ UNCHANGED <<op, cur, snap>>

(* Slip: the rule is deleted by its port alone. *)
DenyWholePort(g) ==
  /\ pc[g] = "deny"
  /\ rules' = {}
  /\ AfterRevoke(g, err[g])
  /\ UNCHANGED <<mem, files, idVars, acked, users, lockVars, bounds>>

(* Slip: a delete that matches no rule. *)
DenyMatchesNothing(g) ==
  /\ pc[g] = "deny"
  /\ AfterRevoke(g, err[g])
  /\ UNCHANGED <<mem, files, idVars, acked, extVars, lockVars, bounds>>

Deny(g) ==
  /\ pc[g] = "deny"
  /\ rules' = rules \ {cidr[cur[g]]}
  /\ AfterRevoke(g, err[g])
  /\ UNCHANGED <<mem, files, idVars, acked, users, lockVars, bounds>>

DenyFails(g) ==
  /\ pc[g] = "deny"
  /\ rules' \in {rules, rules \ {cidr[cur[g]]}}
  /\ Fault({cur[g]})
  /\ AfterRevoke(g, TRUE)
  /\ UNCHANGED <<mem, files, idVars, acked, users, lockVars>>

-----------------------------------------------------------------------------
(* The environment. *)

Lapse(id) ==
  /\ id \in used \ lapsed
  /\ lapsed' = lapsed \cup {id}
  /\ UNCHANGED <<mem, files, used, cidr, acked, extVars, lockVars, taskVars, bounds>>

InFlight == UNION {work[g] : g \in Procs}

Whole(file) == file \in Lists

(* The process is killed or crashes and starts again, and the calls that   *)
(* were under way are gone.  NewManager reads the store back; of a store   *)
(* that does not open it returns the error, and the daemon does not come   *)
(* up.  A temporary file left behind is as good as none: the next save     *)
(* truncates it.                                                           *)
Restart ==
  /\ restarts < MaxRestarts
  /\ restarts' = restarts + 1
  /\ mem' = IF Whole(disk) THEN disk ELSE NothingListed
  /\ disturbed' = disturbed \cup InFlight \cup {id \in Ids : mem[id] # mem'[id]}
  /\ readers' = 0 /\ writer' = NoOne
  /\ pc' = AtRest(IF Whole(disk) THEN "idle" ELSE "off")
  /\ op' = AtRest("none") /\ fd' = AtRest("none")
  /\ cur' = AtRest(NoId) /\ work' = AtRest({})
  /\ err' = AtRest(FALSE) /\ snap' = AtRest(NothingListed)
  /\ tmp' = Absent /\ overlapped' = ~Whole(disk)
  /\ UNCHANGED <<disk, idVars, acked, extVars, faults>>

-----------------------------------------------------------------------------
Request(g) == SetupPost(g) \/ SessionEndPost(g) \/ GatePost(g) \/ PlaygroundCreate(g)

Provision(g) ==
  CreateUser(g) \/ CreateUserFails(g) \/ Allow(g) \/ AllowFails(g) \/ Rollback(g)
Revoke(g) == DropUser(g) \/ DropUserFails(g) \/ Deny(g) \/ DenyFails(g)
Locked(g) == \/ NewSection(g) \/ EndSection(g) \/ VerifySection(g)
             \/ SetPlaygroundDB(g) \/ (g = Reaper /\ ReapSection)
Save(g)   == OpenTmp(g) \/ WriteTmp(g) \/ RenameTmp(g) \/ SaveAllFails(g)
               \/ RenameTmpFails(g)

Step(g) == \/ Provision(g) \/ Revoke(g) \/ Locked(g) \/ Save(g)
           \/ Lock(g) \/ FirstRLock(g) \/ Snapshot(g)

Next == \/ \E g \in Workers : Request(g)
        \/ Tick
        \/ \E g \in Procs : Step(g)
        \/ \E id \in Ids : Lapse(id)
        \/ Restart

(* A goroutine in a call runs, and the ticker ticks.  sync.RWMutex grants  *)
(* the lock first come first served, so one that waits gets it if it is    *)
(* free again and again.  Requests, clocks and crashes owe nothing.        *)
Fairness ==
  /\ WF_vars(Tick)
  /\ \A g \in Procs :
       /\ WF_vars(Provision(g) \/ Revoke(g) \/ Locked(g) \/ Save(g))
       /\ SF_vars(Lock(g) \/ FirstRLock(g) \/ Snapshot(g))

Safety == Init /\ [][Next]_vars
Spec == Safety /\ Fairness

-----------------------------------------------------------------------------
(* Properties. *)

(* The daemon runs: its last start could read the store. *)
Up == pc[Reaper] # "off"

(* The status part of the manager: memory and store, as a caller sees them *)
(* across saves and crashes.  SaveAll writes the list copied earlier; that *)
(* it is still the newest one is what the implementation has to show.      *)
Lifecycle == INSTANCE SessionLifecycle
               WITH status <- mem, durable <- disk, up <- Up, Unreadable <- Damaged
LifecycleSpec == Lifecycle!Spec

(* The list persist is about to write, taken under the read lock and saved *)
(* after it, is never older than memory until SaveAll is over.             *)
SnapshotIsCurrent == \A g \in Procs : pc[g] \in Saving => snap[g] = mem

(* A session whose New returned a key to the user survives a crash at any  *)
(* later moment, unless two saves have been under way at once: then one of *)
(* them may have renamed the file the other had just emptied, and the store*)
(* does not open.  A store that opens has every such session all the same. *)
AcknowledgedIsDurable ==
  IF Whole(disk) THEN \A id \in acked : disk[id] # "none" ELSE overlapped

(* While no call has failed, the store of a running daemon is unreadable   *)
(* only as long as a save that will fill it is under way.                  *)
DamageIsMomentary ==
  ~Whole(disk) /\ Up /\ faults = 0 =>
    \E g \in Procs : pc[g] = "write" /\ fd[g] = "disk"

(* What the next save that completes, or the next restart, will say of a   *)
(* session: a store that is unreadable is filled from memory.              *)
Kept == IF Whole(disk) THEN disk ELSE mem

(* A session stored as ended stays so, whatever is saved later by whom,    *)
(* over any number of restarts, and also if the store is unreadable for a  *)
(* while in between.                                                       *)
EndedOnDiskStaysEnded ==
  [][\A id \in Ids : Kept[id] \in Ended => Kept'[id] \in Ended \/ ~Up']_vars

(* Every MySQL account belongs to an active session or to a call that is   *)
(* still dealing with it, unless a failure or a crash has interfered.      *)
GrantIsTracked ==
  \A id \in users \ disturbed : mem[id] = "active" \/ id \in InFlight

(* A session that callers see as active has its account: no teardown runs  *)
(* before the session is marked, and New registers after provisioning.     *)
LiveSessionHasAccount ==
  \A id \in Ids \ disturbed : mem[id] = "active" => id \in users

(* Every open port rule is owed to some session that is active, or to a    *)
(* call under way, or to a failure.                                        *)
RuleIsTracked ==
  \A c \in rules : \E id \in used :
    /\ cidr[id] = c
    /\ mem[id] = "active" \/ id \in InFlight \/ id \in disturbed

Shared(id) == \E other \in used \ {id} : cidr[other] = cidr[id]

(* The rule of an active session is open as long as no other session was   *)
(* ever given the same block.                                              *)
ExclusiveRuleStaysOpen ==
  \A id \in Ids \ disturbed :
    mem[id] = "active" /\ ~Shared(id) => cidr[id] \in rules

(* persist releases one of the two read locks it takes, so after the first *)
(* save nothing gets the write lock again; and a SetPlaygroundDB inside    *)
(* persist waits for itself.                                               *)
Wedged == readers > 0 \/ \E g \in Procs : writer = g /\ pc[g] = "rlock"

(* A session that callers see as ended loses its account, unless a failure *)
(* or a crash got in between: no lock is needed from the mark on.          *)
EndedIsTornDown ==
  \A id \in Ids : mem[id] \in Ended ~> id \notin users \/ id \in disturbed

(* Until the first save of a process, the reaper gets to every session     *)
(* that has lapsed, however the handlers contend for the lock.             *)
ReapedUnlessWedged ==
  \A id \in Ids : (mem[id] = "active" /\ id \in lapsed)
                    ~> (mem[id] # "active" \/ Wedged)

(* Until then every call returns. *)
CallReturnsUnlessWedged ==
  \A g \in Procs : pc[g] # "idle" /\ Up ~> (pc[g] = "idle" \/ Wedged \/ ~Up)

-----------------------------------------------------------------------------
(* The inductive invariant behind SnapshotIsCurrent, AcknowledgedIsDurable,*)
(* DamageIsMomentary, EndedOnDiskStaysEnded and LifecycleSpec.             *)

Provisioning == {"createUser", "allow", "rollback", "register"}

(* From the first RLock on a process has a reader for good; a New that is  *)
(* taking its session back got there by a save, and so has one too.        *)
LockInv ==
  \A g \in Procs :
    \/ readers > 0
    \/ /\ pc[g] \notin Saving \cup {"rlock2", "undo"}
       /\ ~(op[g] = "new" /\ pc[g] \in {"revoke", "deny"})

(* What the step of a call says of its kind and its session. *)
CallInv ==
  \A g \in Procs :
    /\ pc[g] \in Provisioning \cup {"undo"} => op[g] = "new"
    /\ pc[g] \in {"mark", "verify", "setpg", "reap"} => op[g] # "new"
    /\ pc[g] \in Provisioning \cup {"mark", "verify", "setpg", "deny", "undo"}
         => cur[g] \in Ids
    /\ op[g] = "new" => cur[g] \in Ids

(* A session being provisioned is nobody else's and not yet in the map;    *)
(* from the registration on it is there until New returns.                 *)
FreshInv ==
  /\ \A id \in Ids : mem[id] # "none" => id \in used
  /\ \A g \in Procs : pc[g] \in Provisioning =>
       /\ cur[g] \in used /\ mem[cur[g]] = "none" /\ cidr[cur[g]] \in Cidrs
       /\ \A h \in Procs \ {g} : pc[h] \in Provisioning => cur[h] # cur[g]
  /\ \A g \in Procs : op[g] = "new" /\ pc[g] \in Saving \cup {"rlock", "rlock2"}
       => mem[cur[g]] # "none"

(* The store never knows of a session, or of an end, that memory does not. *)
DiskNotAhead ==
  Whole(disk) => \A id \in Ids : /\ disk[id] # "none" => mem[id] # "none"
                                 /\ disk[id] \in Ended => mem[id] \in Ended

(* A daemon is down because it could not read the store, and then nothing  *)
(* of it runs; while it runs, it knows every session acknowledged.         *)
UpInv ==
  /\ \A g, h \in Procs : pc[g] = "off" => pc[h] = "off"
  /\ ~Up => ~Whole(disk)
  /\ Up => \A id \in acked : mem[id] # "none"

(* The files, while some goroutine has the temporary file made.  Without an*)
(* overlap it is that goroutine's alone; with one, it is empty only if     *)
(* somebody is still to write it, unless a write has failed.               *)
FileInv ==
  /\ \A g \in Procs : pc[g] \in InFile =>
       /\ tmp \in {mem, Damaged, Absent}
       /\ tmp = Damaged /\ faults = 0 =>
            \E h \in Procs : pc[h] = "write" /\ fd[h] = "tmp"
       /\ ~overlapped =>
            /\ \A h \in Procs \ {g} : pc[h] \notin InFile
            /\ pc[g] = "write" => fd[g] = "tmp"
            /\ pc[g] = "rename" => tmp = mem
  /\ \A g \in Procs : fd[g] # "none" => pc[g] = "write"

IndInv == /\ TypeOK /\ LockInv /\ CallInv /\ FreshInv /\ UpInv /\ FileInv
          /\ DiskNotAhead /\ SnapshotIsCurrent
          /\ AcknowledgedIsDurable /\ DamageIsMomentary

(* What a call has in hand.  A New has its own session from beginning to    *)
(* end, and gives it back only after a failure; End and reap revoke what    *)
(* they have marked.                                                        *)
WorkInv ==
  \A g \in Procs :
    /\ op[g] = "new" /\ pc[g] # "undo" => work[g] = {cur[g]}
    /\ op[g] = "new" /\ pc[g] \in {"revoke", "deny", "undo"}
         => cur[g] \in disturbed /\ mem[cur[g]] # "none"
    /\ pc[g] = "rollback" => cur[g] \in disturbed
    /\ pc[g] = "reap" => op[g] = "reap"
    /\ pc[g] = "deny" => cur[g] \in work[g]
    /\ pc[g] \in {"revoke", "deny"} =>
         /\ op[g] # "reap" => work[g] = {cur[g]}
         /\ op[g] # "new" => \A id \in work[g] : mem[id] \in Ended

(* The calls that answer for what a session has on the server while it is   *)
(* not active: the one that provisions it, and the ones that revoke it.     *)
Deals(g, id) ==
  id \in work[g] /\ pc[g] \in IF op[g] = "new" THEN Provisioning ELSE {"revoke", "deny"}

AccountInv ==
  /\ \A id \in users \ disturbed : mem[id] = "active" \/ \E g \in Procs : Deals(g, id)
  /\ LiveSessionHasAccount
  /\ \A g \in Procs :
       /\ pc[g] \in {"allow", "register"} => cur[g] \in users \cup disturbed
       /\ pc[g] = "deny" => cur[g] \notin users \ disturbed

RuleInv ==
  /\ \A c \in rules : \E id \in used :
       /\ cidr[id] = c
       /\ mem[id] = "active" \/ id \in disturbed \/ \E g \in Procs : Deals(g, id)
  /\ ExclusiveRuleStaysOpen
  /\ \A g \in Procs : pc[g] = "register" =>
       cidr[cur[g]] \in rules \/ Shared(cur[g]) \/ cur[g] \in disturbed

(* The inductive invariant behind GrantIsTracked, LiveSessionHasAccount,    *)
(* RuleIsTracked and ExclusiveRuleStaysOpen.                                *)
ResourceInv == IndInv /\ WorkInv /\ AccountInv /\ RuleInv

-----------------------------------------------------------------------------
(* What the documentation and the comments say, and the code does not do.  *)

(* docs/index.html:979, "Sessions end automatically on expiry." *)
SessionsEndOnExpiry ==
  \A id \in Ids : (mem[id] = "active" /\ id \in lapsed) ~> mem[id] # "active"

(* docs/index.html:524-526, the port is open for a session's allowed IP    *)
(* until the session ends.                                                 *)
LiveSessionHasRule ==
  \A id \in Ids \ disturbed : mem[id] = "active" => cidr[id] \in rules

=============================================================================
