------------------------ MODULE SessionManagerProofs ------------------------
(***************************************************************************)
(* Theorems about SessionManager, for any number of sessions, address      *)
(* blocks and handlers and any bound on failures and restarts.             *)
(*                                                                         *)
(* The argument: the first save of a process leaves a read lock behind     *)
(* (LockInv), so memory is frozen from its first copy on and every save    *)
(* writes memory as it is (SnapshotIsCurrent).  Hence the store, if it     *)
(* opens, follows memory (DiskNotAhead), and what New acknowledged is      *)
(* stored (AcknowledgedIsDurable).  The temporary file belongs to one save *)
(* until two overlap, and then it is empty only as long as one of them is  *)
(* to write it (FileInv); so the store is damaged by overlapping saves     *)
(* only, and not for long (DamageIsMomentary).  Each step is one of        *)
(* SessionLifecycle.                                                       *)
(***************************************************************************)
EXTENDS SessionManager, TLAPS

USE NullsAssumption, FilesAssumption, ReaperAssumption, BoundsAssumption
    DEF Procs, Status, Ended, Lists, Ops, Pcs, Places, Saving, InFile,
        Provisioning, files, idVars, extVars, lockVars, taskVars, bounds

TaskTypeOK ==
  /\ pc \in [Procs -> Pcs] /\ op \in [Procs -> Ops]
  /\ cur \in [Procs -> Ids \cup {NoId}] /\ work \in [Procs -> SUBSET Ids]
  /\ err \in [Procs -> BOOLEAN] /\ snap \in [Procs -> Lists]

(* A goroutine that returns is well typed again. *)
LEMMA ReturnTypeOK ==
  ASSUME NEW g \in Procs, TypeOK, Return(g)
  PROVE  TaskTypeOK'
BY DEF TypeOK, TaskTypeOK, Return, Goto, NothingListed

(* OnRevoke leaves its caller at one of three steps, or returned. *)
LEMMA AfterRevokeTypeOK ==
  ASSUME NEW g \in Procs, NEW failed \in BOOLEAN, TypeOK, AfterRevoke(g, failed)
  PROVE  TaskTypeOK'
<1>1. CASE op[g] = "end" /\ failed
  <2>1. Return(g)  BY <1>1 DEF AfterRevoke
  <2> QED  BY <2>1, ReturnTypeOK
<1>2. CASE ~(op[g] = "end" /\ failed)
  <2>1. \E p \in {"undo", "revoke", "rlock"} : pc' = [pc EXCEPT ![g] = p]
    BY <1>2 DEF AfterRevoke, Goto
  <2>2. /\ work' = [work EXCEPT ![g] = work[g] \ {cur[g]}]
        /\ err' = [err EXCEPT ![g] = FALSE]
        /\ UNCHANGED <<op, cur, snap>>
    BY <1>2 DEF AfterRevoke
  <2> QED  BY <2>1, <2>2 DEF TypeOK, TaskTypeOK
<1> QED  BY <1>1, <1>2

(* The sessions some call deals with are sessions. *)
LEMMA InFlightType == TypeOK => InFlight \subseteq Ids
BY DEF TypeOK, InFlight

(* The first state of an installation satisfies the invariant. *)
LEMMA InitInd == Init => IndInv
<1> SUFFICES ASSUME Init
             PROVE  IndInv
  OBVIOUS
<1>1. TypeOK /\ Whole(disk)
  <2>1. NothingListed \in Lists
    BY DEF NothingListed
  <2>2. snap \in [Procs -> Lists]
    BY <2>1 DEF Init, AtRest
  <2>3. mem \in Lists /\ disk \in Lists /\ tmp = Absent
    BY <2>1 DEF Init
  <2>4. TaskTypeOK /\ fd \in [Procs -> Places]
    BY <2>2 DEF Init, TaskTypeOK, AtRest
  <2>5. /\ used = {} /\ lapsed = {} /\ acked = {} /\ users = {} /\ rules = {}
        /\ cidr \in [Ids -> Cidrs \cup {NoCidr}] /\ overlapped \in BOOLEAN
        /\ readers = 0 /\ writer = NoOne /\ disturbed = {}
        /\ faults = 0 /\ restarts = 0
    BY DEF Init
  <2> QED  BY <2>3, <2>4, <2>5 DEF TypeOK, TaskTypeOK, Whole
<1>2. LockInv /\ CallInv /\ FreshInv /\ SnapshotIsCurrent /\ FileInv
  BY DEF Init, LockInv, CallInv, FreshInv, SnapshotIsCurrent, FileInv, AtRest,
         NothingListed
<1>3. UpInv /\ DiskNotAhead /\ AcknowledgedIsDurable /\ DamageIsMomentary
  BY <1>1 DEF Init, UpInv, Up, DiskNotAhead, AcknowledgedIsDurable,
              DamageIsMomentary, AtRest, NothingListed
<1> QED  BY <1>1, <1>2, <1>3 DEF IndInv

(* A step that leaves the files alone, lets nobody into SaveAll's file or   *)
(* out of it, and forgets no session.                                       *)
LEMMA FilesAlone ==
  ASSUME IndInv,
         UNCHANGED <<disk, tmp, fd, overlapped, acked>>,
         faults' = 0 => faults = 0,
         \A h \in Procs : pc[h] \in InFile \cup {"off"} \/ pc'[h] \in InFile \cup {"off"}
           => pc'[h] = pc[h],
         \A id \in Ids : mem[id] # "none" => mem'[id] # "none",
         (\E h \in Procs : pc[h] \in InFile) => mem' = mem
  PROVE  UpInv' /\ FileInv' /\ AcknowledgedIsDurable' /\ DamageIsMomentary'
<1>1. Up' = Up
  BY DEF Up
<1>2. UpInv'
  BY <1>1 DEF IndInv, TypeOK, UpInv, Whole
<1>3. FileInv'
  BY DEF IndInv, FileInv
<1>4. AcknowledgedIsDurable' /\ DamageIsMomentary'
  BY <1>1 DEF IndInv, AcknowledgedIsDurable, DamageIsMomentary, Whole
<1> QED  BY <1>2, <1>3, <1>4

(* A goroutine that runs belongs to a daemon that does. *)
LEMMA RunningMeansUp ==
  ASSUME IndInv, NEW g \in Procs, pc[g] # "off"
  PROVE  Up
BY DEF IndInv, UpInv, Up

(* A new session gets an id nobody has: memory and store do not know it.   *)
LEMMA SetupPostStep ==
  ASSUME NEW g \in Workers, IndInv, SetupPost(g)
  PROVE  IndInv'
<1>1. TypeOK'
  BY DEF IndInv, TypeOK, CallInv, FreshInv, SetupPost, Call, Goto
<1>2. LockInv' /\ CallInv'
  BY DEF IndInv, TypeOK, LockInv, CallInv, SetupPost, Call, Goto
<1>3. FreshInv'
  BY DEF IndInv, TypeOK, LockInv, CallInv, FreshInv, DiskNotAhead, SetupPost,
         Call, Goto
<1>4. DiskNotAhead' /\ SnapshotIsCurrent'
  BY DEF IndInv, TypeOK, LockInv, CallInv, FreshInv, DiskNotAhead,
         SnapshotIsCurrent, SetupPost, Call, Goto
<1>5. UpInv' /\ FileInv' /\ AcknowledgedIsDurable' /\ DamageIsMomentary'
  BY FilesAlone DEF IndInv, TypeOK, SetupPost, Call, Goto
<1> QED  BY <1>1, <1>2, <1>3, <1>4, <1>5 DEF IndInv

(* A handler enters End, VerifyAccess or SetPlaygroundDB. *)
LEMMA HandlerCallStep ==
  ASSUME NEW g \in Workers, NEW o \in Ops, NEW p \in {"mark", "verify", "setpg"},
         o # "new", IndInv, HandlerCall(g, o, p)
  PROVE  IndInv'
<1>1. TypeOK'
  BY DEF IndInv, TypeOK, CallInv, FreshInv, HandlerCall, Call, Goto,
         ActiveSession, IsLive
<1>2. LockInv' /\ CallInv'
  BY DEF IndInv, TypeOK, LockInv, CallInv, HandlerCall, Call, Goto,
         ActiveSession, IsLive
<1>3. FreshInv'
  BY DEF IndInv, TypeOK, LockInv, CallInv, FreshInv, DiskNotAhead, HandlerCall,
         Call, Goto, ActiveSession, IsLive
<1>4. DiskNotAhead' /\ SnapshotIsCurrent'
  BY DEF IndInv, TypeOK, LockInv, CallInv, FreshInv, DiskNotAhead,
         SnapshotIsCurrent, HandlerCall, Call, Goto, ActiveSession, IsLive
<1>5. UpInv' /\ FileInv' /\ AcknowledgedIsDurable' /\ DamageIsMomentary'
  BY FilesAlone DEF IndInv, TypeOK, HandlerCall, Call, Goto, ActiveSession,
         IsLive
<1> QED  BY <1>1, <1>2, <1>3, <1>4, <1>5 DEF IndInv

(* The reaper enters reap with the sessions that have lapsed. *)
LEMMA TickStep ==
  ASSUME IndInv, Tick
  PROVE  IndInv'
<1>1. TypeOK'
  BY DEF IndInv, TypeOK, CallInv, FreshInv, Tick, Call, Goto
<1>2. LockInv' /\ CallInv'
  BY DEF IndInv, TypeOK, LockInv, CallInv, Tick, Call, Goto
<1>3. FreshInv'
  BY DEF IndInv, TypeOK, LockInv, CallInv, FreshInv, DiskNotAhead, Tick, Call,
         Goto
<1>4. DiskNotAhead' /\ SnapshotIsCurrent'
  BY DEF IndInv, TypeOK, LockInv, CallInv, FreshInv, DiskNotAhead,
         SnapshotIsCurrent, Tick, Call, Goto
<1>5. UpInv' /\ FileInv' /\ AcknowledgedIsDurable' /\ DamageIsMomentary'
  BY FilesAlone DEF IndInv, TypeOK, Tick, Call, Goto
<1> QED  BY <1>1, <1>2, <1>3, <1>4, <1>5 DEF IndInv

(* The account of a new session appears in MySQL. *)
LEMMA CreateUserStep ==
  ASSUME NEW g \in Procs, IndInv, CreateUser(g)
  PROVE  IndInv'
<1>1. TypeOK'
  BY DEF IndInv, TypeOK, CallInv, FreshInv, CreateUser, Goto
<1>2. LockInv' /\ CallInv'
  BY DEF IndInv, TypeOK, LockInv, CallInv, CreateUser, Goto
<1>3. FreshInv'
  BY DEF IndInv, TypeOK, LockInv, CallInv, FreshInv, DiskNotAhead, CreateUser,
         Goto
<1>4. DiskNotAhead' /\ SnapshotIsCurrent'
  BY DEF IndInv, TypeOK, LockInv, CallInv, FreshInv, DiskNotAhead,
         SnapshotIsCurrent, CreateUser, Goto
<1>5. UpInv' /\ FileInv' /\ AcknowledgedIsDurable' /\ DamageIsMomentary'
  BY FilesAlone DEF IndInv, TypeOK, CreateUser, Goto
<1> QED  BY <1>1, <1>2, <1>3, <1>4, <1>5 DEF IndInv

(* New returns: CREATE USER, GRANT or FLUSH failed. *)
LEMMA CreateUserFailsStep ==
  ASSUME NEW g \in Procs, IndInv, CreateUserFails(g)
  PROVE  IndInv'
<1>1. TypeOK'
  BY DEF IndInv, TypeOK, CallInv, FreshInv, CreateUserFails, Goto, Fault,
         Return, NothingListed
<1>2. LockInv' /\ CallInv'
  BY DEF IndInv, TypeOK, LockInv, CallInv, CreateUserFails, Goto, Fault,
         Return, NothingListed
<1>3. FreshInv'
  BY DEF IndInv, TypeOK, LockInv, CallInv, FreshInv, DiskNotAhead,
         CreateUserFails, Goto, Fault, Return, NothingListed
<1>4. DiskNotAhead' /\ SnapshotIsCurrent'
  BY DEF IndInv, TypeOK, LockInv, CallInv, FreshInv, DiskNotAhead,
         SnapshotIsCurrent, CreateUserFails, Goto, Fault, Return, NothingListed
<1>5. UpInv' /\ FileInv' /\ AcknowledgedIsDurable' /\ DamageIsMomentary'
  BY FilesAlone DEF IndInv, TypeOK, CreateUserFails, Goto, Fault, Return,
         NothingListed
<1> QED  BY <1>1, <1>2, <1>3, <1>4, <1>5 DEF IndInv

(* The port opens for the block of a new session. *)
LEMMA AllowStep ==
  ASSUME NEW g \in Procs, IndInv, Allow(g)
  PROVE  IndInv'
<1>1. TypeOK'
  BY DEF IndInv, TypeOK, CallInv, FreshInv, Allow, Goto
<1>2. LockInv' /\ CallInv'
  BY DEF IndInv, TypeOK, LockInv, CallInv, Allow, Goto
<1>3. FreshInv'
  BY DEF IndInv, TypeOK, LockInv, CallInv, FreshInv, DiskNotAhead, Allow, Goto
<1>4. DiskNotAhead' /\ SnapshotIsCurrent'
  BY DEF IndInv, TypeOK, LockInv, CallInv, FreshInv, DiskNotAhead,
         SnapshotIsCurrent, Allow, Goto
<1>5. UpInv' /\ FileInv' /\ AcknowledgedIsDurable' /\ DamageIsMomentary'
  BY FilesAlone DEF IndInv, TypeOK, Allow, Goto
<1> QED  BY <1>1, <1>2, <1>3, <1>4, <1>5 DEF IndInv

(* ufw failed: Provision goes on to drop the account. *)
LEMMA AllowFailsStep ==
  ASSUME NEW g \in Procs, IndInv, AllowFails(g)
  PROVE  IndInv'
<1>1. TypeOK'
  BY DEF IndInv, TypeOK, CallInv, FreshInv, AllowFails, Goto, Fault
<1>2. LockInv' /\ CallInv'
  BY DEF IndInv, TypeOK, LockInv, CallInv, AllowFails, Goto, Fault
<1>3. FreshInv'
  BY DEF IndInv, TypeOK, LockInv, CallInv, FreshInv, DiskNotAhead, AllowFails,
         Goto, Fault
<1>4. DiskNotAhead' /\ SnapshotIsCurrent'
  BY DEF IndInv, TypeOK, LockInv, CallInv, FreshInv, DiskNotAhead,
         SnapshotIsCurrent, AllowFails, Goto, Fault
<1>5. UpInv' /\ FileInv' /\ AcknowledgedIsDurable' /\ DamageIsMomentary'
  BY FilesAlone DEF IndInv, TypeOK, AllowFails, Goto, Fault
<1> QED  BY <1>1, <1>2, <1>3, <1>4, <1>5 DEF IndInv

(* New returns after Provision has dropped the account again. *)
LEMMA RollbackStep ==
  ASSUME NEW g \in Procs, IndInv, Rollback(g)
  PROVE  IndInv'
<1>1. TypeOK'
  BY DEF IndInv, TypeOK, CallInv, FreshInv, Rollback, Goto, Return,
         NothingListed
<1>2. LockInv' /\ CallInv'
  BY DEF IndInv, TypeOK, LockInv, CallInv, Rollback, Goto, Return, NothingListed
<1>3. FreshInv'
  BY DEF IndInv, TypeOK, LockInv, CallInv, FreshInv, DiskNotAhead, Rollback,
         Goto, Return, NothingListed
<1>4. DiskNotAhead' /\ SnapshotIsCurrent'
  BY DEF IndInv, TypeOK, LockInv, CallInv, FreshInv, DiskNotAhead,
         SnapshotIsCurrent, Rollback, Goto, Return, NothingListed
<1>5. UpInv' /\ FileInv' /\ AcknowledgedIsDurable' /\ DamageIsMomentary'
  BY FilesAlone DEF IndInv, TypeOK, Rollback, Goto, Return, NothingListed
<1> QED  BY <1>1, <1>2, <1>3, <1>4, <1>5 DEF IndInv

(* A writer announces itself; nothing it protects changes yet. *)
LEMMA LockStep ==
  ASSUME NEW g \in Procs, IndInv, Lock(g)
  PROVE  IndInv'
<1>1. TypeOK'
  BY DEF IndInv, TypeOK, CallInv, FreshInv, Lock
<1>2. LockInv' /\ CallInv'
  BY DEF IndInv, TypeOK, LockInv, CallInv, Lock
<1>3. FreshInv'
  BY DEF IndInv, TypeOK, LockInv, CallInv, FreshInv, DiskNotAhead, Lock
<1>4. DiskNotAhead' /\ SnapshotIsCurrent'
  BY DEF IndInv, TypeOK, LockInv, CallInv, FreshInv, DiskNotAhead,
         SnapshotIsCurrent, Lock
<1>5. UpInv' /\ FileInv' /\ AcknowledgedIsDurable' /\ DamageIsMomentary'
  BY FilesAlone DEF IndInv, TypeOK, Lock
<1> QED  BY <1>1, <1>2, <1>3, <1>4, <1>5 DEF IndInv

(* New's two sections.  They run without readers, so never between a copy  *)
(* and its save; and the second is never reached, because a New that takes *)
(* its session back has left a reader behind itself.                       *)
LEMMA NewSectionStep ==
  ASSUME NEW g \in Procs, IndInv, NewSection(g)
  PROVE  IndInv'
<1>1. /\ readers = 0 /\ readers' = 0
      /\ pc[g] = "register" /\ op[g] = "new" /\ cur[g] \in Ids
      /\ mem[cur[g]] = "none" /\ cur[g] \in used
      /\ \A h \in Procs : pc[h] \notin Saving \cup {"rlock2", "undo"}
  BY DEF IndInv, TypeOK, LockInv, CallInv, FreshInv, NewSection, Holds
<1>2. /\ mem' = [mem EXCEPT ![cur[g]] = "active"]
      /\ writer' = NoOne /\ pc' = [pc EXCEPT ![g] = "rlock"]
      /\ UNCHANGED <<files, used, cidr, lapsed, acked, users, rules, disturbed,
                     faults, restarts, op, cur, work, err, snap>>
  BY <1>1 DEF NewSection, Goto
<1>3. TypeOK'
  BY <1>1, <1>2 DEF IndInv, TypeOK
<1>4. LockInv' /\ CallInv'
  BY <1>1, <1>2 DEF IndInv, TypeOK, LockInv, CallInv
<1>5. FreshInv'
  BY <1>1, <1>2 DEF IndInv, TypeOK, CallInv, FreshInv
<1>6. DiskNotAhead' /\ SnapshotIsCurrent'
  BY <1>1, <1>2 DEF IndInv, TypeOK, DiskNotAhead, SnapshotIsCurrent
<1>7. UpInv' /\ FileInv' /\ AcknowledgedIsDurable' /\ DamageIsMomentary'
  BY <1>1, <1>2, FilesAlone DEF IndInv, TypeOK
<1> QED  BY <1>3, <1>4, <1>5, <1>6, <1>7 DEF IndInv

(* End's section marks a session that is in the map, so none that is being *)
(* provisioned.                                                            *)
LEMMA EndSectionStep ==
  ASSUME NEW g \in Procs, IndInv, EndSection(g)
  PROVE  IndInv'
<1>1. /\ readers = 0 /\ readers' = 0 /\ writer' = NoOne
      /\ pc[g] = "mark" /\ op[g] # "new" /\ cur[g] \in Ids
      /\ \A h \in Procs : pc[h] \notin Saving \cup {"rlock2", "undo"}
      /\ UNCHANGED <<files, used, cidr, lapsed, acked, users, rules, disturbed,
                     faults, restarts>>
  BY DEF IndInv, TypeOK, LockInv, CallInv, EndSection, Holds
<1>2. CASE mem[cur[g]] = "none"
  <2>1. mem' = mem /\ Return(g)
    BY <1>2 DEF EndSection
  <2>2. TypeOK'
    BY <1>1, <2>1, ReturnTypeOK DEF TaskTypeOK, IndInv, TypeOK
  <2>3. LockInv' /\ CallInv'
    BY <1>1, <2>1 DEF IndInv, TypeOK, LockInv, CallInv, Return, Goto
  <2>4. FreshInv'
    BY <1>1, <2>1 DEF IndInv, TypeOK, FreshInv, Return, Goto
  <2>5. DiskNotAhead' /\ SnapshotIsCurrent'
    BY <1>1, <2>1 DEF IndInv, TypeOK, DiskNotAhead, SnapshotIsCurrent, Return, Goto
  <2>6. UpInv' /\ FileInv' /\ AcknowledgedIsDurable' /\ DamageIsMomentary'
    BY <1>1, <2>1, FilesAlone DEF IndInv, TypeOK, Return, Goto
  <2> QED  BY <2>2, <2>3, <2>4, <2>5, <2>6 DEF IndInv
<1>3. CASE mem[cur[g]] # "none"
  <2>1. /\ mem' = [mem EXCEPT ![cur[g]] = "revoked"]
        /\ pc' = [pc EXCEPT ![g] = "revoke"]
        /\ work' = [work EXCEPT ![g] = {cur[g]}]
        /\ UNCHANGED <<op, cur, err, snap>>
    BY <1>3 DEF EndSection, Goto
  <2>2. TypeOK'
    BY <1>1, <2>1 DEF IndInv, TypeOK
  <2>3. LockInv' /\ CallInv'
    BY <1>1, <2>1 DEF IndInv, TypeOK, LockInv, CallInv
  <2>4. FreshInv'
    BY <1>1, <1>3, <2>1 DEF IndInv, TypeOK, CallInv, FreshInv
  <2>5. DiskNotAhead' /\ SnapshotIsCurrent'
    BY <1>1, <1>3, <2>1 DEF IndInv, TypeOK, DiskNotAhead, SnapshotIsCurrent
  <2>6. UpInv' /\ FileInv' /\ AcknowledgedIsDurable' /\ DamageIsMomentary'
    BY <1>1, <2>1, FilesAlone DEF IndInv, TypeOK
  <2> QED  BY <2>2, <2>3, <2>4, <2>5, <2>6 DEF IndInv
<1> QED  BY <1>2, <1>3

(* SetPlaygroundDB goes on into persist with the lock, or returns. *)
LEMMA SetPlaygroundDBStep ==
  ASSUME NEW g \in Procs, IndInv, SetPlaygroundDB(g)
  PROVE  IndInv'
<1>1. /\ UNCHANGED <<mem, files, used, cidr, lapsed, acked, users, rules, readers,
                     disturbed, faults, restarts>>
      /\ pc[g] = "setpg" /\ op[g] # "new" /\ writer = g
  BY DEF IndInv, CallInv, SetPlaygroundDB, Holds
<1>2. \/ Return(g) /\ writer' = NoOne
      \/ /\ pc' = [pc EXCEPT ![g] = "rlock"]
         /\ UNCHANGED <<writer, op, cur, work, err, snap>>
  BY DEF SetPlaygroundDB, Goto
<1>3. TypeOK'
  <2>1. TaskTypeOK'
    BY <1>2, ReturnTypeOK DEF IndInv, TypeOK, TaskTypeOK
  <2> QED  BY <1>1, <1>2, <2>1 DEF TaskTypeOK, IndInv, TypeOK
<1>4. LockInv' /\ CallInv'
  BY <1>1, <1>2 DEF IndInv, TypeOK, LockInv, CallInv, Return, Goto
<1>5. FreshInv'
  BY <1>1, <1>2 DEF IndInv, TypeOK, FreshInv, Return, Goto
<1>6. DiskNotAhead' /\ SnapshotIsCurrent'
  BY <1>1, <1>2 DEF IndInv, TypeOK, DiskNotAhead, SnapshotIsCurrent, Return, Goto
<1>7. UpInv' /\ FileInv' /\ AcknowledgedIsDurable' /\ DamageIsMomentary'
  BY <1>1, <1>2, FilesAlone DEF IndInv, TypeOK, Return, Goto
<1> QED  BY <1>3, <1>4, <1>5, <1>6, <1>7 DEF IndInv

(* VerifyAccess returns without touching a status. *)
LEMMA VerifySectionStep ==
  ASSUME NEW g \in Procs, IndInv, VerifySection(g)
  PROVE  IndInv'
<1>1. TypeOK'
  BY DEF IndInv, TypeOK, CallInv, FreshInv, VerifySection, Goto, Holds, Return,
         NothingListed
<1>2. LockInv' /\ CallInv'
  BY DEF IndInv, TypeOK, LockInv, CallInv, VerifySection, Goto, Holds, Return,
         NothingListed
<1>3. FreshInv'
  BY DEF IndInv, TypeOK, LockInv, CallInv, FreshInv, DiskNotAhead,
         VerifySection, Goto, Holds, Return, NothingListed
<1>4. DiskNotAhead' /\ SnapshotIsCurrent'
  BY DEF IndInv, TypeOK, LockInv, CallInv, FreshInv, DiskNotAhead,
         SnapshotIsCurrent, VerifySection, Goto, Holds, Return, NothingListed
<1>5. UpInv' /\ FileInv' /\ AcknowledgedIsDurable' /\ DamageIsMomentary'
  BY FilesAlone DEF IndInv, TypeOK, VerifySection, Goto, Holds, Return,
         NothingListed
<1> QED  BY <1>1, <1>2, <1>3, <1>4, <1>5 DEF IndInv

(* The reaper expires sessions; like every writer it finds no reader, so no *)
(* copy is waiting to be saved.                                             *)
LEMMA ReapSectionStep ==
  ASSUME IndInv, ReapSection
  PROVE  IndInv'
<1>1. TypeOK'
  <2>1. CASE {id \in work[Reaper] : mem[id] = "active"} = {}
    <3>1. Return(Reaper)  BY <2>1 DEF ReapSection, Goto, Holds
    <3>2. TaskTypeOK'  BY <3>1, ReturnTypeOK DEF IndInv
    <3> QED  BY <3>2 DEF TaskTypeOK, IndInv, TypeOK, CallInv, ReapSection,
                         Goto, Holds
  <2>2. CASE ~({id \in work[Reaper] : mem[id] = "active"} = {})
    BY <2>2 DEF IndInv, TypeOK, CallInv, ReapSection, Goto, Holds
  <2> QED  BY <2>1, <2>2
<1>2. LockInv' /\ CallInv'
  BY DEF IndInv, TypeOK, LockInv, CallInv, ReapSection, Goto, Holds, Return,
         NothingListed
<1>3. FreshInv'
  BY DEF IndInv, TypeOK, LockInv, CallInv, FreshInv, DiskNotAhead, ReapSection,
         Goto, Holds, Return, NothingListed
<1>4. DiskNotAhead' /\ SnapshotIsCurrent'
  BY DEF IndInv, TypeOK, LockInv, CallInv, FreshInv, DiskNotAhead,
         SnapshotIsCurrent, ReapSection, Goto, Holds, Return, NothingListed
<1>5. UpInv' /\ FileInv' /\ AcknowledgedIsDurable' /\ DamageIsMomentary'
  <2>1. /\ \A h \in Procs : pc[h] \notin InFile
        /\ UNCHANGED <<disk, tmp, fd, overlapped, acked, faults>>
        /\ \A id \in Ids : mem[id] # "none" => mem'[id] # "none"
    BY DEF IndInv, TypeOK, LockInv, ReapSection, Holds
  <2>2. /\ pc[Reaper] = "reap" /\ pc'[Reaper] \in {"idle", "revoke"}
        /\ \A h \in Procs \ {Reaper} : pc'[h] = pc[h]
    BY DEF IndInv, TypeOK, ReapSection, Return, Goto
  <2> QED  BY <2>1, <2>2, FilesAlone
<1> QED  BY <1>1, <1>2, <1>3, <1>4, <1>5 DEF IndInv

(* From here on there is a reader. *)
LEMMA FirstRLockStep ==
  ASSUME NEW g \in Procs, IndInv, FirstRLock(g)
  PROVE  IndInv'
<1>1. TypeOK'
  BY DEF IndInv, TypeOK, CallInv, FreshInv, FirstRLock, Goto, CanRead
<1>2. LockInv' /\ CallInv'
  BY DEF IndInv, TypeOK, LockInv, CallInv, FirstRLock, Goto, CanRead
<1>3. FreshInv'
  BY DEF IndInv, TypeOK, LockInv, CallInv, FreshInv, DiskNotAhead, FirstRLock,
         Goto, CanRead
<1>4. DiskNotAhead' /\ SnapshotIsCurrent'
  BY DEF IndInv, TypeOK, LockInv, CallInv, FreshInv, DiskNotAhead,
         SnapshotIsCurrent, FirstRLock, Goto, CanRead
<1>5. UpInv' /\ FileInv' /\ AcknowledgedIsDurable' /\ DamageIsMomentary'
  BY FilesAlone DEF IndInv, TypeOK, FirstRLock, Goto, CanRead
<1> QED  BY <1>1, <1>2, <1>3, <1>4, <1>5 DEF IndInv

(* The copy equals memory when it is taken. *)
LEMMA SnapshotStep ==
  ASSUME NEW g \in Procs, IndInv, Snapshot(g)
  PROVE  IndInv'
<1>1. TypeOK'
  BY DEF IndInv, TypeOK, CallInv, FreshInv, Snapshot, Goto, CanRead
<1>2. LockInv' /\ CallInv'
  BY DEF IndInv, TypeOK, LockInv, CallInv, Snapshot, Goto, CanRead
<1>3. FreshInv'
  BY DEF IndInv, TypeOK, LockInv, CallInv, FreshInv, DiskNotAhead, Snapshot,
         Goto, CanRead
<1>4. DiskNotAhead' /\ SnapshotIsCurrent'
  BY DEF IndInv, TypeOK, LockInv, CallInv, FreshInv, DiskNotAhead,
         SnapshotIsCurrent, Snapshot, Goto, CanRead
<1>5. UpInv' /\ FileInv' /\ AcknowledgedIsDurable' /\ DamageIsMomentary'
  BY FilesAlone DEF IndInv, TypeOK, Snapshot, Goto, CanRead
<1> QED  BY <1>1, <1>2, <1>3, <1>4, <1>5 DEF IndInv

(* The temporary file is emptied, and g is the one to write it. *)
LEMMA OpenTmpStep ==
  ASSUME NEW g \in Procs, IndInv, OpenTmp(g)
  PROVE  IndInv'
<1>1. TypeOK'
  BY DEF IndInv, TypeOK, OpenTmp, Goto
<1>2. LockInv' /\ CallInv'
  BY DEF IndInv, TypeOK, LockInv, CallInv, OpenTmp, Goto
<1>3. FreshInv'
  BY DEF IndInv, TypeOK, FreshInv, OpenTmp, Goto
<1>4. DiskNotAhead' /\ SnapshotIsCurrent'
  BY DEF IndInv, TypeOK, DiskNotAhead, SnapshotIsCurrent, OpenTmp, Goto
<1>5. UpInv'
  BY DEF IndInv, TypeOK, UpInv, Up, OpenTmp, Goto, Whole
<1>6. FileInv'
  <2>1. pc'[g] = "write" /\ fd'[g] = "tmp" /\ tmp' = Damaged
    BY DEF IndInv, TypeOK, OpenTmp, Goto
  <2>2. \A h \in Procs \ {g} : pc'[h] = pc[h] /\ fd'[h] = fd[h]
    BY DEF IndInv, TypeOK, OpenTmp, Goto
  <2>3. ~overlapped' => ~overlapped /\ \A h \in Procs \ {g} : pc[h] \notin InFile
    BY DEF OpenTmp
  <2> QED  BY <2>1, <2>2, <2>3 DEF IndInv, FileInv
<1>7. AcknowledgedIsDurable' /\ DamageIsMomentary'
  BY RunningMeansUp
     DEF IndInv, TypeOK, AcknowledgedIsDurable, DamageIsMomentary, OpenTmp, Goto, Whole
<1> QED  BY <1>1, <1>2, <1>3, <1>4, <1>5, <1>6, <1>7 DEF IndInv

(* What is written is memory itself, by SnapshotIsCurrent, to whichever     *)
(* file the goroutine has open.                                             *)
LEMMA WriteTmpStep ==
  ASSUME NEW g \in Procs, IndInv, WriteTmp(g)
  PROVE  IndInv'
<1>1. /\ snap[g] = mem /\ mem' = mem /\ mem \in Lists /\ Up
      /\ tmp' = IF fd[g] = "tmp" THEN mem ELSE tmp
      /\ disk' = IF fd[g] = "disk" THEN mem ELSE disk
      /\ pc[g] = "write" /\ pc'[g] = "rename" /\ fd'[g] = "none"
      /\ \A h \in Procs \ {g} : pc'[h] = pc[h] /\ fd'[h] = fd[h]
  BY RunningMeansUp DEF IndInv, TypeOK, SnapshotIsCurrent, WriteTmp, Goto
<1>2. TypeOK'
  BY DEF IndInv, TypeOK, WriteTmp, Goto
<1>3. LockInv' /\ CallInv'
  BY DEF IndInv, TypeOK, LockInv, CallInv, WriteTmp, Goto
<1>4. FreshInv'
  BY DEF IndInv, TypeOK, FreshInv, WriteTmp, Goto
<1>5. DiskNotAhead' /\ SnapshotIsCurrent'
  BY <1>1 DEF IndInv, TypeOK, DiskNotAhead, SnapshotIsCurrent, WriteTmp, Goto
<1>6. UpInv'
  <2>1. Up' /\ UNCHANGED acked
    BY <1>1 DEF Up, WriteTmp
  <2> QED  BY <1>1, <2>1 DEF IndInv, UpInv
<1>7. FileInv'
  <2>1. UNCHANGED <<overlapped, faults>>
    BY DEF WriteTmp
  <2>2. tmp' = Damaged => fd[g] # "tmp" /\ tmp = Damaged
    BY <1>1
  <2> QED  BY <1>1, <2>1, <2>2 DEF IndInv, FileInv
<1>8. AcknowledgedIsDurable'
  BY <1>1 DEF IndInv, UpInv, AcknowledgedIsDurable, WriteTmp, Whole
<1>9. DamageIsMomentary'
  <2>1. ~Whole(disk)' => ~Whole(disk) /\ fd[g] # "disk"
    BY <1>1 DEF Whole
  <2>2. UNCHANGED faults
    BY DEF WriteTmp
  <2> QED  BY <1>1, <2>1, <2>2 DEF IndInv, DamageIsMomentary
<1> QED  BY <1>2, <1>3, <1>4, <1>5, <1>6, <1>7, <1>8, <1>9 DEF IndInv

(* The store becomes what the temporary file holds: memory, unless another *)
(* save has emptied it meanwhile and is to write it.                       *)
LEMMA RenameTmpStep ==
  ASSUME NEW g \in Procs, IndInv, RenameTmp(g)
  PROVE  IndInv'
<1>1. /\ mem' = mem /\ mem \in Lists /\ Up
      /\ tmp \in {mem, Damaged} /\ disk' = tmp /\ tmp' = Absent
      /\ UNCHANGED <<overlapped, faults>>
      /\ pc[g] = "rename" /\ pc'[g] = "idle" /\ fd[g] = "none"
      /\ \A h \in Procs \ {g} : pc'[h] = pc[h]
      /\ \A h \in Procs : fd'[h] = Moved(fd[h])
  BY RunningMeansUp DEF IndInv, TypeOK, FileInv, RenameTmp, Return, Goto
<1>2. TypeOK'
  <2>1. TaskTypeOK'
    BY ReturnTypeOK DEF IndInv, RenameTmp
  <2>2. fd' \in [Procs -> Places]
    BY DEF IndInv, TypeOK, RenameTmp, Moved
  <2>3. acked' \in SUBSET Ids
    BY DEF IndInv, TypeOK, CallInv, RenameTmp
  <2> QED  BY <1>1, <2>1, <2>2, <2>3 DEF IndInv, TypeOK, TaskTypeOK, RenameTmp
<1>3. LockInv' /\ CallInv'
  BY DEF IndInv, TypeOK, LockInv, CallInv, RenameTmp, Return, Goto
<1>4. FreshInv'
  BY DEF IndInv, TypeOK, FreshInv, RenameTmp, Return, Goto
<1>5. DiskNotAhead' /\ SnapshotIsCurrent'
  BY <1>1 DEF IndInv, TypeOK, DiskNotAhead, SnapshotIsCurrent, RenameTmp, Return,
              Goto, Whole
<1>6. Up' /\ \A id \in acked' : mem'[id] # "none"
  BY <1>1 DEF IndInv, TypeOK, UpInv, Up, FreshInv, RenameTmp
<1>7. UpInv'
  BY <1>1, <1>6 DEF IndInv, UpInv
<1>8. FileInv'
  BY <1>1 DEF IndInv, FileInv, Moved
<1>9. AcknowledgedIsDurable'
  <2>1. ~overlapped => tmp = mem
    BY <1>1 DEF IndInv, FileInv
  <2> QED  BY <1>1, <1>6, <2>1 DEF AcknowledgedIsDurable, Whole
<1>10. DamageIsMomentary'
  <2>1. tmp = Damaged /\ faults = 0 => \E h \in Procs : pc[h] = "write" /\ fd[h] = "tmp"
    BY <1>1 DEF IndInv, FileInv
  <2>2. ~Whole(disk)' => tmp = Damaged
    BY <1>1 DEF Whole
  <2> QED  BY <1>1, <2>1, <2>2 DEF DamageIsMomentary, Moved
<1> QED  BY <1>2, <1>3, <1>4, <1>5, <1>7, <1>8, <1>9, <1>10 DEF IndInv

(* New turns back, and the leaked reader is there for LockInv; any other    *)
(* call returns.                                                            *)
LEMMA SaveErrStep ==
  ASSUME NEW g \in Procs, IndInv, pc[g] \in Saving, SaveErr(g),
         disturbed' \in SUBSET Ids, faults' \in 0..MaxFaults, restarts' = restarts,
         tmp' \in Lists \cup {Damaged, Absent}, disk' \in Lists \cup {Damaged}
  PROVE  /\ TypeOK' /\ LockInv' /\ CallInv' /\ FreshInv' /\ SnapshotIsCurrent'
         /\ Up' /\ mem' = mem /\ acked' = acked /\ overlapped' = overlapped
         /\ pc'[g] \in {"idle", "revoke"} /\ fd'[g] = "none"
         /\ \A h \in Procs \ {g} : pc'[h] = pc[h] /\ fd'[h] = fd[h]
<1>1. CASE op[g] # "new"
  <2>1. Return(g)
    BY <1>1 DEF SaveErr
  <2>2. TypeOK'
    BY <2>1, ReturnTypeOK DEF IndInv, TypeOK, TaskTypeOK, SaveErr
  <2>3. LockInv' /\ CallInv' /\ FreshInv' /\ SnapshotIsCurrent'
    BY <2>1 DEF IndInv, TypeOK, LockInv, CallInv, FreshInv, SnapshotIsCurrent,
                SaveErr, Return, Goto
  <2>4. Up
    BY RunningMeansUp
  <2> QED  BY <2>1, <2>2, <2>3, <2>4 DEF IndInv, TypeOK, Up, SaveErr, Return, Goto
<1>2. CASE op[g] = "new"
  <2>1. Goto(g, "revoke") /\ UNCHANGED <<op, cur, work, err, snap>>
    BY <1>2 DEF SaveErr
  <2>2. TypeOK'
    BY <2>1 DEF IndInv, TypeOK, SaveErr, Goto
  <2>3. LockInv' /\ CallInv' /\ FreshInv' /\ SnapshotIsCurrent'
    BY <2>1 DEF IndInv, TypeOK, LockInv, CallInv, FreshInv, SnapshotIsCurrent,
                SaveErr, Goto
  <2>4. Up
    BY RunningMeansUp
  <2> QED  BY <2>1, <2>2, <2>3, <2>4 DEF IndInv, TypeOK, Up, SaveErr, Goto
<1> QED  BY <1>1, <1>2

(* A write that fails may damage the file it goes to; that is the store     *)
(* only if another save has renamed it.                                     *)
LEMMA SaveAllFailsStep ==
  ASSUME NEW g \in Procs, IndInv, SaveAllFails(g)
  PROVE  IndInv'
<1>1. /\ pc[g] \in Saving /\ SaveErr(g)
      /\ disturbed' \in SUBSET Ids /\ faults' \in 0..MaxFaults /\ faults' # 0
      /\ restarts' = restarts
      /\ tmp' \in {tmp, Damaged} /\ disk' \in {disk, Damaged}
      /\ disk' # disk => fd[g] = "disk"
  BY DEF IndInv, TypeOK, CallInv, SaveAllFails, Fault, GivenUp
<1>2. tmp' \in Lists \cup {Damaged, Absent} /\ disk' \in Lists \cup {Damaged}
  BY <1>1 DEF IndInv, TypeOK
<1>3. /\ TypeOK' /\ LockInv' /\ CallInv' /\ FreshInv' /\ SnapshotIsCurrent'
      /\ Up' /\ mem' = mem /\ acked' = acked /\ overlapped' = overlapped
      /\ pc'[g] \in {"idle", "revoke"} /\ fd'[g] = "none"
      /\ \A h \in Procs \ {g} : pc'[h] = pc[h] /\ fd'[h] = fd[h]
  BY <1>1, <1>2, SaveErrStep
<1>4. Up
  BY <1>1, RunningMeansUp
<1>5. DiskNotAhead'
  BY <1>1, <1>3 DEF IndInv, DiskNotAhead, Whole
<1>6. UpInv'
  BY <1>1, <1>3, <1>4 DEF IndInv, UpInv
<1>7. FileInv'
  <2>1. ~overlapped =>
          \/ pc[g] \in InFile /\ \A h \in Procs \ {g} : pc[h] \notin InFile
          \/ pc[g] = "save" /\ tmp' = tmp
    BY <1>1 DEF IndInv, FileInv, SaveAllFails
  <2> QED  BY <1>1, <1>3, <2>1 DEF IndInv, FileInv
<1>8. AcknowledgedIsDurable'
  <2>1. disk' # disk => overlapped
    BY <1>1 DEF IndInv, FileInv
  <2> QED  BY <1>1, <1>3, <2>1 DEF IndInv, AcknowledgedIsDurable, Whole
<1>9. DamageIsMomentary'
  BY <1>1 DEF DamageIsMomentary
<1> QED  BY <1>3, <1>5, <1>6, <1>7, <1>8, <1>9 DEF IndInv

(* The file is in the store already, and g's save fails for it. *)
LEMMA RenameTmpFailsStep ==
  ASSUME NEW g \in Procs, IndInv, RenameTmpFails(g)
  PROVE  IndInv'
<1>1. /\ pc[g] = "rename" /\ SaveErr(g)
      /\ UNCHANGED <<tmp, disk, faults, restarts>>
      /\ disturbed' \in SUBSET Ids /\ faults' \in 0..MaxFaults
      /\ tmp' \in Lists \cup {Damaged, Absent} /\ disk' \in Lists \cup {Damaged}
  BY DEF IndInv, TypeOK, CallInv, RenameTmpFails, GivenUp
<1>2. /\ TypeOK' /\ LockInv' /\ CallInv' /\ FreshInv' /\ SnapshotIsCurrent'
      /\ Up' /\ mem' = mem /\ acked' = acked /\ overlapped' = overlapped
      /\ pc'[g] \in {"idle", "revoke"} /\ fd'[g] = "none"
      /\ \A h \in Procs \ {g} : pc'[h] = pc[h] /\ fd'[h] = fd[h]
  BY <1>1, SaveErrStep
<1>3. Up
  BY <1>1, RunningMeansUp
<1>4. DiskNotAhead' /\ AcknowledgedIsDurable'
  BY <1>1, <1>2 DEF IndInv, DiskNotAhead, AcknowledgedIsDurable, Whole
<1>5. UpInv'
  BY <1>1, <1>2, <1>3 DEF IndInv, UpInv
<1>6. FileInv' /\ DamageIsMomentary'
  BY <1>1, <1>2, <1>3 DEF IndInv, FileInv, DamageIsMomentary, Whole
<1> QED  BY <1>2, <1>4, <1>5, <1>6 DEF IndInv

(* An account is dropped. *)
LEMMA DropUserStep ==
  ASSUME NEW g \in Procs, IndInv, DropUser(g)
  PROVE  IndInv'
<1>1. TypeOK'
  BY DEF IndInv, TypeOK, CallInv, FreshInv, DropUser, Goto
<1>2. LockInv' /\ CallInv'
  BY DEF IndInv, TypeOK, LockInv, CallInv, DropUser, Goto
<1>3. FreshInv'
  BY DEF IndInv, TypeOK, LockInv, CallInv, FreshInv, DiskNotAhead, DropUser,
         Goto
<1>4. DiskNotAhead' /\ SnapshotIsCurrent'
  BY DEF IndInv, TypeOK, LockInv, CallInv, FreshInv, DiskNotAhead,
         SnapshotIsCurrent, DropUser, Goto
<1>5. UpInv' /\ FileInv' /\ AcknowledgedIsDurable' /\ DamageIsMomentary'
  BY FilesAlone DEF IndInv, TypeOK, DropUser, Goto
<1> QED  BY <1>1, <1>2, <1>3, <1>4, <1>5 DEF IndInv

(* An account is perhaps dropped, and the error noted. *)
LEMMA DropUserFailsStep ==
  ASSUME NEW g \in Procs, IndInv, DropUserFails(g)
  PROVE  IndInv'
<1>1. TypeOK'
  BY DEF IndInv, TypeOK, CallInv, FreshInv, DropUserFails, Goto, Fault
<1>2. LockInv' /\ CallInv'
  BY DEF IndInv, TypeOK, LockInv, CallInv, DropUserFails, Goto, Fault
<1>3. FreshInv'
  BY DEF IndInv, TypeOK, LockInv, CallInv, FreshInv, DiskNotAhead,
         DropUserFails, Goto, Fault
<1>4. DiskNotAhead' /\ SnapshotIsCurrent'
  BY DEF IndInv, TypeOK, LockInv, CallInv, FreshInv, DiskNotAhead,
         SnapshotIsCurrent, DropUserFails, Goto, Fault
<1>5. UpInv' /\ FileInv' /\ AcknowledgedIsDurable' /\ DamageIsMomentary'
  BY FilesAlone DEF IndInv, TypeOK, DropUserFails, Goto, Fault
<1> QED  BY <1>1, <1>2, <1>3, <1>4, <1>5 DEF IndInv

(* A rule is deleted, and the call goes on to what it has left. *)
LEMMA DenyStep ==
  ASSUME NEW g \in Procs, IndInv, Deny(g)
  PROVE  IndInv'
<1>1. TypeOK'
  <2>1. TaskTypeOK'
    BY AfterRevokeTypeOK DEF IndInv, TypeOK, Deny
  <2> QED  BY <2>1 DEF TaskTypeOK, IndInv, TypeOK, Deny
<1>2. LockInv' /\ CallInv'
  BY DEF IndInv, TypeOK, LockInv, CallInv, Deny, Goto, AfterRevoke, Return,
         NothingListed
<1>3. FreshInv'
  BY DEF IndInv, TypeOK, LockInv, CallInv, FreshInv, DiskNotAhead, Deny, Goto,
         AfterRevoke, Return, NothingListed
<1>4. DiskNotAhead' /\ SnapshotIsCurrent'
  BY DEF IndInv, TypeOK, LockInv, CallInv, FreshInv, DiskNotAhead,
         SnapshotIsCurrent, Deny, Goto, AfterRevoke, Return, NothingListed
<1>5. UpInv' /\ FileInv' /\ AcknowledgedIsDurable' /\ DamageIsMomentary'
  BY FilesAlone DEF IndInv, TypeOK, Deny, Goto, AfterRevoke, Return,
         NothingListed
<1> QED  BY <1>1, <1>2, <1>3, <1>4, <1>5 DEF IndInv

(* A rule is perhaps deleted; End returns the error. *)
LEMMA DenyFailsStep ==
  ASSUME NEW g \in Procs, IndInv, DenyFails(g)
  PROVE  IndInv'
<1>1. TypeOK'
  <2>1. TaskTypeOK'
    BY AfterRevokeTypeOK DEF IndInv, TypeOK, DenyFails
  <2>2. rules' \subseteq Cidrs
    BY DEF IndInv, TypeOK, DenyFails
  <2>3. disturbed' \subseteq Ids /\ faults' \in 0..MaxFaults /\ restarts' = restarts
    BY DEF IndInv, TypeOK, CallInv, DenyFails, Fault
  <2> QED  BY <2>1, <2>2, <2>3 DEF TaskTypeOK, IndInv, TypeOK, DenyFails
<1>2. LockInv' /\ CallInv'
  BY DEF IndInv, TypeOK, LockInv, CallInv, DenyFails, Goto, Fault, AfterRevoke,
         Return, NothingListed
<1>3. FreshInv'
  <2>1. /\ UNCHANGED <<mem, used, cidr>>
        /\ \A h \in Procs \ {g} : pc'[h] = pc[h] /\ op'[h] = op[h] /\ cur'[h] = cur[h]
    BY DEF IndInv, TypeOK, DenyFails, AfterRevoke, Return, Goto
  <2>2. /\ pc'[g] \notin Provisioning
        /\ op'[g] = "new" => pc'[g] = "undo"
    BY DEF IndInv, TypeOK, DenyFails, AfterRevoke, Return, Goto
  <2> QED  BY <2>1, <2>2 DEF IndInv, FreshInv
<1>4. DiskNotAhead' /\ SnapshotIsCurrent'
  BY DEF IndInv, TypeOK, LockInv, CallInv, FreshInv, DiskNotAhead,
         SnapshotIsCurrent, DenyFails, Goto, Fault, AfterRevoke, Return,
         NothingListed
<1>5. UpInv' /\ FileInv' /\ AcknowledgedIsDurable' /\ DamageIsMomentary'
  BY FilesAlone DEF IndInv, TypeOK, DenyFails, Goto, Fault, AfterRevoke,
         Return, NothingListed
<1> QED  BY <1>1, <1>2, <1>3, <1>4, <1>5 DEF IndInv

(* The clock passes an ExpiresAt. *)
LEMMA LapseStep ==
  ASSUME NEW id \in Ids, IndInv, Lapse(id)
  PROVE  IndInv'
<1>1. TypeOK'
  BY DEF IndInv, TypeOK, CallInv, FreshInv, Lapse
<1>2. LockInv' /\ CallInv'
  BY DEF IndInv, TypeOK, LockInv, CallInv, Lapse
<1>3. FreshInv'
  BY DEF IndInv, TypeOK, LockInv, CallInv, FreshInv, DiskNotAhead, Lapse
<1>4. DiskNotAhead' /\ SnapshotIsCurrent'
  BY DEF IndInv, TypeOK, LockInv, CallInv, FreshInv, DiskNotAhead,
         SnapshotIsCurrent, Lapse
<1>5. UpInv' /\ FileInv' /\ AcknowledgedIsDurable' /\ DamageIsMomentary'
  BY FilesAlone DEF IndInv, TypeOK, Lapse
<1> QED  BY <1>1, <1>2, <1>3, <1>4, <1>5 DEF IndInv

(* Memory becomes the store, and no call is under way; if the store does   *)
(* not open, no goroutine runs.                                            *)
LEMMA RestartStep ==
  ASSUME IndInv, Restart
  PROVE  IndInv'
<1>1. mem' \in Lists /\ (Whole(disk) => mem' = disk)
  BY DEF Restart, NothingListed, Whole
<1>2. TypeOK'
  <2>1. disturbed' \subseteq Ids /\ restarts' \in 0..MaxRestarts
    BY InFlightType DEF IndInv, TypeOK, Restart
  <2> QED  BY <1>1, <2>1 DEF IndInv, TypeOK, Restart, AtRest, NothingListed
<1>3. LockInv' /\ CallInv' /\ SnapshotIsCurrent'
  BY DEF IndInv, TypeOK, LockInv, CallInv, SnapshotIsCurrent, Restart, AtRest
<1>4. FreshInv'
  BY <1>1 DEF IndInv, TypeOK, FreshInv, DiskNotAhead, Restart, AtRest, NothingListed
<1>5. DiskNotAhead' /\ AcknowledgedIsDurable'
  BY <1>1 DEF IndInv, DiskNotAhead, AcknowledgedIsDurable, Restart, Whole
<1>6. UpInv' /\ DamageIsMomentary'
  BY <1>1 DEF IndInv, TypeOK, UpInv, Up, AcknowledgedIsDurable, DamageIsMomentary,
              Restart, AtRest, Whole
<1>7. FileInv'
  BY DEF IndInv, FileInv, Restart, AtRest
<1> QED  BY <1>2, <1>3, <1>4, <1>5, <1>6, <1>7 DEF IndInv

(* Nothing changes. *)
LEMMA StutterStep ==
  ASSUME IndInv, UNCHANGED vars
  PROVE  IndInv'
<1>1. TypeOK' /\ LockInv' /\ CallInv' /\ FreshInv'
  BY DEF vars, IndInv, TypeOK, LockInv, CallInv, FreshInv
<1>2. DiskNotAhead' /\ SnapshotIsCurrent'
  BY DEF vars, IndInv, DiskNotAhead, SnapshotIsCurrent
<1>3. UpInv' /\ FileInv' /\ AcknowledgedIsDurable' /\ DamageIsMomentary'
  BY FilesAlone DEF vars
<1> QED  BY <1>1, <1>2, <1>3 DEF IndInv

(* Every step of the specification preserves the invariant. *)
LEMMA NextInd == IndInv /\ [Next]_vars => IndInv'
<1> SUFFICES ASSUME IndInv, [Next]_vars
             PROVE  IndInv'
  OBVIOUS
<1>1. ASSUME NEW g \in Workers, Request(g)
      PROVE  IndInv'
  <2>1. CASE SetupPost(g)
    BY <2>1, SetupPostStep
  <2>2. CASE SessionEndPost(g)
    BY <2>2, HandlerCallStep DEF SessionEndPost
  <2>3. CASE GatePost(g)
    BY <2>3, HandlerCallStep DEF GatePost
  <2>4. CASE PlaygroundCreate(g)
    BY <2>4, HandlerCallStep DEF PlaygroundCreate
  <2> QED  BY <1>1, <2>1, <2>2, <2>3, <2>4 DEF Request
<1>2. ASSUME NEW g \in Procs, Step(g)
      PROVE  IndInv'
  <2>1. CASE Provision(g)
    BY <2>1, CreateUserStep, CreateUserFailsStep, AllowStep, AllowFailsStep,
       RollbackStep DEF Provision
  <2>2. CASE Revoke(g)
    BY <2>2, DropUserStep, DropUserFailsStep, DenyStep, DenyFailsStep DEF Revoke
  <2>3. CASE Locked(g)
    BY <2>3, NewSectionStep, EndSectionStep, VerifySectionStep,
       SetPlaygroundDBStep, ReapSectionStep DEF Locked
  <2>4. CASE Save(g)
    BY <2>4, OpenTmpStep, WriteTmpStep, RenameTmpStep, SaveAllFailsStep,
       RenameTmpFailsStep DEF Save
  <2>5. CASE Lock(g) \/ FirstRLock(g) \/ Snapshot(g)
    BY <2>5, LockStep, FirstRLockStep, SnapshotStep
  <2> QED  BY <1>2, <2>1, <2>2, <2>3, <2>4, <2>5 DEF Step
<1>3. ASSUME NEW id \in Ids, Lapse(id)
      PROVE  IndInv'
  BY <1>3, LapseStep
<1> QED
  BY <1>1, <1>2, <1>3, TickStep, RestartStep, StutterStep DEF Next

(* The inductive invariant holds of every reachable state. *)
THEOREM Invariance == Spec => []IndInv
<1>1. Init => IndInv
  BY InitInd
<1>2. IndInv /\ [Next]_vars => IndInv'
  BY NextInd
<1> QED  BY <1>1, <1>2, PTL DEF Spec, Safety

-----------------------------------------------------------------------------
(* Every variable keeps its type. *)
THEOREM TypeCorrectness == Spec => []TypeOK
<1>1. IndInv => TypeOK
  BY DEF IndInv
<1> QED  BY <1>1, Invariance, PTL

(* The list a goroutine is about to save is what memory holds, whoever     *)
(* else has marked, expired or saved sessions since it was copied.         *)
THEOREM SavesAreCurrent == Spec => []SnapshotIsCurrent
<1>1. IndInv => SnapshotIsCurrent
  BY DEF IndInv
<1> QED  BY <1>1, Invariance, PTL

(* A session whose New returned without error is in the store, at once and  *)
(* after any later saves, failures and restarts, as long as the store opens;*)
(* and it opens, unless two saves of the process have overlapped.           *)
THEOREM AcknowledgedSurvives == Spec => []AcknowledgedIsDurable
<1>1. IndInv => AcknowledgedIsDurable
  BY DEF IndInv
<1> QED  BY <1>1, Invariance, PTL

(* Without a failing call, a store that does not open is about to be filled *)
(* by a save that has its file open: only a kill before that is final.      *)
THEOREM DamagePasses == Spec => []DamageIsMomentary
<1>1. IndInv => DamageIsMomentary
  BY DEF IndInv
<1> QED  BY <1>1, Invariance, PTL

(* Only a save writes the store, and it writes memory as it is or leaves   *)
(* nothing that opens.                                                     *)
LEMMA StoreStep ==
  ASSUME IndInv, [Next]_vars
  PROVE  disk' = disk \/ (disk' \in {mem, Damaged} /\ mem' = mem)
<1>1. ASSUME NEW g \in Procs, WriteTmp(g)
      PROVE  disk' \in {disk, mem} /\ mem' = mem
  BY <1>1 DEF WriteTmp, IndInv, SnapshotIsCurrent
<1>2. ASSUME NEW g \in Procs, RenameTmp(g)
      PROVE  disk' \in {mem, Damaged} /\ mem' = mem
  BY <1>2 DEF RenameTmp, IndInv, FileInv
<1>3. ASSUME NEW g \in Procs, SaveAllFails(g)
      PROVE  disk' \in {disk, Damaged} /\ mem' = mem
  BY <1>3 DEF SaveAllFails, SaveErr
<1>4. ASSUME NEW g \in Workers, Request(g)
      PROVE  disk' = disk
  BY <1>4 DEF Request, SetupPost, SessionEndPost, GatePost, PlaygroundCreate,
              HandlerCall
<1>5. ASSUME NEW g \in Procs, Step(g), ~WriteTmp(g), ~RenameTmp(g), ~SaveAllFails(g)
      PROVE  disk' = disk
  BY <1>5 DEF Step, Provision, CreateUser, CreateUserFails, Allow, AllowFails,
              Rollback, Revoke, DropUser, DropUserFails, Deny, DenyFails, Locked,
              NewSection, EndSection, VerifySection, SetPlaygroundDB, ReapSection,
              Save, OpenTmp, RenameTmpFails, Lock, FirstRLock, Snapshot
<1>6. (Tick \/ (\E id \in Ids : Lapse(id)) \/ Restart \/ UNCHANGED vars) => disk' = disk
  BY DEF Tick, Lapse, Restart, vars
<1> QED  BY <1>1, <1>2, <1>3, <1>4, <1>5, <1>6 DEF Next

(* While the daemon runs, memory only moves on: no step but a restart       *)
(* changes who is down, or brings back a session that has ended.            *)
LEMMA MemoryStep ==
  ASSUME IndInv, [Next]_vars, ~Restart
  PROVE  Up' = Up /\ \A id \in Ids : mem[id] \in Ended => mem'[id] \in Ended
<1> USE DEF IndInv, TypeOK, Up, Goto
<1>1. ASSUME NEW g \in Procs, NewSection(g)
      PROVE  Up' = Up /\ \A id \in Ids : mem[id] \in Ended => mem'[id] \in Ended
  <2>1. pc[g] = "register" /\ cur[g] \in Ids /\ mem[cur[g]] = "none"
    BY <1>1 DEF NewSection, Holds, LockInv, CallInv, FreshInv
  <2> QED  BY <1>1, <2>1 DEF NewSection
<1>2. ASSUME NEW g \in Procs, EndSection(g)
      PROVE  Up' = Up /\ \A id \in Ids : mem[id] \in Ended => mem'[id] \in Ended
  BY <1>2 DEF EndSection, Return
<1>3. ASSUME ReapSection
      PROVE  Up' = Up /\ \A id \in Ids : mem[id] \in Ended => mem'[id] \in Ended
  BY <1>3 DEF ReapSection, Return
<1>4. ASSUME NEW g \in Workers, Request(g)
      PROVE  Up' = Up /\ mem' = mem
  BY <1>4 DEF Request, SetupPost, SessionEndPost, GatePost, PlaygroundCreate,
              HandlerCall, Call
<1>5. ASSUME NEW g \in Procs, Provision(g) \/ Lock(g) \/ FirstRLock(g) \/ Snapshot(g)
      PROVE  Up' = Up /\ mem' = mem
  BY <1>5 DEF Provision, CreateUser, CreateUserFails, Allow, AllowFails, Rollback,
              Lock, FirstRLock, Snapshot, Return
<1>6. ASSUME NEW g \in Procs, Revoke(g)
      PROVE  Up' = Up /\ mem' = mem
  BY <1>6 DEF Revoke, DropUser, DropUserFails, Deny, DenyFails, AfterRevoke, Return
<1>7. ASSUME NEW g \in Procs, VerifySection(g) \/ SetPlaygroundDB(g)
      PROVE  Up' = Up /\ mem' = mem
  BY <1>7 DEF VerifySection, SetPlaygroundDB, Return
<1>8. ASSUME NEW g \in Procs, Save(g)
      PROVE  Up' = Up /\ mem' = mem
  BY <1>8 DEF Save, OpenTmp, WriteTmp, RenameTmp, SaveAllFails, RenameTmpFails,
              SaveErr, Return
<1>9. (Tick \/ (\E id \in Ids : Lapse(id)) \/ UNCHANGED vars) => Up' = Up /\ mem' = mem
  BY DEF Tick, Call, Lapse, vars
<1> QED  BY <1>1, <1>2, <1>3, <1>4, <1>5, <1>6, <1>7, <1>8, <1>9
         DEF Next, Step, Locked

(* A session that is stored as ended is never stored as active again, over *)
(* any number of saves and restarts, and if the store is damaged and       *)
(* written again in between.                                               *)
THEOREM StoredEndIsFinal == Spec => EndedOnDiskStaysEnded
<1>1. ASSUME IndInv, [Next]_vars
      PROVE  [\A id \in Ids : Kept[id] \in Ended => Kept'[id] \in Ended \/ ~Up']_vars
  <2>1. \A id \in Ids : Kept[id] \in Ended => mem[id] \in Ended
    BY <1>1 DEF IndInv, DiskNotAhead, Kept
  <2>2. CASE Restart
    BY <2>2 DEF Restart, AtRest, Up, Kept, Whole
  <2>3. CASE ~Restart
    <3>1. \A id \in Ids : mem[id] \in Ended => mem'[id] \in Ended
      BY <1>1, <2>3, MemoryStep
    <3>2. Kept' = Kept \/ Kept' = mem'
      BY <1>1, StoreStep DEF Kept, Whole
    <3> QED  BY <2>1, <3>1, <3>2
  <2> QED  BY <2>2, <2>3
<1> QED  BY <1>1, Invariance, PTL DEF Spec, Safety, EndedOnDiskStaysEnded

-----------------------------------------------------------------------------
(* The detailed specification implements the abstract one.                 *)

(* Every step that changes a status or the store is one of SessionLifecycle.*)
LEMMA LifecycleStep ==
  ASSUME IndInv, [Next]_vars
  PROVE  [Lifecycle!Next]_(Lifecycle!vars)
<1> USE DEF Lifecycle!Next, Lifecycle!vars
<1>1. ASSUME Restart
      PROVE  Lifecycle!Next
  <2>1. CASE Whole(disk)
    <3>1. Up /\ Up' /\ disk # Damaged
      BY <1>1, <2>1 DEF IndInv, UpInv, Up, Restart, AtRest, Whole
    <3>2. Lifecycle!Crash
      BY <1>1, <2>1, <3>1 DEF Restart, Lifecycle!Crash
    <3> QED  BY <3>2
  <2>2. CASE ~Whole(disk)
    <3>1. ~Up' /\ disk = Damaged
      BY <1>1, <2>2 DEF IndInv, TypeOK, Up, Restart, AtRest, Whole
    <3>2. Lifecycle!CrashForGood
      BY <1>1, <2>2, <3>1 DEF Restart, Lifecycle!CrashForGood, Lifecycle!Nothing,
                              NothingListed
    <3> QED  BY <3>2
  <2> QED  BY <2>1, <2>2
<1>2. ASSUME ~Restart
      PROVE  Up' = Up
  BY <1>2, MemoryStep
<1>3. ASSUME NEW g \in Procs, NewSection(g), ~Restart
      PROVE  Lifecycle!Next
  <2>1. /\ pc[g] = "register" /\ cur[g] \in Ids /\ mem[cur[g]] = "none"
        /\ Up
    BY <1>3, RunningMeansUp DEF NewSection, Holds, IndInv, LockInv, CallInv, FreshInv
  <2>2. mem' = [mem EXCEPT ![cur[g]] = "active"] /\ disk' = disk
    BY <1>3, <2>1 DEF NewSection
  <2>3. Lifecycle!Begin(cur[g])
    BY <1>2, <1>3, <2>1, <2>2 DEF Lifecycle!Begin
  <2> QED  BY <2>1, <2>3
<1>4. ASSUME NEW g \in Procs, EndSection(g), ~Restart
      PROVE  Lifecycle!Next \/ UNCHANGED Lifecycle!vars
  <2>1. CASE mem[cur[g]] = "none"
    BY <1>2, <1>4, <2>1 DEF EndSection
  <2>2. CASE mem[cur[g]] # "none"
    <3>1. Up
      BY <1>4, RunningMeansUp DEF EndSection
    <3>2. cur[g] \in Ids /\ Lifecycle!Revoke(cur[g])
      BY <1>2, <1>4, <2>2, <3>1 DEF EndSection, IndInv, CallInv, Lifecycle!Revoke
    <3> QED  BY <3>2
  <2> QED  BY <2>1, <2>2
<1>5. ASSUME ReapSection, ~Restart
      PROVE  Lifecycle!Next
  <2>1. Lifecycle!Expire
    <3> DEFINE S == {id \in work[Reaper] : mem[id] = "active"}
    <3>1. S \in SUBSET {id \in Ids : mem[id] = "active"}
      BY DEF IndInv, TypeOK
    <3>2. /\ mem' = [id \in Ids |-> IF id \in S THEN "expired" ELSE mem[id]]
          /\ disk' = disk
      BY <1>5 DEF ReapSection
    <3>3. Up
      BY <1>5, RunningMeansUp DEF ReapSection
    <3> QED  BY <1>2, <1>5, <3>1, <3>2, <3>3 DEF Lifecycle!Expire
  <2> QED  BY <2>1
<1>6. ASSUME NEW g \in Procs, Save(g), ~Restart
      PROVE  Lifecycle!Next \/ UNCHANGED Lifecycle!vars
  <2>1. Up /\ mem' = mem
    BY <1>6, RunningMeansUp DEF Save, OpenTmp, WriteTmp, RenameTmp, SaveAllFails,
                                RenameTmpFails, SaveErr
  <2>2. disk' \in {disk, mem, Damaged}
    BY StoreStep
  <2> QED  BY <1>2, <1>6, <2>1, <2>2 DEF Lifecycle!Save, Lifecycle!Spoil
<1>7. ASSUME NEW g \in Workers, Request(g), ~Restart
      PROVE  UNCHANGED Lifecycle!vars
  BY <1>2, <1>7 DEF Request, SetupPost, SessionEndPost, GatePost, PlaygroundCreate,
                    HandlerCall
<1>8. ASSUME NEW g \in Procs, Step(g), ~NewSection(g), ~EndSection(g),
             ~Save(g), ~(g = Reaper /\ ReapSection), ~Restart
      PROVE  UNCHANGED Lifecycle!vars
  BY <1>2, <1>8 DEF Step, Provision, CreateUser, CreateUserFails, Allow, AllowFails,
              Rollback, Revoke, DropUser, DropUserFails, Deny, DenyFails, Locked,
              VerifySection, SetPlaygroundDB, Lock, FirstRLock, Snapshot
<1>9. ASSUME Tick \/ (\E id \in Ids : Lapse(id)) \/ UNCHANGED vars, ~Restart
      PROVE  UNCHANGED Lifecycle!vars
  BY <1>2, <1>9 DEF Tick, Lapse, vars
<1> QED  BY <1>1, <1>3, <1>4, <1>5, <1>6, <1>7, <1>8, <1>9 DEF Next

(* A caller of the manager sees the abstract life cycle: sessions begin and *)
(* end in memory, every save records memory as it is at that moment or, if  *)
(* it meets another, nothing that opens, and a restart goes back to the     *)
(* last save or does not come up.                                           *)
THEOREM ImplementsLifecycle == Spec => LifecycleSpec
<1>1. Init => Lifecycle!Init
  BY DEF Init, Lifecycle!Init, Lifecycle!Nothing, NothingListed, Up, AtRest
<1>2. IndInv /\ [Next]_vars => [Lifecycle!Next]_(Lifecycle!vars)
  BY LifecycleStep
<1> QED  BY <1>1, <1>2, Invariance, PTL DEF Spec, Safety, LifecycleSpec,
        Lifecycle!Spec

=============================================================================
