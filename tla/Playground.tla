----------------------------- MODULE Playground -----------------------------
(***************************************************************************)
(* Playground databases: made, filled and dropped by handlers, recorded on  *)
(* the session they belong to, and dropped with it.  MySQL's databases live *)
(* outside the process, the record in the manager's memory and store, and   *)
(* the manager's mutex is the one of manager.go: persist keeps a read lock, *)
(* SetPlaygroundDB persists while it holds the lock for writing.            *)
(***************************************************************************)
EXTENDS Naturals, FiniteSets

CONSTANTS Owners,     \* sessions; also the names of their playgrounds
          Source,     \* a database to clone
          Unrestricted, \* cfg.EffectiveMode() = "unrestricted"
          Players,    \* goroutines of the handlers
          Sweeper,    \* the goroutine of the manager's ticker
          Idle,       \* nothing in hand
          MaxDBFaults, MaxPlayRestarts

ASSUME PlayAssumption ==
  /\ Source \notin Owners
  /\ Unrestricted \in BOOLEAN
  /\ Sweeper \notin Players
  /\ MaxDBFaults \in Nat /\ MaxPlayRestarts \in Nat

VARIABLES there,      \* databases on the server
          dbs,        \* what each one holds
          live,       \* sessions with status active in memory
          record,     \* sessions with a PlaygroundDB in memory
          saved,      \* both, as the store has them
          lapsed,     \* sessions with ExpiresAt in the past
          mutex,      \* m.mu: "free", "leaked" (a reader stays), "held" (a
                      \* writer in it or waiting for it, for ever)
          step, task, \* each goroutine's next step and what it works on
          announced,  \* history: playgrounds made for a live session
          spoiled,    \* history: playgrounds with two callers at once, a
                      \* failed call, a crash, or a hand in them elsewhere
          unrecorded, \* history: left without a record though nothing failed:
                      \* a clone that names no source, or a handler that waits
                      \* for ever for the lock to record it
          bare,       \* history: clones of a source with no tables
          faultsP, restartsP

memory == <<live, record, mutex>>
data   == <<there, dbs, unrecorded>>
pvars  == <<data, memory, saved, lapsed, step, task, announced, spoiled, bare,
            faultsP, restartsP>>

Threads   == Players \cup {Sweeper}
Databases == Owners \cup {Source}
Hows      == {"sample", "clone", "no source"}
Parts(how) == {how} \X {1, 2}      \* what a playground so made consists of
AllParts  == Parts("sample") \cup Parts("clone")
PlaySteps == {"idle", "replace", "create", "fill", "rollback", "record", "check",
              "drop", "clear", "end", "reap", "revoke", "persist", "stuck"}

Task == [of : SUBSET Owners, how : Hows, part : 1..3]

PlayTypeOK ==
  /\ there \subseteq Databases /\ dbs \in [Databases -> SUBSET AllParts]
  /\ live \subseteq Owners /\ record \subseteq Owners
  /\ saved \in [live : SUBSET Owners, record : SUBSET Owners]
  /\ lapsed \subseteq Owners
  /\ mutex \in {"free", "leaked", "held"}
  /\ step \in [Threads -> PlaySteps]
  /\ \A p \in Threads : step[p] \notin {"idle", "reap", "stuck"} => task[p] \in Task
  /\ announced \subseteq Owners /\ spoiled \subseteq Owners
  /\ unrecorded \subseteq Owners /\ bare \subseteq Owners
  /\ faultsP \in 0..MaxDBFaults /\ restartsP \in 0..MaxPlayRestarts

(* The server starts with live sessions, no playground and a free lock.     *)
PlayInit ==
  /\ there = {Source} /\ dbs = [d \in Databases |-> IF d = Source THEN Parts("clone") ELSE {}]
  /\ live = Owners /\ record = {} /\ mutex = "free"
  /\ saved = [live |-> Owners, record |-> {}]
  /\ lapsed = {}
  /\ step = [p \in Threads |-> "idle"] /\ task = [p \in Threads |-> Idle]
  /\ announced = {} /\ spoiled = {} /\ unrecorded = {} /\ bare = {} /\ faultsP = 0 /\ restartsP = 0

AtWork(s) == {p \in Threads : step[p] \notin {"idle", "reap", "stuck"} /\ s \in task[p].of}
FailureP  == faultsP < MaxDBFaults /\ faultsP' = faultsP + 1
To(p, next) == /\ step' = [step EXCEPT ![p] = next]
               /\ task' = [task EXCEPT ![p] = IF next \in {"idle", "stuck"} THEN Idle ELSE @]
Rest == <<saved, lapsed, announced, bare, restartsP>>
CanLookUp == mutex # "held"

(* A handler looks the live session up, under the read lock.  A second one  *)
(* at work on the same session spoils its playground.                       *)
LookUp(p, next, how) ==
  /\ step[p] = "idle" /\ CanLookUp
  /\ \E s \in live \ lapsed :
       /\ task' = [task EXCEPT ![p] = [of |-> {s}, how |-> how, part |-> 1]]
       /\ spoiled' = spoiled \cup {t \in {s} : AtWork(t) # {}}
  /\ step' = [step EXCEPT ![p] = next]
  /\ UNCHANGED <<data, memory, Rest, faultsP>>

PlaygroundCreate(p) == p # Sweeper /\ \E how \in Hows : LookUp(p, "replace", how)
PlaygroundDrop(p)   == p # Sweeper /\ LookUp(p, "check", "sample")
SessionEnd(p)       == p # Sweeper /\ LookUp(p, "end", "sample")

Mine(p) == CHOOSE s \in task[p].of : TRUE

(* DropPlaygroundDB; every caller ignores its error.                        *)
DropPlaygroundDB(s) ==
  \/ /\ there' = there \ {s} /\ dbs' = [dbs EXCEPT ![s] = {}]
     /\ unrecorded' = unrecorded \ {s}
     /\ UNCHANGED <<spoiled, faultsP>>
  \/ FailureP /\ spoiled' = spoiled \cup {s} /\ UNCHANGED data

(* PlaygroundDB is read from the session without the lock.                  *)
DropIfRecorded(s) == IF s \in record THEN DropPlaygroundDB(s)
                                     ELSE UNCHANGED <<data, spoiled, faultsP>>

Replace(p) ==
  /\ step[p] = "replace"
  /\ DropIfRecorded(Mine(p))
  /\ To(p, "create")
  /\ UNCHANGED <<memory, Rest>>

(* CREATE DATABASE IF NOT EXISTS.  An empty source_db field is noticed only *)
(* now, and the database left; a source that is not there has no tables to  *)
(* copy.                                                                    *)
CreatePlaygroundDB(p) ==
  LET s == Mine(p)  how == task[p].how
      nothing == how = "clone" /\ dbs[Source] = {} IN
  /\ step[p] = "create"
  /\ \/ /\ how = "no source"
        /\ there' = there \cup {s} /\ unrecorded' = unrecorded \cup {s}
        /\ To(p, "idle")
        /\ UNCHANGED <<dbs, bare, faultsP>>
     \/ /\ how # "no source"
        /\ there' = there \cup {s}
        /\ step' = [step EXCEPT ![p] = "fill"]
        /\ task' = [task EXCEPT ![p].part = IF nothing THEN 3 ELSE 1]
        /\ bare' = IF nothing THEN bare \cup {s} ELSE bare \ {s}
        /\ UNCHANGED <<dbs, unrecorded, faultsP>>
     \/ FailureP /\ To(p, "idle") /\ UNCHANGED <<data, bare>>
  /\ UNCHANGED <<memory, saved, lapsed, announced, restartsP, spoiled>>

(* One half of the tables or rows: they must not be there yet, and a clone  *)
(* needs its source.                                                        *)
CanFill(p) ==
  LET s == Mine(p) IN
  /\ s \in there
  /\ <<task[p].how, task[p].part>> \notin dbs[s]
  /\ task[p].how = "clone" => dbs[Source] # {}

(* Slip: one statement too many. *)
FillPast(p) ==
  LET s == Mine(p) IN
  /\ step[p] = "fill" /\ CanFill(p)
  /\ dbs' = [dbs EXCEPT ![s] = @ \cup {<<task[p].how, task[p].part>>}]
  /\ task' = [task EXCEPT ![p].part = @ + 1]
  /\ UNCHANGED <<there, unrecorded, memory, step, Rest, spoiled, faultsP>>

Fill(p) ==
  LET s == Mine(p) IN
  /\ step[p] = "fill" /\ task[p].part < 3 /\ CanFill(p)
  /\ dbs' = [dbs EXCEPT ![s] = @ \cup {<<task[p].how, task[p].part>>}]
  /\ task' = [task EXCEPT ![p].part = @ + 1]
  /\ UNCHANGED <<there, unrecorded, memory, step, Rest, spoiled, faultsP>>

Filled(p) ==
  /\ step[p] = "fill" /\ task[p].part = 3
  /\ To(p, "record")
  /\ UNCHANGED <<data, memory, Rest, spoiled, faultsP>>

(* Slip: the error of CloneDatabase or GenerateSampleDatabase is ignored. *)
FillFailsIgnored(p) ==
  /\ step[p] = "fill" /\ task[p].part < 3
  /\ FailureP
  /\ To(p, "record")
  /\ UNCHANGED <<data, memory, Rest, spoiled>>

(* A request that is cancelled or out of time fails here, and its rollback  *)
(* runs under the same context and fails as well.                           *)
FillFails(p) ==
  /\ step[p] = "fill" /\ task[p].part < 3
  /\ \/ ~CanFill(p) /\ To(p, "rollback") /\ UNCHANGED <<spoiled, faultsP>>
     \/ FailureP /\ To(p, "rollback") /\ UNCHANGED spoiled
     \/ FailureP /\ To(p, "idle") /\ spoiled' = spoiled \cup {Mine(p)}
  /\ UNCHANGED <<data, memory, Rest>>

(* Slip: no rollback. *)
RollbackSkipped(p) ==
  /\ step[p] = "rollback"
  /\ To(p, "idle")
  /\ UNCHANGED <<data, memory, Rest, spoiled, faultsP>>

Rollback(p) ==
  /\ step[p] = "rollback"
  /\ DropPlaygroundDB(Mine(p))
  /\ To(p, "idle")
  /\ UNCHANGED <<memory, Rest>>

(* The name is set if nobody has left a read lock or waits for it; then, or *)
(* before that, the goroutine waits for ever, and every later use of the    *)
(* lock behind it.                                                          *)
SetPlaygroundDB(p, recorded) ==
  /\ mutex' = "held"
  /\ record' = IF mutex = "free" THEN recorded ELSE record
  /\ To(p, "stuck")
  /\ announced' = IF step[p] = "record" THEN announced \cup (task[p].of \cap live) ELSE announced
  /\ unrecorded' = IF mutex = "free" THEN unrecorded \ task[p].of
                   ELSE IF step[p] = "record" THEN unrecorded \cup task[p].of ELSE unrecorded
  /\ UNCHANGED <<there, dbs, live, saved, lapsed, spoiled, bare, restartsP, faultsP>>

Record(p) == step[p] = "record" /\ SetPlaygroundDB(p, record \cup task[p].of)

DropCheck(p) ==
  /\ step[p] = "check"
  /\ To(p, IF Mine(p) \in record THEN "drop" ELSE "idle")
  /\ UNCHANGED <<data, memory, Rest, spoiled, faultsP>>

Drop(p) ==
  /\ step[p] = "drop"
  /\ DropPlaygroundDB(Mine(p))
  /\ To(p, "clear")
  /\ UNCHANGED <<memory, Rest>>

Clear(p) == step[p] = "clear" /\ SetPlaygroundDB(p, record \ task[p].of)

(* End, or a tick of the reaper with its sessions: they are marked in the   *)
(* lock, which a leaked read lock keeps from them.                          *)
Tick(p) ==
  /\ p = Sweeper /\ step[p] = "idle"
  /\ step' = [step EXCEPT ![p] = "reap"]
  /\ task' = [task EXCEPT ![p] = [of |-> {}, how |-> "sample", part |-> 1]]
  /\ UNCHANGED <<data, memory, Rest, spoiled, faultsP>>

Mark(p) ==
  LET gone == IF p = Sweeper THEN live \cap lapsed ELSE task[p].of IN
  /\ step[p] \in {"end", "reap"} /\ mutex # "held"
  /\ IF mutex = "leaked"
     THEN /\ mutex' = "held" /\ To(p, "stuck") /\ UNCHANGED <<live, spoiled>>
     ELSE /\ live' = live \ gone
          /\ spoiled' = spoiled \cup {s \in gone : AtWork(s) \ {p} # {}}
          /\ step' = [step EXCEPT ![p] = IF gone = {} THEN "idle" ELSE "revoke"]
          /\ task' = [task EXCEPT ![p] = IF gone = {} THEN Idle ELSE [@ EXCEPT !.of = gone]]
          /\ UNCHANGED mutex
  /\ UNCHANGED <<data, record, Rest, faultsP>>

(* Activator.Revoke; accounts and rules are SessionManager's.               *)
RevokePlayground(p) ==
  /\ step[p] = "revoke"
  /\ \E s \in task[p].of :
       /\ DropIfRecorded(s)
       /\ task' = [task EXCEPT ![p].of = @ \ {s}]
  /\ UNCHANGED <<memory, step, Rest>>

(* End does not save when the account or the rule could not be removed.     *)
Revoked(p) ==
  /\ step[p] = "revoke" /\ task[p].of = {}
  /\ \/ To(p, "persist") /\ UNCHANGED faultsP
     \/ p # Sweeper /\ FailureP /\ To(p, "idle")
  /\ UNCHANGED <<data, memory, Rest, spoiled>>

(* The copy and the save; a failed save changes nothing but the lock.       *)
PersistPlay(p) ==
  /\ step[p] = "persist" /\ mutex # "held"
  /\ mutex' = "leaked"
  /\ \/ saved' = [live |-> live, record |-> record] /\ UNCHANGED faultsP
     \/ FailureP /\ UNCHANGED saved
  /\ To(p, "idle")
  /\ UNCHANGED <<data, live, record, lapsed, announced, spoiled, bare, restartsP>>

(* The pages that create and drop databases take any name.                  *)
DBCreate(d) ==
  /\ d \notin there
  /\ there' = there \cup {d}
  /\ spoiled' = spoiled \cup ({d} \cap Owners)
  /\ UNCHANGED <<dbs, unrecorded, memory, step, task, Rest, faultsP>>

DBDrop(d) ==
  /\ Unrestricted /\ d \in there
  /\ there' = there \ {d} /\ dbs' = [dbs EXCEPT ![d] = {}]
  /\ spoiled' = spoiled \cup ({d} \cap Owners)
  /\ UNCHANGED <<unrecorded, memory, step, task, Rest, faultsP>>

LapsePlay(s) ==
  /\ s \notin lapsed
  /\ lapsed' = lapsed \cup {s}
  /\ UNCHANGED <<data, memory, saved, step, task, announced, spoiled, bare, faultsP, restartsP>>

(* A crash: memory is what the store has, the databases stay.               *)
RestartPlay ==
  /\ restartsP < MaxPlayRestarts
  /\ restartsP' = restartsP + 1
  /\ live' = saved.live /\ record' = saved.record /\ mutex' = "free"
  /\ spoiled' = spoiled \cup {s \in Owners : AtWork(s) # {} \/ (s \in record) # (s \in saved.record)}
  /\ step' = [p \in Threads |-> "idle"] /\ task' = [p \in Threads |-> Idle]
  /\ UNCHANGED <<data, saved, lapsed, announced, bare, faultsP>>

PlayStep(p) ==
  \/ PlaygroundCreate(p) \/ Replace(p) \/ CreatePlaygroundDB(p)
  \/ Fill(p) \/ Filled(p) \/ FillFails(p) \/ Rollback(p) \/ Record(p)
  \/ PlaygroundDrop(p) \/ DropCheck(p) \/ Drop(p) \/ Clear(p)
  \/ SessionEnd(p) \/ Tick(p) \/ Mark(p) \/ RevokePlayground(p) \/ Revoked(p)
  \/ PersistPlay(p)

PlayNext ==
  \/ \E p \in Threads : PlayStep(p)
  \/ \E d \in Databases : DBCreate(d) \/ DBDrop(d)
  \/ \E s \in Owners : LapsePlay(s)
  \/ RestartPlay

PlaySpec == PlayInit /\ [][PlayNext]_pvars

-----------------------------------------------------------------------------
(* A playground that is on record is there, with all that was promised: no  *)
(* half-filled one is ever announced, except where history spoiled it or    *)
(* there was nothing to clone.                                              *)
RecordedIsComplete ==
  \A s \in record \ spoiled :
    /\ s \in there
    /\ s \notin bare => \E how \in {"sample", "clone"} : Parts(how) \subseteq dbs[s]

(* Once nobody is at work on it, a playground is there only if its session  *)
(* has it on record and still lives: nothing is left behind by a rollback,  *)
(* a replacement or the end of the session, unless a call failed, the       *)
(* process crashed, or two callers or a page came in between (spoiled), or  *)
(* it is one of the two the code itself leaves without a record, a clone    *)
(* that names no source (handlers.go:735) and a handler that waits for the  *)
(* lock for ever (manager.go:213), until it is recorded or dropped.         *)
NoStrayPlayground ==
  \A s \in Owners \ (spoiled \cup unrecorded) :
    AtWork(s) = {} /\ s \in there => s \in record /\ s \in live

(* "The playground database is automatically dropped when your session      *)
(* ends": of a session that is over and revoked, no playground it was given *)
(* while it lived is left.                                                  *)
PlaygroundGoesWithSession ==
  \A s \in announced \ live : AtWork(s) = {} => s \notin there
=============================================================================
