-------------------------- MODULE ServerObjectsProofs --------------------------
(***************************************************************************)
(* Proofs about what the server is given for a session: its playground      *)
(* (Playground), for every set of sessions and of handlers, any number of   *)
(* faults and restarts, in either mode; and the account's host and the rule *)
(* made of its address (AddressPolicy), for addresses of any width.         *)
(***************************************************************************)
EXTENDS Playground, AddressPolicy, WellFoundedInduction, TLAPS

-----------------------------------------------------------------------------
(* Playgrounds.                                                             *)

Works(p, s) == step[p] \notin {"idle", "reap", "stuck"} /\ s \in task[p].of

(* The steps at which a handler has one session in hand.                    *)
InHand == {"replace", "create", "fill", "rollback", "record", "check", "drop",
           "clear", "end"}

(* What a goroutine holds at each step.                                     *)
TaskInv ==
  /\ task \in [Threads -> Task \cup {Idle}]
  /\ \A p \in Threads :
       /\ step[p] = "reap" => p = Sweeper /\ task[p] \in Task
       /\ step[p] \in InHand => p # Sweeper /\ \E s \in Owners : task[p].of = {s}
       /\ step[p] \in {"fill", "record"} => task[p].how \in {"sample", "clone"}

(* A database that is not there holds nothing; a record is made with the    *)
(* lock that is never given back, so none is ever saved.                    *)
DropInv == \A d \in Databases \ there : dbs[d] = {}
LockInv == (mutex # "held" => record = {}) /\ saved.record = {}

BaseInv == PlayTypeOK /\ TaskInv /\ DropInv /\ LockInv

(* What the only goroutine at work on a session knows of its playground:    *)
(* before it is made and when the session is revoked nothing is there that  *)
(* was not left unrecorded; as much as has been filled while it is filled,  *)
(* unless there was nothing to clone, and all of it at the end.             *)
StageOK(p, s) ==
  /\ step[p] \notin {"drop", "clear"}
  /\ step[p] \in InHand => s \in live
  /\ step[p] \in {"replace", "create", "check", "end", "revoke", "persist"} =>
       (s \in there => s \in unrecorded)
  /\ step[p] \in {"fill", "record"} =>
       /\ s \in there
       /\ s \notin bare => \A n \in 1..2 : n < task[p].part => <<task[p].how, n>> \in dbs[s]
  /\ step[p] = "record" => task[p].part = 3

Complete(s) == /\ s \in there
               /\ s \notin bare => \E how \in {"sample", "clone"} : Parts(how) \subseteq dbs[s]

AtRest(s) == \A p \in Threads : ~Works(p, s)

(* A session that is not spoiled has one goroutine at work on it, or a      *)
(* complete playground on record, or none, or one left unrecorded.          *)
SessionInv(s) ==
  s \notin spoiled =>
    /\ \A p, q \in Threads : Works(p, s) /\ Works(q, s) => p = q
    /\ \A p \in Threads : Works(p, s) => StageOK(p, s)
    /\ s \in record => AtRest(s) /\ s \in live /\ Complete(s)
    /\ AtRest(s) /\ s \in there => (s \in record /\ s \in live) \/ s \in unrecorded

PlayInv == BaseInv /\ \A s \in Owners : SessionInv(s)

-----------------------------------------------------------------------------
(* The session a handler has in hand is the one of its task.                *)
LEMMA OneInHand ==
  ASSUME NEW p \in Threads, TaskInv, step[p] \in InHand
  PROVE  /\ p # Sweeper /\ p \in Players
         /\ Mine(p) \in Owners /\ task[p].of = {Mine(p)}
         /\ \A s : Works(p, s) <=> s = Mine(p)
<1>1. PICK s \in Owners : task[p].of = {s} BY DEF TaskInv
<1>2. Mine(p) = s BY <1>1 DEF Mine
<1>3. p # Sweeper /\ p \in Players BY DEF TaskInv, Threads
<1> QED BY <1>1, <1>2, <1>3 DEF Works, InHand

(* The server starts with nothing in hand.                                  *)
LEMMA BaseInit == PlayInit => BaseInv
<1> SUFFICES ASSUME PlayInit PROVE BaseInv OBVIOUS
<1> USE PlayAssumption DEF PlayInit
<1>1. PlayTypeOK
  BY DEF PlayTypeOK, Databases, Threads, PlaySteps, AllParts
<1>2. TaskInv BY DEF TaskInv, InHand
<1>3. DropInv /\ LockInv BY DEF DropInv, LockInv, Databases
<1> QED BY <1>1, <1>2, <1>3 DEF BaseInv

(* A handler's call goes from one step to the next with its task.           *)
LEMMA ToTypes ==
  ASSUME NEW p \in Threads, NEW next \in PlaySteps \ {"reap"}, BaseInv, To(p, next),
         step[p] \notin {"idle", "reap", "stuck"},
         next \in InHand => step[p] \in InHand,
         next \in {"fill", "record"} => task[p].how \in {"sample", "clone"}
  PROVE  /\ step' \in [Threads -> PlaySteps]
         /\ \A q \in Threads : step'[q] \notin {"idle", "reap", "stuck"} => task'[q] \in Task
         /\ TaskInv'
<1> USE DEF BaseInv, PlayTypeOK, To
<1>1. step' \in [Threads -> PlaySteps] OBVIOUS
<1>2. task' \in [Threads -> Task \cup {Idle}] BY DEF TaskInv
<1>3. \A q \in Threads : q # p => step'[q] = step[q] /\ task'[q] = task[q]
  BY DEF TaskInv
<1>4. step'[p] = next /\ (next \notin {"idle", "stuck"} => task'[p] = task[p])
  BY DEF TaskInv
<1>5. task[p] \in Task OBVIOUS
<1>6. \A q \in Threads : step'[q] \notin {"idle", "reap", "stuck"} => task'[q] \in Task
  BY <1>3, <1>4, <1>5
<1>7. \A q \in Threads :
        /\ step'[q] = "reap" => q = Sweeper /\ task'[q] \in Task
        /\ step'[q] \in InHand => q # Sweeper /\ \E s \in Owners : task'[q].of = {s}
        /\ step'[q] \in {"fill", "record"} => task'[q].how \in {"sample", "clone"}
  BY <1>3, <1>4, <1>5 DEF TaskInv, InHand
<1> QED BY <1>1, <1>2, <1>6, <1>7 DEF TaskInv

(* Dropping a playground that may not be there.                             *)
LEMMA DropTypes ==
  ASSUME BaseInv, NEW s \in Owners, DropPlaygroundDB(s)
  PROVE  /\ there' \subseteq Databases /\ dbs' \in [Databases -> SUBSET AllParts]
         /\ spoiled' \subseteq Owners /\ spoiled \subseteq spoiled' /\ faultsP' \in 0..MaxDBFaults
         /\ unrecorded' \subseteq Owners /\ DropInv'
<1> USE DEF BaseInv, PlayTypeOK, Databases
<1>1. CASE there' = there \ {s} /\ dbs' = [dbs EXCEPT ![s] = {}]
           /\ unrecorded' = unrecorded \ {s} /\ UNCHANGED <<spoiled, faultsP>>
  BY <1>1 DEF DropInv
<1>2. CASE FailureP /\ spoiled' = spoiled \cup {s} /\ UNCHANGED data
  BY <1>2, PlayAssumption DEF FailureP, data, DropInv
<1> QED BY <1>1, <1>2 DEF DropPlaygroundDB

LEMMA DropIfRecordedTypes ==
  ASSUME BaseInv, NEW s \in Owners, DropIfRecorded(s)
  PROVE  /\ there' \subseteq Databases /\ dbs' \in [Databases -> SUBSET AllParts]
         /\ spoiled' \subseteq Owners /\ spoiled \subseteq spoiled' /\ faultsP' \in 0..MaxDBFaults
         /\ unrecorded' \subseteq Owners /\ DropInv'
<1>1. CASE s \in record BY <1>1, DropTypes DEF DropIfRecorded
<1>2. CASE s \notin record
  BY <1>2 DEF DropIfRecorded, BaseInv, PlayTypeOK, DropInv, data
<1> QED BY <1>1, <1>2

(* Every step of a goroutine, of the pages of databases, of the clock and   *)
(* of a restart keeps the types, the tasks and the lock in order.           *)
LEMMA BaseLookUp ==
  ASSUME NEW p \in Players, BaseInv, NEW next \in {"replace", "check", "end"},
         NEW how \in Hows, LookUp(p, next, how)
  PROVE  BaseInv'
<1> USE DEF BaseInv, LookUp
<1>1. PICK s \in live \ lapsed :
        /\ task' = [task EXCEPT ![p] = [of |-> {s}, how |-> how, part |-> 1]]
        /\ spoiled' = spoiled \cup {t \in {s} : AtWork(t) # {}}
  OBVIOUS
<1>2. p \in Threads /\ p # Sweeper /\ s \in Owners
  BY PlayAssumption DEF Threads, PlayTypeOK
<1>3. [of |-> {s}, how |-> how, part |-> 1] \in Task BY <1>2 DEF Task
<1>4. /\ \A q \in Threads : q # p => step'[q] = step[q] /\ task'[q] = task[q]
      /\ step'[p] = next /\ task'[p] = [of |-> {s}, how |-> how, part |-> 1]
  BY <1>1, <1>2 DEF PlayTypeOK, TaskInv
<1>5. spoiled' \subseteq Owners BY <1>1, <1>2 DEF PlayTypeOK
<1>6. PlayTypeOK'
  BY <1>2, <1>3, <1>4, <1>5 DEF PlayTypeOK, PlaySteps, data, memory, Rest
<1>7. task' \in [Threads -> Task \cup {Idle}] BY <1>1, <1>3 DEF TaskInv
<1>8. TaskInv'
  BY <1>2, <1>3, <1>4, <1>7 DEF TaskInv, InHand
<1>9. DropInv' /\ LockInv' BY DEF DropInv, LockInv, data, memory, Rest
<1> QED BY <1>6, <1>8, <1>9

LEMMA BaseReplace ==
  ASSUME NEW p \in Threads, BaseInv, Replace(p) PROVE BaseInv'
<1> USE DEF Replace
<1>1. Mine(p) \in Owners BY OneInHand DEF InHand, BaseInv
<1>2. /\ there' \subseteq Databases /\ dbs' \in [Databases -> SUBSET AllParts]
      /\ spoiled' \subseteq Owners /\ faultsP' \in 0..MaxDBFaults /\ unrecorded' \subseteq Owners
      /\ DropInv'
  BY <1>1, DropIfRecordedTypes
<1>3. /\ step' \in [Threads -> PlaySteps]
      /\ \A q \in Threads : step'[q] \notin {"idle", "reap", "stuck"} => task'[q] \in Task
      /\ TaskInv'
  BY ToTypes DEF PlaySteps, InHand
<1> QED BY <1>2, <1>3 DEF BaseInv, PlayTypeOK, LockInv, memory, Rest

LEMMA BaseCreate ==
  ASSUME NEW p \in Threads, BaseInv, CreatePlaygroundDB(p) PROVE BaseInv'
<1> DEFINE s == Mine(p)  how == task[p].how
           nothing == how = "clone" /\ dbs[Source] = {}
           first == IF nothing THEN 3 ELSE 1
<1>0. s \in Owners /\ step[p] = "create" /\ UNCHANGED <<memory, saved, lapsed, announced, restartsP, spoiled>>
  BY OneInHand DEF InHand, BaseInv, CreatePlaygroundDB
<1>1. CASE /\ there' = there \cup {s} /\ unrecorded' = unrecorded \cup {s}
           /\ To(p, "idle") /\ UNCHANGED <<dbs, bare, faultsP>>
  <2>1. /\ step' \in [Threads -> PlaySteps]
        /\ \A q \in Threads : step'[q] \notin {"idle", "reap", "stuck"} => task'[q] \in Task
        /\ TaskInv'
    BY <1>0, <1>1, ToTypes DEF PlaySteps, InHand
  <2> QED BY <1>0, <1>1, <2>1 DEF BaseInv, PlayTypeOK, LockInv, DropInv, memory, Databases
<1>2. CASE /\ there' = there \cup {s} /\ UNCHANGED <<dbs, unrecorded, faultsP>> /\ how # "no source"
           /\ step' = [step EXCEPT ![p] = "fill"] /\ task' = [task EXCEPT ![p].part = first]
           /\ bare' = IF nothing THEN bare \cup {s} ELSE bare \ {s}
  <2>1. task[p] \in Task /\ how \in {"sample", "clone"}
    BY <1>0, <1>2 DEF BaseInv, PlayTypeOK, Task, Hows
  <2>2. [task[p] EXCEPT !.part = first] \in Task BY <2>1 DEF Task
  <2> DEFINE new == [task[p] EXCEPT !.part = first]
  <2>3. new.of = task[p].of /\ new.how = how BY <2>1 DEF Task
  <2>4. task' = [task EXCEPT ![p] = new] BY <1>2
  <2>0. bare' \subseteq Owners BY <1>0, <1>2 DEF BaseInv, PlayTypeOK
  <2> HIDE DEF new, first, nothing
  <2>5. /\ \A q \in Threads : q # p => step'[q] = step[q] /\ task'[q] = task[q]
        /\ step'[p] = "fill" /\ task'[p] = new /\ new \in Task
        /\ task' \in [Threads -> Task \cup {Idle}]
    BY <1>2, <2>2, <2>4 DEF BaseInv, PlayTypeOK, TaskInv, new
  <2>6. PlayTypeOK'
    BY <1>0, <1>2, <2>0, <2>5 DEF BaseInv, PlayTypeOK, PlaySteps, memory, Databases
  <2>7. TaskInv'
    BY <1>0, <2>1, <2>3, <2>5 DEF BaseInv, TaskInv, InHand
  <2> QED BY <1>0, <1>2, <2>6, <2>7 DEF BaseInv, LockInv, DropInv, memory, Databases
<1>3. CASE FailureP /\ To(p, "idle") /\ UNCHANGED <<data, bare>>
  <2>1. /\ step' \in [Threads -> PlaySteps]
        /\ \A q \in Threads : step'[q] \notin {"idle", "reap", "stuck"} => task'[q] \in Task
        /\ TaskInv'
    BY <1>0, <1>3, ToTypes DEF PlaySteps, InHand
  <2> QED BY <1>0, <1>3, <2>1, PlayAssumption DEF BaseInv, PlayTypeOK, LockInv, DropInv, memory, data, FailureP
<1> QED BY <1>1, <1>2, <1>3 DEF CreatePlaygroundDB

LEMMA BaseFill ==
  ASSUME NEW p \in Threads, BaseInv, Fill(p) PROVE BaseInv'
<1> DEFINE s == Mine(p)  how == task[p].how
           new == [task[p] EXCEPT !.part = task[p].part + 1]
<1> USE DEF Fill
<1>1. s \in Owners BY OneInHand DEF InHand, BaseInv
<1>2. task[p] \in Task /\ how \in {"sample", "clone"} /\ task[p].part \in 1..2
  BY DEF BaseInv, PlayTypeOK, TaskInv, Task
<1>3. new \in Task /\ new.of = task[p].of /\ new.how = how
  BY <1>2 DEF Task
<1>4. task' = [task EXCEPT ![p] = new] OBVIOUS
<1>5. <<how, task[p].part>> \in AllParts BY <1>2 DEF AllParts, Parts
<1> HIDE DEF new, how
<1>6. /\ \A q \in Threads : q # p => task'[q] = task[q]
      /\ task'[p] = new /\ task' \in [Threads -> Task \cup {Idle}]
  BY <1>3, <1>4 DEF BaseInv, TaskInv
<1>7. dbs' \in [Databases -> SUBSET AllParts] /\ s \in there
      /\ \A d \in Databases : d # s => dbs'[d] = dbs[d]
  BY <1>1, <1>5 DEF BaseInv, PlayTypeOK, CanFill, how
<1>8. PlayTypeOK'
  BY <1>3, <1>6, <1>7 DEF BaseInv, PlayTypeOK, memory, Rest
<1>9. TaskInv' BY <1>2, <1>3, <1>6 DEF BaseInv, TaskInv, how, memory
<1>10. DropInv' /\ LockInv' BY <1>7 DEF BaseInv, DropInv, LockInv, memory, Rest
<1> QED BY <1>8, <1>9, <1>10 DEF BaseInv

LEMMA BaseTo ==
  ASSUME NEW p \in Threads, BaseInv,
         \/ Filled(p) \/ FillFails(p) \/ DropCheck(p)
         \/ \E to \in {"persist", "idle"} : step[p] = "revoke" /\ To(p, to)
              /\ (UNCHANGED faultsP \/ FailureP) /\ UNCHANGED <<data, memory, Rest, spoiled>>
  PROVE  BaseInv'
<1> DEFINE Goes(to) == /\ To(p, to) /\ (UNCHANGED faultsP \/ FailureP)
                       /\ UNCHANGED <<data, memory, Rest>>
                       /\ step[p] \in {"fill", "check", "revoke"}
                       /\ to \in InHand => step[p] \in InHand
                       /\ to = "record" => step[p] = "fill"
                       /\ \/ spoiled' = spoiled
                          \/ step[p] = "fill" /\ spoiled' = spoiled \cup {Mine(p)}
<1>1. PICK next \in {"record", "rollback", "idle", "drop", "persist"} : Goes(next)
  <2>1. CASE Filled(p) BY <2>1 DEF Filled, InHand
  <2>2. CASE FillFails(p) BY <2>2 DEF FillFails, InHand
  <2>3. CASE DropCheck(p)
    <3>1. PICK to \in {"drop", "idle"} : To(p, to) BY <2>3 DEF DropCheck
    <3>2. Goes(to) BY <2>3, <3>1 DEF DropCheck, InHand
    <3> QED BY <3>2
  <2>4. CASE \E to \in {"persist", "idle"} : step[p] = "revoke" /\ To(p, to)
              /\ (UNCHANGED faultsP \/ FailureP) /\ UNCHANGED <<data, memory, Rest, spoiled>>
    <3>1. PICK to \in {"persist", "idle"} : step[p] = "revoke" /\ To(p, to) BY <2>4
    <3>2. Goes(to) BY <2>4, <3>1 DEF InHand
    <3> QED BY <3>2
  <2> QED BY <2>1, <2>2, <2>3, <2>4
<1>2. next = "record" => task[p].how \in {"sample", "clone"}
  BY <1>1 DEF BaseInv, TaskInv
<1>3. /\ step' \in [Threads -> PlaySteps]
      /\ \A q \in Threads : step'[q] \notin {"idle", "reap", "stuck"} => task'[q] \in Task
      /\ TaskInv'
  BY <1>1, <1>2, ToTypes DEF PlaySteps
<1>4. spoiled' \subseteq Owners BY <1>1, OneInHand DEF InHand, BaseInv, PlayTypeOK
<1>5. faultsP' \in 0..MaxDBFaults BY <1>1, PlayAssumption DEF BaseInv, PlayTypeOK, FailureP
<1> QED BY <1>1, <1>3, <1>4, <1>5 DEF BaseInv, PlayTypeOK, DropInv, LockInv, data, memory, Rest

LEMMA BaseDrops ==
  ASSUME NEW p \in Threads, BaseInv, Rollback(p) \/ Drop(p) PROVE BaseInv'
<1>1. Mine(p) \in Owners BY OneInHand DEF InHand, BaseInv, Rollback, Drop
<1>2. /\ there' \subseteq Databases /\ dbs' \in [Databases -> SUBSET AllParts]
      /\ spoiled' \subseteq Owners /\ faultsP' \in 0..MaxDBFaults /\ unrecorded' \subseteq Owners
      /\ DropInv'
  BY <1>1, DropTypes DEF Rollback, Drop
<1>3. /\ step' \in [Threads -> PlaySteps]
      /\ \A q \in Threads : step'[q] \notin {"idle", "reap", "stuck"} => task'[q] \in Task
      /\ TaskInv'
  <2>1. PICK next \in {"idle", "clear"} : To(p, next) /\ step[p] \in {"rollback", "drop"}
    BY DEF Rollback, Drop
  <2> QED BY <2>1, ToTypes DEF PlaySteps, InHand
<1> QED BY <1>2, <1>3 DEF BaseInv, PlayTypeOK, LockInv, memory, Rest, Rollback, Drop

LEMMA BaseSet ==
  ASSUME NEW p \in Threads, BaseInv, Record(p) \/ Clear(p) PROVE BaseInv'
<1>1. PICK recorded \in SUBSET Owners : SetPlaygroundDB(p, recorded)
  <2>1. task[p].of \subseteq Owners BY OneInHand DEF InHand, BaseInv, Record, Clear
  <2> QED BY <2>1 DEF Record, Clear, BaseInv, PlayTypeOK
<1>2. task[p].of \subseteq Owners /\ step[p] \in {"record", "clear"}
  BY OneInHand DEF InHand, BaseInv, Record, Clear
<1>3. /\ step' \in [Threads -> PlaySteps]
      /\ \A q \in Threads : step'[q] \notin {"idle", "reap", "stuck"} => task'[q] \in Task
      /\ TaskInv'
  BY <1>1, <1>2, ToTypes DEF PlaySteps, InHand, SetPlaygroundDB
<1>4. announced' \subseteq Owners /\ unrecorded' \subseteq Owners
  BY <1>1, <1>2 DEF SetPlaygroundDB, BaseInv, PlayTypeOK
<1>5. record' \subseteq Owners /\ mutex' = "held"
  BY <1>1 DEF SetPlaygroundDB, BaseInv, PlayTypeOK
<1> QED BY <1>1, <1>3, <1>4, <1>5 DEF BaseInv, PlayTypeOK, DropInv, LockInv, data, SetPlaygroundDB

LEMMA BaseTick ==
  ASSUME NEW p \in Threads, BaseInv, Tick(p) PROVE BaseInv'
<1> DEFINE none == [of |-> {}, how |-> "sample", part |-> 1]
<1>1. none \in Task BY DEF Task, Hows
<1>2. /\ \A q \in Threads : q # p => step'[q] = step[q] /\ task'[q] = task[q]
      /\ step'[p] = "reap" /\ task'[p] = none /\ p = Sweeper
      /\ task' \in [Threads -> Task \cup {Idle}] /\ step' \in [Threads -> PlaySteps]
  BY <1>1 DEF BaseInv, PlayTypeOK, TaskInv, Tick, PlaySteps
<1> HIDE DEF none
<1>3. PlayTypeOK' BY <1>2 DEF BaseInv, PlayTypeOK, Tick, data, memory, Rest
<1>4. TaskInv' BY <1>1, <1>2 DEF BaseInv, TaskInv, InHand
<1> QED BY <1>3, <1>4 DEF BaseInv, DropInv, LockInv, Tick, data, memory, Rest

LEMMA BaseMark ==
  ASSUME NEW p \in Threads, BaseInv, Mark(p) PROVE BaseInv'
<1> DEFINE gone == IF p = Sweeper THEN live \cap lapsed ELSE task[p].of
           new == [task[p] EXCEPT !.of = gone]
<1>1. /\ step[p] \in {"end", "reap"} /\ task[p] \in Task
      /\ gone \subseteq Owners
  BY DEF Mark, BaseInv, PlayTypeOK, TaskInv, Task
<1>2. new \in Task BY <1>1 DEF Task
<1>3. CASE mutex = "leaked" /\ mutex' = "held" /\ To(p, "stuck") /\ UNCHANGED <<live, spoiled>>
           /\ UNCHANGED <<data, record, Rest, faultsP>>
  <2>1. /\ task' = [task EXCEPT ![p] = Idle] /\ step' = [step EXCEPT ![p] = "stuck"]
    BY <1>3 DEF To
  <2>2. /\ \A q \in Threads : q # p => step'[q] = step[q] /\ task'[q] = task[q]
        /\ step'[p] = "stuck"
        /\ task' \in [Threads -> Task \cup {Idle}] /\ step' \in [Threads -> PlaySteps]
    BY <2>1 DEF BaseInv, PlayTypeOK, TaskInv, PlaySteps
  <2>3. PlayTypeOK' BY <1>3, <2>2 DEF BaseInv, PlayTypeOK, data, Rest
  <2>4. TaskInv' BY <2>2 DEF BaseInv, TaskInv, InHand
  <2> QED BY <1>3, <2>3, <2>4 DEF BaseInv, DropInv, LockInv, data, Rest
<1>4. CASE /\ live' = live \ gone
           /\ spoiled' = spoiled \cup {s \in gone : AtWork(s) \ {p} # {}}
           /\ step' = [step EXCEPT ![p] = IF gone = {} THEN "idle" ELSE "revoke"]
           /\ task' = [task EXCEPT ![p] = IF gone = {} THEN Idle ELSE new]
           /\ UNCHANGED mutex /\ UNCHANGED <<data, record, Rest, faultsP>>
  <2>1. live' \subseteq Owners /\ spoiled' \subseteq Owners
    BY <1>1, <1>4 DEF BaseInv, PlayTypeOK
  <2> HIDE DEF gone, new
  <2>2. /\ \A q \in Threads : q # p => step'[q] = step[q] /\ task'[q] = task[q]
        /\ step'[p] \in {"idle", "revoke"} /\ (step'[p] = "revoke" => task'[p] = new)
        /\ task' \in [Threads -> Task \cup {Idle}] /\ step' \in [Threads -> PlaySteps]
    BY <1>2, <1>4 DEF BaseInv, PlayTypeOK, TaskInv, PlaySteps
  <2>3. PlayTypeOK' BY <1>2, <1>4, <2>1, <2>2 DEF BaseInv, PlayTypeOK, data, Rest
  <2>4. TaskInv' BY <2>2 DEF BaseInv, TaskInv, InHand
  <2> QED BY <1>4, <2>3, <2>4 DEF BaseInv, DropInv, LockInv, data, Rest
<1> QED BY <1>3, <1>4 DEF Mark

LEMMA BaseRevoke ==
  ASSUME NEW p \in Threads, BaseInv, RevokePlayground(p) PROVE BaseInv'
<1>1. PICK s \in task[p].of : /\ DropIfRecorded(s)
                              /\ task' = [task EXCEPT ![p].of = task[p].of \ {s}]
  BY DEF RevokePlayground
<1> DEFINE new == [task[p] EXCEPT !.of = task[p].of \ {s}]
<1>2. step[p] = "revoke" /\ task[p] \in Task /\ s \in Owners
  BY <1>1 DEF RevokePlayground, BaseInv, PlayTypeOK, Task
<1>3. new \in Task BY <1>2 DEF Task
<1>4. /\ there' \subseteq Databases /\ dbs' \in [Databases -> SUBSET AllParts]
      /\ spoiled' \subseteq Owners /\ faultsP' \in 0..MaxDBFaults /\ unrecorded' \subseteq Owners
      /\ DropInv'
  BY <1>1, <1>2, DropIfRecordedTypes
<1>5. task' = [task EXCEPT ![p] = new] BY <1>1
<1> HIDE DEF new
<1>6. /\ \A q \in Threads : q # p => task'[q] = task[q]
      /\ task'[p] = new /\ task' \in [Threads -> Task \cup {Idle}] /\ step' = step
  BY <1>3, <1>5 DEF BaseInv, TaskInv, RevokePlayground
<1>7. PlayTypeOK'
  BY <1>3, <1>4, <1>6 DEF BaseInv, PlayTypeOK, memory, Rest, RevokePlayground
<1>8. TaskInv' BY <1>2, <1>3, <1>6 DEF BaseInv, TaskInv, InHand
<1> QED BY <1>4, <1>7, <1>8 DEF BaseInv, LockInv, memory, Rest, RevokePlayground

LEMMA BasePersist ==
  ASSUME NEW p \in Threads, BaseInv, PersistPlay(p) PROVE BaseInv'
<1>1. /\ step' \in [Threads -> PlaySteps]
      /\ \A q \in Threads : step'[q] \notin {"idle", "reap", "stuck"} => task'[q] \in Task
      /\ TaskInv'
  BY ToTypes DEF PlaySteps, InHand, PersistPlay
<1>2. record = {} BY DEF BaseInv, LockInv, PersistPlay
<1>3. saved' \in [live : SUBSET Owners, record : SUBSET Owners] /\ saved'.record = {}
  BY <1>2 DEF PersistPlay, BaseInv, PlayTypeOK, LockInv
<1>4. faultsP' \in 0..MaxDBFaults
  BY PlayAssumption DEF PersistPlay, BaseInv, PlayTypeOK, FailureP
<1> QED BY <1>1, <1>2, <1>3, <1>4 DEF BaseInv, PlayTypeOK, DropInv, LockInv, data, PersistPlay

LEMMA BaseOutside ==
  ASSUME BaseInv,
         \/ \E d \in Databases : DBCreate(d) \/ DBDrop(d)
         \/ \E s \in Owners : LapsePlay(s)
         \/ UNCHANGED pvars
  PROVE  BaseInv'
<1>1. ASSUME NEW d \in Databases, DBCreate(d) PROVE BaseInv'
  BY <1>1 DEF BaseInv, PlayTypeOK, TaskInv, DropInv, LockInv, DBCreate, memory, Rest
<1>2. ASSUME NEW d \in Databases, DBDrop(d) PROVE BaseInv'
  BY <1>2 DEF BaseInv, PlayTypeOK, TaskInv, DropInv, LockInv, DBDrop, memory, Rest
<1>3. ASSUME NEW s \in Owners, LapsePlay(s) PROVE BaseInv'
  BY <1>3 DEF BaseInv, PlayTypeOK, TaskInv, DropInv, LockInv, LapsePlay, data, memory
<1>4. CASE UNCHANGED pvars
  BY <1>4 DEF BaseInv, PlayTypeOK, TaskInv, DropInv, LockInv, pvars, data, memory
<1> QED BY <1>1, <1>2, <1>3, <1>4

LEMMA BaseRestart == ASSUME BaseInv, RestartPlay PROVE BaseInv'
<1> USE DEF BaseInv, RestartPlay
<1>1. PlayTypeOK' BY PlayAssumption DEF PlayTypeOK, PlaySteps, data
<1>2. TaskInv' BY DEF TaskInv, InHand
<1> QED BY <1>1, <1>2 DEF DropInv, LockInv, data, PlayTypeOK

LEMMA BaseStep == BaseInv /\ [PlayNext]_pvars => BaseInv'
<1> SUFFICES ASSUME BaseInv, [PlayNext]_pvars PROVE BaseInv' OBVIOUS
<1>1. ASSUME NEW p \in Threads, PlayStep(p) PROVE BaseInv'
  <2>1. CASE PlaygroundCreate(p) \/ PlaygroundDrop(p) \/ SessionEnd(p)
    <3>1. p \in Players BY <2>1 DEF PlaygroundCreate, PlaygroundDrop, SessionEnd, Threads
    <3>2. PICK next \in {"replace", "check", "end"}, how \in Hows : LookUp(p, next, how)
      BY <2>1 DEF PlaygroundCreate, PlaygroundDrop, SessionEnd, Hows
    <3> QED BY <3>1, <3>2, BaseLookUp
  <2>2. CASE Revoked(p) BY <2>2, BaseTo DEF Revoked
  <2> QED BY <1>1, <2>1, <2>2, BaseReplace, BaseCreate, BaseFill, BaseTo, BaseDrops, BaseSet,
             BaseTick, BaseMark, BaseRevoke, BasePersist DEF PlayStep
<1> QED BY <1>1, BaseOutside, BaseRestart DEF PlayNext

(* Types: PlayTypeOK holds of every server, whatever fails.                 *)
THEOREM PlayTypes == PlaySpec => []PlayTypeOK
<1>1. BaseInv => PlayTypeOK BY DEF BaseInv
<1> QED BY <1>1, BaseInit, BaseStep, PTL DEF PlaySpec

-----------------------------------------------------------------------------
(* What a step of goroutine p leaves alone of the others, and of a session. *)
Moves(p) == \A q \in Threads : q # p => step'[q] = step[q] /\ task'[q] = task[q]
Keeps(s) == /\ s \in there' <=> s \in there
            /\ dbs'[s] = dbs[s]
            /\ s \in live' <=> s \in live
            /\ s \in record' <=> s \in record
            /\ s \in unrecorded' <=> s \in unrecorded
            /\ s \in bare' <=> s \in bare
            /\ s \in spoiled => s \in spoiled'

(* A session p has nothing to do with, before and after its step.           *)
LEMMA Elsewhere ==
  ASSUME NEW s \in Owners, NEW p \in Threads, SessionInv(s), Moves(p), Keeps(s),
         ~Works(p, s), ~Works(p, s)'
  PROVE  SessionInv(s)'
<1>1. \A q \in Threads : Works(q, s)' <=> Works(q, s) BY DEF Moves, Works
<1>2. \A q \in Threads : Works(q, s) => step'[q] = step[q] /\ task'[q] = task[q]
  BY DEF Moves
<1>3. AtRest(s)' <=> AtRest(s) BY <1>1 DEF AtRest
<1>4. \A q \in Threads : Works(q, s) /\ StageOK(q, s) => StageOK(q, s)'
  BY <1>2 DEF StageOK, Keeps
<1>5. Complete(s)' <=> Complete(s) BY DEF Complete, Keeps
<1> QED BY <1>1, <1>3, <1>4, <1>5 DEF SessionInv, Keeps

(* The session p works on: nobody else is, so that p's step decides.        *)
LEMMA AtHand ==
  ASSUME NEW s \in Owners, NEW p \in Threads, SessionInv(s), Works(p, s), s \notin spoiled
  PROVE  StageOK(p, s) /\ s \notin record /\ \A q \in Threads : q # p => ~Works(q, s)
BY DEF SessionInv, AtRest

LEMMA Own ==
  ASSUME NEW s \in Owners, NEW p \in Threads, SessionInv(s), Moves(p), Works(p, s),
         s \notin spoiled,
         Works(p, s)' => StageOK(p, s)' /\ s \notin record',
         ~Works(p, s)' => /\ s \in there' => (s \in record' /\ s \in live') \/ s \in unrecorded'
                          /\ s \in record' => s \in live' /\ Complete(s)'
  PROVE  SessionInv(s)'
<1>1. \A q \in Threads : q # p => ~Works(q, s)' BY AtHand DEF Moves, Works
<1>2. AtRest(s)' <=> ~Works(p, s)' BY <1>1 DEF AtRest
<1> QED BY <1>1, <1>2 DEF SessionInv

(* A session that nobody works on and p takes up, with none on record.      *)
LEMMA TakenUp ==
  ASSUME NEW s \in Owners, NEW p \in Threads, Moves(p), AtRest(s), s \notin record',
         Works(p, s)', StageOK(p, s)'
  PROVE  SessionInv(s)'
<1>1. \A q \in Threads : q # p => ~Works(q, s)' BY DEF Moves, Works, AtRest
<1>2. ~AtRest(s)' BY DEF AtRest
<1> QED BY <1>1, <1>2 DEF SessionInv

LEMMA Moving ==
  ASSUME BaseInv, NEW p \in Threads, NEW next \in PlaySteps, To(p, next)
  PROVE  Moves(p) /\ step'[p] = next
         /\ (next \notin {"idle", "stuck"} => task'[p] = task[p])
BY DEF Moves, To, BaseInv, PlayTypeOK, TaskInv

LEMMA DropKeeps ==
  ASSUME BaseInv, NEW m \in Owners, DropPlaygroundDB(m)
  PROVE  /\ \A s \in Owners : s # m => /\ (s \in there' <=> s \in there) /\ dbs'[s] = dbs[s]
                                       /\ s \in unrecorded' <=> s \in unrecorded
         /\ spoiled \subseteq spoiled'
         /\ m \notin there' \/ m \in spoiled'
<1>1. CASE there' = there \ {m} /\ dbs' = [dbs EXCEPT ![m] = {}]
           /\ unrecorded' = unrecorded \ {m} /\ UNCHANGED <<spoiled, faultsP>>
  BY <1>1 DEF BaseInv, PlayTypeOK, Databases
<1>2. CASE FailureP /\ spoiled' = spoiled \cup {m} /\ UNCHANGED data
  BY <1>2 DEF data
<1> QED BY <1>1, <1>2 DEF DropPlaygroundDB

LEMMA SessionInit == PlayInit => \A s \in Owners : SessionInv(s)
BY PlayAssumption DEF PlayInit, SessionInv, Works, AtRest

LEMMA SessionLookUp ==
  ASSUME NEW p \in Players, BaseInv, NEW next \in {"replace", "check", "end"},
         NEW how \in Hows, LookUp(p, next, how), NEW s \in Owners, SessionInv(s)
  PROVE  SessionInv(s)'
<1>1. PICK m \in live \ lapsed :
        /\ task' = [task EXCEPT ![p] = [of |-> {m}, how |-> how, part |-> 1]]
        /\ spoiled' = spoiled \cup {t \in {m} : AtWork(t) # {}}
  BY DEF LookUp
<1>2. p \in Threads /\ ~Works(p, s) BY DEF Threads, LookUp, Works
<1>3. Moves(p) /\ step'[p] = next /\ task'[p] = [of |-> {m}, how |-> how, part |-> 1]
  BY <1>1, <1>2 DEF LookUp, Moves, BaseInv, PlayTypeOK, TaskInv
<1>4. Works(p, s)' <=> s = m BY <1>3 DEF Works
<1>5. UNCHANGED <<there, dbs, unrecorded, live, record, mutex, bare>> /\ mutex # "held"
  BY DEF LookUp, data, memory, CanLookUp, Rest
<1>6. CASE s # m
  <2>1. Keeps(s) BY <1>1, <1>5, <1>6 DEF Keeps
  <2> QED BY <1>2, <1>3, <1>4, <1>6, <2>1, Elsewhere
<1>7. CASE s = m /\ s \notin spoiled'
  <2>1. AtRest(s) /\ s \notin spoiled
    BY <1>1, <1>7 DEF AtWork, AtRest, Works
  <2>2. s \notin record /\ (s \in there => s \in unrecorded)
    BY <1>5, <2>1 DEF BaseInv, LockInv, SessionInv
  <2>3. StageOK(p, s)' BY <1>1, <1>3, <1>5, <1>7, <2>2 DEF StageOK
  <2> QED BY <1>2, <1>3, <1>4, <1>5, <1>7, <2>1, <2>2, <2>3, TakenUp
<1>8. CASE s \in spoiled' BY <1>8 DEF SessionInv
<1> QED BY <1>6, <1>7, <1>8

(* Creating, filling and rolling back.                                      *)
LEMMA SessionReplace ==
  ASSUME NEW p \in Threads, BaseInv, Replace(p), NEW s \in Owners, SessionInv(s)
  PROVE  SessionInv(s)'
<1> DEFINE m == Mine(p)
<1>1. m \in Owners /\ \A t : Works(p, t) <=> t = m BY OneInHand DEF Replace, BaseInv, InHand
<1>2. Moves(p) /\ step'[p] = "create" /\ task'[p] = task[p]
  BY Moving DEF Replace, PlaySteps
<1> HIDE DEF m
<1>3. \A t : Works(p, t)' <=> t = m BY <1>1, <1>2 DEF Works, Replace
<1>4. UNCHANGED <<memory, bare>> /\ DropIfRecorded(m) BY DEF Replace, Rest, m
<1>5. CASE s # m
  <2>1. Keeps(s) BY <1>1, <1>4, <1>5, DropKeeps DEF Keeps, memory, DropIfRecorded, data
  <2> QED BY <1>1, <1>2, <1>3, <1>5, <2>1, Elsewhere
<1>6. CASE s = m /\ s \notin spoiled'
  <2>1. s \notin spoiled
    BY <1>1, <1>4, <1>6, DropKeeps DEF DropIfRecorded
  <2>2. StageOK(p, s) /\ s \notin record BY <1>1, <1>6, <2>1, AtHand
  <2>3. UNCHANGED data BY <1>4, <1>6, <2>2 DEF DropIfRecorded
  <2>4. StageOK(p, s)' /\ s \notin record'
    BY <1>2, <1>4, <2>2, <2>3 DEF StageOK, data, memory, Replace, InHand
  <2> QED BY <1>1, <1>2, <1>3, <1>6, <2>1, <2>4, Own
<1>7. CASE s \in spoiled' BY <1>7 DEF SessionInv
<1> QED BY <1>5, <1>6, <1>7

LEMMA SessionCreate ==
  ASSUME NEW p \in Threads, BaseInv, CreatePlaygroundDB(p), NEW s \in Owners, SessionInv(s)
  PROVE  SessionInv(s)'
<1> DEFINE m == Mine(p)  nothing == task[p].how = "clone" /\ dbs[Source] = {}
<1>1. m \in Owners /\ step[p] = "create" /\ \A t : Works(p, t) <=> t = m
  BY OneInHand DEF CreatePlaygroundDB, BaseInv, InHand
<1>2. task[p] \in Task BY <1>1 DEF BaseInv, PlayTypeOK
<1>3. UNCHANGED <<memory, spoiled>> BY DEF CreatePlaygroundDB
<1>4. CASE s \in spoiled BY <1>3, <1>4 DEF SessionInv
<1>5. CASE /\ there' = there \cup {m} /\ unrecorded' = unrecorded \cup {m}
           /\ To(p, "idle") /\ UNCHANGED <<dbs, bare, faultsP>> /\ s \notin spoiled
  <2>1. Moves(p) /\ \A t : ~Works(p, t)' BY <1>5, Moving DEF PlaySteps, Works
  <2>2. CASE s # m
    <3>1. Keeps(s) BY <1>3, <1>5, <2>2 DEF Keeps, memory
    <3> QED BY <1>1, <2>1, <2>2, <3>1, Elsewhere
  <2>3. CASE s = m
    <3>1. s \notin record' /\ s \in unrecorded'
      BY <1>1, <1>3, <1>5, <2>3, AtHand DEF memory
    <3> QED BY <1>1, <1>5, <2>1, <2>3, <3>1, Own
  <2> QED BY <2>2, <2>3
<1>6. CASE /\ there' = there \cup {m} /\ UNCHANGED <<dbs, unrecorded, faultsP>>
           /\ step' = [step EXCEPT ![p] = "fill"]
           /\ task' = [task EXCEPT ![p].part = IF nothing THEN 3 ELSE 1]
           /\ bare' = (IF nothing THEN bare \cup {m} ELSE bare \ {m}) /\ s \notin spoiled
  <2> HIDE DEF m, nothing
  <2>1. /\ Moves(p) /\ step'[p] = "fill" /\ task'[p].of = task[p].of
        /\ task'[p].part = IF nothing THEN 3 ELSE 1
    BY <1>2, <1>6 DEF BaseInv, PlayTypeOK, TaskInv, Moves, Task
  <2>2. \A t : Works(p, t)' <=> t = m BY <1>1, <2>1 DEF Works
  <2>3. CASE s # m
    <3>1. Keeps(s) BY <1>3, <1>6, <2>3 DEF Keeps, memory
    <3> QED BY <1>1, <2>1, <2>2, <2>3, <3>1, Elsewhere
  <2>4. CASE s = m
    <3>1. StageOK(p, s) /\ s \notin record BY <1>1, <1>6, <2>4, AtHand
    <3>2. s \in there' /\ (s \notin bare' => task'[p].part = 1)
      BY <1>6, <2>1, <2>4
    <3>3. s \notin bare' => \A n \in 1..2 : ~(n < task'[p].part) BY <3>2
    <3>4. StageOK(p, s)' /\ s \notin record'
      BY <1>1, <1>3, <2>1, <3>1, <3>2, <3>3 DEF StageOK, memory, InHand
    <3> QED BY <1>1, <1>6, <2>1, <2>2, <2>4, <3>4, Own
  <2> QED BY <2>3, <2>4
<1>7. CASE FailureP /\ To(p, "idle") /\ UNCHANGED <<data, bare>> /\ s \notin spoiled
  <2>1. Moves(p) /\ \A t : ~Works(p, t)' BY <1>7, Moving DEF PlaySteps, Works
  <2>2. CASE s # m
    <3>1. Keeps(s) BY <1>3, <1>7, <2>2 DEF Keeps, memory, data
    <3> QED BY <1>1, <2>1, <2>2, <3>1, Elsewhere
  <2>3. CASE s = m
    <3>1. StageOK(p, s) /\ s \notin record BY <1>1, <1>7, <2>3, AtHand
    <3>2. s \notin record' /\ (s \in there' => s \in unrecorded')
      BY <1>1, <1>3, <1>7, <3>1 DEF StageOK, memory, data
    <3> QED BY <1>1, <1>7, <2>1, <2>3, <3>2, Own
  <2> QED BY <2>2, <2>3
<1> QED BY <1>4, <1>5, <1>6, <1>7 DEF CreatePlaygroundDB

LEMMA SessionFill ==
  ASSUME NEW p \in Threads, BaseInv, Fill(p), NEW s \in Owners, SessionInv(s)
  PROVE  SessionInv(s)'
<1> DEFINE m == Mine(p)  part == task[p].part
<1>1. m \in Owners /\ step[p] = "fill" /\ \A t : Works(p, t) <=> t = m
  BY OneInHand DEF Fill, BaseInv, InHand
<1>2. task[p] \in Task /\ part \in 1..2
  BY <1>1 DEF BaseInv, PlayTypeOK, Fill, Task
<1>3. Moves(p) /\ step' = step /\ task'[p] = [task[p] EXCEPT !.part = part + 1]
  BY DEF Fill, BaseInv, TaskInv, Moves
<1>4. task'[p].of = task[p].of /\ task'[p].how = task[p].how /\ task'[p].part = part + 1
  BY <1>2, <1>3 DEF Task
<1>5. UNCHANGED <<memory, there, unrecorded, bare, spoiled>>
      /\ dbs' = [dbs EXCEPT ![m] = dbs[m] \cup {<<task[p].how, part>>}]
  BY DEF Fill, Rest, m
<1> HIDE DEF m, part
<1>6. \A t : Works(p, t)' <=> t = m BY <1>1, <1>3, <1>4 DEF Works
<1>7. CASE s # m
  <2>1. Keeps(s) BY <1>1, <1>5, <1>7 DEF Keeps, memory, BaseInv, PlayTypeOK, Databases
  <2> QED BY <1>1, <1>3, <1>6, <1>7, <2>1, Elsewhere
<1>8. CASE s = m /\ s \notin spoiled
  <2>1. StageOK(p, s) /\ s \notin record BY <1>1, <1>8, AtHand
  <2>2. s \notin bare => \A n \in 1..2 : n < part + 1 => <<task[p].how, n>> \in dbs'[s]
    <3>1. s \notin bare => \A n \in 1..2 : n < part => <<task[p].how, n>> \in dbs[s]
      BY <1>1, <2>1 DEF StageOK, part
    <3>2. dbs'[s] = dbs[s] \cup {<<task[p].how, part>>}
      BY <1>1, <1>5, <1>8 DEF BaseInv, PlayTypeOK, Databases
    <3> QED BY <1>2, <3>1, <3>2
  <2>3. StageOK(p, s)' /\ s \notin record'
    BY <1>1, <1>3, <1>4, <1>5, <2>1, <2>2 DEF StageOK, memory, InHand
  <2> QED BY <1>1, <1>3, <1>6, <1>8, <2>3, Own
<1>9. CASE s \in spoiled BY <1>5, <1>9 DEF SessionInv
<1> QED BY <1>7, <1>8, <1>9

LEMMA SessionFilled ==
  ASSUME NEW p \in Threads, BaseInv, Filled(p) \/ FillFails(p) \/ DropCheck(p),
         NEW s \in Owners, SessionInv(s)
  PROVE  SessionInv(s)'
<1> DEFINE m == Mine(p)
<1>1. m \in Owners /\ step[p] \in {"fill", "check"} /\ \A t : Works(p, t) <=> t = m
  BY OneInHand DEF Filled, FillFails, DropCheck, BaseInv, InHand
<1>2. PICK next \in {"record", "rollback", "idle", "drop"} :
        /\ To(p, next)
        /\ next = "record" => step[p] = "fill" /\ task[p].part = 3
        /\ next = "rollback" => step[p] = "fill"
        /\ next = "drop" => m \in record
        /\ next = "idle" => step[p] = "check" \/ m \in spoiled'
  <2>1. CASE Filled(p) BY <2>1 DEF Filled
  <2>2. CASE FillFails(p) BY <2>2 DEF FillFails
  <2>3. CASE DropCheck(p) BY <2>3 DEF DropCheck
  <2> QED BY <2>1, <2>2, <2>3
<1>3. UNCHANGED <<data, memory, bare>> /\ spoiled \subseteq spoiled'
  BY DEF Filled, FillFails, DropCheck, Rest
<1>4. Moves(p) /\ step'[p] = next /\ (next # "idle" => task'[p] = task[p])
  BY <1>2, Moving DEF PlaySteps
<1> HIDE DEF m
<1>5. \A t : Works(p, t)' => t = m BY <1>1, <1>4 DEF Works
<1>6. CASE s # m
  <2>1. Keeps(s) BY <1>3, <1>6 DEF Keeps, data, memory
  <2> QED BY <1>1, <1>4, <1>5, <1>6, <2>1, Elsewhere
<1>7. CASE s = m /\ s \notin spoiled'
  <2>1. StageOK(p, s) /\ s \notin record /\ s \notin spoiled
    BY <1>1, <1>3, <1>7, AtHand
  <2>2. CASE next = "idle"
    <3>1. s \in there => s \in unrecorded BY <1>2, <1>7, <2>1, <2>2 DEF StageOK
    <3>2. ~Works(p, s)' /\ s \notin record' /\ (s \in there' => s \in unrecorded')
      BY <1>3, <1>4, <2>1, <2>2, <3>1 DEF Works, data, memory
    <3> QED BY <1>1, <1>4, <1>7, <2>1, <3>2, Own
  <2>3. CASE next # "idle"
    <3>1. next \in {"record", "rollback"} BY <1>2, <1>7, <2>1, <2>3
    <3>2. StageOK(p, s)' /\ s \notin record'
      BY <1>2, <1>3, <1>4, <2>1, <3>1 DEF StageOK, data, memory, InHand
    <3>3. Works(p, s)' BY <1>1, <1>4, <1>7, <3>1 DEF Works
    <3> QED BY <1>1, <1>4, <1>7, <2>1, <3>2, <3>3, Own
  <2> QED BY <2>2, <2>3
<1>8. CASE s \in spoiled' BY <1>8 DEF SessionInv
<1> QED BY <1>6, <1>7, <1>8

LEMMA SessionRollback ==
  ASSUME NEW p \in Threads, BaseInv, Rollback(p) \/ Drop(p), NEW s \in Owners, SessionInv(s)
  PROVE  SessionInv(s)'
<1> DEFINE m == Mine(p)
<1>1. m \in Owners /\ step[p] \in {"rollback", "drop"} /\ \A t : Works(p, t) <=> t = m
  BY OneInHand DEF Rollback, Drop, BaseInv, InHand
<1>2. /\ DropPlaygroundDB(m) /\ UNCHANGED <<memory, bare>>
      /\ To(p, IF step[p] = "rollback" THEN "idle" ELSE "clear")
  BY DEF Rollback, Drop, Rest
<1>3. Moves(p) /\ step'[p] = (IF step[p] = "rollback" THEN "idle" ELSE "clear")
      /\ (step[p] = "drop" => task'[p] = task[p])
  BY <1>1, <1>2, Moving DEF PlaySteps
<1> HIDE DEF m
<1>4. \A t : Works(p, t)' => t = m BY <1>1, <1>3 DEF Works
<1>5. /\ \A t \in Owners : t # m => /\ (t \in there' <=> t \in there) /\ dbs'[t] = dbs[t]
                                     /\ t \in unrecorded' <=> t \in unrecorded
      /\ spoiled \subseteq spoiled'
  BY <1>1, <1>2, DropKeeps
<1>6. CASE s # m
  <2>1. Keeps(s) BY <1>2, <1>5, <1>6, DropKeeps, <1>1 DEF Keeps, memory
  <2> QED BY <1>1, <1>3, <1>4, <1>6, <2>1, Elsewhere
<1>7. CASE s = m /\ s \notin spoiled'
  <2>1. s \notin spoiled BY <1>1, <1>2, <1>7, DropKeeps
  <2>2. StageOK(p, s) /\ s \notin record BY <1>1, <1>7, <2>1, AtHand
  <2>3. step'[p] = "idle" BY <1>1, <1>3, <2>2 DEF StageOK
  <2>4. s \notin there' BY <1>1, <1>2, <1>7, DropKeeps
  <2>5. ~Works(p, s)' /\ s \notin record' BY <1>2, <2>2, <2>3 DEF Works, memory
  <2> QED BY <1>1, <1>3, <1>7, <2>1, <2>4, <2>5, Own
<1>8. CASE s \in spoiled' BY <1>8 DEF SessionInv
<1> QED BY <1>6, <1>7, <1>8

(* The record: the goroutine has done all it had to, and is alone with the  *)
(* session, so that a complete playground is announced.                     *)
LEMMA SessionRecord ==
  ASSUME NEW p \in Threads, BaseInv, Record(p) \/ Clear(p), NEW s \in Owners, SessionInv(s)
  PROVE  SessionInv(s)'
<1> DEFINE m == Mine(p)
<1>1. /\ m \in Owners /\ task[p].of = {m} /\ step[p] \in {"record", "clear"}
      /\ \A t : Works(p, t) <=> t = m
  BY OneInHand DEF Record, Clear, BaseInv, InHand
<1>2. /\ UNCHANGED <<there, dbs, live, bare, spoiled>> /\ To(p, "stuck")
      /\ record' = record \/ record' = record \cup {m} \/ record' = record \ {m}
      /\ mutex = "free" /\ step[p] = "record" => record' = record \cup {m}
      /\ mutex # "free" => record' = record
      /\ mutex # "free" /\ step[p] = "record" => m \in unrecorded'
      /\ unrecorded' \in {unrecorded, unrecorded \ {m}, unrecorded \cup {m}}
  BY <1>1 DEF Record, Clear, SetPlaygroundDB
<1>3. Moves(p) /\ step'[p] = "stuck" BY <1>2, Moving DEF PlaySteps
<1> HIDE DEF m
<1>4. \A t : ~Works(p, t)' BY <1>3 DEF Works
<1>5. CASE s # m
  <2>1. Keeps(s) BY <1>2, <1>5 DEF Keeps
  <2> QED BY <1>1, <1>3, <1>4, <1>5, <2>1, Elsewhere
<1>6. CASE s = m /\ s \notin spoiled'
  <2>1. s \notin spoiled BY <1>2, <1>6
  <2>2. StageOK(p, s) /\ s \notin record BY <1>1, <1>6, <2>1, AtHand
  <2>3. step[p] = "record" BY <1>1, <2>2 DEF StageOK
  <2>4. s \in live' /\ s \in there' BY <1>2, <2>2, <2>3 DEF StageOK, InHand
  <2>5. Complete(s)'
    <3>1. task[p].how \in {"sample", "clone"} BY <2>3 DEF BaseInv, TaskInv
    <3>2. s \notin bare' => \A n \in 1..2 : <<task[p].how, n>> \in dbs'[s]
      BY <1>2, <2>2, <2>3 DEF StageOK
    <3>3. s \notin bare' => Parts(task[p].how) \subseteq dbs'[s] BY <3>2 DEF Parts
    <3> QED BY <2>4, <3>1, <3>3 DEF Complete
  <2>6. s \in record' \/ (s \in unrecorded' /\ s \notin record')
    BY <1>2, <1>6, <2>2, <2>3
  <2> QED BY <1>1, <1>3, <1>4, <1>6, <2>1, <2>4, <2>5, <2>6, Own
<1>7. CASE s \in spoiled' BY <1>7 DEF SessionInv
<1> QED BY <1>5, <1>6, <1>7

(* The end of sessions.                                                     *)
LEMMA SessionTick ==
  ASSUME NEW p \in Threads, BaseInv, Tick(p), NEW s \in Owners, SessionInv(s)
  PROVE  SessionInv(s)'
<1>1. Moves(p) /\ step'[p] = "reap" /\ step[p] = "idle"
  BY DEF Tick, Moves, BaseInv, PlayTypeOK, TaskInv
<1>2. ~Works(p, s) /\ ~Works(p, s)' BY <1>1 DEF Works
<1>3. Keeps(s) BY DEF Tick, Keeps, data, memory, Rest
<1> QED BY <1>1, <1>2, <1>3, Elsewhere

LEMMA SessionMark ==
  ASSUME NEW p \in Threads, BaseInv, Mark(p), NEW s \in Owners, SessionInv(s)
  PROVE  SessionInv(s)'
<1> DEFINE gone == IF p = Sweeper THEN live \cap lapsed ELSE task[p].of
           new == [task[p] EXCEPT !.of = gone]
<1>1. /\ step[p] \in {"end", "reap"} /\ task[p] \in Task /\ mutex # "held"
      /\ UNCHANGED <<data, record, bare>>
      /\ step[p] = "reap" => p = Sweeper /\ ~Works(p, s)
  BY DEF Mark, BaseInv, PlayTypeOK, TaskInv, Works, Rest
<1>2. step[p] = "end" => p # Sweeper /\ gone = {Mine(p)} /\ \A t : Works(p, t) <=> t = Mine(p)
  BY OneInHand DEF InHand, BaseInv
<1>3. Works(p, s) => s \in gone BY <1>1, <1>2
<1>4. s \notin record BY <1>1 DEF BaseInv, LockInv
<1>5. s \notin spoiled /\ (Works(p, s) \/ AtRest(s)) => (s \in there => s \in unrecorded)
  <2>1. Works(p, s) => step[p] = "end" BY <1>1
  <2>2. s \notin spoiled /\ Works(p, s) => (s \in there => s \in unrecorded)
    BY <2>1, AtHand DEF StageOK
  <2>3. s \notin spoiled /\ AtRest(s) => (s \in there => s \in unrecorded)
    BY <1>4 DEF SessionInv
  <2> QED BY <2>2, <2>3
<1>6. CASE mutex = "leaked" /\ mutex' = "held" /\ To(p, "stuck") /\ UNCHANGED <<live, spoiled>>
  <2>1. Moves(p) /\ ~Works(p, s)' BY <1>6, Moving DEF PlaySteps, Works
  <2>2. CASE Works(p, s) /\ s \notin spoiled
    BY <1>1, <1>4, <1>5, <2>1, <2>2, Own DEF data
  <2>3. CASE ~Works(p, s)
    <3>1. Keeps(s) BY <1>1, <1>6 DEF Keeps, data
    <3> QED BY <2>1, <2>3, <3>1, Elsewhere
  <2>4. CASE s \in spoiled BY <1>6, <2>4 DEF SessionInv
  <2> QED BY <2>2, <2>3, <2>4
<1>7. CASE /\ live' = live \ gone
           /\ spoiled' = spoiled \cup {t \in gone : AtWork(t) \ {p} # {}}
           /\ step' = [step EXCEPT ![p] = IF gone = {} THEN "idle" ELSE "revoke"]
           /\ task' = [task EXCEPT ![p] = IF gone = {} THEN Idle ELSE new]
  <2>1. Moves(p) /\ step'[p] = (IF gone = {} THEN "idle" ELSE "revoke")
        /\ (gone # {} => task'[p] = new)
    BY <1>7 DEF Moves, BaseInv, PlayTypeOK, TaskInv
  <2>2. new.of = gone BY <1>1 DEF Task
  <2> HIDE DEF new
  <2>3. Works(p, s)' <=> s \in gone BY <2>1, <2>2 DEF Works
  <2>4. CASE s \notin gone
    <3>1. Keeps(s) BY <1>1, <1>7, <2>4 DEF Keeps, data
    <3> QED BY <1>3, <2>1, <2>3, <2>4, <3>1, Elsewhere
  <2>5. CASE s \in gone /\ s \notin spoiled'
    <3>1. s \notin spoiled /\ \A q \in Threads : q # p => ~Works(q, s)
      BY <1>7, <2>5 DEF AtWork, Works
    <3>2. s \in there => s \in unrecorded BY <1>5, <3>1 DEF AtRest
    <3>3. step'[p] = "revoke" BY <2>1, <2>5
    <3>4. StageOK(p, s)' /\ s \notin record'
      BY <1>1, <1>4, <3>2, <3>3 DEF StageOK, InHand, data
    <3>5. CASE Works(p, s) BY <2>1, <2>3, <2>5, <3>1, <3>4, <3>5, Own
    <3>6. CASE ~Works(p, s)
      <4>1. AtRest(s) BY <3>1, <3>6 DEF AtRest
      <4> QED BY <2>1, <2>3, <2>5, <3>4, <4>1, TakenUp
    <3> QED BY <3>5, <3>6
  <2>6. CASE s \in spoiled' BY <2>6 DEF SessionInv
  <2> QED BY <2>4, <2>5, <2>6
<1> QED BY <1>6, <1>7 DEF Mark

LEMMA SessionRevoke ==
  ASSUME NEW p \in Threads, BaseInv, RevokePlayground(p), NEW s \in Owners, SessionInv(s)
  PROVE  SessionInv(s)'
<1>1. PICK m \in task[p].of : /\ DropIfRecorded(m)
                              /\ task' = [task EXCEPT ![p].of = task[p].of \ {m}]
  BY DEF RevokePlayground
<1>2. step[p] = "revoke" /\ task[p] \in Task /\ m \in Owners /\ UNCHANGED <<memory, step, bare>>
  BY <1>1 DEF RevokePlayground, BaseInv, PlayTypeOK, Task, Rest
<1>3. Moves(p) /\ task'[p].of = task[p].of \ {m}
  BY <1>1, <1>2 DEF Moves, BaseInv, TaskInv, Task
<1>4. (Works(p, s) <=> s \in task[p].of) /\ (Works(p, s)' <=> s \in task[p].of /\ s # m)
  BY <1>2, <1>3 DEF Works
<1>5. /\ s # m => /\ (s \in there' <=> s \in there) /\ dbs'[s] = dbs[s]
                  /\ s \in unrecorded' <=> s \in unrecorded
      /\ m \notin record => UNCHANGED data
      /\ spoiled \subseteq spoiled'
  BY <1>1, <1>2, DropKeeps DEF DropIfRecorded, data
<1>6. CASE ~Works(p, s)
  <2>1. s # m BY <1>4, <1>6
  <2>2. Keeps(s) BY <1>2, <1>5, <2>1 DEF Keeps, memory
  <2> QED BY <1>3, <1>4, <1>6, <2>2, Elsewhere
<1>7. CASE Works(p, s) /\ s \notin spoiled'
  <2>1. StageOK(p, s) /\ s \notin record /\ s \notin spoiled BY <1>5, <1>7, AtHand
  <2>2. s \in there => s \in unrecorded BY <1>2, <2>1 DEF StageOK
  <2>0. s = m => UNCHANGED data BY <1>5, <2>1
  <2>3. (s \in there' => s \in unrecorded') /\ s \notin record'
    BY <1>2, <1>5, <2>0, <2>1, <2>2 DEF data, memory
  <2>4. StageOK(p, s)' BY <1>2, <2>3 DEF StageOK, InHand
  <2> QED BY <1>3, <1>7, <2>1, <2>3, <2>4, Own
<1>8. CASE s \in spoiled' BY <1>8 DEF SessionInv
<1> QED BY <1>6, <1>7, <1>8

LEMMA SessionSaved ==
  ASSUME NEW p \in Threads, BaseInv, Revoked(p) \/ PersistPlay(p),
         NEW s \in Owners, SessionInv(s)
  PROVE  SessionInv(s)'
<1>1. PICK next \in {"persist", "idle"} : To(p, next) BY DEF Revoked, PersistPlay
<1>2. /\ step[p] \in {"revoke", "persist"} /\ UNCHANGED <<data, live, record, spoiled, bare>>
      /\ step[p] = "revoke" => task[p].of = {}
  BY DEF Revoked, PersistPlay, memory, Rest
<1>3. Moves(p) /\ step'[p] = next /\ (next = "persist" => task'[p] = task[p])
  BY <1>1, Moving DEF PlaySteps
<1>4. Works(p, s) <=> s \in task[p].of BY <1>2 DEF Works
<1>5. Works(p, s)' => Works(p, s) BY <1>3, <1>4 DEF Works
<1>6. CASE ~Works(p, s)
  <2>1. Keeps(s) BY <1>2 DEF Keeps, data
  <2> QED BY <1>3, <1>5, <1>6, <2>1, Elsewhere
<1>7. CASE Works(p, s) /\ s \notin spoiled
  <2>1. StageOK(p, s) /\ s \notin record BY <1>7, AtHand
  <2>2. (s \in there' => s \in unrecorded') /\ s \notin record'
    BY <1>2, <2>1 DEF StageOK, data
  <2>3. Works(p, s)' => StageOK(p, s)' BY <1>3, <2>2 DEF StageOK, InHand, Works
  <2> QED BY <1>3, <1>7, <2>2, <2>3, Own
<1>8. CASE s \in spoiled BY <1>2, <1>8 DEF SessionInv
<1> QED BY <1>6, <1>7, <1>8

(* The pages of databases spoil what they touch; a restart spoils what was  *)
(* being worked on or on record, and finds the rest without a playground.   *)
LEMMA SessionOutside ==
  ASSUME BaseInv, NEW s \in Owners, SessionInv(s),
         \/ \E d \in Databases : DBCreate(d) \/ DBDrop(d)
         \/ \E t \in Owners : LapsePlay(t)
         \/ UNCHANGED pvars
  PROVE  SessionInv(s)'
<1>1. /\ UNCHANGED <<step, task, live, record, unrecorded, bare>>
      /\ spoiled \subseteq spoiled'
      /\ s \notin spoiled' => (s \in there' <=> s \in there) /\ dbs'[s] = dbs[s]
  <2>1. ASSUME NEW d \in Databases, DBCreate(d) \/ DBDrop(d)
        PROVE  /\ UNCHANGED <<step, task, live, record, unrecorded, bare>>
               /\ spoiled \subseteq spoiled'
               /\ s \notin spoiled' => (s \in there' <=> s \in there) /\ dbs'[s] = dbs[s]
    BY <2>1 DEF DBCreate, DBDrop, memory, Rest, BaseInv, PlayTypeOK, Databases
  <2>2. CASE (\E t \in Owners : LapsePlay(t)) \/ UNCHANGED pvars
    BY <2>2 DEF LapsePlay, pvars, data, memory
  <2> QED BY <2>1, <2>2
<1>2. CASE s \in spoiled' BY <1>2 DEF SessionInv
<1>3. CASE s \notin spoiled'
  <2>1. \A q \in Threads : Works(q, s)' <=> Works(q, s) BY <1>1 DEF Works
  <2>2. \A q \in Threads : StageOK(q, s)' <=> StageOK(q, s) BY <1>1, <1>3 DEF StageOK
  <2>3. (AtRest(s)' <=> AtRest(s)) /\ (Complete(s)' <=> Complete(s))
    BY <1>1, <1>3, <2>1 DEF AtRest, Complete
  <2> QED BY <1>1, <1>3, <2>1, <2>2, <2>3 DEF SessionInv
<1> QED BY <1>2, <1>3

LEMMA SessionRestart ==
  ASSUME BaseInv, NEW s \in Owners, SessionInv(s), RestartPlay
  PROVE  SessionInv(s)'
<1>1. CASE s \in spoiled' BY <1>1 DEF SessionInv
<1>2. CASE s \notin spoiled'
  <2>1. s \notin spoiled /\ AtRest(s) /\ (s \in record <=> s \in saved.record)
    BY <1>2 DEF RestartPlay, AtWork, AtRest, Works
  <2>2. s \notin record /\ s \notin record' BY <2>1 DEF BaseInv, LockInv, RestartPlay
  <2>3. s \in there' => s \in unrecorded' BY <2>1, <2>2 DEF SessionInv, RestartPlay, data
  <2>4. \A q \in Threads : ~Works(q, s)' BY DEF RestartPlay, Works
  <2> QED BY <2>2, <2>3, <2>4 DEF SessionInv
<1> QED BY <1>1, <1>2

LEMMA SessionStep ==
  ASSUME BaseInv, NEW s \in Owners, SessionInv(s), [PlayNext]_pvars
  PROVE  SessionInv(s)'
<1>1. ASSUME NEW p \in Threads, PlayStep(p) PROVE SessionInv(s)'
  <2>1. CASE PlaygroundCreate(p) \/ PlaygroundDrop(p) \/ SessionEnd(p)
    <3>1. p \in Players BY <2>1 DEF PlaygroundCreate, PlaygroundDrop, SessionEnd, Threads
    <3>2. PICK next \in {"replace", "check", "end"}, how \in Hows : LookUp(p, next, how)
      BY <2>1 DEF PlaygroundCreate, PlaygroundDrop, SessionEnd, Hows
    <3> QED BY <3>1, <3>2, SessionLookUp
  <2> QED BY <1>1, <2>1, SessionReplace, SessionCreate, SessionFill, SessionFilled,
             SessionRollback, SessionRecord, SessionTick, SessionMark, SessionRevoke,
             SessionSaved DEF PlayStep
<1> QED BY <1>1, SessionOutside, SessionRestart DEF PlayNext

-----------------------------------------------------------------------------
(* PlayInv is an inductive invariant of the playgrounds.                    *)
THEOREM PlayInvariance == PlaySpec => []PlayInv
<1>1. PlayInit => PlayInv BY BaseInit, SessionInit DEF PlayInv
<1>2. PlayInv /\ [PlayNext]_pvars => PlayInv' BY BaseStep, SessionStep DEF PlayInv
<1> QED BY <1>1, <1>2, PTL DEF PlaySpec

(* A playground on record is there and complete, whatever failed before it  *)
(* was recorded, unless it is a clone of a source that had no tables:       *)
(* handlePlaygroundCreate announces no half-filled one.                     *)
THEOREM RecordsComplete == PlaySpec => []RecordedIsComplete
<1>1. PlayInv => RecordedIsComplete
  BY DEF PlayInv, SessionInv, RecordedIsComplete, Complete, BaseInv, PlayTypeOK
<1> QED BY <1>1, PlayInvariance, PTL

(* Neither a rollback nor a replacement nor the end of a session leaves a   *)
(* playground behind that no live session has on record, other than those   *)
(* the code left unrecorded when it made them.                              *)
THEOREM NoneLeftBehind == PlaySpec => []NoStrayPlayground
<1>1. PlayInv => NoStrayPlayground
  <2> SUFFICES ASSUME PlayInv, NEW s \in Owners, s \notin spoiled, s \notin unrecorded,
                      AtWork(s) = {}, s \in there
               PROVE  s \in record /\ s \in live
    BY DEF NoStrayPlayground
  <2>1. AtRest(s) BY DEF AtRest, AtWork, Works
  <2> QED BY <2>1 DEF PlayInv, SessionInv
<1> QED BY <1>1, PlayInvariance, PTL

-----------------------------------------------------------------------------
(* Addresses.                                                               *)

(* A set of numbers that is not empty has a least one.                      *)
LEMMA LeastOf ==
  ASSUME NEW S \in SUBSET Nat, S # {}
  PROVE  \E m \in S : \A n \in S : m <= n
<1>1. \E x \in S : \A y \in S : ~(<<y, x>> \in OpToRel(<, Nat))
  BY NatLessThanWellFounded, WFMin
<1>2. ASSUME NEW x \in S, NEW y \in S, ~(<<y, x>> \in OpToRel(<, Nat))
      PROVE  x <= y
  BY <1>2 DEF OpToRel
<1> QED BY <1>1, <1>2

(* The table of sizes up to m. *)
Sizes(f, m) ==
  /\ f \in [0..m -> Nat \ {0}]
  /\ f[0] = 1
  /\ \A n \in 1..m : f[n] = 2 * f[n - 1]

LEMMA SizesExist == \E f : Sizes(f, Bits6)
<1>0. Bits6 \in Nat BY AddressAssumption DEF Bits6
<1> DEFINE without == {m \in 0..Bits6 : ~ \E f : Sizes(f, m)}
<1>1. SUFFICES ASSUME without # {} PROVE FALSE BY <1>0
<1>2. without \in SUBSET Nat BY <1>0
<1>3. PICK m \in without : \A n \in without : m <= n
  <2> HIDE DEF without
  <2> QED BY <1>1, <1>2, LeastOf
<1>4. m # 0
  <2>1. Sizes([n \in 0..0 |-> 1], 0) BY DEF Sizes
  <2> QED BY <2>1, <1>3
<1>5. PICK f : Sizes(f, m - 1)
  <2>1. m - 1 \in 0..Bits6 /\ m - 1 \notin without BY <1>3, <1>4, <1>0
  <2> QED BY <2>1
<1> DEFINE g == [n \in 0..m |-> IF n = m THEN 2 * f[m - 1] ELSE f[n]]
<1>6. Sizes(g, m) BY <1>5, <1>4, <1>3, <1>0 DEF Sizes
<1> QED BY <1>6, <1>3

(* Size is what its recursive definition says. *)
LEMMA SizeTable == Sizes(Size, Bits6)
<1>0. Bits6 \in Nat BY AddressAssumption DEF Bits6
<1>1. PICK f : Sizes(f, Bits6) BY SizesExist
<1>2. f = [n \in 0..Bits6 |-> IF n = 0 THEN 1 ELSE 2 * f[n - 1]]
  BY <1>0, <1>1 DEF Sizes
<1>3. \E g : g = [n \in 0..Bits6 |-> IF n = 0 THEN 1 ELSE 2 * g[n - 1]] BY <1>2
<1>4. Size = [n \in 0..Bits6 |-> IF n = 0 THEN 1 ELSE 2 * Size[n - 1]]
  BY <1>3 DEF Size
<1> DEFINE without == {m \in 0..Bits6 : Size[m] \notin Nat \ {0}}
<1>5. without = {}
  <2> SUFFICES ASSUME without # {} PROVE FALSE OBVIOUS
  <2>1. without \in SUBSET Nat BY <1>0
  <2>2. PICK m \in without : \A n \in without : m <= n
    <3> HIDE DEF without
    <3> QED BY <2>1, LeastOf
  <2>3. m # 0 BY <1>4, <1>0, <2>2
  <2>4. m - 1 \in 0..Bits6 /\ m - 1 \notin without BY <2>2, <2>3, <1>0
  <2>5. Size[m] = 2 * Size[m - 1] /\ Size[m - 1] \in Nat \ {0}
    BY <2>2, <2>3, <2>4, <1>4, <1>0
  <2>6. Size[m] \in Nat \ {0} BY <2>5
  <2> QED BY <2>2, <2>6
<1>6. \A n \in 0..Bits6 : Size[n] \in Nat \ {0} BY <1>5
<1> HIDE DEF without
<1>7. Size \in [0..Bits6 -> Nat \ {0}] BY <1>4, <1>6
<1>8. Size[0] = 1 /\ \A n \in 1..Bits6 : Size[n] = 2 * Size[n - 1] BY <1>4, <1>0
<1> QED BY <1>7, <1>8 DEF Sizes

LEMMA SizeFacts ==
  /\ Bits6 \in Nat /\ Bits4 \in 0..Bits6 /\ Bits4 < Bits6
  /\ \A n \in 0..Bits6 : Size[n] \in Nat \ {0}
  /\ Size[0] = 1
  /\ \A n \in 1..Bits6 : Size[n] = 2 * Size[n - 1]
<1>1. Bits6 \in Nat /\ Bits4 \in 0..Bits6 /\ Bits4 < Bits6
  BY AddressAssumption DEF Bits6
<1> QED BY <1>1, SizeTable DEF Sizes

(* A larger block is made of smaller ones.                                  *)
LEMMA Blocks ==
  ASSUME NEW small \in 0..Bits6, NEW large \in small..Bits6
  PROVE  \E q \in Nat \ {0} : Size[large] = q * Size[small]
<1> DEFINE odd == {n \in small..Bits6 : ~ \E q \in Nat \ {0} : Size[n] = q * Size[small]}
<1>1. SUFFICES ASSUME odd # {} PROVE FALSE BY SizeFacts
<1>2. odd \in SUBSET Nat BY SizeFacts
<1>3. PICK n \in odd : \A m \in odd : n <= m
  <2> HIDE DEF odd
  <2> QED BY <1>1, <1>2, LeastOf
<1>4. n # small
  <2>1. Size[small] = 1 * Size[small] BY SizeFacts
  <2> QED BY <2>1, <1>3
<1>5. n - 1 \in small..Bits6 /\ n - 1 \notin odd BY <1>3, <1>4, SizeFacts
<1>6. PICK q \in Nat \ {0} : Size[n - 1] = q * Size[small] BY <1>5
<1>7. Size[n] = 2 * Size[n - 1] BY <1>3, <1>4, SizeFacts
<1>8. Size[n] = (2 * q) * Size[small] /\ 2 * q \in Nat \ {0} BY <1>6, <1>7, SizeFacts
<1> QED BY <1>8, <1>3

(* Quotient and remainder are the only numbers of their kind.               *)
LEMMA Quotient ==
  ASSUME NEW d \in Nat \ {0}, NEW k \in Int, NEW r \in 0..d - 1
  PROVE  (d * k + r) \div d = k
OBVIOUS

LEMMA Divided ==
  ASSUME NEW x \in Nat, NEW d \in Nat \ {0}
  PROVE  /\ x \div d \in Nat /\ x % d \in 0..d - 1
         /\ x = d * (x \div d) + (x % d)
OBVIOUS

(* Masking within a block of IPv4 addresses does not leave it.              *)
LEMMA MaskFine ==
  ASSUME NEW ip \in Nat, NEW free \in 0..Bits4
  PROVE  Is4(Masked(ip, free)) <=> Is4(ip)
<1> DEFINE d == Size[free]
           D == Size[Bits4]
           k == ip \div d
           r == ip % d
<1>1. d \in Nat \ {0} /\ D \in Nat \ {0} BY SizeFacts
<1>0. free \in 0..Bits6 /\ Bits4 \in free..Bits6 BY SizeFacts
<1>2. PICK q \in Nat \ {0} : D = q * d BY Blocks, <1>0
<1>3. k \in Nat /\ r \in 0..d - 1 /\ ip = d * k + r BY <1>1, Divided
<1> DEFINE j == k \div q
           s == k % q
<1>4. j \in Nat /\ s \in 0..q - 1 /\ k = q * j + s BY <1>3, <1>2, Divided
<1>5. Masked(ip, free) = d * k BY <1>3, <1>1 DEF Masked
<1> HIDE DEF d, D, k, r, j, s
<1>6. d * k = D * j + d * s BY <1>4, <1>2, <1>1
<1>7. ip = D * j + (d * s + r) BY <1>6, <1>3, <1>1, <1>2, <1>4
<1>8. d * s \in 0..D - 1 /\ d * s + r \in 0..D - 1
  <2> DEFINE rest == q - 1 - s
  <2>0. rest \in Nat /\ q - 1 = s + rest BY <1>2, <1>4
  <2> HIDE DEF rest
  <2>3. d * (q - 1) = d * s + d * rest /\ d * rest \in Nat BY <2>0, <1>1, <1>2, <1>4
  <2>1. d * s <= d * (q - 1) /\ d * s \in Nat BY <2>3, <1>1, <1>2, <1>4
  <2>2. d * (q - 1) = D - d BY <1>1, <1>2
  <2> QED BY <2>1, <2>2, <1>1, <1>2, <1>3
<1>9. (D * j + d * s) \div D = j /\ (D * j + (d * s + r)) \div D = j
  <2>1. \A e \in 0..D - 1 : (D * j + e) \div D = j BY <1>1, <1>4, Quotient
  <2> QED BY <2>1, <1>8
<1> QED BY <1>9, <1>5, <1>6, <1>7 DEF Is4, D

(* What a larger block masks is not an IPv4 address.                        *)
LEMMA MaskCoarse ==
  ASSUME NEW ip \in Nat, NEW free \in Bits4 + 1..Bits6
  PROVE  ~Is4(Masked(ip, free))
<1> DEFINE d == Size[free]
           D == Size[Bits4]
           k == ip \div d
           r == ip % d
<1>0. Bits4 \in Nat /\ free - 1 \in 0..Bits6 /\ free - 1 \in Bits4..Bits6 BY SizeFacts
<1>1. d \in Nat \ {0} /\ D \in Nat \ {0} BY SizeFacts, <1>0
<1>2. PICK q \in Nat \ {0} : Size[free - 1] = q * D BY Blocks, SizeFacts, <1>0
<1>3. d = 2 * Size[free - 1] BY SizeFacts, <1>0
<1>4. k \in Nat /\ r \in 0..d - 1 /\ ip = d * k + r BY <1>1, Divided
<1>5. Masked(ip, free) = d * k BY <1>4, <1>1 DEF Masked
<1> HIDE DEF d, D, k, r
<1>6. q * k \in Nat BY <1>2, <1>4
<1>7. d * k = D * (2 * (q * k)) + 0
  <2>1. d = D * (2 * q) BY <1>2, <1>3, <1>1
  <2> QED BY <2>1, <1>1, <1>2, <1>4
<1>8. (D * (2 * (q * k)) + 0) \div D = 2 * (q * k) BY <1>6, <1>1, Quotient
<1> QED BY <1>8, <1>7, <1>6, <1>5 DEF Is4, D

LEMMA MaskNone == ASSUME NEW ip \in Nat PROVE Masked(ip, 0) = ip
<1>1. ip % 1 = 0 OBVIOUS
<1> QED BY <1>1, SizeFacts DEF Masked

(* What Start, Provision and Knock have made of the text.                   *)
AddressInv ==
  /\ text \in Texts /\ client \in Nat
  /\ stage = "stored" => stored = normalizeCIDR(text)
  /\ stage \in {"open", "asked"} =>
       /\ stored = normalizeCIDR(text) /\ stored.form = "block"
       /\ host = CIDRToHost(stored) /\ rule = ufwHost(stored)
  /\ stage = "asked" => verdict = IPAllowed(stored, client)
  /\ stage \in {"typed", "stored", "open", "asked", "refused"}

LEMMA AddressStart == AddressInit => AddressInv
BY DEF AddressInit, AddressInv

LEMMA AddressStep == AddressInv /\ [AddressNext]_addressVars => AddressInv'
<1> SUFFICES ASSUME AddressInv, [AddressNext]_addressVars PROVE AddressInv'
  OBVIOUS
<1>1. IPs \subseteq Nat BY SizeFacts DEF IPs
<1>2. CASE Start BY <1>2 DEF AddressInv, Start
<1>3. CASE Provision BY <1>3 DEF AddressInv, Provision
<1>4. CASE Refuse BY <1>4 DEF AddressInv, Refuse
<1>5. ASSUME NEW ip \in IPs, Knock(ip) PROVE AddressInv'
  BY <1>1, <1>5 DEF AddressInv, Knock
<1>6. CASE UNCHANGED addressVars BY <1>6 DEF AddressInv, addressVars
<1> QED BY <1>2, <1>3, <1>4, <1>5, <1>6 DEF AddressNext

LEMMA AddressAlways == AddressSpec => []AddressInv
BY AddressStart, AddressStep, PTL DEF AddressSpec

(* A block that a text may become.                                          *)
LEMMA BlockTypes ==
  ASSUME NEW t \in Texts, normalizeCIDR(t).form = "block"
  PROVE  LET b == normalizeCIDR(t)
         IN  /\ b.ip = t.ip /\ b.ip \in Nat /\ b.written = t.written
             /\ b.written \in {"v4", "v6"}
             /\ b.written = "v4" => Is4(b.ip) /\ Free(b) \in 0..Bits4
             /\ Free(b) \in 0..Bits6
             /\ t.form = "bare" /\ ~Mapped(t) => Free(b) = 0
<1>1. t \in [form : {"bare", "block", "other"}, written : {"v4", "v6"},
              ip : IPs, ones : 0..Bits6]
      /\ (t.written = "v4" => Is4(t.ip) /\ t.ones <= Bits4)
  BY DEF Texts
<1>2. IPs \subseteq Nat BY SizeFacts DEF IPs
<1>3. CASE t.form = "bare"
  <2>1. normalizeCIDR(t) = [t EXCEPT !.form = "block",
                                     !.ones = IF Is4(t.ip) THEN Bits4 ELSE Bits6]
    BY <1>3 DEF normalizeCIDR
  <2> QED BY <1>1, <1>2, <1>3, <2>1, SizeFacts DEF Free, Mapped
<1>4. CASE t.form # "bare"
  <2>1. normalizeCIDR(t) = t BY <1>4 DEF normalizeCIDR
  <2>2. Free(t) \in 0..Bits6 /\ (t.written = "v4" => Free(t) \in 0..Bits4)
    BY <1>1, SizeFacts DEF Free
  <2> QED BY <1>1, <1>2, <1>4, <2>1, <2>2
<1> QED BY <1>3, <1>4

(* A network and its addresses are of the same kind, unless an IPv4 address *)
(* is written as IPv6 in it.                                                *)
LEMMA KindOfNetwork ==
  ASSUME NEW t \in Texts, normalizeCIDR(t).form = "block", NEW b, b = normalizeCIDR(t)
  PROVE  /\ b.written = "v4" => Is4(Network(b))
         /\ ~Is4(b.ip) => ~Is4(Network(b))
<1>1. b.ip \in Nat /\ Free(b) \in 0..Bits6 /\ Bits4 \in Nat /\ Bits6 \in Nat
      /\ (b.written = "v4" => Is4(b.ip) /\ Free(b) \in 0..Bits4)
  BY BlockTypes, SizeFacts
<1>2. CASE Free(b) \in 0..Bits4 BY <1>1, <1>2, MaskFine DEF Network
<1>3. CASE Free(b) \in Bits4 + 1..Bits6 BY <1>1, <1>3, MaskCoarse DEF Network
<1> QED BY <1>1, <1>2, <1>3

(* Who reaches MySQL as the session's account through its rule would pass   *)
(* at the gate; and the other way round, when an IPv4 address was written   *)
(* as one: normalizeCIDR, CIDRToHost, ufwHost and IPAllowed agree.          *)
THEOREM SameAddresses == AddressSpec => []SameAddressesThroughout
<1>1. AddressInv => SameAddressesThroughout
  <2> SUFFICES ASSUME AddressInv, stage = "asked"
               PROVE  LET reaches == HostMatches(host, client) /\ RuleMatches(rule, client)
                      IN  /\ reaches => verdict
                          /\ ~Mapped(text) /\ verdict => reaches
    BY DEF SameAddressesThroughout
  <2> DEFINE b == normalizeCIDR(text)
             free == Free(b)
  <2>1. /\ text \in Texts /\ client \in Nat /\ b.form = "block"
        /\ host = CIDRToHost(b) /\ rule = ufwHost(b)
        /\ verdict = IPAllowed(b, client)
    BY DEF AddressInv
  <2>2. /\ b.ip = text.ip /\ b.ip \in Nat /\ b.written = text.written
        /\ b.written \in {"v4", "v6"}
        /\ b.written = "v4" => Is4(b.ip)
    BY <2>1, BlockTypes
  <2>3. /\ b.written = "v4" => Is4(Network(b))
        /\ ~Is4(b.ip) => ~Is4(Network(b))
    BY <2>1, KindOfNetwork
  <2> HIDE DEF b
  <2>4. verdict <=> Is4(Network(b)) = Is4(client) /\ Masked(client, free) = Network(b)
    BY <2>1 DEF IPAllowed
  <2>5. CASE free = 0
    <3>1. host = [kind |-> "one", ip |-> b.ip] /\ rule = [kind |-> "one", ip |-> b.ip]
      BY <2>1, <2>5 DEF CIDRToHost, ufwHost
    <3>2. HostMatches(host, client) <=> client = b.ip BY <3>1 DEF HostMatches
    <3>3. RuleMatches(rule, client) <=> client = b.ip BY <3>1 DEF RuleMatches
    <3>4. Masked(client, free) = client /\ Network(b) = b.ip
      BY <2>1, <2>2, <2>5, MaskNone DEF Network
    <3> QED BY <2>4, <3>2, <3>3, <3>4
  <2>6. CASE free # 0
    <3>1. rule = [kind |-> b.written, ip |-> b.ip, free |-> free]
      BY <2>1, <2>6 DEF ufwHost
    <3>2. RuleMatches(rule, client) <=>
            /\ Is4(client) = (b.written = "v4")
            /\ Masked(client, free) = Network(b)
      BY <3>1, <2>2 DEF RuleMatches, Network
    <3>3. CASE ~Is4(b.ip)
      <4>1. host = [kind |-> "any"] BY <2>1, <2>2, <2>6, <3>3 DEF CIDRToHost
      <4>2. HostMatches(host, client) BY <4>1 DEF HostMatches
      <4>3. b.written # "v4" /\ ~Is4(Network(b)) BY <3>3, <2>2, <2>3
      <4> QED BY <4>2, <4>3, <3>2, <2>4 DEF Is4
    <3>4. CASE Is4(b.ip) /\ b.written = "v4"
      <4>1. host = [kind |-> "net", ip |-> Network(b), free |-> free]
        BY <2>1, <2>6, <3>4 DEF CIDRToHost
      <4>2. HostMatches(host, client) <=>
              Is4(client) /\ Masked(client, free) = Network(b)
        BY <4>1 DEF HostMatches
      <4> QED BY <4>2, <3>2, <3>4, <2>3, <2>4
    <3>5. CASE Is4(b.ip) /\ b.written # "v4"
      <4>1. host = [kind |-> "name"] BY <2>1, <2>6, <3>5 DEF CIDRToHost
      <4>2. ~HostMatches(host, client) BY <4>1 DEF HostMatches
      <4>3. Mapped(text) BY <2>2, <3>5 DEF Mapped
      <4> QED BY <4>2, <4>3
    <3> QED BY <3>3, <3>4, <3>5
  <2> QED BY <2>5, <2>6
<1> QED BY <1>1, AddressAlways, PTL

(* "upgrades a bare IP to a /32 (or /128)": normalizeCIDR makes a session   *)
(* for one address admit that one and no other.                             *)
THEOREM OneAddress == AddressSpec => []BareMeansOne
<1>1. AddressInv => BareMeansOne
  <2> SUFFICES ASSUME AddressInv, stage = "asked", text.form = "bare", ~Mapped(text)
               PROVE  verdict <=> client = text.ip
    BY DEF BareMeansOne
  <2> DEFINE b == normalizeCIDR(text)
  <2>1. /\ text \in Texts /\ client \in Nat /\ b.form = "block"
        /\ verdict = IPAllowed(b, client)
    BY DEF AddressInv
  <2>2. b.ip = text.ip /\ b.ip \in Nat /\ Free(b) = 0 BY <2>1, BlockTypes
  <2> HIDE DEF b
  <2>3. Network(b) = b.ip /\ Masked(client, Free(b)) = client
    BY <2>1, <2>2, MaskNone DEF Network
  <2> QED BY <2>1, <2>2, <2>3 DEF IPAllowed
<1> QED BY <1>1, AddressAlways, PTL

=============================================================================
