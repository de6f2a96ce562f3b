----------------------------- MODULE SharedStore -----------------------------
(***************************************************************************)
(* The data directory: the master key, the sealed configuration and the     *)
(* sealed list of sessions, and the processes that share it.  The daemon    *)
(* and every command load what they need, change it in their own memory and *)
(* write the whole file back through one temporary file, without a lock.    *)
(* What happens inside a process is SessionManager's; here it makes its     *)
(* changes up to the first save, after which a leaked lock lets no more.    *)
(* Every change has a goroutine that goes on to save, so that one process   *)
(* may be in SaveAll several times over: each of them is a member of Procs. *)
(***************************************************************************)
EXTENDS Naturals, FiniteSets

CONSTANTS Procs,               \* goroutines that may run at the same time, of
                               \* one process or of several
          Sids, Keys, Modes,
          Missing, Empty, Torn, \* a file that is not there, cut to nothing,
                               \* or written by two
          Unset,
          MaxRuns, MaxOthers

ASSUME StoreAssumption ==
  /\ {Missing, Empty, Torn} \cap Keys = {}
  /\ "settings" \notin Sids /\ "mode" \notin Sids
  /\ MaxRuns \in Nat /\ MaxOthers \in Nat

VARIABLES dir,        \* the directory exists
          file, tmp,  \* by name: what the file holds, and its .tmp
          fd,         \* where what each has open for writing is now
          cmd, step,  \* what each runs, and its next step
          host,       \* the first goroutine of its process
          others,     \* how many more have changed the list and will save
          want, own,  \* how far it is in masterKey; the key it has got
          hold,       \* sealed bytes in hand
          mem,        \* its view of configuration and sessions
          changed,    \* the fields it has changed
          reports,    \* the session its command will report on
          drawn, used, \* keys and ids drawn
          said,       \* history: sessions some "session end" said it ended
          meant,      \* history: each field as the last save meant it
          late,       \* history: fields saved by others since it loaded
          lost,       \* history: fields last written by a process late on them
          mixed,      \* history: files two savers got in each other's way on
          runs

disk   == <<dir, file, tmp, fd>>
keying == <<want, own, drawn>>
who    == <<cmd, host>>
view   == <<mem, changed, others, reports, used>>
svars  == <<disk, who, step, keying, hold, view, said, meant, late, lost,
            mixed, runs>>

Sealed   == {"config", "sessions"}
Options  == {"settings", "mode"}
Fields   == Options \cup Sids
FieldsOf(f) == IF f = "config" THEN Options ELSE Sids
SessionCommands == {"serve", "new", "end"}
Commands == SessionCommands \cup {"mode", "connect"}
Target(p) == IF cmd[p] \in SessionCommands THEN "sessions" ELSE "config"

Values   == Procs \cup Modes \cup {"none", "active", "ended", Unset}
Box      == [key : Keys, data : [Fields -> Values]]
Contents == Box \cup {Missing, Empty, Torn}
Whole(c) == c \notin {Missing, Empty, Torn}
OpensWith(c, k) == Whole(c) /\ c.key = k

ASSUME ContentsAssumption ==
  /\ Missing # Empty /\ Missing # Torn /\ Empty # Torn
  /\ {Missing, Empty, Torn} \cap Box = {}

StepNames == {"off", "load", "wipe", "loadAll", "decrypt", "run", "seal",
              "open", "write", "rename", "frozen"}

StoreTypeOK ==
  /\ dir \in BOOLEAN
  /\ file["key"] \in Keys \cup {Missing, Empty}
  /\ \A f \in Sealed : file[f] \in Contents /\ tmp[f] \in Contents
  /\ \A p \in Procs : /\ fd[p] \in {"none", "tmp", "file", "gone"}
                      /\ step[p] \in StepNames /\ cmd[p] \in Commands
                      /\ want[p] \in {"ask", "create", "fill", "have"}
                      /\ want[p] # "ask" => own[p] \in Keys
                      /\ step[p] \in {"decrypt", "open", "write"} => hold[p] \in Contents
                      /\ mem[p] \in [Fields -> Values]
                      /\ changed[p] \subseteq Fields /\ late[p] \subseteq Fields
                      /\ reports[p] \subseteq Sids
                      /\ host[p] \in Procs /\ others[p] \in 0..MaxOthers
  /\ drawn \subseteq Keys /\ used \subseteq Sids /\ said \subseteq Sids
  /\ meant \in [Fields -> Values] /\ lost \subseteq Fields /\ mixed \subseteq Sealed
  /\ runs \in 0..MaxRuns

Blank == [x \in Fields |-> IF x \in Sids THEN "none" ELSE Unset]

(* Before the first run, or with a configuration and perhaps sessions.      *)
StoreInit ==
  /\ \/ /\ dir = FALSE /\ drawn = {} /\ used = {}
        /\ file = [f \in {"key"} \cup Sealed |-> Missing]
     \/ \E k \in Keys, S \in SUBSET Sids, m \in Modes :
          /\ dir = TRUE /\ drawn = {k} /\ used = S
          /\ file = [f \in {"key"} \cup Sealed |->
                CASE f = "key"    -> k
                  [] f = "config" -> [key |-> k, data |-> [Blank EXCEPT !["mode"] = m]]
                  [] OTHER -> IF S = {} THEN Missing
                              ELSE [key |-> k, data |-> [x \in Fields |->
                                      IF x \in S THEN "active" ELSE Blank[x]]]]
  /\ tmp = [f \in Sealed |-> Missing] /\ fd = [p \in Procs |-> "none"]
  /\ cmd = [p \in Procs |-> "serve"] /\ step = [p \in Procs |-> "off"]
  /\ want = [p \in Procs |-> "ask"] /\ own = [p \in Procs |-> Missing]
  /\ hold = [p \in Procs |-> Missing] /\ mem = [p \in Procs |-> Blank]
  /\ changed = [p \in Procs |-> {}] /\ reports = [p \in Procs |-> {}]
  /\ host = [p \in Procs |-> p] /\ others = [p \in Procs |-> 0]
  /\ late = [p \in Procs |-> {}] /\ meant = [x \in Fields |-> Unset]
  /\ said = {} /\ lost = {} /\ mixed = {} /\ runs = 0

Go(p, next) == step' = [step EXCEPT ![p] = next] /\ want' = [want EXCEPT ![p] = "ask"]
Past == <<said, meant, lost>>

Start(p, c) ==
  /\ step[p] = "off" /\ runs < MaxRuns
  /\ runs' = runs + 1
  /\ cmd' = [cmd EXCEPT ![p] = c]
  /\ Go(p, "load")
  /\ UNCHANGED <<disk, host, own, drawn, hold, view, Past, late>>

(* What a goroutine had in hand goes with it; a process that ends takes all *)
(* of its goroutines along.                                                 *)
Crew(p)       == {q \in Procs : host[q] = host[p]}
Gone(p, next) == IF next = "off" THEN Crew(p) ELSE {p}

Clear(p, next) ==
  LET Left(old, new) == [q \in Procs |-> IF q \in Gone(p, next) THEN new ELSE old[q]] IN
  /\ own'     = Left(own, Missing)
  /\ hold'    = Left(hold, Missing)
  /\ mem'     = Left(mem, Blank)
  /\ changed' = Left(changed, {})
  /\ others'  = Left(others, 0)
  /\ reports' = Left(reports, {})
  /\ cmd'     = Left(cmd, "serve")
  /\ step'    = Left(step, next)
  /\ want'    = Left(want, "ask")
  /\ host'    = IF next = "off" THEN [q \in Procs |-> IF q \in Crew(p) THEN q ELSE host[q]]
                                ELSE host
  /\ UNCHANGED <<drawn, used>>

(* Killed, or out with an error, at any step; also what stopService does to *)
(* the daemon when it succeeds.                                             *)
Stop(p) ==
  /\ step[p] # "off"
  /\ Clear(p, "off")
  /\ fd' = [q \in Procs |-> IF q \in Crew(p) THEN "none" ELSE fd[q]]
  /\ late' = [q \in Procs |-> IF q \in Crew(p) THEN {} ELSE late[q]]
  /\ UNCHANGED <<dir, file, tmp, Past, runs>>

-----------------------------------------------------------------------------
(* masterKey, at the beginning of Load, Decrypt and Encrypt.  A key of the  *)
(* wrong length is an error.                                                *)
NeedsKey(p) == step[p] \in {"load", "decrypt", "seal"}

(* Slip: the length of the key is not checked.                              *)
ReadKeyUnchecked(p) ==
  /\ NeedsKey(p) /\ want[p] = "ask"
  /\ IF file["key"] = Missing
     THEN \E k \in Keys \ drawn : /\ own' = [own EXCEPT ![p] = k]
                                  /\ drawn' = drawn \cup {k}
                                  /\ want' = [want EXCEPT ![p] = "create"]
     ELSE /\ own' = [own EXCEPT ![p] = file["key"]]
          /\ want' = [want EXCEPT ![p] = "have"]
          /\ UNCHANGED drawn
  /\ UNCHANGED <<disk, who, step, hold, view, Past, late, runs>>

ReadKey(p) ==
  /\ NeedsKey(p) /\ want[p] = "ask"
  /\ \/ /\ file["key"] \in Keys
        /\ own' = [own EXCEPT ![p] = file["key"]]
        /\ want' = [want EXCEPT ![p] = "have"]
        /\ UNCHANGED drawn
     \/ /\ file["key"] = Missing
        /\ \E k \in Keys \ drawn : own' = [own EXCEPT ![p] = k] /\ drawn' = drawn \cup {k}
        /\ want' = [want EXCEPT ![p] = "create"]
  /\ UNCHANGED <<disk, who, step, hold, view, Past, late, runs>>

(* WriteFile opens the file and cuts it, then writes.                       *)
CreateKey(p) ==
  /\ want[p] = "create"
  /\ dir' = TRUE
  /\ file' = [file EXCEPT !["key"] = Empty]
  /\ fd' = [fd EXCEPT ![p] = "file"]
  /\ want' = [want EXCEPT ![p] = "fill"]
  /\ UNCHANGED <<tmp, who, step, own, drawn, hold, view, Past, late, runs>>

FillKey(p) ==
  /\ want[p] = "fill"
  /\ file' = IF fd[p] = "file" THEN [file EXCEPT !["key"] = own[p]] ELSE file
  /\ fd' = [fd EXCEPT ![p] = "none"]
  /\ want' = [want EXCEPT ![p] = "have"]
  /\ UNCHANGED <<dir, tmp, who, step, own, drawn, hold, view, Past, late, runs>>

-----------------------------------------------------------------------------
(* Every command but connect needs the configuration; only mode set writes  *)
(* back what it has read.                                                   *)
Load(p) ==
  /\ step[p] = "load" /\ want[p] = "have"
  /\ cmd[p] # "connect"
  /\ OpensWith(file["config"], own[p])
  /\ mem' = [mem EXCEPT ![p] = [x \in Fields |-> IF x \in Options /\ cmd[p] = "mode"
                                  THEN file["config"].data[x] ELSE @[x]]]
  /\ Go(p, IF cmd[p] = "mode" THEN "run" ELSE "loadAll")
  /\ UNCHANGED <<disk, who, own, drawn, hold, changed, others, reports, used, Past, late, runs>>

(* connect offers to wipe a configuration it can read; any error will do to *)
(* go on without.                                                           *)
ConnectLoads(p) ==
  /\ step[p] = "load" /\ cmd[p] = "connect"
  /\ want[p] = "have" \/ (want[p] = "ask" /\ file["key"] = Empty)
  /\ \/ Go(p, "run")
     \/ want[p] = "have" /\ OpensWith(file["config"], own[p]) /\ Go(p, "wipe")
  /\ UNCHANGED <<disk, who, own, drawn, hold, view, Past, late, runs>>

(* RemoveAll takes one file after the other, then the directory.  Whoever   *)
(* has one open writes on to nowhere.                                       *)
Unlinked(f, place) == [q \in Procs |->
  IF fd[q] = place /\ f = (IF want[q] = "fill" THEN "key" ELSE Target(q)) THEN "gone" ELSE fd[q]]

Wipe(p) ==
  /\ step[p] = "wipe"
  /\ \/ \E f \in {"key"} \cup Sealed :
          /\ file[f] # Missing
          /\ file' = [file EXCEPT ![f] = Missing] /\ fd' = Unlinked(f, "file")
          /\ meant' = [x \in Fields |-> IF x \in FieldsOf(f) /\ f # "key"
                                        THEN Unset ELSE meant[x]]
          /\ UNCHANGED <<dir, tmp, step, want>>
     \/ \E f \in Sealed :
          /\ tmp[f] # Missing
          /\ tmp' = [tmp EXCEPT ![f] = Missing] /\ fd' = Unlinked(f, "tmp")
          /\ UNCHANGED <<dir, file, step, want, meant>>
     \/ /\ \A f \in {"key"} \cup Sealed : file[f] = Missing
        /\ \A f \in Sealed : tmp[f] = Missing
        /\ dir' = FALSE
        /\ Go(p, "run")
        /\ UNCHANGED <<file, tmp, fd, meant>>
  /\ UNCHANGED <<who, own, drawn, hold, view, said, lost, late, runs>>

(* LoadAll reads the file first and asks for the key only if there is one.  *)
LoadAll(p) ==
  /\ step[p] = "loadAll"
  /\ hold' = [hold EXCEPT ![p] = file["sessions"]]
  /\ Go(p, IF file["sessions"] = Missing THEN "run" ELSE "decrypt")
  /\ UNCHANGED <<disk, who, own, drawn, view, Past, late, runs>>

(* Slip: sessions that are over are not taken over.                         *)
DecryptLive(p) ==
  /\ step[p] = "decrypt" /\ want[p] = "have"
  /\ OpensWith(hold[p], own[p])
  /\ mem' = [mem EXCEPT ![p] = [x \in Fields |->
               IF x \in Sids /\ hold[p].data[x] = "active" THEN "active" ELSE @[x]]]
  /\ hold' = [hold EXCEPT ![p] = Missing]
  /\ Go(p, "run")
  /\ UNCHANGED <<disk, who, own, drawn, changed, others, reports, used, Past, late, runs>>

Decrypt(p) ==
  /\ step[p] = "decrypt" /\ want[p] = "have"
  /\ OpensWith(hold[p], own[p])
  /\ mem' = [mem EXCEPT ![p] = [x \in Fields |-> IF x \in Sids THEN hold[p].data[x] ELSE @[x]]]
  /\ hold' = [hold EXCEPT ![p] = Missing]
  /\ Go(p, "run")
  /\ UNCHANGED <<disk, who, own, drawn, changed, others, reports, used, Past, late, runs>>

-----------------------------------------------------------------------------
(* The goroutines of a process may make several changes before one of them  *)
(* copies the list.                                                         *)
CanChange(p) == \/ step[p] = "run"
                \/ /\ step[p] = "seal" /\ want[p] = "ask" /\ host[p] = p
                   /\ cmd[p] \in SessionCommands

Change(p, fields, value, report) ==
  /\ mem' = [mem EXCEPT ![p] = [x \in Fields |-> IF x \in fields THEN value[x] ELSE @[x]]]
  /\ changed' = [changed EXCEPT ![p] = @ \cup fields]
  /\ others' = [others EXCEPT ![p] = IF step[p] = "seal" /\ @ < MaxOthers THEN @ + 1 ELSE @]
  /\ reports' = [reports EXCEPT ![p] = @ \cup report]
  /\ Go(p, "seal")
  /\ UNCHANGED <<disk, who, own, drawn, hold, Past, late, runs>>

(* The daemon serves one request after the other, a command makes one call  *)
(* and reports on it.                                                       *)
Called(p)    == cmd[p] # "serve" /\ reports[p] # {}
Report(p, s) == IF cmd[p] = "serve" THEN {} ELSE {s}

SessionNew(p) ==
  /\ CanChange(p) /\ cmd[p] \in {"serve", "new"} /\ ~Called(p)
  /\ \E s \in Sids \ used : /\ Change(p, {s}, [x \in {s} |-> "active"], Report(p, s))
                            /\ used' = used \cup {s}

SessionEnd(p) ==
  /\ CanChange(p) /\ cmd[p] \in {"serve", "end"} /\ ~Called(p)
  /\ \E s \in Sids : /\ mem[p][s] # "none"
                     /\ Change(p, {s}, [x \in {s} |-> "ended"], Report(p, s))
  /\ UNCHANGED used

(* The ticker runs in every process that has a manager.                     *)
Reap(p) ==
  /\ CanChange(p) /\ cmd[p] \in SessionCommands
  /\ \E S \in SUBSET {s \in Sids : mem[p][s] = "active"} :
       S # {} /\ Change(p, S, [x \in S |-> "ended"], {})
  /\ UNCHANGED used

(* Another goroutine of the process comes to its own save, of the same list *)
(* now that one has copied it.  The call that reports may be either's.      *)
Copied(p) == step[p] \in {"open", "write", "rename"} \/ (step[p] = "seal" /\ want[p] # "ask")

SaveToo(p, q) ==
  /\ Copied(p) /\ others[p] > 0 /\ step[q] = "off"
  /\ cmd' = [cmd EXCEPT ![q] = cmd[p]] /\ host' = [host EXCEPT ![q] = p]
  /\ Go(q, "seal")
  /\ mem' = [mem EXCEPT ![q] = mem[p]] /\ changed' = [changed EXCEPT ![q] = changed[p]]
  /\ late' = [late EXCEPT ![q] = late[p]]
  /\ others' = [others EXCEPT ![p] = @ - 1]
  /\ \/ reports' = reports
     \/ reports' = [reports EXCEPT ![p] = {}, ![q] = reports[p]]
  /\ UNCHANGED <<disk, own, drawn, hold, used, Past, runs>>

ModeSet(p) ==
  /\ step[p] = "run" /\ cmd[p] = "mode"
  /\ \E m \in Modes : Change(p, {"mode"}, [x \in {"mode"} |-> m], {})
  /\ UNCHANGED used

Connect(p) ==
  /\ step[p] = "run" /\ cmd[p] = "connect"
  /\ \E m \in Modes : Change(p, Options, [x \in Options |-> IF x = "mode" THEN m ELSE p], {})
  /\ UNCHANGED used

-----------------------------------------------------------------------------
(* Save and SaveAll: seal, write the temporary file, rename it.  Only Save  *)
(* makes the directory.                                                     *)
Seal(p) ==
  /\ step[p] = "seal" /\ want[p] = "have"
  /\ hold' = [hold EXCEPT ![p] = [key |-> own[p], data |->
                [x \in Fields |-> IF x \in FieldsOf(Target(p)) THEN mem[p][x] ELSE Blank[x]]]]
  /\ dir' = (dir \/ Target(p) = "config")
  /\ Go(p, "open")
  /\ UNCHANGED <<file, tmp, fd, who, own, drawn, view, Past, late, runs>>

(* Slip: the file is written in place.                                      *)
OpenInPlace(p) ==
  /\ step[p] = "open" /\ dir
  /\ file' = [file EXCEPT ![Target(p)] = Empty]
  /\ fd' = [fd EXCEPT ![p] = "file"]
  /\ Go(p, "write")
  /\ UNCHANGED <<dir, tmp, who, own, drawn, hold, view, Past, late, runs>>

Open(p) ==
  /\ step[p] = "open" /\ dir
  /\ tmp' = [tmp EXCEPT ![Target(p)] = Empty]
  /\ fd' = [fd EXCEPT ![p] = "tmp"]
  /\ Go(p, "write")
  /\ UNCHANGED <<dir, file, who, own, drawn, hold, view, Past, late, runs>>

(* Over what another has written in the meantime, of which a longer rest    *)
(* may remain.  By then the file may have been renamed or removed.          *)
Over(old, new) == IF old = Empty THEN {new} ELSE {new, Torn}

Write(p) ==
  LET f == Target(p) IN
  /\ step[p] = "write"
  /\ \/ fd[p] = "tmp" /\ \E c \in Over(tmp[f], hold[p]) : tmp' = [tmp EXCEPT ![f] = c]
                      /\ UNCHANGED file
     \/ fd[p] = "file" /\ \E c \in Over(file[f], hold[p]) : file' = [file EXCEPT ![f] = c]
                       /\ UNCHANGED tmp
     \/ fd[p] = "gone" /\ UNCHANGED <<tmp, file>>
  /\ fd' = [fd EXCEPT ![p] = "none"]
  /\ hold' = [hold EXCEPT ![p] = Missing]
  /\ Go(p, "rename")
  /\ UNCHANGED <<dir, who, own, drawn, view, Past, late, runs>>

(* A command that has saved what it was called for reports and is done.     *)
(* The daemon goes on without its lock, and so does a command's reaper.     *)
Saved(p) == IF cmd[p] \notin SessionCommands \/ reports[p] # {} THEN "off" ELSE "frozen"

Rename(p) ==
  LET f == Target(p)
      gone == Gone(p, Saved(p)) IN
  /\ step[p] = "rename" /\ tmp[f] # Missing
  /\ file' = [file EXCEPT ![f] = tmp[f]]
  /\ tmp' = [tmp EXCEPT ![f] = Missing]
  /\ fd' = [q \in Procs |-> IF q \in gone THEN "none"
                            ELSE IF want[q] = "fill" \/ Target(q) # f THEN fd[q]
                            ELSE CASE fd[q] = "tmp"  -> "file"
                                   [] fd[q] = "file" -> "gone"
                                   [] OTHER          -> fd[q]]
  /\ Clear(p, Saved(p))
  /\ meant' = [x \in Fields |-> IF x \in changed[p] THEN mem[p][x] ELSE meant[x]]
  /\ lost' = (lost \cup late[p]) \ changed[p]
  /\ late' = [q \in Procs |->
       IF q \in gone THEN {}
       ELSE IF Target(q) = f /\ step[q] \notin {"off", "load", "loadAll", "frozen"}
            THEN late[q] \cup changed[p] ELSE late[q]]
  /\ said' = IF cmd[p] = "end" THEN said \cup reports[p] ELSE said
  /\ UNCHANGED <<dir, runs>>

(* The directory or the temporary file is gone, or a call fails.  New then  *)
(* waits for ever for the lock, the other commands report the error.        *)
SaveFails(p) ==
  LET f == Target(p)
      next == IF cmd[p] \in {"serve", "new"} \/ Saved(p) = "frozen" THEN "frozen" ELSE "off" IN
  /\ \/ step[p] \in {"open", "rename"} /\ UNCHANGED <<file, tmp>>
     \/ /\ step[p] = "write"
        /\ tmp' = [tmp EXCEPT ![f] = IF fd[p] = "tmp" THEN Torn ELSE @]
        /\ file' = [file EXCEPT ![f] = IF fd[p] = "file" THEN Torn ELSE @]
  /\ Clear(p, next)
  /\ fd' = [q \in Procs |-> IF q \in Gone(p, next) THEN "none" ELSE fd[q]]
  /\ late' = [q \in Procs |-> IF q \in Gone(p, next) THEN {} ELSE late[q]]
  /\ UNCHANGED <<dir, Past, runs>>

StoreStep(p) ==
  \/ \E c \in Commands : Start(p, c)
  \/ Stop(p)
  \/ ReadKey(p) \/ CreateKey(p) \/ FillKey(p)
  \/ Load(p) \/ ConnectLoads(p) \/ Wipe(p) \/ LoadAll(p) \/ Decrypt(p)
  \/ SessionNew(p) \/ SessionEnd(p) \/ Reap(p) \/ ModeSet(p) \/ Connect(p)
  \/ \E q \in Procs : SaveToo(p, q)
  \/ Seal(p) \/ Open(p) \/ Write(p) \/ Rename(p) \/ SaveFails(p)

(* Two savers at the same temporary file, of two processes or of one; two   *)
(* that found no key; a wipe while another works on the files.              *)
AtFile(p, f) == step[p] \in {"write", "rename"} /\ Target(p) = f
MakesKey(p)  == want[p] \in {"create", "fill"}
Busy(p)      == step[p] \notin {"off", "run", "frozen"}
Clash(f) == \E p, q \in Procs :
  /\ p # q
  /\ \/ AtFile(p, f) /\ AtFile(q, f)
     \/ MakesKey(p) /\ MakesKey(q)
     \/ step[p] = "wipe" /\ Busy(q)

WipeCutShort == \E p \in Procs : step[p] = "wipe" /\ step'[p] = "off"

StoreNext == /\ \E p \in Procs : StoreStep(p)
             /\ mixed' = mixed \cup {f \in Sealed : Clash(f)' \/ WipeCutShort}

StoreSpec == StoreInit /\ [][StoreNext]_svars

-----------------------------------------------------------------------------
(* "writes it atomically": whatever is killed and when, a sealed file that  *)
(* is there is whole and opens with the key that is there, unless two       *)
(* savers, of two processes or two goroutines of one, have been at its      *)
(* temporary file at once, or a wipe was cut short or had company.          *)
SealedFilesOpen ==
  (\A p \in Procs : step[p] # "wipe") =>
  \A f \in Sealed \ mixed : file[f] # Missing => OpensWith(file[f], file["key"])

(* With the same exception, every field has the value its last save meant   *)
(* it to have, except where a process that had loaded the file before wrote *)
(* its old value back.                                                      *)
LastSaveStands ==
  \A f \in Sealed \ mixed : \A x \in FieldsOf(f) \ lost :
    meant[x] # Unset => Whole(file[f]) /\ file[f].data[x] = meant[x]

(* "To end early: [...] Run flashaccess session end": a session the command *)
(* has ended is not active in the store.                                    *)
EndedStaysEnded ==
  Whole(file["sessions"]) => \A s \in said : file["sessions"].data[s] # "active"
=============================================================================
