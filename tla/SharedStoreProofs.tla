-------------------------- MODULE SharedStoreProofs --------------------------
(***************************************************************************)
(* Proofs about SharedStore, for every set of goroutines, sessions and      *)
(* keys, however many processes are run and calls fail.                     *)
(***************************************************************************)
EXTENDS SharedStore, TLAPS

Kinds == {"key"} \cup Sealed
Wants == {"ask", "create", "fill", "have"}
Hands == {"none", "tmp", "file", "gone"}

USE DEF who

(* What every variable is a function of, and which of its values go with    *)
(* which step of a process.                                                 *)
StoreShape ==
  /\ dir \in BOOLEAN
  /\ file \in [Kinds -> Contents \cup Keys] /\ tmp \in [Sealed -> Contents]
  /\ file["key"] \in Keys \cup {Missing, Empty} /\ \A f \in Sealed : file[f] \in Contents
  /\ fd \in [Procs -> Hands]
  /\ cmd \in [Procs -> Commands] /\ step \in [Procs -> StepNames]
  /\ want \in [Procs -> Wants] /\ own \in [Procs -> Keys \cup {Missing}]
  /\ hold \in [Procs -> Contents] /\ mem \in [Procs -> [Fields -> Values]]
  /\ changed \in [Procs -> SUBSET Fields] /\ late \in [Procs -> SUBSET Fields]
  /\ reports \in [Procs -> SUBSET Sids]
  /\ drawn \subseteq Keys /\ used \subseteq Sids /\ said \subseteq Sids
  /\ meant \in [Fields -> Values] /\ lost \subseteq Fields
  /\ host \in [Procs -> Procs] /\ others \in [Procs -> 0..MaxOthers]
  /\ runs \in 0..MaxRuns

Control ==
  \A p \in Procs :
    /\ want[p] # "ask" => NeedsKey(p) /\ own[p] \in Keys
    /\ changed[p] \subseteq FieldsOf(Target(p))
    /\ step[p] = "off" => changed[p] = {}
    /\ step[p] \in {"loadAll", "decrypt"} => cmd[p] \in SessionCommands
    /\ step[p] = "wipe" => cmd[p] = "connect"

TypeInv == StoreShape /\ Control

-----------------------------------------------------------------------------
(* The goroutines that move in a step; what the others have in hand stays   *)
(* with them.                                                               *)
Moves(P) ==
  \A q \in Procs \ P :
    /\ step'[q] = step[q] /\ want'[q] = want[q] /\ own'[q] = own[q] /\ cmd'[q] = cmd[q]
    /\ hold'[q] = hold[q] /\ mem'[q] = mem[q] /\ changed'[q] = changed[q]

LEMMA ControlKept ==
  ASSUME NEW P \in SUBSET Procs, Control, Moves(P),
         \A p \in P : /\ want'[p] # "ask" => step'[p] \in {"load", "decrypt", "seal"} /\ own'[p] \in Keys
                      /\ changed'[p] \subseteq FieldsOf(Target(p)')
                      /\ step'[p] = "off" => changed'[p] = {}
                      /\ step'[p] \in {"loadAll", "decrypt"} => cmd'[p] \in SessionCommands
                      /\ step'[p] = "wipe" => cmd'[p] = "connect"
  PROVE  Control'
<1> SUFFICES ASSUME NEW q \in Procs
    PROVE  (/\ want[q] # "ask" => NeedsKey(q) /\ own[q] \in Keys
            /\ changed[q] \subseteq FieldsOf(Target(q))
            /\ step[q] = "off" => changed[q] = {}
            /\ step[q] \in {"loadAll", "decrypt"} => cmd[q] \in SessionCommands
            /\ step[q] = "wipe" => cmd[q] = "connect")'
  BY DEF Control
<1>1. CASE q \in P BY <1>1 DEF NeedsKey
<1>2. CASE q \notin P
  <2>1. Target(q)' = Target(q) BY <1>2 DEF Moves, Target
  <2> QED BY <1>2, <2>1 DEF Control, Moves, NeedsKey
<1> QED BY <1>1, <1>2

LEMMA OneMoves ==
  ASSUME NEW p \in Procs, Control, Moves({p}),
         want'[p] # "ask" => step'[p] \in {"load", "decrypt", "seal"} /\ own'[p] \in Keys,
         changed'[p] \subseteq FieldsOf(Target(p)'),
         step'[p] = "off" => changed'[p] = {},
         step'[p] \in {"loadAll", "decrypt"} => cmd'[p] \in SessionCommands,
         step'[p] = "wipe" => cmd'[p] = "connect"
  PROVE  Control'
<1> DEFINE P == {p}
<1>1. P \in SUBSET Procs OBVIOUS
<1>2. Moves(P) OBVIOUS
<1> QED BY <1>1, <1>2, ControlKept

LEMMA FieldTypes ==
  /\ Options \subseteq Fields /\ Sids \subseteq Fields /\ Options \cap Sids = {}
  /\ \A f \in Sealed : FieldsOf(f) \subseteq Fields
  /\ Blank \in [Fields -> Values]
  /\ \A p \in Procs : Target(p) \in Sealed
BY StoreAssumption DEF Options, Fields, FieldsOf, Sealed, Blank, Values, Target

LEMMA WholeIsBox ==
  /\ \A c \in Contents : Whole(c) => c \in Box
  /\ \A c \in Box : Whole(c) /\ c.key \in Keys /\ c.data \in [Fields -> Values]
BY ContentsAssumption DEF Contents, Whole, Box

LEMMA TypeInit == StoreInit => TypeInv
<1> SUFFICES ASSUME StoreInit PROVE TypeInv OBVIOUS
<1> USE StoreAssumption, FieldTypes DEF StoreInit
<1> DEFINE First == dir = FALSE /\ drawn = {} /\ used = {} /\ file = [f \in Kinds |-> Missing]
           Later(k, S, m) ==
             /\ dir = TRUE /\ drawn = {k} /\ used = S
             /\ file = [f \in Kinds |->
                  CASE f = "key"    -> k
                    [] f = "config" -> [key |-> k, data |-> [Blank EXCEPT !["mode"] = m]]
                    [] OTHER -> IF S = {} THEN Missing
                                ELSE [key |-> k, data |-> [x \in Fields |->
                                        IF x \in S THEN "active" ELSE Blank[x]]]]
           Found == /\ file \in [Kinds -> Contents \cup Keys]
                    /\ file["key"] \in Keys \cup {Missing, Empty}
                    /\ \A f \in Sealed : file[f] \in Contents
                    /\ dir \in BOOLEAN /\ drawn \subseteq Keys /\ used \subseteq Sids
<1>1. Found
  <2>1. CASE First BY <2>1 DEF Kinds, Sealed, Contents
  <2>2. ASSUME NEW k \in Keys, NEW S \in SUBSET Sids, NEW m \in Modes, Later(k, S, m)
        PROVE  Found
    <3>1. [key |-> k, data |-> [Blank EXCEPT !["mode"] = m]] \in Contents
      <4>1. [Blank EXCEPT !["mode"] = m] \in [Fields -> Values] BY DEF Values, Options
      <4> QED BY <4>1 DEF Contents, Box
    <3>2. [key |-> k, data |-> [x \in Fields |-> IF x \in S THEN "active" ELSE Blank[x]]] \in Contents
      BY DEF Contents, Box, Values
    <3>3. Missing \in Contents BY DEF Contents
    <3> QED BY <2>2, <3>1, <3>2, <3>3 DEF Kinds, Sealed
  <2>3. First \/ \E k \in Keys, S \in SUBSET Sids, m \in Modes : Later(k, S, m) BY DEF Kinds
  <2> HIDE DEF First, Later, Found
  <2> QED BY <2>1, <2>2, <2>3
<1>2. StoreShape
  BY <1>1 DEF StoreShape, Hands, Commands, SessionCommands, StepNames, Wants, Contents, Values
<1>3. Control BY <1>2 DEF Control, StoreShape
<1> QED BY <1>2, <1>3 DEF TypeInv

(* Running, stopping and the key.                                           *)
LEMMA TypeClear ==
  ASSUME NEW p \in Procs, TypeInv, NEW next \in {"off", "frozen"}, Clear(p, next)
  PROVE  /\ cmd' \in [Procs -> Commands] /\ step' \in [Procs -> StepNames]
         /\ want' \in [Procs -> Wants] /\ own' \in [Procs -> Keys \cup {Missing}]
         /\ hold' \in [Procs -> Contents] /\ mem' \in [Procs -> [Fields -> Values]]
         /\ changed' \in [Procs -> SUBSET Fields] /\ reports' \in [Procs -> SUBSET Sids]
         /\ host' \in [Procs -> Procs] /\ others' \in [Procs -> 0..MaxOthers]
         /\ drawn' \subseteq Keys /\ used' \subseteq Sids
         /\ Gone(p, next) \in SUBSET Procs /\ p \in Gone(p, next) /\ Moves(Gone(p, next))
         /\ \A q \in Gone(p, next) : step'[q] = next /\ want'[q] = "ask"
         /\ Control'
<1> USE DEF TypeInv
<1>1. Gone(p, next) \in SUBSET Procs /\ p \in Gone(p, next) BY DEF Gone, Crew
<1> DEFINE P == Gone(p, next)
<1>2. /\ own'     = [q \in Procs |-> IF q \in P THEN Missing ELSE own[q]]
      /\ hold'    = [q \in Procs |-> IF q \in P THEN Missing ELSE hold[q]]
      /\ mem'     = [q \in Procs |-> IF q \in P THEN Blank ELSE mem[q]]
      /\ changed' = [q \in Procs |-> IF q \in P THEN {} ELSE changed[q]]
      /\ others'  = [q \in Procs |-> IF q \in P THEN 0 ELSE others[q]]
      /\ reports' = [q \in Procs |-> IF q \in P THEN {} ELSE reports[q]]
      /\ cmd'     = [q \in Procs |-> IF q \in P THEN "serve" ELSE cmd[q]]
      /\ step'    = [q \in Procs |-> IF q \in P THEN next ELSE step[q]]
      /\ want'    = [q \in Procs |-> IF q \in P THEN "ask" ELSE want[q]]
      /\ host' = host \/ host' = [q \in Procs |-> IF q \in Crew(p) THEN q ELSE host[q]]
      /\ UNCHANGED <<drawn, used>>
  BY DEF Clear
<1> HIDE DEF P
<1>3. /\ cmd' \in [Procs -> Commands] /\ step' \in [Procs -> StepNames]
      /\ want' \in [Procs -> Wants] /\ own' \in [Procs -> Keys \cup {Missing}]
  BY <1>2 DEF StoreShape, StepNames, Wants, Commands, SessionCommands
<1>4. hold' \in [Procs -> Contents] /\ mem' \in [Procs -> [Fields -> Values]]
  BY <1>2, FieldTypes DEF StoreShape, Contents
<1>5. /\ changed' \in [Procs -> SUBSET Fields] /\ reports' \in [Procs -> SUBSET Sids]
      /\ host' \in [Procs -> Procs] /\ drawn' \subseteq Keys /\ used' \subseteq Sids
  BY <1>2 DEF StoreShape
<1>10. others' \in [Procs -> 0..MaxOthers]
  <2>1. 0 \in 0..MaxOthers BY StoreAssumption
  <2> QED BY <1>2, <2>1 DEF StoreShape
<1>6. Moves(P) BY <1>2 DEF Moves, StoreShape
<1>7. P \in SUBSET Procs /\ p \in P BY <1>1 DEF P
<1>8. \A q \in P : changed'[q] = {} /\ step'[q] = next /\ want'[q] = "ask" BY <1>2, <1>7
<1>9. Control' BY <1>6, <1>7, <1>8, ControlKept
<1> QED BY <1>3, <1>4, <1>5, <1>6, <1>7, <1>8, <1>9, <1>10 DEF P

LEMMA TypeStart ==
  ASSUME NEW p \in Procs, TypeInv, NEW c \in Commands, Start(p, c)
  PROVE  StoreShape' /\ Control' /\ Moves({p})
<1> USE DEF TypeInv, Start, Go, disk, view, Past
<1>2. StoreShape' BY StoreAssumption DEF StoreShape, StepNames, Wants
<1>3. Moves({p}) BY DEF StoreShape, Moves
<1>4. changed'[p] = {} /\ step'[p] = "load" /\ want'[p] = "ask"
  BY DEF StoreShape, Control
<1> QED BY <1>2, <1>3, <1>4, OneMoves

LEMMA TypeStop ==
  ASSUME NEW p \in Procs, TypeInv, Stop(p)
  PROVE  StoreShape' /\ Control'
<1>1. Clear(p, "off") BY DEF Stop
<1>2. fd' \in [Procs -> Hands] /\ late' \in [Procs -> SUBSET Fields]
  BY DEF Stop, TypeInv, StoreShape, Hands
<1>3. UNCHANGED <<dir, file, tmp, said, meant, lost, runs>> BY DEF Stop, Past
<1>4. StoreShape' BY <1>1, <1>2, <1>3, TypeClear DEF TypeInv, StoreShape
<1> QED BY <1>1, <1>4, TypeClear

LEMMA TypeKey ==
  ASSUME NEW p \in Procs, TypeInv, ReadKey(p) \/ CreateKey(p) \/ FillKey(p)
  PROVE  StoreShape' /\ Control' /\ Moves({p})
<1> USE DEF TypeInv
<1>1. CASE ReadKey(p)
  <2> USE <1>1 DEF ReadKey, disk, view, Past
  <2>1. want'[p] # "ask" /\ own'[p] \in Keys BY DEF StoreShape
  <2>3. /\ want' \in [Procs -> Wants] /\ own' \in [Procs -> Keys \cup {Missing}]
        /\ drawn' \subseteq Keys
    <3>1. PICK k \in Keys : own' = [own EXCEPT ![p] = k] OBVIOUS
    <3>2. PICK w \in Wants : want' = [want EXCEPT ![p] = w] BY DEF Wants
    <3>3. drawn' \subseteq Keys BY DEF StoreShape
    <3> QED BY <3>1, <3>2, <3>3 DEF StoreShape
  <2>4. StoreShape' BY <2>3 DEF StoreShape
  <2>2. Moves({p}) BY DEF StoreShape, Moves
  <2> QED BY <2>1, <2>2, <2>4, OneMoves DEF Control, NeedsKey, Target
<1>2. CASE CreateKey(p)
  <2> USE <1>2 DEF CreateKey, view, Past
  <2>1. StoreShape' BY DEF StoreShape, Wants, Hands, Kinds, Sealed, Contents
  <2>2. Moves({p}) BY DEF StoreShape, Moves
  <2>3. NeedsKey(p) /\ own[p] \in Keys BY DEF Control
  <2> QED BY <2>1, <2>2, <2>3, OneMoves DEF Control, NeedsKey, Target
<1>3. CASE FillKey(p)
  <2> USE <1>3 DEF FillKey, view, Past
  <2>1. NeedsKey(p) /\ own[p] \in Keys BY DEF Control
  <2>2. StoreShape' BY <2>1 DEF StoreShape, Wants, Hands, Kinds, Sealed
  <2>3. Moves({p}) BY DEF StoreShape, Moves
  <2> QED BY <2>1, <2>2, <2>3, OneMoves DEF Control, NeedsKey, Target
<1> QED BY <1>1, <1>2, <1>3

(* Loading.                                                                 *)
LEMMA TypeLoad ==
  ASSUME NEW p \in Procs, TypeInv, Load(p) \/ ConnectLoads(p) \/ LoadAll(p) \/ Decrypt(p)
  PROVE  StoreShape' /\ Control' /\ Moves({p})
<1> USE DEF TypeInv
<1>1. StoreShape'
  <2>1. CASE Load(p)
    <3> DEFINE view1 == [x \in Fields |-> IF x \in Options /\ cmd[p] = "mode"
                                         THEN file["config"].data[x] ELSE mem[p][x]]
    <3>1. file["config"].data \in [Fields -> Values]
      BY <2>1, WholeIsBox DEF Load, OpensWith, StoreShape, Sealed
    <3>2. view1 \in [Fields -> Values] BY <3>1 DEF StoreShape
    <3>3. mem' = [mem EXCEPT ![p] = view1] BY <2>1 DEF Load
    <3> HIDE DEF view1
    <3> QED BY <2>1, <3>2, <3>3 DEF Load, Go, disk, Past, StoreShape, StepNames, Wants
  <2>2. CASE ConnectLoads(p)
    BY <2>2 DEF ConnectLoads, Go, disk, view, Past, StoreShape, StepNames, Wants
  <2>3. CASE LoadAll(p)
    BY <2>3 DEF LoadAll, Go, disk, view, Past, StoreShape, StepNames, Wants, Sealed
  <2>4. CASE Decrypt(p)
    <3> DEFINE view1 == [x \in Fields |-> IF x \in Sids THEN hold[p].data[x] ELSE mem[p][x]]
    <3>1. hold[p].data \in [Fields -> Values]
      BY <2>4, WholeIsBox DEF Decrypt, OpensWith, StoreShape
    <3>2. view1 \in [Fields -> Values] BY <3>1 DEF StoreShape
    <3>3. mem' = [mem EXCEPT ![p] = view1] BY <2>4 DEF Decrypt
    <3> HIDE DEF view1
    <3>4. hold' \in [Procs -> Contents] BY <2>4 DEF Decrypt, StoreShape, Contents
    <3> QED BY <2>4, <3>2, <3>3, <3>4 DEF Decrypt, Go, disk, Past, StoreShape, StepNames, Wants
  <2> QED BY <2>1, <2>2, <2>3, <2>4
<1>2. /\ want'[p] = "ask" /\ UNCHANGED <<cmd, changed>>
      /\ step'[p] \in {"run", "loadAll", "wipe", "decrypt"}
      /\ step'[p] \in {"loadAll", "decrypt"} => cmd[p] \in SessionCommands
      /\ step'[p] = "wipe" => cmd[p] = "connect"
  <2>1. CASE Load(p)
    BY <2>1 DEF Load, Go, StoreShape, Commands, SessionCommands
  <2>2. CASE ConnectLoads(p) BY <2>2 DEF ConnectLoads, Go, StoreShape, view
  <2>3. CASE LoadAll(p) BY <2>3 DEF LoadAll, Go, StoreShape, Control, view
  <2>4. CASE Decrypt(p) BY <2>4 DEF Decrypt, Go, StoreShape
  <2> QED BY <2>1, <2>2, <2>3, <2>4
<1>3. Moves({p})
  BY DEF Load, ConnectLoads, LoadAll, Decrypt, Go, view, StoreShape, Moves
<1>4. changed'[p] \subseteq FieldsOf(Target(p)') BY <1>2 DEF Control, Target
<1> QED BY <1>1, <1>2, <1>3, <1>4, OneMoves

LEMMA TypeWipe ==
  ASSUME NEW p \in Procs, TypeInv, Wipe(p)
  PROVE  StoreShape' /\ Control' /\ Moves({p})
<1> USE DEF TypeInv
<1>1. /\ UNCHANGED <<who, own, drawn, hold, view, said, lost, late, runs>>
      /\ step[p] = "wipe"
      /\ UNCHANGED <<step, want>> \/ Go(p, "run")
  BY DEF Wipe
<1>2. \A f \in Kinds, place \in Hands : Unlinked(f, place) \in [Procs -> Hands]
  BY DEF Unlinked, Hands, StoreShape
<1>3. /\ dir' \in BOOLEAN /\ file' \in [Kinds -> Contents \cup Keys]
      /\ tmp' \in [Sealed -> Contents] /\ file'["key"] \in Keys \cup {Missing, Empty}
      /\ \A f \in Sealed : file'[f] \in Contents
      /\ fd' \in [Procs -> Hands] /\ meant' \in [Fields -> Values]
  <2>1. ASSUME NEW f \in Kinds, file' = [file EXCEPT ![f] = Missing],
               fd' = Unlinked(f, "file"), UNCHANGED <<dir, tmp>>,
               meant' = [x \in Fields |-> IF x \in FieldsOf(f) /\ f # "key" THEN Unset ELSE meant[x]]
        PROVE  /\ dir' \in BOOLEAN /\ file' \in [Kinds -> Contents \cup Keys]
               /\ tmp' \in [Sealed -> Contents] /\ file'["key"] \in Keys \cup {Missing, Empty}
               /\ \A g \in Sealed : file'[g] \in Contents
               /\ fd' \in [Procs -> Hands] /\ meant' \in [Fields -> Values]
    BY <1>2, <2>1 DEF StoreShape, Contents, Values, Hands, Kinds, Sealed
  <2>2. ASSUME NEW f \in Sealed, tmp' = [tmp EXCEPT ![f] = Missing],
               fd' = Unlinked(f, "tmp"), UNCHANGED <<dir, file, meant>>
        PROVE  tmp' \in [Sealed -> Contents] /\ fd' \in [Procs -> Hands]
    BY <1>2, <2>2 DEF StoreShape, Contents, Hands, Kinds
  <2>3. CASE dir' = FALSE /\ UNCHANGED <<file, tmp, fd, meant>> BY <2>3 DEF StoreShape
  <2> QED BY <2>1, <2>2, <2>3 DEF Wipe, Kinds, StoreShape
<1>4. step' \in [Procs -> StepNames] /\ want' \in [Procs -> Wants]
  BY <1>1 DEF StoreShape, Go, StepNames, Wants
<1>5. StoreShape' BY <1>1, <1>3, <1>4 DEF StoreShape, view
<1>6. Moves({p}) BY <1>1 DEF Moves, StoreShape, Go, view
<1>7. want[p] = "ask" BY <1>1 DEF Control, NeedsKey, StoreShape
<1>8. want'[p] = "ask" /\ step'[p] \in {"wipe", "run"} BY <1>1, <1>7 DEF Go, StoreShape
<1>9. changed' = changed /\ cmd' = cmd /\ Target(p)' = Target(p) BY <1>1 DEF view, Target
<1> QED BY <1>1, <1>5, <1>6, <1>8, <1>9, OneMoves DEF Control

(* The changes a process makes in its own memory.                           *)
LEMMA Changes ==
  ASSUME NEW p \in Procs, TypeInv,
         SessionNew(p) \/ SessionEnd(p) \/ Reap(p) \/ ModeSet(p) \/ Connect(p)
  PROVE  \E fields \in SUBSET FieldsOf(Target(p)), value \in [Fields -> Values],
            report \in SUBSET Sids :
           /\ Change(p, fields, value, report)
           /\ CanChange(p) /\ (cmd[p] = "connect" => fields = Options)
<1> USE DEF TypeInv, FieldsOf, Target
<1> DEFINE Made == \E fields \in SUBSET FieldsOf(Target(p)), value \in [Fields -> Values],
                      report \in SUBSET Sids :
                     /\ Change(p, fields, value, report)
                     /\ CanChange(p) /\ (cmd[p] = "connect" => fields = Options)
<1>1. ASSUME NEW fields \in SUBSET FieldsOf(Target(p)), NEW some, NEW value \in [Fields -> Values],
             NEW report \in SUBSET Sids,
             \A x \in fields : some[x] = value[x],
             Change(p, fields, some, report), CanChange(p),
             cmd[p] = "connect" => fields = Options
      PROVE  Made
  <2>1. [x \in Fields |-> IF x \in fields THEN some[x] ELSE mem[p][x]]
          = [x \in Fields |-> IF x \in fields THEN value[x] ELSE mem[p][x]]
    BY <1>1
  <2>2. Change(p, fields, value, report) BY <1>1, <2>1 DEF Change
  <2> QED BY <1>1, <2>2
<1> SUFFICES Made OBVIOUS
<1> HIDE DEF Made
<1>2. CASE SessionNew(p) \/ SessionEnd(p)
  <2>1. PICK s \in Sids, v \in {"active", "ended"} :
          Change(p, {s}, [x \in {s} |-> v], Report(p, s)) /\ CanChange(p)
          /\ cmd[p] \in SessionCommands
    BY <1>2 DEF SessionNew, SessionEnd, SessionCommands
  <2> DEFINE value == [x \in Fields |-> v]  some == [x \in {s} |-> v]
  <2>2. value \in [Fields -> Values] /\ \A x \in {s} : some[x] = value[x]
    BY FieldTypes DEF Values
  <2>3. Report(p, s) \in SUBSET Sids BY DEF Report
  <2>4. {s} \in SUBSET FieldsOf(Target(p)) /\ cmd[p] # "connect"
    BY <2>1 DEF SessionCommands
  <2>5. Change(p, {s}, some, Report(p, s)) BY <2>1
  <2> HIDE DEF value, some
  <2> QED BY <1>1, <2>1, <2>2, <2>3, <2>4, <2>5
<1>3. CASE Reap(p)
  <2>1. PICK S \in SUBSET Sids :
          Change(p, S, [x \in S |-> "ended"], {}) /\ CanChange(p) /\ cmd[p] \in SessionCommands
    BY <1>3 DEF Reap
  <2> DEFINE value == [x \in Fields |-> "ended"]  some == [x \in S |-> "ended"]
  <2>2. value \in [Fields -> Values] /\ \A x \in S : some[x] = value[x]
    BY FieldTypes DEF Values
  <2>4. S \in SUBSET FieldsOf(Target(p)) /\ cmd[p] # "connect"
    BY <2>1 DEF SessionCommands
  <2>5. Change(p, S, some, {}) BY <2>1
  <2> HIDE DEF value, some
  <2> QED BY <1>1, <2>1, <2>2, <2>4, <2>5
<1>4. CASE ModeSet(p)
  <2>1. PICK m \in Modes : Change(p, {"mode"}, [x \in {"mode"} |-> m], {})
    BY <1>4 DEF ModeSet
  <2> DEFINE value == [x \in Fields |-> m]  some == [x \in {"mode"} |-> m]
  <2>2. value \in [Fields -> Values] /\ \A x \in {"mode"} : some[x] = value[x]
    BY FieldTypes DEF Values, Options
  <2>3. cmd[p] = "mode" /\ CanChange(p) BY <1>4 DEF ModeSet, CanChange
  <2>4. {"mode"} \in SUBSET FieldsOf(Target(p))
    BY <2>3 DEF SessionCommands, Options, Fields
  <2>5. Change(p, {"mode"}, some, {}) BY <2>1
  <2> HIDE DEF value, some
  <2> QED BY <1>1, <2>2, <2>3, <2>4, <2>5
<1>5. CASE Connect(p)
  <2>1. PICK m \in Modes : Change(p, Options, [x \in Options |-> IF x = "mode" THEN m ELSE p], {})
    BY <1>5 DEF Connect
  <2> DEFINE value == [x \in Fields |-> IF x = "mode" THEN m ELSE p]
             some == [x \in Options |-> IF x = "mode" THEN m ELSE p]
  <2>2. value \in [Fields -> Values] /\ \A x \in Options : some[x] = value[x]
    BY FieldTypes DEF Values
  <2>3. cmd[p] = "connect" /\ CanChange(p) BY <1>5 DEF Connect, CanChange
  <2>4. Options \in SUBSET FieldsOf(Target(p))
    BY <2>3 DEF SessionCommands, Options, Fields
  <2>5. Change(p, Options, some, {}) BY <2>1
  <2> HIDE DEF value, some
  <2> QED BY <1>1, <2>2, <2>3, <2>4, <2>5
<1> QED BY <1>2, <1>3, <1>4, <1>5

LEMMA TypeChange ==
  ASSUME NEW p \in Procs, TypeInv,
         SessionNew(p) \/ SessionEnd(p) \/ Reap(p) \/ ModeSet(p) \/ Connect(p)
  PROVE  StoreShape' /\ Control' /\ Moves({p})
<1> USE DEF TypeInv
<1>1. PICK fields \in SUBSET FieldsOf(Target(p)), value \in [Fields -> Values],
            report \in SUBSET Sids : Change(p, fields, value, report)
  BY Changes
<1>2. fields \subseteq Fields BY FieldTypes
<1>3. used' \subseteq Sids
  BY DEF SessionNew, SessionEnd, Reap, ModeSet, Connect, StoreShape
<1> DEFINE view1 == [x \in Fields |-> IF x \in fields THEN value[x] ELSE mem[p][x]]
<1>4. view1 \in [Fields -> Values] BY DEF StoreShape
<1>5. mem' = [mem EXCEPT ![p] = view1] BY <1>1 DEF Change
<1> HIDE DEF view1
<1>10. others' \in [Procs -> 0..MaxOthers]
  <2> DEFINE n == IF step[p] = "seal" /\ others[p] < MaxOthers THEN others[p] + 1 ELSE others[p]
  <2>1. others[p] \in 0..MaxOthers /\ MaxOthers \in Nat BY StoreAssumption DEF StoreShape
  <2>2. n \in 0..MaxOthers BY <2>1
  <2>3. others' = [others EXCEPT ![p] = n] BY <1>1 DEF Change
  <2> HIDE DEF n
  <2> QED BY <2>2, <2>3 DEF StoreShape
<1>6. StoreShape'
  BY <1>1, <1>2, <1>3, <1>4, <1>5, <1>10 DEF Change, Go, disk, Past, StoreShape, StepNames, Wants
<1>7. Moves({p}) BY <1>1 DEF Change, Go, StoreShape, Moves
<1>8. step'[p] = "seal" /\ want'[p] = "ask" /\ changed'[p] = changed[p] \cup fields /\ cmd' = cmd
  BY <1>1 DEF Change, Go, StoreShape
<1>9. changed'[p] \subseteq FieldsOf(Target(p)') BY <1>8 DEF Control, Target
<1> QED BY <1>6, <1>7, <1>8, <1>9, OneMoves

(* Saving.                                                                  *)
LEMMA TypeSeal ==
  ASSUME NEW p \in Procs, TypeInv, Seal(p)
  PROVE  StoreShape' /\ Control' /\ Moves({p})
<1> DEFINE box == [key |-> own[p], data |->
                     [x \in Fields |-> IF x \in FieldsOf(Target(p)) THEN mem[p][x] ELSE Blank[x]]]
<1> USE DEF TypeInv
<1>1. box \in Contents
  <2>1. own[p] \in Keys BY DEF Seal, Control
  <2> QED BY <2>1, FieldTypes DEF StoreShape, Contents, Box
<1>2. hold' = [hold EXCEPT ![p] = box] BY DEF Seal
<1> HIDE DEF box
<1>3. dir' \in BOOLEAN BY DEF Seal, StoreShape
<1>8. step' \in [Procs -> StepNames] /\ want' \in [Procs -> Wants]
  BY DEF Seal, Go, StoreShape, StepNames, Wants
<1>9. hold' \in [Procs -> Contents] BY <1>1, <1>2 DEF StoreShape
<1>10. UNCHANGED <<file, tmp, fd, cmd, host, own, drawn, view, Past, late, runs>> BY DEF Seal
<1>4. StoreShape' BY <1>3, <1>8, <1>9, <1>10 DEF view, Past, StoreShape
<1>5. Moves({p}) BY <1>2 DEF Seal, Go, view, Past, StoreShape, Moves
<1>6. step'[p] = "open" /\ want'[p] = "ask" /\ UNCHANGED <<cmd, changed>>
  BY DEF Seal, Go, view, StoreShape
<1>7. changed'[p] \subseteq FieldsOf(Target(p)') BY <1>6 DEF Control, Target
<1> QED BY <1>4, <1>5, <1>6, <1>7, OneMoves

LEMMA TypeOpen ==
  ASSUME NEW p \in Procs, TypeInv, Open(p) \/ Write(p)
  PROVE  StoreShape' /\ Control' /\ Moves({p})
<1> DEFINE f == Target(p)
<1> USE DEF TypeInv
<1>1. f \in Sealed BY FieldTypes
<1>2. /\ file' \in [Kinds -> Contents \cup Keys] /\ tmp' \in [Sealed -> Contents]
      /\ file'["key"] = file["key"] /\ \A g \in Sealed : file'[g] \in Contents
      /\ fd' \in [Procs -> Hands]
  <2>1. CASE Open(p)
    BY <2>1, <1>1 DEF Open, StoreShape, Hands, Contents
  <2>2. CASE Write(p)
    <3>1. \A old : Over(old, hold[p]) \subseteq Contents BY DEF Over, StoreShape, Contents
    <3>2. fd' \in [Procs -> Hands] BY <2>2 DEF Write, StoreShape, Hands
    <3> HIDE DEF f
    <3>3. CASE \E c \in Contents : tmp' = [tmp EXCEPT ![f] = c] /\ UNCHANGED file
      BY <1>1, <3>2, <3>3 DEF StoreShape
    <3>4. CASE \E c \in Contents : file' = [file EXCEPT ![f] = c] /\ UNCHANGED tmp
      BY <1>1, <3>2, <3>4 DEF StoreShape, Kinds, Sealed
    <3>5. CASE UNCHANGED <<tmp, file>> BY <3>2, <3>5 DEF StoreShape
    <3> QED BY <2>2, <3>1, <3>3, <3>4, <3>5 DEF Write, f
  <2> QED BY <2>1, <2>2
<1>3. PICK next \in {"write", "rename"} : Go(p, next) BY DEF Open, Write
<1>4. /\ UNCHANGED <<dir, who, own, drawn, view, Past, late, runs>>
      /\ hold' \in [Procs -> Contents] /\ \A q \in Procs \ {p} : hold'[q] = hold[q]
  BY DEF Open, Write, StoreShape, Contents
<1>5. step' \in [Procs -> StepNames] /\ want' \in [Procs -> Wants]
      /\ step'[p] \in {"write", "rename"} /\ want'[p] = "ask"
  BY <1>3 DEF Go, StoreShape, StepNames, Wants
<1>6. StoreShape' BY <1>2, <1>4, <1>5 DEF view, Past, StoreShape
<1>7. Moves({p}) BY <1>3, <1>4 DEF Go, view, StoreShape, Moves
<1>8. changed'[p] \subseteq FieldsOf(Target(p)') BY <1>4 DEF Control, Target, view
<1> QED BY <1>5, <1>6, <1>7, <1>8, OneMoves

LEMMA TypeSaveToo ==
  ASSUME NEW p \in Procs, NEW q \in Procs, TypeInv, SaveToo(p, q)
  PROVE  StoreShape' /\ Control' /\ Moves({q}) /\ p # q
<1> USE DEF TypeInv
<1>1. p # q BY DEF SaveToo, Copied
<1>2. StoreShape'
  <2>1. others' \in [Procs -> 0..MaxOthers]
    <3>1. others[p] \in 0..MaxOthers /\ others[p] > 0 BY DEF SaveToo, StoreShape
    <3>2. others[p] - 1 \in 0..MaxOthers BY <3>1, StoreAssumption
    <3> QED BY <3>2 DEF SaveToo, StoreShape
  <2>2. reports' \in [Procs -> SUBSET Sids] BY DEF SaveToo, StoreShape
  <2>3. step' \in [Procs -> StepNames] /\ want' \in [Procs -> Wants]
    BY DEF SaveToo, Go, StoreShape, StepNames, Wants
  <2>4. /\ cmd' \in [Procs -> Commands] /\ host' \in [Procs -> Procs]
        /\ mem' \in [Procs -> [Fields -> Values]] /\ changed' \in [Procs -> SUBSET Fields]
        /\ late' \in [Procs -> SUBSET Fields]
    BY DEF SaveToo, StoreShape
  <2>5. UNCHANGED <<dir, file, tmp, fd, own, drawn, hold, used, said, meant, lost, runs>>
    BY DEF SaveToo, disk, Past
  <2> QED BY <2>1, <2>2, <2>3, <2>4, <2>5 DEF StoreShape
<1>3. Moves({q}) BY DEF SaveToo, Go, StoreShape, Moves
<1>4. step'[q] = "seal" /\ want'[q] = "ask" /\ changed'[q] = changed[p] /\ cmd'[q] = cmd[p]
  BY DEF SaveToo, Go, StoreShape
<1>5. changed'[q] \subseteq FieldsOf(Target(q)') BY <1>4 DEF Control, Target
<1> QED BY <1>1, <1>2, <1>3, <1>4, <1>5, OneMoves

LEMMA TypeRename ==
  ASSUME NEW p \in Procs, TypeInv, Rename(p)
  PROVE  StoreShape' /\ Control'
<1> DEFINE f == Target(p)
<1> USE DEF TypeInv
<1>1. f \in Sealed /\ Saved(p) \in {"off", "frozen"} BY FieldTypes DEF Saved
<1>2. Clear(p, Saved(p)) BY DEF Rename
<1>3. /\ file' \in [Kinds -> Contents \cup Keys] /\ tmp' \in [Sealed -> Contents]
      /\ file'["key"] = file["key"] /\ \A g \in Sealed : file'[g] \in Contents
  BY <1>1 DEF Rename, StoreShape, Contents, Kinds, Sealed
<1>4. fd' \in [Procs -> Hands] BY DEF Rename, StoreShape, Hands
<1>5. meant' \in [Fields -> Values] BY DEF Rename, StoreShape
<1>6. lost' \subseteq Fields /\ said' \subseteq Sids BY DEF Rename, StoreShape
<1>7. late' \in [Procs -> SUBSET Fields] BY DEF Rename, StoreShape
<1>8. UNCHANGED <<dir, runs>> BY DEF Rename
<1>9. StoreShape'
  BY <1>1, <1>2, <1>3, <1>4, <1>5, <1>6, <1>7, <1>8, TypeClear DEF StoreShape
<1> QED BY <1>1, <1>2, <1>9, TypeClear

LEMMA TypeSaveFails ==
  ASSUME NEW p \in Procs, TypeInv, SaveFails(p)
  PROVE  StoreShape' /\ Control'
<1> DEFINE next == IF cmd[p] \in {"serve", "new"} \/ Saved(p) = "frozen" THEN "frozen" ELSE "off"
           f == Target(p)
<1> USE DEF TypeInv
<1>1. next \in {"off", "frozen"} /\ Clear(p, next) BY DEF SaveFails
<1>2. f \in Sealed BY FieldTypes
<1>3. /\ tmp' = tmp \/ \E c \in Contents : tmp' = [tmp EXCEPT ![f] = c]
      /\ file' = file \/ \E c \in Contents : file' = [file EXCEPT ![f] = c]
  <2>1. tmp[f] \in Contents /\ file[f] \in Contents /\ Torn \in Contents
    BY <1>2 DEF StoreShape, Contents
  <2> QED BY <2>1 DEF SaveFails
<1>4. UNCHANGED <<dir, said, meant, lost, runs>> BY DEF SaveFails, Past
<1>5. fd' \in [Procs -> Hands] /\ late' \in [Procs -> SUBSET Fields]
  BY DEF SaveFails, StoreShape, Hands
<1> HIDE DEF next, f
<1>6. /\ tmp' \in [Sealed -> Contents] /\ file' \in [Kinds -> Contents \cup Keys]
      /\ file'["key"] = file["key"] /\ \A g \in Sealed : file'[g] \in Contents
  BY <1>2, <1>3 DEF StoreShape, Kinds, Sealed
<1>7. StoreShape' BY <1>1, <1>4, <1>5, <1>6, TypeClear DEF StoreShape
<1> QED BY <1>1, <1>7, TypeClear

LEMMA TypeStep == TypeInv /\ [StoreNext]_svars => TypeInv'
<1> SUFFICES ASSUME TypeInv, [StoreNext]_svars PROVE TypeInv' OBVIOUS
<1>1. ASSUME NEW p \in Procs, StoreStep(p) PROVE TypeInv'
  BY <1>1, TypeStart, TypeStop, TypeKey, TypeLoad, TypeWipe, TypeChange, TypeSaveToo, TypeSeal,
     TypeOpen, TypeRename, TypeSaveFails DEF StoreStep, TypeInv
<1>2. CASE UNCHANGED svars
  BY <1>2 DEF svars, disk, who, keying, view, TypeInv, StoreShape, Control, NeedsKey, Target
<1> QED BY <1>1, <1>2 DEF StoreNext

LEMMA MixedFiles == StoreSpec => [](mixed \subseteq Sealed)
<1>1. StoreInit => mixed \subseteq Sealed BY DEF StoreInit
<1>2. mixed \subseteq Sealed /\ [StoreNext]_svars => (mixed \subseteq Sealed)'
  BY DEF StoreNext, svars
<1> QED BY <1>1, <1>2, PTL DEF StoreSpec

LEMMA TypesAlways == StoreSpec => []TypeInv
BY TypeInit, TypeStep, PTL DEF StoreSpec

(* Types: StoreTypeOK holds of every data directory and every set of        *)
(* processes that share it.                                                 *)
THEOREM StoreTypes == StoreSpec => []StoreTypeOK
<1>1. TypeInv /\ mixed \subseteq Sealed => StoreTypeOK
  BY DEF TypeInv, StoreShape, Control, StoreTypeOK, Hands, Wants
<1> QED BY <1>1, TypesAlways, MixedFiles, PTL

-----------------------------------------------------------------------------
(* The steps at which a process has its view of the file it will write.     *)
Active == {"run", "seal", "open", "write", "rename"}

(* A process that has the key has the one that is there, and one that makes *)
(* it is the only one to touch it.                                          *)
KeyOK(p) ==
  /\ want[p] = "have" => own[p] = file["key"]
  /\ want[p] = "create" => file["key"] = Missing
  /\ want[p] = "fill" => file["key"] = Empty /\ fd[p] = "file"
  /\ step[p] \in {"open", "write", "rename"} => file["key"] \in Keys

(* Contents c, sealed with the key that is there, are what p has in memory. *)
Sealing(c, p, f) ==
  OpensWith(c, file["key"]) /\ \A x \in FieldsOf(f) : c.data[x] = mem[p][x]

SaveOK(p, f) ==
  /\ step[p] \in {"open", "write"} => Sealing(hold[p], p, f)
  /\ step[p] = "write" => fd[p] = "tmp" /\ tmp[f] = Empty
  /\ step[p] = "rename" => Sealing(tmp[f], p, f)

(* The view of a process is as the last saves meant it, but for what it has *)
(* changed and what others have saved since it loaded.                      *)
MemOK(p, f) ==
  /\ step[p] \in Active /\ cmd[p] # "connect" =>
       \A x \in FieldsOf(f) \ (changed[p] \cup late[p] \cup lost) :
          meant[x] # Unset => mem[p][x] = meant[x]
  /\ step[p] \in Active \ {"run"} /\ cmd[p] = "connect" => changed[p] = Options
  /\ step[p] = "decrypt" /\ Whole(hold[p]) =>
       \A x \in FieldsOf(f) \ (late[p] \cup lost) :
          meant[x] # Unset => hold[p].data[x] = meant[x]

Stored(f) ==
  (\A p \in Procs : step[p] # "wipe") /\ file[f] # Missing => OpensWith(file[f], file["key"])

Stands(f) ==
  \A x \in FieldsOf(f) \ lost :
    meant[x] # Unset => Whole(file[f]) /\ file[f].data[x] = meant[x]

(* What is known of a file that no two savers have got in each other's way  *)
(* on.                                                                      *)
FileInv(f) ==
  f \notin mixed =>
    /\ ~Clash(f) /\ Stored(f) /\ Stands(f)
    /\ \A p \in Procs : KeyOK(p) /\ (Target(p) = f => SaveOK(p, f) /\ MemOK(p, f))

StoreInv == TypeInv /\ mixed \subseteq Sealed /\ \A f \in Sealed : FileInv(f)

-----------------------------------------------------------------------------
LEMMA FileInit == StoreInit => \A f \in Sealed : FileInv(f)
<1> SUFFICES ASSUME StoreInit, NEW f \in Sealed PROVE FileInv(f) OBVIOUS
<1>1. /\ \A p \in Procs : step[p] = "off" /\ want[p] = "ask"
      /\ \A x \in Fields : meant[x] = Unset
  BY DEF StoreInit
<1>2. ~Clash(f) BY <1>1 DEF Clash, AtFile, MakesKey
<1>3. Stands(f) BY <1>1, FieldTypes DEF Stands
<1>4. \A p \in Procs : KeyOK(p) /\ SaveOK(p, f) /\ MemOK(p, f)
  BY <1>1 DEF KeyOK, SaveOK, MemOK, Active
<1>5. Stored(f)
  <2>1. TypeInv BY TypeInit
  <2>2. file[f] # Missing => file[f] \in [key : {file["key"]}, data : [Fields -> Values]]
    <3>1. CASE file = [g \in Kinds |-> Missing] BY <3>1 DEF Kinds
    <3>2. ASSUME NEW k \in Keys, NEW S \in SUBSET Sids, NEW m \in Modes,
                 file = [g \in Kinds |->
                   CASE g = "key"    -> k
                     [] g = "config" -> [key |-> k, data |-> [Blank EXCEPT !["mode"] = m]]
                     [] OTHER -> IF S = {} THEN Missing
                                 ELSE [key |-> k, data |-> [x \in Fields |->
                                         IF x \in S THEN "active" ELSE Blank[x]]]]
          PROVE  file[f] # Missing => file[f] \in [key : {file["key"]}, data : [Fields -> Values]]
      <4>1. [Blank EXCEPT !["mode"] = m] \in [Fields -> Values] BY FieldTypes DEF Values
      <4>2. [x \in Fields |-> IF x \in S THEN "active" ELSE Blank[x]] \in [Fields -> Values]
        BY FieldTypes DEF Values
      <4>3. file["key"] = k BY <3>2 DEF Kinds
      <4> QED BY <3>2, <4>1, <4>2, <4>3 DEF Kinds, Sealed
    <3>3. \/ file = [g \in Kinds |-> Missing]
          \/ \E k \in Keys, S \in SUBSET Sids, m \in Modes :
               file = [g \in Kinds |->
                   CASE g = "key"    -> k
                     [] g = "config" -> [key |-> k, data |-> [Blank EXCEPT !["mode"] = m]]
                     [] OTHER -> IF S = {} THEN Missing
                                 ELSE [key |-> k, data |-> [x \in Fields |->
                                         IF x \in S THEN "active" ELSE Blank[x]]]]
      BY DEF StoreInit, Kinds
    <3> QED BY <3>1, <3>2, <3>3
  <2>3. file[f] # Missing => file[f].key = file["key"] BY <2>2
  <2>4. Whole(file[f]) <=> file[f] # Missing
    <3>1. file[f] # Missing => file["key"] \in Keys
      BY DEF StoreInit, Kinds, Sealed
    <3>2. file[f] # Missing => file[f] \in Box BY <2>2, <3>1 DEF Box
    <3> QED BY <3>2, WholeIsBox DEF Whole
  <2> QED BY <2>3, <2>4 DEF Stored, OpensWith
<1> QED BY <1>2, <1>3, <1>4, <1>5 DEF FileInv

(* What the clean state of a file says of the other processes.              *)
LEMMA NoClash ==
  ASSUME NEW p \in Procs, NEW q \in Procs, p # q, NEW f \in Sealed, ~Clash(f)
  PROVE  /\ ~(AtFile(p, f) /\ AtFile(q, f))
         /\ ~(MakesKey(p) /\ MakesKey(q))
         /\ step[p] = "wipe" => ~Busy(q)
BY DEF Clash

(* A step that leaves the key, the file and what was meant for it as they   *)
(* are: what p itself has in hand decides.                                  *)
LEMMA Frame ==
  ASSUME NEW f \in Sealed, NEW P \in SUBSET Procs, FileInv(f), f \notin mixed, ~Clash(f)', Moves(P),
         file'[f] = file[f] /\ file'["key"] = file["key"],
         \A x \in FieldsOf(f) : meant'[x] = meant[x] /\ (x \in lost => x \in lost'),
         \A q \in Procs \ P :
            /\ want[q] = "fill" \/ Target(q) = f => fd'[q] = fd[q]
            /\ step[q] \in Active \cup {"decrypt"} => late[q] \subseteq late'[q],
         tmp'[f] = tmp[f] \/ \A q \in Procs \ P : ~AtFile(q, f),
         \A p \in P : /\ step[p] = "wipe" => step'[p] = "wipe"
                      /\ KeyOK(p)' /\ (Target(p)' = f => SaveOK(p, f)' /\ MemOK(p, f)')
  PROVE  FileInv(f)'
<1>1. Stored(f)'
  <2> SUFFICES ASSUME \A q \in Procs : step'[q] # "wipe", file'[f] # Missing
               PROVE  OpensWith(file'[f], file'["key"])
    BY DEF Stored, OpensWith, Whole
  <2>1. \A q \in Procs : step[q] # "wipe" BY DEF Moves
  <2> QED BY <2>1 DEF FileInv, Stored
<1>2. Stands(f)' BY DEF FileInv, Stands, Whole
<1>3. ASSUME NEW q \in Procs, q \notin P
      PROVE  KeyOK(q)' /\ (Target(q)' = f => SaveOK(q, f)' /\ MemOK(q, f)')
  <2>1. KeyOK(q)' BY <1>3 DEF Moves, FileInv, KeyOK
  <2>2. Target(q)' = Target(q) BY <1>3 DEF Moves, Target
  <2>3. CASE Target(q) = f
    <3>1. SaveOK(q, f) /\ MemOK(q, f) BY <2>3 DEF FileInv
    <3>2. /\ step'[q] = step[q] /\ cmd'[q] = cmd[q] /\ mem'[q] = mem[q]
          /\ hold'[q] = hold[q] /\ changed'[q] = changed[q] /\ fd'[q] = fd[q]
      BY <1>3, <2>3 DEF Moves
    <3>3. SaveOK(q, f)'
      <4>1. step[q] \in {"write", "rename"} => tmp'[f] = tmp[f]
        BY <1>3, <2>3 DEF AtFile
      <4>2. step[q] \in {"open", "write"} => Sealing(hold[q], q, f)'
        BY <3>1, <3>2 DEF SaveOK, Sealing, OpensWith, Whole
      <4>3. step[q] = "rename" => Sealing(tmp[f], q, f)'
        BY <3>1, <3>2, <4>1 DEF SaveOK, Sealing, OpensWith, Whole
      <4> QED BY <3>1, <3>2, <4>1, <4>2, <4>3 DEF SaveOK
    <3>4. MemOK(q, f)'
      <4>1. step[q] \in Active \cup {"decrypt"} => late[q] \subseteq late'[q] BY <1>3
      <4> QED BY <3>1, <3>2, <4>1 DEF MemOK, Whole
    <3> QED BY <2>1, <3>3, <3>4
  <2> QED BY <2>1, <2>2, <2>3
<1> QED BY <1>1, <1>2, <1>3 DEF FileInv

LEMMA OneFrame ==
  ASSUME NEW f \in Sealed, NEW p \in Procs, FileInv(f), f \notin mixed, ~Clash(f)', Moves({p}),
         file'[f] = file[f] /\ file'["key"] = file["key"],
         \A x \in FieldsOf(f) : meant'[x] = meant[x] /\ (x \in lost => x \in lost'),
         \A q \in Procs : q # p =>
            /\ want[q] = "fill" \/ Target(q) = f => fd'[q] = fd[q]
            /\ step[q] \in Active \cup {"decrypt"} => late[q] \subseteq late'[q],
         tmp'[f] = tmp[f] \/ \A q \in Procs : q # p => ~AtFile(q, f),
         step[p] = "wipe" => step'[p] = "wipe",
         KeyOK(p)', Target(p)' = f => SaveOK(p, f)' /\ MemOK(p, f)'
  PROVE  FileInv(f)'
<1> DEFINE P == {p}
<1>1. P \in SUBSET Procs OBVIOUS
<1>2. Moves(P) OBVIOUS
<1>3. \A q \in Procs \ P : q # p OBVIOUS
<1>4. tmp'[f] = tmp[f] \/ \A q \in Procs \ P : ~AtFile(q, f) BY <1>3
<1>5. \A q \in P : q = p OBVIOUS
<1> HIDE DEF P
<1> QED BY <1>1, <1>2, <1>3, <1>4, <1>5, Frame

LEMMA FileStart ==
  ASSUME NEW f \in Sealed, NEW p \in Procs, TypeInv, FileInv(f), f \notin mixed, ~Clash(f)',
         NEW c \in Commands, Start(p, c)
  PROVE  FileInv(f)'
<1>1. Moves({p}) BY TypeStart
<1>2. step[p] = "off" /\ step'[p] = "load" /\ want'[p] = "ask"
  BY DEF Start, Go, TypeInv, StoreShape
<1>3. UNCHANGED <<file, tmp, meant, lost, fd, late>> BY DEF Start, disk, Past
<1>4. KeyOK(p)' /\ SaveOK(p, f)' /\ MemOK(p, f)'
  BY <1>2 DEF KeyOK, SaveOK, MemOK, Active
<1> QED BY <1>1, <1>2, <1>3, <1>4, OneFrame

LEMMA FileStop ==
  ASSUME NEW f \in Sealed, NEW p \in Procs, TypeInv, FileInv(f), f \notin mixed, ~Clash(f)',
         ~WipeCutShort, Stop(p)
  PROVE  FileInv(f)'
<1>1. Clear(p, "off") BY DEF Stop
<1>2. PICK P \in SUBSET Procs : P = Crew(p) BY DEF Crew
<1>3. Moves(P) /\ \A q \in P : step'[q] = "off" /\ want'[q] = "ask"
  BY <1>1, <1>2, TypeClear DEF Gone
<1>4. \A q \in P : step[q] # "wipe" BY <1>3 DEF WipeCutShort
<1>5. /\ UNCHANGED <<file, tmp, meant, lost>>
      /\ \A q \in Procs \ P : fd'[q] = fd[q] /\ late'[q] = late[q]
  BY <1>2 DEF Stop, Past
<1>6. \A q \in P : KeyOK(q)' /\ SaveOK(q, f)' /\ MemOK(q, f)'
  BY <1>3 DEF KeyOK, SaveOK, MemOK, Active
<1> QED BY <1>3, <1>4, <1>5, <1>6, Frame

LEMMA FileReadKey ==
  ASSUME NEW f \in Sealed, NEW p \in Procs, TypeInv, FileInv(f), f \notin mixed, ~Clash(f)',
         ReadKey(p)
  PROVE  FileInv(f)'
<1> USE DEF ReadKey, disk, view, Past
<1>1. Moves({p}) BY TypeKey
<1>2. /\ UNCHANGED <<file, tmp, meant, lost, fd, late, step, hold, mem, changed, cmd>>
      /\ step[p] \in {"load", "decrypt", "seal"}
  BY DEF NeedsKey
<1>3. KeyOK(p)' BY <1>2 DEF KeyOK, TypeInv, StoreShape
<1>4. Target(p)' = Target(p) BY <1>2 DEF Target
<1>5. SaveOK(p, f)' BY <1>2 DEF SaveOK
<1>6. Target(p) = f => MemOK(p, f)' BY <1>2 DEF FileInv, MemOK, Active, Whole
<1> QED BY <1>1, <1>2, <1>3, <1>4, <1>5, <1>6, OneFrame

(* While the key is made nothing can be there, and no other process has got *)
(* further than asking for it.                                              *)
LEMMA FileMakeKey ==
  ASSUME NEW f \in Sealed, NEW p \in Procs, TypeInv, FileInv(f), f \notin mixed, ~Clash(f)',
         CreateKey(p) \/ FillKey(p)
  PROVE  FileInv(f)'
<1> USE DEF CreateKey, FillKey, view, Past
<1>1. Moves({p}) BY TypeKey
<1>2. /\ UNCHANGED <<tmp, meant, lost, late, step, hold, mem, changed, cmd, own>>
      /\ step[p] \in {"load", "decrypt", "seal"} /\ MakesKey(p)
      /\ \A q \in Procs : q # p => fd'[q] = fd[q] /\ want'[q] = want[q]
  BY DEF MakesKey, TypeInv, Control, NeedsKey, StoreShape
<1>3. /\ file["key"] \in {Missing, Empty} /\ file["key"] \notin Keys /\ file'[f] = file[f]
      /\ file'["key"] # Missing
  <2>1. own[p] \in Keys /\ KeyOK(p) BY DEF TypeInv, Control, FileInv
  <2>2. file["key"] = IF want[p] = "create" THEN Missing ELSE Empty
    BY <2>1 DEF KeyOK
  <2>3. file' = [file EXCEPT !["key"] = Empty] \/ file' = [file EXCEPT !["key"] = own[p]]
    BY <2>1 DEF KeyOK
  <2>4. Missing \notin Keys /\ Empty \notin Keys /\ Missing # Empty
    BY StoreAssumption, ContentsAssumption
  <2>5. "key" \in Kinds /\ f \in Kinds /\ f # "key" /\ file \in [Kinds -> Contents \cup Keys]
    BY DEF TypeInv, StoreShape, Kinds, Sealed
  <2> QED BY <2>1, <2>2, <2>3, <2>4, <2>5
<1>4. \A q \in Procs : q # p => want[q] = "ask" /\ ~(step[q] \in {"open", "write", "rename"})
  <2> SUFFICES ASSUME NEW q \in Procs, q # p
               PROVE  want[q] = "ask" /\ ~(step[q] \in {"open", "write", "rename"})
    OBVIOUS
  <2>1. KeyOK(q) /\ ~MakesKey(q) BY <1>2, NoClash DEF FileInv
  <2>2. want[q] # "ask" => own[q] \in Keys BY DEF TypeInv, Control
  <2>3. want[q] \in Wants BY DEF TypeInv, StoreShape
  <2> QED BY <1>3, <2>1, <2>2, <2>3 DEF KeyOK, MakesKey, Wants
<1>5. file[f] = Missing \/ \E q \in Procs : step[q] = "wipe"
  <2>1. file[f] \in Contents BY DEF TypeInv, StoreShape
  <2>2. ~OpensWith(file[f], file["key"]) BY <1>3, <2>1, WholeIsBox DEF OpensWith
  <2> QED BY <2>2 DEF FileInv, Stored
<1>6. Stored(f)' BY <1>2, <1>3, <1>5 DEF Stored
<1>7. Stands(f)' BY <1>2, <1>3 DEF FileInv, Stands, Whole
<1>8. KeyOK(p)'
  <2>1. CASE CreateKey(p)
    BY <1>2, <2>1 DEF KeyOK, TypeInv, StoreShape, Kinds
  <2>2. CASE FillKey(p)
    BY <1>2, <2>2 DEF KeyOK, TypeInv, StoreShape, Kinds, FileInv
  <2> QED BY <2>1, <2>2
<1>9. \A q \in Procs : KeyOK(q)' BY <1>2, <1>4, <1>8 DEF KeyOK
<1>10. \A q \in Procs : Target(q)' = Target(q) BY <1>2 DEF Target
<1>11. \A q \in Procs : Target(q) = f => SaveOK(q, f)' BY <1>2, <1>4 DEF SaveOK
<1>12. \A q \in Procs : Target(q) = f => MemOK(q, f)'
  BY <1>2 DEF FileInv, MemOK, Active, Whole
<1> QED BY <1>6, <1>7, <1>9, <1>10, <1>11, <1>12 DEF FileInv

LEMMA FileLoad ==
  ASSUME NEW f \in Sealed, NEW p \in Procs, TypeInv, FileInv(f), f \notin mixed, ~Clash(f)',
         Load(p) \/ ConnectLoads(p) \/ LoadAll(p) \/ Decrypt(p)
  PROVE  FileInv(f)'
<1>1. Moves({p}) BY TypeLoad
<1>2. /\ UNCHANGED <<file, tmp, meant, lost, fd, late, cmd, changed>>
      /\ want'[p] = "ask" /\ step'[p] \in {"run", "loadAll", "wipe", "decrypt"}
      /\ step[p] \in {"load", "loadAll", "decrypt"}
  BY DEF Load, ConnectLoads, LoadAll, Decrypt, Go, disk, view, Past, TypeInv, StoreShape
<1>3. KeyOK(p)' /\ SaveOK(p, f)' BY <1>2 DEF KeyOK, SaveOK
<1>4. ASSUME Target(p) = f PROVE MemOK(p, f)'
  <2>1. CASE Load(p)
    <3>1. CASE step'[p] = "run"
      <4>1. cmd[p] = "mode"
        BY <2>1, <3>1 DEF Load, Go, TypeInv, StoreShape
      <4>2. f = "config" BY <1>4, <4>1 DEF Target, SessionCommands
      <4>3. \A x \in Options : mem'[p][x] = file["config"].data[x]
        BY <2>1, <4>1, FieldTypes DEF Load, TypeInv, StoreShape
      <4>4. \A x \in FieldsOf(f) \ lost : meant[x] # Unset => mem'[p][x] = meant[x]
        BY <4>2, <4>3 DEF FileInv, Stands, FieldsOf
      <4> QED BY <1>2, <3>1, <4>1, <4>4 DEF MemOK
    <3>2. CASE step'[p] = "loadAll" BY <3>2 DEF MemOK, Active
    <3> QED BY <2>1, <3>1, <3>2 DEF Load, Go, TypeInv, StoreShape
  <2>2. CASE ConnectLoads(p)
    <3>1. cmd[p] = "connect" /\ step'[p] \in {"run", "wipe"}
      BY <2>2 DEF ConnectLoads, Go, TypeInv, StoreShape
    <3> QED BY <1>2, <3>1 DEF MemOK, Active
  <2>3. CASE LoadAll(p)
    <3>1. cmd[p] \in SessionCommands BY <2>3 DEF LoadAll, TypeInv, Control
    <3>2. f = "sessions" /\ cmd[p] # "connect" BY <1>4, <3>1 DEF Target, SessionCommands
    <3>3. hold'[p] = file[f] /\ (step'[p] = "run" => file[f] = Missing)
          /\ step'[p] \in {"run", "decrypt"}
      BY <2>3, <3>2 DEF LoadAll, Go, TypeInv, StoreShape
    <3>4. step'[p] = "run" => \A x \in FieldsOf(f) \ lost : meant[x] = Unset
      BY <3>3 DEF FileInv, Stands, Whole
    <3>5. \A x \in FieldsOf(f) \ lost : meant[x] # Unset => hold'[p].data[x] = meant[x]
      BY <3>3 DEF FileInv, Stands
    <3> QED BY <1>2, <3>2, <3>3, <3>4, <3>5 DEF MemOK, Active
  <2>4. CASE Decrypt(p)
    <3>1. cmd[p] \in SessionCommands BY <2>4 DEF Decrypt, TypeInv, Control
    <3>2. f = "sessions" /\ cmd[p] # "connect" BY <1>4, <3>1 DEF Target, SessionCommands
    <3>3. \A x \in Sids : mem'[p][x] = hold[p].data[x]
      BY <2>4, FieldTypes DEF Decrypt, TypeInv, StoreShape
    <3>4. \A x \in FieldsOf(f) \ (late[p] \cup lost) : meant[x] # Unset => hold[p].data[x] = meant[x]
      BY <1>4, <2>4 DEF FileInv, MemOK, Decrypt, OpensWith
    <3>5. FieldsOf(f) = Sids /\ step'[p] = "run"
      BY <2>4, <3>2 DEF FieldsOf, Decrypt, Go, TypeInv, StoreShape
    <3> QED BY <1>2, <3>2, <3>3, <3>4, <3>5 DEF MemOK
  <2> QED BY <2>1, <2>2, <2>3, <2>4
<1>5. Target(p)' = Target(p) BY <1>2 DEF Target
<1> QED BY <1>1, <1>2, <1>3, <1>4, <1>5, OneFrame

(* Nobody else is busy while the files are removed.                         *)
LEMMA FileWipe ==
  ASSUME NEW f \in Sealed, NEW p \in Procs, TypeInv, FileInv(f), f \notin mixed, ~Clash(f)',
         Wipe(p)
  PROVE  FileInv(f)'
<1>1. Moves({p}) /\ step[p] = "wipe" /\ want[p] = "ask" /\ cmd[p] = "connect"
  BY TypeWipe DEF Wipe, TypeInv, Control, NeedsKey, StoreShape
<1>2. /\ UNCHANGED <<cmd, own, hold, mem, changed, lost, late>>
      /\ step'[p] \in {"wipe", "run"} /\ want'[p] = "ask"
  BY <1>1 DEF Wipe, view, Go, TypeInv, StoreShape
<1>3. \A q \in Procs : step'[q] \in {"off", "run", "frozen", "wipe"} /\ want'[q] = "ask"
  <2> SUFFICES ASSUME NEW q \in Procs, q # p
               PROVE  step'[q] \in {"off", "run", "frozen", "wipe"} /\ want'[q] = "ask"
    BY <1>2
  <2>1. step[q] \in {"off", "run", "frozen"} BY <1>1, NoClash DEF FileInv, Busy
  <2>2. want[q] = "ask" BY <2>1 DEF TypeInv, Control, NeedsKey
  <2> QED BY <1>1, <2>1, <2>2 DEF Moves
<1>4. \A x \in Fields : meant'[x] # Unset => meant'[x] = meant[x]
  <2>1. CASE meant' = meant BY <2>1
  <2>2. CASE \E g \in Kinds : meant' = [x \in Fields |-> IF x \in FieldsOf(g) /\ g # "key"
                                                         THEN Unset ELSE meant[x]]
    BY <2>2
  <2> QED BY <2>1, <2>2 DEF Wipe, Kinds
<1>5. Stands(f)'
  <2>1. file'[f] = file[f] \/ \A x \in FieldsOf(f) : meant'[x] = Unset
    <3>1. ASSUME NEW g \in Kinds, file' = [file EXCEPT ![g] = Missing],
                 meant' = [x \in Fields |-> IF x \in FieldsOf(g) /\ g # "key"
                                            THEN Unset ELSE meant[x]]
          PROVE  file'[f] = file[f] \/ \A x \in FieldsOf(f) : meant'[x] = Unset
      BY <3>1, FieldTypes DEF TypeInv, StoreShape, Kinds, Sealed
    <3>2. CASE file' = file BY <3>2
    <3> QED BY <3>1, <3>2 DEF Wipe, Kinds
  <2> QED BY <1>2, <1>4, <2>1, FieldTypes DEF FileInv, Stands, Whole
<1>6. Stored(f)'
  <2>1. CASE step' = step BY <1>1, <2>1 DEF Stored
  <2>2. CASE file[f] = Missing /\ file' = file BY <2>2 DEF Stored
  <2> QED BY <2>1, <2>2 DEF Wipe
<1>7. \A q \in Procs : KeyOK(q)' /\ SaveOK(q, f)'
  BY <1>3 DEF KeyOK, SaveOK
<1>8. ASSUME NEW q \in Procs, Target(q) = f PROVE MemOK(q, f)'
  <2>1. CASE q = p BY <1>1, <1>2, <2>1 DEF MemOK, Active
  <2>2. CASE q # p
    <3>1. MemOK(q, f) BY <1>8 DEF FileInv
    <3>2. step'[q] = step[q] BY <1>1, <2>2 DEF Moves
    <3>3. FieldsOf(f) \subseteq Fields BY FieldTypes
    <3> QED BY <1>2, <1>3, <1>4, <3>1, <3>2, <3>3 DEF MemOK, Active
  <2> QED BY <2>1, <2>2
<1>9. \A q \in Procs : Target(q)' = Target(q) BY <1>2 DEF Target
<1> QED BY <1>5, <1>6, <1>7, <1>8, <1>9 DEF FileInv

LEMMA FileChange ==
  ASSUME NEW f \in Sealed, NEW p \in Procs, TypeInv, FileInv(f), f \notin mixed, ~Clash(f)',
         SessionNew(p) \/ SessionEnd(p) \/ Reap(p) \/ ModeSet(p) \/ Connect(p)
  PROVE  FileInv(f)'
<1>1. Moves({p}) BY TypeChange
<1>2. PICK fields \in SUBSET FieldsOf(Target(p)), value \in [Fields -> Values],
            report \in SUBSET Sids :
         Change(p, fields, value, report) /\ CanChange(p) /\ (cmd[p] = "connect" => fields = Options)
  BY Changes
<1>3. /\ UNCHANGED <<file, tmp, meant, lost, fd, late, cmd>>
      /\ want'[p] = "ask" /\ step'[p] = "seal" /\ step[p] \in {"run", "seal"}
      /\ changed'[p] = changed[p] \cup fields
      /\ \A x \in Fields \ fields : mem'[p][x] = mem[p][x]
  BY <1>2 DEF Change, CanChange, Go, disk, Past, TypeInv, StoreShape
<1>4. KeyOK(p)' /\ SaveOK(p, f)' BY <1>3 DEF KeyOK, SaveOK
<1>5. ASSUME Target(p) = f PROVE MemOK(p, f)'
  <2>1. CASE cmd[p] = "connect"
    <3>1. FieldsOf(Target(p)) = Options BY <2>1 DEF Target, FieldsOf, SessionCommands
    <3>2. changed'[p] = Options BY <1>2, <1>3, <2>1, <3>1 DEF TypeInv, Control
    <3> QED BY <1>3, <2>1, <3>2 DEF MemOK
  <2>2. CASE cmd[p] # "connect"
    <3>1. MemOK(p, f) BY <1>5 DEF FileInv
    <3>2. FieldsOf(f) \subseteq Fields BY FieldTypes
    <3> QED BY <1>3, <2>2, <3>1, <3>2 DEF MemOK, Active
  <2> QED BY <2>1, <2>2
<1>6. Target(p)' = Target(p) BY <1>3 DEF Target
<1> QED BY <1>1, <1>3, <1>4, <1>5, <1>6, OneFrame

LEMMA FileSaveToo ==
  ASSUME NEW f \in Sealed, NEW p \in Procs, NEW q \in Procs, TypeInv, FileInv(f), f \notin mixed,
         ~Clash(f)', SaveToo(p, q)
  PROVE  FileInv(f)'
<1>1. Moves({q}) /\ p # q BY TypeSaveToo
<1>2. /\ UNCHANGED <<file, tmp, meant, lost, fd>>
      /\ step[q] = "off" /\ step'[q] = "seal" /\ want'[q] = "ask"
      /\ cmd'[q] = cmd[p] /\ mem'[q] = mem[p] /\ changed'[q] = changed[p] /\ late'[q] = late[p]
      /\ \A r \in Procs : r # q => late'[r] = late[r]
      /\ step[p] \in Active \ {"run"}
  BY DEF SaveToo, Copied, Go, disk, Past, Active, TypeInv, StoreShape
<1>3. KeyOK(q)' /\ SaveOK(q, f)' BY <1>2 DEF KeyOK, SaveOK
<1>4. ASSUME Target(q)' = f PROVE MemOK(q, f)'
  <2>1. Target(p) = f BY <1>2, <1>4 DEF Target
  <2>2. MemOK(p, f) BY <2>1 DEF FileInv
  <2> QED BY <1>2, <2>2 DEF MemOK, Active
<1> QED BY <1>1, <1>2, <1>3, <1>4, OneFrame

LEMMA FileSeal ==
  ASSUME NEW f \in Sealed, NEW p \in Procs, TypeInv, FileInv(f), f \notin mixed, ~Clash(f)',
         Seal(p)
  PROVE  FileInv(f)'
<1> DEFINE box == [key |-> own[p], data |->
                     [x \in Fields |-> IF x \in FieldsOf(Target(p)) THEN mem[p][x] ELSE Blank[x]]]
<1>1. Moves({p}) BY TypeSeal
<1>2. /\ UNCHANGED <<file, tmp, meant, lost, fd, late, cmd, mem, changed>>
      /\ want'[p] = "ask" /\ step'[p] = "open" /\ step[p] = "seal" /\ want[p] = "have"
      /\ hold'[p] = box
  BY DEF Seal, Go, view, Past, TypeInv, StoreShape
<1>3. own[p] \in Keys /\ file["key"] = own[p]
  BY <1>2 DEF TypeInv, Control, FileInv, KeyOK
<1>4. box \in Box /\ box.key = own[p] /\ \A x \in FieldsOf(Target(p)) : box.data[x] = mem[p][x]
  <2>1. [x \in Fields |-> IF x \in FieldsOf(Target(p)) THEN mem[p][x] ELSE Blank[x]]
          \in [Fields -> Values]
    BY FieldTypes DEF TypeInv, StoreShape
  <2> QED BY <1>3, <2>1, FieldTypes DEF Box
<1> HIDE DEF box
<1>5. KeyOK(p)' BY <1>2, <1>3 DEF KeyOK
<1>6. Target(p) = f => SaveOK(p, f)'
  BY <1>2, <1>3, <1>4, WholeIsBox DEF SaveOK, Sealing, OpensWith, Whole
<1>7. Target(p) = f => MemOK(p, f)' BY <1>2 DEF FileInv, MemOK, Active
<1>8. Target(p)' = Target(p) BY <1>2 DEF Target
<1> QED BY <1>1, <1>2, <1>5, <1>6, <1>7, <1>8, OneFrame

LEMMA FileOpen ==
  ASSUME NEW f \in Sealed, NEW p \in Procs, TypeInv, FileInv(f), f \notin mixed, ~Clash(f)',
         Open(p)
  PROVE  FileInv(f)'
<1>1. Moves({p}) BY TypeOpen
<1>2. /\ UNCHANGED <<file, meant, lost, late, cmd, mem, changed, hold>>
      /\ want'[p] = "ask" /\ step'[p] = "write" /\ step[p] = "open"
      /\ fd' = [fd EXCEPT ![p] = "tmp"] /\ tmp' = [tmp EXCEPT ![Target(p)] = Empty]
  BY DEF Open, Go, view, Past, TypeInv, StoreShape
<1>3. Target(p)' = Target(p) /\ Target(p) \in Sealed BY <1>2, FieldTypes DEF Target
<1>4. KeyOK(p)' BY <1>2 DEF KeyOK, FileInv
<1>5. Target(p) = f => SaveOK(p, f)'
  BY <1>2 DEF FileInv, SaveOK, Sealing, OpensWith, Whole, TypeInv, StoreShape
<1>6. Target(p) = f => MemOK(p, f)' BY <1>2 DEF FileInv, MemOK, Active
<1>7. tmp'[f] = tmp[f] \/ \A q \in Procs : q # p => ~AtFile(q, f)
  <2>1. CASE Target(p) # f BY <1>2, <1>3, <2>1 DEF TypeInv, StoreShape
  <2>2. ASSUME Target(p) = f, NEW q \in Procs, q # p PROVE ~AtFile(q, f)
    <3>1. AtFile(p, f)' BY <1>2, <1>3, <2>2 DEF AtFile
    <3>2. ~AtFile(q, f)' BY <2>2, <3>1 DEF Clash
    <3> QED BY <1>1, <2>2, <3>2 DEF AtFile, Moves, Target
  <2> QED BY <2>1, <2>2
<1>8. \A q \in Procs : q # p => fd'[q] = fd[q] /\ late'[q] = late[q]
  BY <1>2 DEF TypeInv, StoreShape
<1> QED BY <1>1, <1>2, <1>3, <1>4, <1>5, <1>6, <1>7, <1>8, OneFrame

LEMMA FileWrite ==
  ASSUME NEW f \in Sealed, NEW p \in Procs, TypeInv, FileInv(f), f \notin mixed, ~Clash(f)',
         Write(p)
  PROVE  FileInv(f)'
<1>1. Moves({p}) BY TypeOpen
<1>2. /\ UNCHANGED <<meant, lost, late, cmd, mem, changed>>
      /\ want'[p] = "ask" /\ step'[p] = "rename" /\ step[p] = "write"
      /\ fd' = [fd EXCEPT ![p] = "none"]
  BY DEF Write, Go, view, Past, TypeInv, StoreShape
<1>3. Target(p)' = Target(p) /\ Target(p) \in Sealed BY <1>2, FieldTypes DEF Target
<1>4. CASE Target(p) = f
  <2>1. fd[p] = "tmp" /\ tmp[f] = Empty /\ Sealing(hold[p], p, f)
    BY <1>2, <1>4 DEF FileInv, SaveOK
  <2>2. tmp'[f] = hold[p] /\ file' = file
    BY <1>4, <2>1 DEF Write, Over, TypeInv, StoreShape
  <2>3. SaveOK(p, f)'
    BY <1>2, <2>1, <2>2 DEF SaveOK, Sealing, OpensWith, Whole
  <2>4. KeyOK(p)' BY <1>2, <2>2 DEF KeyOK, FileInv
  <2>5. MemOK(p, f)' BY <1>2, <1>4 DEF FileInv, MemOK, Active
  <2>6. \A q \in Procs : q # p => ~AtFile(q, f) BY <1>2, <1>4, NoClash DEF FileInv, AtFile
  <2>7. \A q \in Procs : q # p => fd'[q] = fd[q] /\ late'[q] = late[q]
    BY <1>2 DEF TypeInv, StoreShape
  <2> QED BY <1>1, <1>2, <1>3, <2>2, <2>3, <2>4, <2>5, <2>6, <2>7, OneFrame
<1>5. CASE Target(p) # f
  <2>1. file'[f] = file[f] /\ file'["key"] = file["key"] /\ tmp'[f] = tmp[f]
    BY <1>3, <1>5 DEF Write, TypeInv, StoreShape, Kinds, Sealed
  <2>2. KeyOK(p)' BY <1>2, <2>1 DEF KeyOK, FileInv
  <2>3. \A q \in Procs : q # p => fd'[q] = fd[q] /\ late'[q] = late[q]
    BY <1>2 DEF TypeInv, StoreShape
  <2> QED BY <1>1, <1>2, <1>3, <1>5, <2>1, <2>2, <2>3, OneFrame
<1> QED BY <1>4, <1>5

LEMMA FileSaveFails ==
  ASSUME NEW f \in Sealed, NEW p \in Procs, TypeInv, FileInv(f), f \notin mixed, ~Clash(f)',
         ~WipeCutShort, SaveFails(p)
  PROVE  FileInv(f)'
<1> DEFINE next == IF cmd[p] \in {"serve", "new"} \/ Saved(p) = "frozen" THEN "frozen" ELSE "off"
<1>1. next \in {"off", "frozen"} /\ Clear(p, next) BY DEF SaveFails
<1>2. PICK P \in SUBSET Procs : P = Gone(p, next) BY DEF Gone, Crew
<1>3. p \in P /\ Moves(P) /\ \A q \in P : step'[q] = next /\ want'[q] = "ask"
  BY <1>1, <1>2, TypeClear
<1>4. step[p] \in {"open", "write", "rename"} BY DEF SaveFails
<1>5. \A q \in P : step[q] # "wipe"
  <2>1. CASE next = "off" BY <1>3, <2>1 DEF WipeCutShort
  <2>2. CASE next = "frozen" BY <1>2, <1>4, <2>2 DEF Gone
  <2> QED BY <1>1, <2>1, <2>2
<1>6. \A q \in Procs \ P : fd'[q] = fd[q] /\ late'[q] = late[q] BY <1>2 DEF SaveFails
<1> HIDE DEF next
<1>7. \A q \in P : KeyOK(q)' /\ SaveOK(q, f)' /\ MemOK(q, f)'
  BY <1>1, <1>3 DEF KeyOK, SaveOK, MemOK, Active
<1>8. UNCHANGED <<meant, lost>> BY DEF SaveFails, Past
<1>9. /\ file'[f] = file[f] /\ file'["key"] = file["key"]
      /\ tmp'[f] = tmp[f] \/ \A q \in Procs \ P : ~AtFile(q, f)
  <2>1. CASE step[p] = "write" /\ Target(p) = f
    <3>1. fd[p] = "tmp" BY <2>1 DEF FileInv, SaveOK
    <3>2. \A q \in Procs \ P : ~AtFile(q, f) BY <1>3, <2>1, NoClash DEF FileInv, AtFile
    <3> QED BY <2>1, <3>1, <3>2 DEF SaveFails, TypeInv, StoreShape, Kinds
  <2>2. CASE ~(step[p] = "write" /\ Target(p) = f)
    BY <2>2, FieldTypes DEF SaveFails, TypeInv, StoreShape, Kinds, Sealed
  <2> QED BY <2>1, <2>2
<1> QED BY <1>3, <1>5, <1>6, <1>7, <1>8, <1>9, Frame

(* The rename makes the file what its process had in memory: its changes    *)
(* are what was meant, and where it was late it has written over a save.    *)
LEMMA FileRename ==
  ASSUME NEW f \in Sealed, NEW p \in Procs, TypeInv, FileInv(f), f \notin mixed, ~Clash(f)',
         ~WipeCutShort, Rename(p)
  PROVE  FileInv(f)'
<1> DEFINE g == Target(p)
<1>1. Saved(p) \in {"off", "frozen"} /\ Clear(p, Saved(p)) BY DEF Rename, Saved
<1>9. PICK P \in SUBSET Procs : P = Gone(p, Saved(p)) BY DEF Gone, Crew
<1>10. p \in P /\ Moves(P) /\ \A q \in P : step'[q] = Saved(p) /\ want'[q] = "ask"
  BY <1>1, <1>9, TypeClear
<1>2. /\ step[p] = "rename"
      /\ file' = [file EXCEPT ![g] = tmp[g]] /\ tmp' = [tmp EXCEPT ![g] = Missing]
      /\ meant' = [x \in Fields |-> IF x \in changed[p] THEN mem[p][x] ELSE meant[x]]
      /\ lost' = (lost \cup late[p]) \ changed[p]
  BY DEF Rename
<1>11. \A q \in P : step[q] # "wipe"
  <2>1. CASE Saved(p) = "off" BY <1>10, <2>1 DEF WipeCutShort
  <2>2. CASE Saved(p) = "frozen" BY <1>2, <1>9, <2>2 DEF Gone
  <2> QED BY <1>1, <2>1, <2>2
<1>3. \A q \in Procs \ P :
        /\ want[q] = "fill" \/ Target(q) # g => fd'[q] = fd[q]
        /\ late[q] \subseteq late'[q]
        /\ Target(q) = g /\ step[q] \in Active \cup {"decrypt"} => late'[q] = late[q] \cup changed[p]
  BY <1>9 DEF Rename, Active
<1>4. \A q \in P : KeyOK(q)' /\ SaveOK(q, f)' /\ MemOK(q, f)'
  BY <1>1, <1>10 DEF KeyOK, SaveOK, MemOK, Active
<1>5. g \in Sealed /\ changed[p] \subseteq FieldsOf(g) BY FieldTypes DEF TypeInv, Control
<1>6. file'["key"] = file["key"] BY <1>2, <1>5 DEF TypeInv, StoreShape, Kinds, Sealed
<1> HIDE DEF g
<1>7. CASE g # f
  <2>1. FieldsOf(f) \cap FieldsOf(g) = {} /\ FieldsOf(f) \subseteq Fields
    BY <1>5, <1>7, FieldTypes DEF Sealed, FieldsOf
  <2>2. file'[f] = file[f] /\ tmp'[f] = tmp[f]
    BY <1>2, <1>5, <1>7 DEF TypeInv, StoreShape, Kinds
  <2>3. \A x \in FieldsOf(f) : meant'[x] = meant[x] /\ (x \in lost => x \in lost')
    BY <1>2, <1>5, <2>1
  <2>4. \A q \in Procs \ P :
          /\ want[q] = "fill" \/ Target(q) = f => fd'[q] = fd[q]
          /\ late[q] \subseteq late'[q]
    BY <1>3, <1>7
  <2> QED BY <1>4, <1>6, <1>10, <1>11, <2>2, <2>3, <2>4, Frame
<1>8. CASE g = f
  <2>1. /\ file'[f] = tmp[f] /\ Sealing(tmp[f], p, f) /\ MemOK(p, f)
        /\ FieldsOf(f) \subseteq Fields
    BY <1>2, <1>5, <1>8, FieldTypes DEF g, FileInv, SaveOK, TypeInv, StoreShape, Kinds
  <2>2. Stored(f)' BY <1>6, <2>1 DEF Stored, Sealing, OpensWith, Whole
  <2>3. ASSUME NEW x \in FieldsOf(f), x \notin lost', meant'[x] # Unset
        PROVE  mem[p][x] = meant'[x]
    <3>1. CASE x \in changed[p] BY <1>2, <2>1, <3>1
    <3>2. CASE x \notin changed[p]
      <4>1. x \notin lost /\ x \notin late[p] /\ meant'[x] = meant[x]
        BY <1>2, <2>1, <2>3, <3>2
      <4>2. cmd[p] # "connect"
        <5>1. cmd[p] = "connect" => changed[p] = Options /\ FieldsOf(f) = Options
          BY <1>2, <1>8, <2>1 DEF MemOK, Active, g, Target, FieldsOf, SessionCommands
        <5> QED BY <3>2, <5>1
      <4> QED BY <1>2, <2>1, <2>3, <3>2, <4>1, <4>2 DEF MemOK, Active
    <3> QED BY <3>1, <3>2
  <2>4. Stands(f)'
    BY <2>1, <2>3 DEF Stands, Sealing, OpensWith, Whole
  <2>5. ASSUME NEW q \in Procs, q \notin P
        PROVE  KeyOK(q)' /\ (Target(q)' = f => SaveOK(q, f)' /\ MemOK(q, f)')
    <3>1. /\ step'[q] = step[q] /\ cmd'[q] = cmd[q] /\ mem'[q] = mem[q] /\ want'[q] = want[q]
          /\ hold'[q] = hold[q] /\ changed'[q] = changed[q] /\ own'[q] = own[q]
      BY <1>10, <2>5 DEF Moves
    <3>2. KeyOK(q)' BY <1>3, <1>6, <2>5, <3>1 DEF FileInv, KeyOK
    <3>3. CASE Target(q) = f
      <4>1. SaveOK(q, f) /\ MemOK(q, f) BY <3>3 DEF FileInv
      <4>2. step[q] \notin {"write", "rename"}
        BY <1>2, <1>8, <1>10, <2>5, <3>3, NoClash DEF FileInv, AtFile, g
      <4>3. step[q] = "open" => Sealing(hold[q], q, f)'
        BY <1>6, <3>1, <4>1 DEF SaveOK, Sealing, OpensWith, Whole
      <4>4. SaveOK(q, f)' BY <3>1, <4>2, <4>3 DEF SaveOK
      <4>5. step[q] \in Active \cup {"decrypt"} =>
              \A x \in FieldsOf(f) \ (late'[q] \cup lost') :
                 x \notin late[q] /\ x \notin lost /\ meant'[x] = meant[x]
        BY <1>2, <1>3, <1>8, <2>1, <2>5, <3>3
      <4>6. MemOK(q, f)' BY <3>1, <4>1, <4>5 DEF MemOK, Whole
      <4> QED BY <3>2, <4>4, <4>6
    <3>4. Target(q)' = Target(q) BY <3>1 DEF Target
    <3> QED BY <3>2, <3>3, <3>4
  <2> QED BY <1>4, <2>2, <2>4, <2>5 DEF FileInv
<1> QED BY <1>7, <1>8

LEMMA FileStep ==
  ASSUME NEW f \in Sealed, TypeInv, FileInv(f), [StoreNext]_svars
  PROVE  FileInv(f)'
<1>1. CASE UNCHANGED svars
  <2>1. \A p \in Procs : Target(p)' = Target(p) BY <1>1 DEF Target, svars
  <2>2. Clash(f)' <=> Clash(f)
    BY <1>1, <2>1 DEF Clash, AtFile, MakesKey, Busy, svars, keying
  <2>3. (Stored(f)' <=> Stored(f)) /\ (Stands(f)' <=> Stands(f))
    BY <1>1 DEF Stored, Stands, OpensWith, Whole, svars, disk
  <2>4. \A p \in Procs : KeyOK(p)' <=> KeyOK(p)
    BY <1>1 DEF KeyOK, svars, disk, keying
  <2>5. \A p \in Procs : SaveOK(p, f)' <=> SaveOK(p, f)
    BY <1>1 DEF SaveOK, Sealing, OpensWith, Whole, svars, disk, view
  <2>6. \A p \in Procs : MemOK(p, f)' <=> MemOK(p, f)
    BY <1>1 DEF MemOK, Whole, svars, view
  <2>7. mixed' = mixed BY <1>1 DEF svars
  <2> QED BY <2>1, <2>2, <2>3, <2>4, <2>5, <2>6, <2>7 DEF FileInv
<1>2. CASE f \in mixed' BY <1>2 DEF FileInv
<1>3. CASE StoreNext /\ f \notin mixed'
  <2>1. PICK p \in Procs : StoreStep(p) BY <1>3 DEF StoreNext
  <2>2. f \notin mixed /\ ~Clash(f)' /\ ~WipeCutShort BY <1>3 DEF StoreNext
  <2> QED BY <2>1, <2>2, FileStart, FileStop, FileReadKey, FileMakeKey, FileLoad, FileWipe,
             FileChange, FileSaveToo, FileSeal, FileOpen, FileWrite, FileRename, FileSaveFails DEF StoreStep
<1> QED BY <1>1, <1>2, <1>3

-----------------------------------------------------------------------------
(* StoreInv is an inductive invariant of the data directory.                *)
THEOREM StoreInvariance == StoreSpec => []StoreInv
<1>1. StoreInit => StoreInv BY TypeInit, FileInit DEF StoreInv, StoreInit
<1>2. StoreInv /\ [StoreNext]_svars => StoreInv'
  <2>1. mixed \subseteq Sealed /\ [StoreNext]_svars => (mixed \subseteq Sealed)'
    BY DEF StoreNext, svars
  <2> QED BY <2>1, TypeStep, FileStep DEF StoreInv
<1> QED BY <1>1, <1>2, PTL DEF StoreSpec

(* "writes it atomically": whoever is killed and when, a sealed file that   *)
(* is there is whole and opens with the key that is there, unless two       *)
(* savers, of two processes or two goroutines of one, have been at its      *)
(* temporary file at once, or a wipe was cut short or had company.          *)
THEOREM FilesOpen == StoreSpec => []SealedFilesOpen
<1>1. StoreInv => SealedFilesOpen
  BY DEF StoreInv, FileInv, Stored, SealedFilesOpen
<1> QED BY <1>1, StoreInvariance, PTL

(* With the same exception, a save stands until it is written over by a     *)
(* process that had loaded the file before it: nothing else in Save and     *)
(* SaveAll loses one.                                                       *)
THEOREM SavesStand == StoreSpec => []LastSaveStands
<1>1. StoreInv => LastSaveStands
  BY DEF StoreInv, FileInv, Stands, LastSaveStands
<1> QED BY <1>1, StoreInvariance, PTL
=============================================================================
