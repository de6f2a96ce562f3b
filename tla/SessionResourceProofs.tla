------------------------ MODULE SessionResourceProofs ------------------------
(***************************************************************************)
(* What the sessions have on the server, for any number of sessions, blocks *)
(* and handlers and any bound on failures and restarts: no account and no   *)
(* rule is left without a session or a call that answers for it, and no     *)
(* active session is left without them.                                     *)
(*                                                                          *)
(* The argument: an account or a rule is at any time owed to a session that *)
(* is active, or to a call that deals with it (Deals), or to a failure.     *)
(* New hands its session over to the map when it registers it, End and reap *)
(* take it over when they mark it, each in one critical section; and what   *)
(* they remove is never that of an active session, for an ended one does    *)
(* not come back and a new one has an id of its own (FreshInv).             *)
(***************************************************************************)
EXTENDS SessionManagerProofs

USE NullsAssumption, ReaperAssumption, BoundsAssumption
    DEF Procs, Status, Ended, Lists, Ops, Pcs, Places, Saving, InFile,
        Provisioning, files, idVars, extVars, lockVars, taskVars, bounds

(* A step that leaves accounts, rules and statuses alone, takes nobody's work *)
(* away and brings nobody to where new facts are due.                        *)
LEMMA QuietStep ==
  ASSUME ResourceInv,
         UNCHANGED <<mem, used, cidr, users, rules>>, disturbed \subseteq disturbed',
         \A h \in Procs, id \in Ids : Deals(h, id) => Deals(h, id)',
         \A h \in Procs : pc'[h] \in {"allow", "register", "deny"} =>
           pc'[h] = pc[h] /\ cur'[h] = cur[h]
  PROVE  AccountInv' /\ RuleInv'
<1>1. AccountInv'
  BY DEF ResourceInv, IndInv, TypeOK, AccountInv, LiveSessionHasAccount
<1>2. RuleInv'
  BY DEF ResourceInv, IndInv, TypeOK, RuleInv, ExclusiveRuleStaysOpen, Shared
<1> QED  BY <1>1, <1>2

(* A step that marks active sessions as ended, and has whoever marked them   *)
(* revoke them.                                                             *)
LEMMA MarkStep ==
  ASSUME ResourceInv,
         UNCHANGED <<used, cidr, users, rules, disturbed>>,
         \A h \in Procs, id \in Ids : Deals(h, id) => Deals(h, id)',
         \A id \in Ids : /\ mem[id] = "active" =>
                           mem'[id] = "active" \/ \E h \in Procs : Deals(h, id)'
                         /\ mem'[id] = "active" => mem[id] = "active",
         \A h \in Procs : pc'[h] \in {"allow", "register", "deny"} =>
           pc'[h] = pc[h] /\ cur'[h] = cur[h]
  PROVE  AccountInv' /\ RuleInv'
<1>1. AccountInv'
  BY DEF ResourceInv, IndInv, TypeOK, AccountInv, LiveSessionHasAccount
<1>2. RuleInv'
  BY DEF ResourceInv, IndInv, TypeOK, RuleInv, ExclusiveRuleStaysOpen, Shared
<1> QED  BY <1>1, <1>2

(* The account appears while its New deals with it.                        *)
LEMMA CreateUserResources ==
  ASSUME NEW g \in Procs, ResourceInv, CreateUser(g)
  PROVE  (WorkInv /\ AccountInv /\ RuleInv)'
<1> USE DEF ResourceInv, IndInv, TypeOK, CallInv, FreshInv, LockInv, Goto
<1>1. WorkInv'
  BY DEF WorkInv, CreateUser
<1>2. \A h \in Procs, id \in Ids : Deals(h, id) => Deals(h, id)'
  BY DEF Deals, CreateUser
<1>3. Deals(g, cur[g])'
  BY DEF WorkInv, Deals, CreateUser
<1>4. AccountInv'
  <2>1. /\ pc' = [pc EXCEPT ![g] = "allow"] /\ users' = users \cup {cur[g]}
        /\ UNCHANGED <<mem, cur, disturbed>> /\ cur[g] \in Ids
    BY DEF CreateUser
  <2>2. \A id \in users' \ disturbed' : mem'[id] = "active" \/ \E h \in Procs : Deals(h, id)'
    BY <1>2, <1>3, <2>1 DEF AccountInv
  <2>3. LiveSessionHasAccount'
    BY <2>1 DEF AccountInv, LiveSessionHasAccount
  <2>4. \A h \in Procs : /\ pc'[h] \in {"allow", "register"} => cur'[h] \in users' \cup disturbed'
                         /\ pc'[h] = "deny" => cur'[h] \notin users' \ disturbed'
    <3> SUFFICES ASSUME NEW h \in Procs
                 PROVE  /\ pc'[h] \in {"allow", "register"} => cur'[h] \in users' \cup disturbed'
                        /\ pc'[h] = "deny" => cur'[h] \notin users' \ disturbed'
      OBVIOUS
    <3>1. CASE h = g
      BY <2>1, <3>1
    <3>2. CASE h # g /\ pc[h] = "deny"
      <4>1. cur[h] # cur[g] \/ cur[h] \in disturbed
        BY <3>2 DEF WorkInv, CreateUser
      <4> QED  BY <2>1, <3>2, <4>1 DEF AccountInv
    <3>3. CASE h # g /\ pc[h] # "deny"
      BY <2>1, <3>3 DEF AccountInv
    <3> QED  BY <3>1, <3>2, <3>3
  <2> QED  BY <2>2, <2>3, <2>4 DEF AccountInv
<1>5. RuleInv'
  BY <1>2 DEF RuleInv, ExclusiveRuleStaysOpen, Shared, CreateUser
<1> QED  BY <1>1, <1>4, <1>5

(* The account may stay: the session is disturbed from now on.             *)
LEMMA CreateUserFailsResources ==
  ASSUME NEW g \in Procs, ResourceInv, CreateUserFails(g)
  PROVE  (WorkInv /\ AccountInv /\ RuleInv)'
<1> USE DEF ResourceInv, IndInv, TypeOK, CallInv, FreshInv, LockInv, Goto
<1>1. WorkInv'
  BY DEF WorkInv, CreateUserFails, Fault, Return
<1>2. AccountInv'
  BY DEF WorkInv, AccountInv, LiveSessionHasAccount, Deals, CreateUserFails, Fault, Return
<1>3. RuleInv'
  BY DEF WorkInv, RuleInv, ExclusiveRuleStaysOpen, Shared, Deals, CreateUserFails, Fault, Return
<1> QED  BY <1>1, <1>2, <1>3

(* The rule is owed to the session being provisioned.                      *)
LEMMA AllowResources ==
  ASSUME NEW g \in Procs, ResourceInv, Allow(g)
  PROVE  (WorkInv /\ AccountInv /\ RuleInv)'
<1> USE DEF ResourceInv, IndInv, TypeOK, CallInv, FreshInv, LockInv, Goto
<1>1. WorkInv'
  BY DEF WorkInv, Allow
<1>2. AccountInv'
  BY DEF WorkInv, AccountInv, LiveSessionHasAccount, Deals, Allow
<1>3. \A h \in Procs, id \in Ids : Deals(h, id) => Deals(h, id)'
  BY DEF Deals, Allow
<1>4. cur[g] \in used /\ Deals(g, cur[g])'
  BY DEF WorkInv, Deals, Allow
<1>5. RuleInv'
  BY <1>3, <1>4 DEF RuleInv, ExclusiveRuleStaysOpen, Shared, Allow
<1> QED  BY <1>1, <1>2, <1>5

(* The rule may stay, and so may the account.                              *)
LEMMA AllowFailsResources ==
  ASSUME NEW g \in Procs, ResourceInv, AllowFails(g)
  PROVE  (WorkInv /\ AccountInv /\ RuleInv)'
<1> USE DEF ResourceInv, IndInv, TypeOK, CallInv, FreshInv, LockInv, Goto
<1>1. WorkInv'
  BY DEF WorkInv, AllowFails, Fault
<1>2. AccountInv'
  BY DEF WorkInv, AccountInv, LiveSessionHasAccount, Deals, AllowFails, Fault
<1>3. RuleInv'
  BY DEF WorkInv, RuleInv, ExclusiveRuleStaysOpen, Shared, Deals, AllowFails, Fault
<1> QED  BY <1>1, <1>2, <1>3

(* Only of a session that is disturbed already.                            *)
LEMMA RollbackResources ==
  ASSUME NEW g \in Procs, ResourceInv, Rollback(g)
  PROVE  (WorkInv /\ AccountInv /\ RuleInv)'
<1> USE DEF ResourceInv, IndInv, TypeOK, CallInv, FreshInv, LockInv, Goto
<1>1. WorkInv'
  BY DEF WorkInv, Rollback, Return
<1>2. AccountInv'
  BY DEF WorkInv, AccountInv, LiveSessionHasAccount, Deals, Rollback, Return
<1>3. RuleInv'
  BY DEF WorkInv, RuleInv, ExclusiveRuleStaysOpen, Shared, Deals, Rollback, Return
<1> QED  BY <1>1, <1>2, <1>3

(* A writer announces itself.                                              *)
LEMMA LockResources ==
  ASSUME NEW g \in Procs, ResourceInv, Lock(g)
  PROVE  (WorkInv /\ AccountInv /\ RuleInv)'
<1> USE DEF ResourceInv, IndInv, TypeOK, CallInv, FreshInv, LockInv, Goto
<1>1. WorkInv'
  BY DEF WorkInv, Lock
<1>2. \A h \in Procs, id \in Ids : Deals(h, id) => Deals(h, id)'
  BY DEF WorkInv, Deals, Lock
<1>3. /\ UNCHANGED <<mem, used, cidr, users, rules, disturbed>>
      /\ \A h \in Procs : pc'[h] \in {"allow", "register", "deny"} =>
           pc'[h] = pc[h] /\ cur'[h] = cur[h]
  BY DEF Lock
<1> QED  BY <1>1, <1>2, <1>3, QuietStep

(* A reader comes in.                                                      *)
LEMMA FirstRLockResources ==
  ASSUME NEW g \in Procs, ResourceInv, FirstRLock(g)
  PROVE  (WorkInv /\ AccountInv /\ RuleInv)'
<1> USE DEF ResourceInv, IndInv, TypeOK, CallInv, FreshInv, LockInv, Goto
<1>1. WorkInv'
  BY DEF WorkInv, FirstRLock
<1>2. \A h \in Procs, id \in Ids : Deals(h, id) => Deals(h, id)'
  BY DEF WorkInv, Deals, FirstRLock
<1>3. /\ UNCHANGED <<mem, used, cidr, users, rules, disturbed>>
      /\ \A h \in Procs : pc'[h] \in {"allow", "register", "deny"} =>
           pc'[h] = pc[h] /\ cur'[h] = cur[h]
  BY DEF FirstRLock
<1> QED  BY <1>1, <1>2, <1>3, QuietStep

(* The list is copied.                                                     *)
LEMMA SnapshotResources ==
  ASSUME NEW g \in Procs, ResourceInv, Snapshot(g)
  PROVE  (WorkInv /\ AccountInv /\ RuleInv)'
<1> USE DEF ResourceInv, IndInv, TypeOK, CallInv, FreshInv, LockInv, Goto
<1>1. WorkInv'
  BY DEF WorkInv, Snapshot
<1>2. \A h \in Procs, id \in Ids : Deals(h, id) => Deals(h, id)'
  BY DEF WorkInv, Deals, Snapshot
<1>3. /\ UNCHANGED <<mem, used, cidr, users, rules, disturbed>>
      /\ \A h \in Procs : pc'[h] \in {"allow", "register", "deny"} =>
           pc'[h] = pc[h] /\ cur'[h] = cur[h]
  BY DEF Snapshot
<1> QED  BY <1>1, <1>2, <1>3, QuietStep

(* VerifyAccess returns with nothing in hand.                              *)
LEMMA VerifySectionResources ==
  ASSUME NEW g \in Procs, ResourceInv, VerifySection(g)
  PROVE  (WorkInv /\ AccountInv /\ RuleInv)'
<1> USE DEF ResourceInv, IndInv, TypeOK, CallInv, FreshInv, LockInv, Goto
<1>1. WorkInv'
  BY DEF WorkInv, VerifySection, Return
<1>2. \A h \in Procs, id \in Ids : Deals(h, id) => Deals(h, id)'
  BY DEF WorkInv, Deals, VerifySection, Return
<1>3. /\ UNCHANGED <<mem, used, cidr, users, rules, disturbed>>
      /\ \A h \in Procs : pc'[h] \in {"allow", "register", "deny"} =>
           pc'[h] = pc[h] /\ cur'[h] = cur[h]
  BY DEF VerifySection, Return
<1> QED  BY <1>1, <1>2, <1>3, QuietStep

(* SetPlaygroundDB has nothing in hand.                                    *)
LEMMA SetPlaygroundDBResources ==
  ASSUME NEW g \in Procs, ResourceInv, SetPlaygroundDB(g)
  PROVE  (WorkInv /\ AccountInv /\ RuleInv)'
<1> USE DEF ResourceInv, IndInv, TypeOK, CallInv, FreshInv, LockInv, Goto
<1>1. WorkInv'
  BY DEF WorkInv, SetPlaygroundDB, Return
<1>2. \A h \in Procs, id \in Ids : Deals(h, id) => Deals(h, id)'
  BY DEF WorkInv, Deals, SetPlaygroundDB, Return
<1>3. /\ UNCHANGED <<mem, used, cidr, users, rules, disturbed>>
      /\ \A h \in Procs : pc'[h] \in {"allow", "register", "deny"} =>
           pc'[h] = pc[h] /\ cur'[h] = cur[h]
  BY DEF SetPlaygroundDB, Return
<1> QED  BY <1>1, <1>2, <1>3, QuietStep

(* The temporary file is opened.                                           *)
LEMMA OpenTmpResources ==
  ASSUME NEW g \in Procs, ResourceInv, OpenTmp(g)
  PROVE  (WorkInv /\ AccountInv /\ RuleInv)'
<1> USE DEF ResourceInv, IndInv, TypeOK, CallInv, FreshInv, LockInv, Goto
<1>1. WorkInv'
  BY DEF WorkInv, OpenTmp
<1>2. \A h \in Procs, id \in Ids : Deals(h, id) => Deals(h, id)'
  BY DEF WorkInv, Deals, OpenTmp
<1>3. /\ UNCHANGED <<mem, used, cidr, users, rules, disturbed>>
      /\ \A h \in Procs : pc'[h] \in {"allow", "register", "deny"} =>
           pc'[h] = pc[h] /\ cur'[h] = cur[h]
  BY DEF OpenTmp
<1> QED  BY <1>1, <1>2, <1>3, QuietStep

(* The list is written.                                                    *)
LEMMA WriteTmpResources ==
  ASSUME NEW g \in Procs, ResourceInv, WriteTmp(g)
  PROVE  (WorkInv /\ AccountInv /\ RuleInv)'
<1> USE DEF ResourceInv, IndInv, TypeOK, CallInv, FreshInv, LockInv, Goto
<1>1. WorkInv'
  BY DEF WorkInv, WriteTmp
<1>2. \A h \in Procs, id \in Ids : Deals(h, id) => Deals(h, id)'
  BY DEF WorkInv, Deals, WriteTmp
<1>3. /\ UNCHANGED <<mem, used, cidr, users, rules, disturbed>>
      /\ \A h \in Procs : pc'[h] \in {"allow", "register", "deny"} =>
           pc'[h] = pc[h] /\ cur'[h] = cur[h]
  BY DEF WriteTmp
<1> QED  BY <1>1, <1>2, <1>3, QuietStep

(* A New that returns has left its session to the map.                     *)
LEMMA RenameTmpResources ==
  ASSUME NEW g \in Procs, ResourceInv, RenameTmp(g)
  PROVE  (WorkInv /\ AccountInv /\ RuleInv)'
<1> USE DEF ResourceInv, IndInv, TypeOK, CallInv, FreshInv, LockInv, Goto
<1>1. WorkInv'
  BY DEF WorkInv, RenameTmp, Return
<1>2. \A h \in Procs, id \in Ids : Deals(h, id) => Deals(h, id)'
  BY DEF WorkInv, Deals, RenameTmp, Return
<1>3. /\ UNCHANGED <<mem, used, cidr, users, rules, disturbed>>
      /\ \A h \in Procs : pc'[h] \in {"allow", "register", "deny"} =>
           pc'[h] = pc[h] /\ cur'[h] = cur[h]
  BY DEF RenameTmp, Return
<1> QED  BY <1>1, <1>2, <1>3, QuietStep

(* A New that turns back disturbs its session, and deals with it again.    *)
LEMMA SaveErrResources ==
  ASSUME NEW g \in Procs, ResourceInv, pc[g] \in Saving, SaveErr(g),
         UNCHANGED extVars, disturbed' = disturbed \cup GivenUp(g)
  PROVE  (WorkInv /\ AccountInv /\ RuleInv)'
<1> USE DEF ResourceInv, IndInv, TypeOK, CallInv, FreshInv, LockInv, Goto
<1>1. WorkInv'
  BY DEF WorkInv, SaveErr, GivenUp, Return
<1>2. \A h \in Procs, id \in Ids : Deals(h, id) => Deals(h, id)'
  BY DEF Deals, SaveErr, Return
<1>3. /\ UNCHANGED <<mem, used, cidr, users, rules>> /\ disturbed \subseteq disturbed'
      /\ \A h \in Procs : pc'[h] \in {"allow", "register", "deny"} =>
           pc'[h] = pc[h] /\ cur'[h] = cur[h]
  BY DEF SaveErr, Return
<1> QED  BY <1>1, <1>2, <1>3, QuietStep

(* The save fails, or finds no file to rename. *)
LEMMA SaveAllFailsResources ==
  ASSUME NEW g \in Procs, ResourceInv, SaveAllFails(g) \/ RenameTmpFails(g)
  PROVE  (WorkInv /\ AccountInv /\ RuleInv)'
<1>1. /\ pc[g] \in Saving /\ SaveErr(g) /\ UNCHANGED extVars
      /\ disturbed' = disturbed \cup GivenUp(g)
  BY DEF SaveAllFails, RenameTmpFails, Fault, SaveErr
<1> QED  BY <1>1, SaveErrResources

(* From its registration on the session answers for itself.                *)
LEMMA NewSectionResources ==
  ASSUME NEW g \in Procs, ResourceInv, NewSection(g)
  PROVE  (WorkInv /\ AccountInv /\ RuleInv)'
<1> USE DEF ResourceInv, IndInv, TypeOK, CallInv, FreshInv, LockInv, Goto
<1>1. WorkInv'
  BY DEF WorkInv, NewSection, Return, Holds
<1>2. AccountInv'
  BY DEF WorkInv, AccountInv, LiveSessionHasAccount, Deals, NewSection, Return, Holds
<1>3. RuleInv'
  <2>1. /\ pc[g] = "register" /\ mem' = [mem EXCEPT ![cur[g]] = "active"]
        /\ cur[g] \in Ids /\ cur[g] \in used
        /\ UNCHANGED <<used, cidr, rules, disturbed, cur, work, op>>
        /\ pc' = [pc EXCEPT ![g] = "rlock"]
    <3>1. pc[g] = "register" /\ cur[g] \in Ids /\ cur[g] \in used
      BY DEF NewSection, Holds
    <3> QED  BY <3>1 DEF NewSection
  <2>2. \A h \in Procs, id \in Ids : Deals(h, id) => Deals(h, id)' \/ id = cur[g]
    BY <2>1 DEF WorkInv, Deals
  <2>3. \A c \in rules' : \E id \in used' :
          /\ cidr'[id] = c
          /\ mem'[id] = "active" \/ id \in disturbed' \/ \E h \in Procs : Deals(h, id)'
    BY <2>1, <2>2 DEF RuleInv
  <2>4. ExclusiveRuleStaysOpen'
    BY <2>1 DEF RuleInv, ExclusiveRuleStaysOpen, Shared
  <2>5. \A h \in Procs : pc'[h] = "register" =>
          cidr'[cur'[h]] \in rules' \/ Shared(cur[h]) \/ cur'[h] \in disturbed'
    BY <2>1 DEF RuleInv
  <2> QED  BY <2>1, <2>3, <2>4, <2>5 DEF RuleInv, Shared
<1> QED  BY <1>1, <1>2, <1>3

(* The session that is marked is the one End deals with from now on.       *)
LEMMA EndSectionResources ==
  ASSUME NEW g \in Procs, ResourceInv, EndSection(g)
  PROVE  (WorkInv /\ AccountInv /\ RuleInv)'
<1> USE DEF ResourceInv, IndInv, TypeOK, CallInv, FreshInv, LockInv, Goto
<1>1. WorkInv'
  BY DEF WorkInv, EndSection, Return, Holds
<1>2. \A h \in Procs, id \in Ids : Deals(h, id) => Deals(h, id)'
  BY DEF Deals, EndSection, Return, Holds
<1>3. \A id \in Ids : /\ mem[id] = "active" =>
                           mem'[id] = "active" \/ \E h \in Procs : Deals(h, id)'
                      /\ mem'[id] = "active" => mem[id] = "active"
  BY DEF Deals, EndSection
<1>4. /\ UNCHANGED <<users, rules, used, cidr, disturbed>>
      /\ \A h \in Procs : pc'[h] \in {"allow", "register", "deny"} =>
           pc'[h] = pc[h] /\ cur'[h] = cur[h]
  BY DEF EndSection, Return
<1> QED  BY <1>1, <1>2, <1>3, <1>4, MarkStep

(* The sessions that expire are the ones the reaper deals with.            *)
LEMMA ReapSectionResources ==
  ASSUME ResourceInv, ReapSection
  PROVE  (WorkInv /\ AccountInv /\ RuleInv)'
<1> USE DEF ResourceInv, IndInv, TypeOK, CallInv, FreshInv, LockInv, Goto
<1>1. WorkInv'
  BY DEF WorkInv, ReapSection, Return, Holds
<1>2. \A h \in Procs, id \in Ids : Deals(h, id) => Deals(h, id)'
  BY DEF Deals, ReapSection, Return, Holds
<1>3. \A id \in Ids : /\ mem[id] = "active" =>
                           mem'[id] = "active" \/ \E h \in Procs : Deals(h, id)'
                      /\ mem'[id] = "active" => mem[id] = "active"
  BY DEF WorkInv, Deals, ReapSection
<1>4. /\ UNCHANGED <<users, rules, used, cidr, disturbed>>
      /\ \A h \in Procs : pc'[h] \in {"allow", "register", "deny"} =>
           pc'[h] = pc[h] /\ cur'[h] = cur[h]
  BY DEF ReapSection, Return
<1> QED  BY <1>1, <1>2, <1>3, <1>4, MarkStep

(* No session loses its account that is active and undisturbed, or being   *)
(* provisioned by another call.                                            *)
LEMMA DropUserResources ==
  ASSUME NEW g \in Procs, ResourceInv, DropUser(g)
  PROVE  (WorkInv /\ AccountInv /\ RuleInv)'
<1> USE DEF ResourceInv, IndInv, TypeOK, CallInv, FreshInv, LockInv, Goto
<1>1. WorkInv'
  BY DEF WorkInv, DropUser
<1>2. \A h \in Procs, id \in Ids : Deals(h, id) => Deals(h, id)'
  BY DEF WorkInv, Deals, DropUser
<1>3. PICK id \in work[g] : /\ cur' = [cur EXCEPT ![g] = id]
                           /\ users' = users \ {id}
  BY DEF DropUser
<1>4. mem[id] # "active" \/ id \in disturbed
  BY DEF WorkInv, DropUser
<1>5. \A h \in Procs : pc[h] \in {"allow", "register"} => cur[h] # id \/ id \in disturbed
  BY DEF WorkInv, DropUser
<1>6. AccountInv'
  BY <1>2, <1>3, <1>4, <1>5 DEF AccountInv, LiveSessionHasAccount, DropUser
<1>7. RuleInv'
  BY <1>2 DEF RuleInv, ExclusiveRuleStaysOpen, Shared, DropUser
<1> QED  BY <1>1, <1>6, <1>7

(* The account may stay; the session is disturbed.                         *)
LEMMA DropUserFailsResources ==
  ASSUME NEW g \in Procs, ResourceInv, DropUserFails(g)
  PROVE  (WorkInv /\ AccountInv /\ RuleInv)'
<1> USE DEF ResourceInv, IndInv, TypeOK, CallInv, FreshInv, LockInv, Goto
<1>1. WorkInv'
  BY DEF WorkInv, DropUserFails, Fault
<1>2. AccountInv'
  BY DEF WorkInv, AccountInv, LiveSessionHasAccount, Deals, DropUserFails, Fault
<1>3. RuleInv'
  BY DEF WorkInv, RuleInv, ExclusiveRuleStaysOpen, Shared, Deals, DropUserFails, Fault
<1> QED  BY <1>1, <1>2, <1>3

(* The rule goes with a session that has none; an active session with the  *)
(* same block shares it.                                                   *)
LEMMA DenyResources ==
  ASSUME NEW g \in Procs, ResourceInv, Deny(g)
  PROVE  (WorkInv /\ AccountInv /\ RuleInv)'
<1> USE DEF ResourceInv, IndInv, TypeOK, CallInv, FreshInv, LockInv, Goto
<1>1. WorkInv'
  BY DEF WorkInv, Deny, AfterRevoke, Return
<1>2. \A h \in Procs, id \in Ids : Deals(h, id) => Deals(h, id)' \/ (h = g /\ id = cur[g])
  BY DEF WorkInv, Deals, Deny, AfterRevoke, Return
<1>3. /\ cur[g] \in used
      /\ mem[cur[g]] # "none"
      /\ mem[cur[g]] # "active" \/ cur[g] \in disturbed
  BY DEF WorkInv, Deny
<1>4. /\ pc[g] = "deny" /\ cur' \in [Procs -> Ids \cup {NoId}] /\ pc'[g] # "register"
      /\ pc'[g] # "allow" /\ pc'[g] # "deny"
      /\ \A h \in Procs \ {g} : pc'[h] = pc[h] /\ cur'[h] = cur[h]
  BY DEF Deny, AfterRevoke, Return
<1>5. AccountInv'
  BY <1>2, <1>4 DEF AccountInv, LiveSessionHasAccount, Deny
<1>6. RuleInv'
  <2>1. /\ rules' = rules \ {cidr[cur[g]]}
        /\ UNCHANGED <<mem, used, cidr, disturbed>>
    BY DEF Deny
  <2>2. \A c \in rules' : \E id \in used' :
          /\ cidr'[id] = c
          /\ mem'[id] = "active" \/ id \in disturbed' \/ \E h \in Procs : Deals(h, id)'
    BY <1>2, <2>1 DEF RuleInv
  <2>3. ExclusiveRuleStaysOpen'
    BY <1>3, <2>1 DEF RuleInv, ExclusiveRuleStaysOpen, Shared
  <2>4. \A h \in Procs : pc'[h] = "register" =>
          cidr'[cur'[h]] \in rules' \/ Shared(cur[h])' \/ cur'[h] \in disturbed'
    BY <1>3, <1>4, <2>1 DEF RuleInv, Shared
  <2>5. \A h \in Procs : pc'[h] = "register" => cur'[h] = cur[h]
    BY <1>4
  <2> QED  BY <2>2, <2>3, <2>4, <2>5 DEF RuleInv, Shared
<1> QED  BY <1>1, <1>5, <1>6

(* The rule may stay; the session is disturbed.                            *)
LEMMA DenyFailsResources ==
  ASSUME NEW g \in Procs, ResourceInv, DenyFails(g)
  PROVE  (WorkInv /\ AccountInv /\ RuleInv)'
<1> USE DEF ResourceInv, IndInv, TypeOK, CallInv, FreshInv, LockInv, Goto
<1>1. WorkInv'
  BY DEF WorkInv, DenyFails, Fault, AfterRevoke, Return
<1>2. \A h \in Procs, id \in Ids : Deals(h, id) => Deals(h, id)' \/ (h = g /\ id = cur[g])
  BY DEF WorkInv, Deals, DenyFails, Fault, AfterRevoke, Return
<1>3. /\ cur[g] \in used
      /\ mem[cur[g]] # "none"
      /\ mem[cur[g]] # "active" \/ cur[g] \in disturbed
  BY DEF WorkInv, DenyFails, Fault
<1>4. /\ pc[g] = "deny" /\ cur' \in [Procs -> Ids \cup {NoId}] /\ pc'[g] # "register"
      /\ pc'[g] # "allow" /\ pc'[g] # "deny"
      /\ \A h \in Procs \ {g} : pc'[h] = pc[h] /\ cur'[h] = cur[h]
  BY DEF DenyFails, Fault, AfterRevoke, Return
<1>5. AccountInv'
  BY <1>2, <1>4 DEF AccountInv, LiveSessionHasAccount, DenyFails, Fault
<1>6. RuleInv'
  <2>1. /\ rules \ {cidr[cur[g]]} \subseteq rules' /\ rules' \subseteq rules
        /\ disturbed' = disturbed \cup {cur[g]}
        /\ UNCHANGED <<mem, used, cidr>>
    BY DEF DenyFails, Fault
  <2>2. \A c \in rules' : \E id \in used' :
          /\ cidr'[id] = c
          /\ mem'[id] = "active" \/ id \in disturbed' \/ \E h \in Procs : Deals(h, id)'
    BY <1>2, <2>1 DEF RuleInv
  <2>3. ExclusiveRuleStaysOpen'
    BY <1>3, <2>1 DEF RuleInv, ExclusiveRuleStaysOpen, Shared
  <2>4. \A h \in Procs : pc'[h] = "register" =>
          cidr'[cur'[h]] \in rules' \/ Shared(cur[h])' \/ cur'[h] \in disturbed'
    BY <1>3, <1>4, <2>1 DEF RuleInv, Shared
  <2>5. \A h \in Procs : pc'[h] = "register" => cur'[h] = cur[h]
    BY <1>4
  <2> QED  BY <2>2, <2>3, <2>4, <2>5 DEF RuleInv, Shared
<1> QED  BY <1>1, <1>5, <1>6

(* A new session has an id nobody knows, account and rule are still to come.*)
LEMMA SetupPostResources ==
  ASSUME NEW g \in Workers, ResourceInv, SetupPost(g)
  PROVE  (WorkInv /\ AccountInv /\ RuleInv)'
<1> USE DEF ResourceInv, IndInv, TypeOK, CallInv, FreshInv, LockInv, Goto
<1>1. WorkInv'
  BY DEF WorkInv, SetupPost, Call
<1>2. AccountInv'
  BY DEF WorkInv, AccountInv, LiveSessionHasAccount, Deals, SetupPost, Call
<1>3. RuleInv'
  BY DEF WorkInv, RuleInv, ExclusiveRuleStaysOpen, Shared, Deals, SetupPost, Call
<1> QED  BY <1>1, <1>2, <1>3

(* A handler enters a call with nothing in hand.                           *)
LEMMA HandlerCallResources ==
  ASSUME NEW g \in Workers, NEW o \in Ops, NEW p \in {"mark", "verify", "setpg"}, o \notin {"new", "reap"}, ResourceInv, HandlerCall(g, o, p)
  PROVE  (WorkInv /\ AccountInv /\ RuleInv)'
<1> USE DEF ResourceInv, IndInv, TypeOK, CallInv, FreshInv, LockInv, Goto
<1>1. WorkInv'
  BY DEF WorkInv, HandlerCall, Call, ActiveSession
<1>2. \A h \in Procs, id \in Ids : Deals(h, id) => Deals(h, id)'
  BY DEF WorkInv, Deals, HandlerCall, Call
<1>3. /\ UNCHANGED <<mem, used, cidr, users, rules, disturbed>>
      /\ \A h \in Procs : pc'[h] \in {"allow", "register", "deny"} =>
           pc'[h] = pc[h] /\ cur'[h] = cur[h]
  BY DEF HandlerCall, Call
<1> QED  BY <1>1, <1>2, <1>3, QuietStep

(* The reaper has in hand what has lapsed, and deals with none of it yet.  *)
LEMMA TickResources ==
  ASSUME ResourceInv, Tick
  PROVE  (WorkInv /\ AccountInv /\ RuleInv)'
<1> USE DEF ResourceInv, IndInv, TypeOK, CallInv, FreshInv, LockInv, Goto
<1>1. WorkInv'
  BY DEF WorkInv, Tick, Call
<1>2. \A h \in Procs, id \in Ids : Deals(h, id) => Deals(h, id)'
  BY DEF WorkInv, Deals, Tick, Call
<1>3. /\ UNCHANGED <<mem, used, cidr, users, rules, disturbed>>
      /\ \A h \in Procs : pc'[h] \in {"allow", "register", "deny"} =>
           pc'[h] = pc[h] /\ cur'[h] = cur[h]
  BY DEF Tick, Call
<1> QED  BY <1>1, <1>2, <1>3, QuietStep

(* The clock passes an ExpiresAt.                                          *)
LEMMA LapseResources ==
  ASSUME NEW i \in Ids, ResourceInv, Lapse(i)
  PROVE  (WorkInv /\ AccountInv /\ RuleInv)'
<1> USE DEF ResourceInv, IndInv, TypeOK, CallInv, FreshInv, LockInv, Goto
<1>1. WorkInv'
  BY DEF WorkInv, Lapse
<1>2. \A h \in Procs, id \in Ids : Deals(h, id) => Deals(h, id)'
  BY DEF WorkInv, Deals, Lapse
<1>3. /\ UNCHANGED <<mem, used, cidr, users, rules, disturbed>>
      /\ \A h \in Procs : pc'[h] \in {"allow", "register", "deny"} =>
           pc'[h] = pc[h] /\ cur'[h] = cur[h]
  BY DEF Lapse
<1> QED  BY <1>1, <1>2, <1>3, QuietStep

(* What a call was dealing with, and what the store does not know, is      *)
(* disturbed from now on.                                                  *)
LEMMA RestartResources ==
  ASSUME ResourceInv, Restart
  PROVE  (WorkInv /\ AccountInv /\ RuleInv)'
<1> USE DEF ResourceInv, IndInv, TypeOK, CallInv, FreshInv, LockInv, Goto
<1>1. WorkInv'
  BY DEF WorkInv, Restart, AtRest, InFlight
<1>2. AccountInv'
  BY DEF WorkInv, AccountInv, LiveSessionHasAccount, Deals, Restart, AtRest, InFlight
<1>3. RuleInv'
  BY DEF WorkInv, RuleInv, ExclusiveRuleStaysOpen, Shared, Deals, Restart, AtRest, InFlight
<1> QED  BY <1>1, <1>2, <1>3

(* Nothing changes.                                                        *)
LEMMA StutterResources ==
  ASSUME ResourceInv, UNCHANGED vars
  PROVE  (WorkInv /\ AccountInv /\ RuleInv)'
<1> USE DEF ResourceInv, IndInv, TypeOK, CallInv, FreshInv, LockInv, Goto
<1>1. WorkInv'
  BY DEF WorkInv, vars
<1>2. \A h \in Procs, id \in Ids : Deals(h, id) => Deals(h, id)'
  BY DEF WorkInv, Deals, vars
<1>3. /\ UNCHANGED <<mem, used, cidr, users, rules, disturbed>>
      /\ \A h \in Procs : pc'[h] \in {"allow", "register", "deny"} =>
           pc'[h] = pc[h] /\ cur'[h] = cur[h]
  BY DEF vars
<1> QED  BY <1>1, <1>2, <1>3, QuietStep

(* Every step of the specification preserves the invariant. *)
LEMMA NextResources == ResourceInv /\ [Next]_vars => ResourceInv'
<1> SUFFICES ASSUME ResourceInv, [Next]_vars
             PROVE  (WorkInv /\ AccountInv /\ RuleInv)'
  BY NextInd DEF ResourceInv
<1>1. ASSUME NEW g \in Workers, Request(g)
      PROVE  (WorkInv /\ AccountInv /\ RuleInv)'
  <2>1. CASE SetupPost(g)
    BY <2>1, SetupPostResources
  <2>2. CASE SessionEndPost(g)
    BY <2>2, HandlerCallResources DEF SessionEndPost
  <2>3. CASE GatePost(g)
    BY <2>3, HandlerCallResources DEF GatePost
  <2>4. CASE PlaygroundCreate(g)
    BY <2>4, HandlerCallResources DEF PlaygroundCreate
  <2> QED  BY <1>1, <2>1, <2>2, <2>3, <2>4 DEF Request
<1>2. ASSUME NEW g \in Procs, Step(g)
      PROVE  (WorkInv /\ AccountInv /\ RuleInv)'
  <2>1. CASE Provision(g)
    BY <2>1, CreateUserResources, CreateUserFailsResources, AllowResources,
       AllowFailsResources, RollbackResources DEF Provision
  <2>2. CASE Revoke(g)
    BY <2>2, DropUserResources, DropUserFailsResources, DenyResources,
       DenyFailsResources DEF Revoke
  <2>3. CASE Locked(g)
    BY <2>3, NewSectionResources, EndSectionResources, VerifySectionResources,
       SetPlaygroundDBResources, ReapSectionResources DEF Locked
  <2>4. CASE Save(g)
    BY <2>4, OpenTmpResources, WriteTmpResources, RenameTmpResources,
       SaveAllFailsResources DEF Save
  <2>5. CASE Lock(g) \/ FirstRLock(g) \/ Snapshot(g)
    BY <2>5, LockResources, FirstRLockResources, SnapshotResources
  <2> QED  BY <1>2, <2>1, <2>2, <2>3, <2>4, <2>5 DEF Step
<1>3. ASSUME NEW id \in Ids, Lapse(id)
      PROVE  (WorkInv /\ AccountInv /\ RuleInv)'
  BY <1>3, LapseResources
<1> QED
  BY <1>1, <1>2, <1>3, TickResources, RestartResources, StutterResources DEF Next

(* The inductive invariant holds of every reachable state. *)
THEOREM ResourceInvariance == Spec => []ResourceInv
<1>1. Init => ResourceInv
  <2>1. Init => WorkInv /\ AccountInv /\ RuleInv
    BY DEF Init, WorkInv, AccountInv, RuleInv, LiveSessionHasAccount,
           ExclusiveRuleStaysOpen, AtRest, NothingListed
  <2> QED  BY <2>1, InitInd DEF ResourceInv
<1>2. ResourceInv /\ [Next]_vars => ResourceInv'
  BY NextResources
<1> QED  BY <1>1, <1>2, PTL DEF Spec, Safety

(* A call that deals with a session has it in hand. *)
LEMMA DealsInFlight == \A g \in Procs, id \in Ids : Deals(g, id) => id \in InFlight
BY DEF Deals, InFlight

(* Every MySQL account is that of an active session, or of one that a call  *)
(* under way is provisioning or revoking, unless a failed call or a crash   *)
(* has interfered: no account is left behind.                               *)
THEOREM NoAccountLeftBehind == Spec => []GrantIsTracked
<1>1. ResourceInv => GrantIsTracked
  BY DealsInFlight DEF ResourceInv, IndInv, TypeOK, AccountInv, GrantIsTracked
<1> QED  BY <1>1, ResourceInvariance, PTL

(* A session that callers see as active has its account: whatever calls for *)
(* other sessions, or for the same one, run at the same time.               *)
THEOREM ActiveHasAccount == Spec => []LiveSessionHasAccount
<1>1. ResourceInv => LiveSessionHasAccount
  BY DEF ResourceInv, AccountInv
<1> QED  BY <1>1, ResourceInvariance, PTL

(* Every open rule is owed to a session that is active, to a call that is   *)
(* under way, or to a failure.                                              *)
THEOREM NoRuleLeftBehind == Spec => []RuleIsTracked
<1>1. ResourceInv => RuleIsTracked
  BY DealsInFlight DEF ResourceInv, IndInv, TypeOK, RuleInv, RuleIsTracked
<1> QED  BY <1>1, ResourceInvariance, PTL

(* The rule of an active session stays open if no other session was ever    *)
(* given the same block: no call removes the rule of a session it does not  *)
(* deal with, but by sharing it.                                            *)
THEOREM ExclusiveRuleOpen == Spec => []ExclusiveRuleStaysOpen
<1>1. ResourceInv => ExclusiveRuleStaysOpen
  BY DEF ResourceInv, RuleInv
<1> QED  BY <1>1, ResourceInvariance, PTL
=============================================================================
