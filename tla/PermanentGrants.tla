--------------------------- MODULE PermanentGrants ---------------------------
(***************************************************************************)
(* Permanent grants: a MySQL account and, on request, a ufw rule that stay  *)
(* until an administrator revokes them, and the list the web server keeps   *)
(* of them in memory and in a file.  Each MySQL, ufw and file call of a     *)
(* handler is a step and may fail.  The page of MySQL users works on the    *)
(* same accounts, sessions on the same rules.                               *)
(***************************************************************************)
EXTENDS Naturals, FiniteSets

CONSTANTS Names,      \* accounts, user and host together
          TmpNames,   \* the ones whose user looks like a session's
          Blocks,     \* address blocks
          NoBlock,    \* the form's field left empty
          GrantIds,   \* what newGrantID may draw, never twice the same
          NoGrant,
          Clerks,     \* goroutines of the handlers
          Modes,      \* modes the server may be started in
          MaxGrantFaults, MaxGrantRestarts

ASSUME GrantAssumption ==
  /\ TmpNames \subseteq Names
  /\ NoBlock \notin Blocks
  /\ NoGrant \notin GrantIds
  /\ MaxGrantFaults \in Nat
  /\ MaxGrantRestarts \in Nat

VARIABLES origin,     \* who made each account, "none" when there is none
          open,       \* blocks with an allow rule
          tenants,    \* blocks with a live session
          grants,     \* permanentStore.grants
          file,       \* the list in its file
          mode,       \* cfg.EffectiveMode()
          at, job,    \* each goroutine's next step, and what it is doing
          spent,      \* ids drawn
          opened,     \* history: grants whose rule was opened
          asked,      \* history: accounts somebody asked to have dropped
          excused,    \* history: accounts and blocks that a failure, a crash
                      \* or two callers on one of them have interfered with
          faultsG, restartsG

files   == <<grants, file>>
history == <<spent, opened, asked>>
gvars   == <<origin, open, tenants, files, mode, at, job, history, excused,
             faultsG, restartsG>>

Grant == [id : GrantIds, user : Names, block : Blocks \cup {NoBlock}]
Job   == [op : {"grant", "revoke", "user", "drop"}, fw : BOOLEAN,
          grant : [id : GrantIds \cup {NoGrant}, user : Names, block : Blocks \cup {NoBlock}]]
Steps == {"idle", "create", "cleanup", "allow", "add", "drop", "deny", "remove"}

GrantTypeOK ==
  /\ origin \in [Names -> {"none", "page", "grant"}]
  /\ open \subseteq Blocks /\ tenants \subseteq Blocks
  /\ grants \subseteq Grant /\ file \subseteq Grant
  /\ mode \in Modes
  /\ at \in [Clerks -> Steps] /\ job \in [Clerks -> Job \cup {NoGrant}]
  /\ \A w \in Clerks : at[w] # "idle" => job[w] \in Job
  /\ \A w \in Clerks : at[w] \in {"add", "remove"} => job[w].grant \in Grant
  /\ spent \subseteq GrantIds /\ opened \subseteq GrantIds
  /\ asked \subseteq Names /\ excused \subseteq Names \cup Blocks
  /\ faultsG \in 0..MaxGrantFaults /\ restartsG \in 0..MaxGrantRestarts

GrantInit ==
  /\ origin \in [Names -> {"none", "page"}]
  /\ open = {} /\ tenants = {} /\ grants = {} /\ file = {}
  /\ mode \in Modes
  /\ at = [w \in Clerks |-> "idle"] /\ job = [w \in Clerks |-> NoGrant]
  /\ spent = {} /\ opened = {} /\ asked = {} /\ excused = {}
  /\ faultsG = 0 /\ restartsG = 0

Exists(n)  == origin[n] # "none"
Listed     == {g.user : g \in grants}
InHand     == {w \in Clerks : at[w] # "idle"}
Working(n) == {w \in InHand : job[w].grant.user = n}
Sharing(b) == {w \in InHand : job[w].grant.block = b}
Holders(b) == {g \in grants : g.block = b}
FailureG   == faultsG < MaxGrantFaults /\ faultsG' = faultsG + 1
Go(w, step) == /\ at' = [at EXCEPT ![w] = step]
               /\ job' = [job EXCEPT ![w] = IF step = "idle" THEN NoGrant ELSE @]

(* A handler begins.  Two on the same account, or a second user of a block, *)
(* get in each other's way: both are excused from then on.                  *)
Begin(w, op, g, fw, step) ==
  /\ at[w] = "idle"
  /\ at'  = [at EXCEPT ![w] = step]
  /\ job' = [job EXCEPT ![w] = [op |-> op, grant |-> g, fw |-> fw]]
  /\ excused' = excused
        \cup {n \in {g.user} : Working(n) # {}}
        \cup {b \in {g.block} \ {NoBlock} :
                 Sharing(b) # {} \/ Holders(b) \ {g} # {} \/ b \in tenants}
  /\ UNCHANGED <<origin, open, tenants, files, mode, faultsG, restartsG>>

(* Rejected forms change nothing and are left out, here and below.          *)
PermanentGrant(w) ==
  \E id \in GrantIds \ spent, n \in Names, b \in Blocks \cup {NoBlock}, fw \in BOOLEAN :
    /\ Begin(w, "grant", [id |-> id, user |-> n, block |-> b], fw, "create")
    /\ spent' = spent \cup {id}
    /\ UNCHANGED <<opened, asked>>

PermanentRevoke(w) ==
  \E g \in grants :
    /\ Begin(w, "revoke", g, FALSE, "drop")
    /\ asked' = asked \cup {g.user}
    /\ UNCHANGED <<spent, opened>>

OnlyName(n) == [id |-> NoGrant, user |-> n, block |-> NoBlock]

UserCreate(w) ==
  /\ mode = "unrestricted"
  /\ \E n \in Names : Begin(w, "user", OnlyName(n), FALSE, "create")
  /\ UNCHANGED history

UserDrop(w) ==
  /\ mode = "unrestricted"
  /\ \E n \in Names : /\ Begin(w, "drop", OnlyName(n), FALSE, "drop")
                      /\ asked' = asked \cup {n}
  /\ UNCHANGED <<spent, opened>>

(* CREATE USER fails when there is such an account.                         *)
CreateAdminUser(w) ==
  LET n == job[w].grant.user IN
  /\ at[w] = "create"
  /\ ~Exists(n)
  /\ origin' = [origin EXCEPT ![n] = IF job[w].op = "grant" THEN "grant" ELSE "page"]
  /\ Go(w, IF job[w].op = "grant" THEN "allow" ELSE "idle")
  /\ UNCHANGED <<open, tenants, files, mode, history, excused, faultsG, restartsG>>

(* Slip: a failed CREATE USER is reported without a clean-up.             *)
CreateAdminUserFailsOnly(w) ==
  LET n == job[w].grant.user IN
  /\ at[w] = "create"
  /\ \/ Exists(n) /\ UNCHANGED <<origin, faultsG>>
     \/ FailureG /\ origin' = [origin EXCEPT ![n] = "grant"]
  /\ Go(w, "idle")
  /\ UNCHANGED <<open, tenants, files, mode, history, excused, restartsG>>

(* Either that, or one of the three statements failed.  The account may     *)
(* have been made by then, and a request that is cancelled or out of time   *)
(* cannot clean up either: the clean-up runs under the same context.        *)
CreateAdminUserFails(w) ==
  LET n == job[w].grant.user IN
  /\ at[w] = "create"
  /\ \/ /\ Exists(n)
        /\ Go(w, "cleanup")
        /\ UNCHANGED <<origin, excused, faultsG>>
     \/ /\ FailureG
        /\ \E maker \in {"none", IF job[w].op = "grant" THEN "grant" ELSE "page"} :
             origin' = IF Exists(n) THEN origin ELSE [origin EXCEPT ![n] = maker]
        /\ \/ Go(w, "cleanup") /\ UNCHANGED excused
           \/ Go(w, "idle") /\ excused' = excused \cup {n}
  /\ UNCHANGED <<open, tenants, files, mode, history, restartsG>>

(* DROP USER IF EXISTS, whoever made the account.                           *)
CleanUp(w) ==
  LET n == job[w].grant.user IN
  /\ at[w] = "cleanup"
  /\ origin' = [origin EXCEPT ![n] = "none"]
  /\ excused' = excused \cup ({n} \cap Listed)
  /\ Go(w, "idle")
  /\ UNCHANGED <<open, tenants, files, mode, history, faultsG, restartsG>>

(* Slip: the check for an empty field is missing.                         *)
OpenFirewallUnchecked(w) ==
  /\ at[w] = "allow"
  /\ open' = open \cup {job[w].grant.block}
  /\ opened' = opened \cup {job[w].grant.id}
  /\ Go(w, "add")
  /\ UNCHANGED <<origin, tenants, files, mode, spent, asked, excused, faultsG, restartsG>>

(* The rule is opened on request; a failure is mentioned, no more.          *)
OpenFirewall(w) ==
  LET g == job[w].grant IN
  /\ at[w] = "allow"
  /\ IF job[w].fw /\ g.block # NoBlock
     THEN \/ /\ open' = open \cup {g.block}
             /\ opened' = opened \cup {g.id}
             /\ UNCHANGED <<excused, faultsG>>
          \/ /\ FailureG
             /\ open' \in {open, open \cup {g.block}}
             /\ excused' = excused \cup {g.block}
             /\ UNCHANGED opened
     ELSE UNCHANGED <<open, opened, excused, faultsG>>
  /\ Go(w, "add")
  /\ UNCHANGED <<origin, tenants, files, mode, spent, asked, restartsG>>

(* The list is changed and written under the store's lock; whether the file *)
(* was written is not looked at.                                            *)
Store(list) ==
  /\ grants' = list
  /\ \/ file' = list /\ UNCHANGED faultsG
     \/ FailureG /\ UNCHANGED file

Add(w) ==
  /\ at[w] = "add"
  /\ Store(grants \cup {job[w].grant})
  /\ Go(w, "idle")
  /\ UNCHANGED <<origin, open, tenants, mode, history, excused, restartsG>>

(* Refuses the accounts that look like a session's.  Revoke goes on after   *)
(* an error, the page of users only reports it.                             *)
DropAdminUser(w) ==
  LET n == job[w].grant.user IN
  /\ at[w] = "drop"
  /\ \/ /\ n \notin TmpNames
        /\ origin' = [origin EXCEPT ![n] = "none"]
        /\ excused' = IF job[w].op = "drop" THEN excused \cup ({n} \cap Listed) ELSE excused
        /\ UNCHANGED faultsG
     \/ n \in TmpNames /\ UNCHANGED <<origin, excused, faultsG>>
     \/ FailureG /\ excused' = excused \cup {n} /\ UNCHANGED origin
  /\ Go(w, IF job[w].op = "drop" THEN "idle" ELSE "deny")
  /\ UNCHANGED <<open, tenants, files, mode, history, restartsG>>

(* Slip: the rule is closed only when the form of this request says so.   *)
CloseFirewallAsked(w) ==
  /\ at[w] = "deny"
  /\ open' = IF job[w].fw THEN open \ {job[w].grant.block} ELSE open
  /\ Go(w, "remove")
  /\ UNCHANGED <<origin, tenants, files, mode, history, excused, faultsG, restartsG>>

(* Whether or not this grant had the rule opened.                           *)
CloseFirewall(w) ==
  LET b == job[w].grant.block IN
  /\ at[w] = "deny"
  /\ \/ open' = open \ {b} /\ UNCHANGED <<excused, faultsG>>
     \/ b # NoBlock /\ FailureG /\ excused' = excused \cup {b} /\ UNCHANGED open
  /\ Go(w, "remove")
  /\ UNCHANGED <<origin, tenants, files, mode, history, restartsG>>

Remove(w) ==
  /\ at[w] = "remove"
  /\ IF job[w].grant \in grants
     THEN Store(grants \ {job[w].grant})
     ELSE UNCHANGED <<files, faultsG>>
  /\ Go(w, "idle")
  /\ UNCHANGED <<origin, open, tenants, mode, history, excused, restartsG>>

(* A session opens and closes the same rules (Activator).                   *)
SessionOpens(b) ==
  /\ b \notin tenants
  /\ tenants' = tenants \cup {b} /\ open' = open \cup {b}
  /\ excused' = excused \cup {c \in {b} : Holders(c) # {} \/ Sharing(c) # {}}
  /\ UNCHANGED <<origin, files, mode, at, job, history, faultsG, restartsG>>

SessionCloses(b) ==
  /\ b \in tenants
  /\ tenants' = tenants \ {b} /\ open' = open \ {b}
  /\ UNCHANGED <<origin, files, mode, at, job, history, excused, faultsG, restartsG>>

(* A crash: the list is what the file has, and what was in hand or not in   *)
(* the file is excused.                                                     *)
RestartWeb ==
  /\ restartsG < MaxGrantRestarts
  /\ restartsG' = restartsG + 1
  /\ grants' = file
  /\ mode' \in Modes
  /\ excused' = excused \cup
       LET torn == {job[w].grant : w \in InHand} \cup (grants \ file) \cup (file \ grants)
       IN  {g.user : g \in torn} \cup ({g.block : g \in torn} \ {NoBlock})
  /\ at' = [w \in Clerks |-> "idle"] /\ job' = [w \in Clerks |-> NoGrant]
  /\ UNCHANGED <<origin, open, tenants, file, history, faultsG>>

GrantStep(w) ==
  \/ PermanentGrant(w) \/ PermanentRevoke(w) \/ UserCreate(w) \/ UserDrop(w)
  \/ CreateAdminUser(w) \/ CreateAdminUserFails(w) \/ CleanUp(w)
  \/ OpenFirewall(w) \/ Add(w)
  \/ DropAdminUser(w) \/ CloseFirewall(w) \/ Remove(w)

GrantNext ==
  \/ \E w \in Clerks : GrantStep(w)
  \/ \E b \in Blocks : SessionOpens(b) \/ SessionCloses(b)
  \/ RestartWeb

GrantSpec == GrantInit /\ [][GrantNext]_gvars

-----------------------------------------------------------------------------
(* The list tells the accounts: once nobody is at work on a name, a grant   *)
(* made the account if and only if a grant with that name is listed (the    *)
(* page of grants shows every account there is, and no other).  Excused are *)
(* the names of history, and those DropAdminUser refuses to drop.           *)
AccountMatchesList ==
  \A n \in Names \ (excused \cup TmpNames) :
    Working(n) = {} => (origin[n] = "grant" <=> n \in Listed)

(* The list tells the rules: a block nobody shares is open if and only if   *)
(* its session is live or its grant, having opened it, is listed.           *)
RuleMatchesList ==
  \A b \in Blocks \ excused :
    Sharing(b) = {} =>
      (b \in open <=> b \in tenants \/ \E g \in Holders(b) : g.id \in opened)

(* "Unlike FlashAccess session users, these persist indefinitely": a listed *)
(* grant has its account until somebody asks to have it dropped.            *)
GrantsPersist == \A g \in grants : Exists(g.user) \/ g.user \in asked
=============================================================================
