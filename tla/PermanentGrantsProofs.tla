------------------------ MODULE PermanentGrantsProofs ------------------------
(***************************************************************************)
(* For any accounts, blocks, ids and handlers and any number of failures    *)
(* and restarts: the list of permanent grants tells which accounts a grant  *)
(* has made, and which rules it has opened, wherever nobody interferes.     *)
(***************************************************************************)
EXTENDS PermanentGrants, TLAPS

(* What of a name nobody interferes with: one handler at most works on it,  *)
(* one grant at most is listed for it, and account and list part only       *)
(* between the account's making or dropping and the list's change.          *)
Matches(n) == origin[n] = "grant" <=> n \in Listed
Pending(n, w) ==
  /\ at[w] \in {"create", "drop"} => Matches(n)
  /\ at[w] \in {"allow", "add"} => origin[n] = "grant" /\ n \notin Listed
  /\ at[w] \in {"deny", "remove"} => origin[n] # "grant"
  /\ job[w].op = "revoke" /\ at[w] \in {"drop", "deny", "remove"} =>
       \A g \in grants : g.user = n => g = job[w].grant
NameInv(n) ==
  /\ \A v, w \in Working(n) : v = w
  /\ \A g, h \in grants : g.user = n /\ h.user = n => g = h
  /\ Working(n) = {} => Matches(n)
  /\ \A w \in Working(n) : Pending(n, w)

(* Which call a handler is in.                                              *)
CallInv ==
  \A w \in InHand :
    /\ at[w] \in {"allow", "add"} => job[w].op = "grant"
    /\ at[w] \in {"deny", "remove"} => job[w].op = "revoke"
    /\ at[w] = "drop" => job[w].op \in {"drop", "revoke"}
    /\ at[w] \in {"create", "cleanup"} => job[w].op \in {"grant", "user"}
    /\ job[w].op \in {"user", "drop"} => job[w].grant.block = NoBlock
    /\ job[w].op \in {"grant", "revoke"} => job[w].grant \in Grant

Undisturbed == Names \ (excused \cup TmpNames)
AccountInv == GrantTypeOK /\ CallInv /\ \A n \in Undisturbed : NameInv(n)

USE GrantAssumption

LEMMA AccountInit == GrantInit => AccountInv
<1> SUFFICES ASSUME GrantInit PROVE AccountInv OBVIOUS
<1>1. GrantTypeOK BY DEF GrantInit, GrantTypeOK, Steps
<1>2. InHand = {} BY DEF GrantInit, InHand
<1>3. grants = {} /\ Listed = {} BY DEF GrantInit, Listed
<1>4. \A n \in Names : Working(n) = {} /\ origin[n] # "grant"
  BY <1>2 DEF Working, GrantInit
<1> QED BY <1>1, <1>2, <1>3, <1>4 DEF AccountInv, CallInv, NameInv, Matches, Undisturbed

-----------------------------------------------------------------------------
(* A handler goes on.                                                       *)
LEMMA GoOn ==
  ASSUME GrantTypeOK, CallInv, NEW w \in Clerks, NEW step \in Steps, Go(w, step), at[w] # "idle",
         step \in {"add", "remove"} => job[w].grant \in Grant,
         step \in {"allow", "add"} => job[w].op = "grant",
         step \in {"deny", "remove"} => job[w].op = "revoke",
         step = "drop" => job[w].op \in {"drop", "revoke"},
         step \in {"create", "cleanup"} => job[w].op \in {"grant", "user"}
  PROVE  /\ at' \in [Clerks -> Steps] /\ job' \in [Clerks -> Job \cup {NoGrant}]
         /\ \A v \in Clerks : at'[v] # "idle" => job'[v] \in Job
         /\ \A v \in Clerks : at'[v] \in {"add", "remove"} => job'[v].grant \in Grant
         /\ CallInv'
         /\ at'[w] = step /\ (step # "idle" => job'[w] = job[w])
         /\ \A v \in Clerks \ {w} : at'[v] = at[v] /\ job'[v] = job[v]
<1>1. at' = [at EXCEPT ![w] = step] BY DEF Go
<1>2. job' = [job EXCEPT ![w] = IF step = "idle" THEN NoGrant ELSE @] BY DEF Go
<1>3. /\ at' \in [Clerks -> Steps] /\ job' \in [Clerks -> Job \cup {NoGrant}]
      /\ at'[w] = step /\ (step # "idle" => job'[w] = job[w])
      /\ \A v \in Clerks \ {w} : at'[v] = at[v] /\ job'[v] = job[v]
  BY <1>1, <1>2 DEF GrantTypeOK
<1>4. /\ \A v \in Clerks : at'[v] # "idle" => job'[v] \in Job
      /\ \A v \in Clerks : at'[v] \in {"add", "remove"} => job'[v].grant \in Grant
  BY <1>3 DEF GrantTypeOK
<1>5. CallInv' BY <1>3 DEF CallInv, InHand
<1> QED BY <1>3, <1>4, <1>5

(* What becomes of a name when a handler goes on: for any name but its own  *)
(* everything stays, of its own it is the only one.                         *)
LEMMA StepName ==
  ASSUME GrantTypeOK, CallInv, NEW w \in Clerks, NEW step \in Steps, at[w] # "idle",
         at'[w] = step, step # "idle" => job'[w] = job[w],
         \A v \in Clerks \ {w} : at'[v] = at[v] /\ job'[v] = job[v],
         NEW n \in Names, NameInv(n),
         n # job[w].grant.user =>
           /\ origin'[n] = origin[n]
           /\ \A g : g.user = n => (g \in grants' <=> g \in grants),
         n = job[w].grant.user =>
           /\ \A g, h \in grants' : g.user = n /\ h.user = n => g = h
           /\ step = "idle" => Matches(n)'
           /\ step # "idle" => Pending(n, w)'
  PROVE  NameInv(n)'
<1>1. CASE n # job[w].grant.user
  <2>1. Working(n)' = Working(n) BY <1>1 DEF Working, InHand
  <2>2. w \notin Working(n) BY <1>1 DEF Working
  <2>3. \A v \in Working(n) : at'[v] = at[v] /\ job'[v] = job[v] BY <2>2 DEF Working, InHand
  <2>4. n \in Listed' <=> n \in Listed BY <1>1 DEF Listed
  <2>5. Matches(n)' <=> Matches(n) BY <1>1, <2>4 DEF Matches
  <2>6. \A g : g \in grants' /\ g.user = n => g \in grants BY <1>1
  <2>7. ASSUME NEW v \in Working(n) PROVE Pending(n, v)'
    BY <1>1, <2>3, <2>4, <2>5, <2>6 DEF Pending, NameInv
  <2> QED BY <2>1, <2>5, <2>6, <2>7 DEF NameInv
<1>2. CASE n = job[w].grant.user
  <2>1. Working(n) = {w} BY <1>2 DEF NameInv, Working, InHand
  <2>2. Working(n)' = IF step = "idle" THEN {} ELSE {w}
    BY <1>2, <2>1 DEF Working, InHand
  <2> QED BY <1>2, <2>2 DEF NameInv
<1> QED BY <1>1, <1>2

LEMMA Untouched ==
  ASSUME CallInv, NEW n \in Names, NameInv(n), UNCHANGED <<at, job, origin, grants>>
  PROVE  NameInv(n)' /\ CallInv'
BY DEF NameInv, CallInv, Working, InHand, Listed, Matches, Pending

(* A handler begins, on a name nobody works on or one it excuses.           *)
LEMMA BeginStep ==
  ASSUME AccountInv, NEW w \in Clerks, NEW op, NEW g, NEW fw, NEW step \in {"create", "drop"},
         Begin(w, op, g, fw, step), spent' \subseteq GrantIds, opened' \subseteq GrantIds,
         asked' \subseteq Names,
         [op |-> op, grant |-> g, fw |-> fw] \in Job,
         step = "create" => op \in {"grant", "user"},
         step = "drop" => op \in {"drop", "revoke"},
         op = "revoke" => g \in grants,
         op \in {"user", "drop"} => g.block = NoBlock,
         op \in {"grant", "revoke"} => g \in Grant
  PROVE  AccountInv'
<1> DEFINE task == [op |-> op, grant |-> g, fw |-> fw]
<1>1. /\ at[w] = "idle" /\ at' = [at EXCEPT ![w] = step] /\ job' = [job EXCEPT ![w] = task]
      /\ UNCHANGED <<origin, open, tenants, grants, file, mode, faultsG, restartsG>>
  BY DEF Begin, files
<1>2. /\ at'[w] = step /\ job'[w] = task
      /\ \A v \in Clerks \ {w} : at'[v] = at[v] /\ job'[v] = job[v]
      /\ at' \in [Clerks -> Steps] /\ job' \in [Clerks -> Job \cup {NoGrant}]
  BY <1>1 DEF AccountInv, GrantTypeOK, Steps
<1>3. g.user \in Names /\ g.block \in Blocks \cup {NoBlock} BY DEF Job
<1>4. excused \subseteq excused' /\ excused' \subseteq Names \cup Blocks
  BY <1>3 DEF Begin, AccountInv, GrantTypeOK
<1>5. Working(g.user) # {} => g.user \in excused' BY DEF Begin
<1>6. GrantTypeOK' BY <1>1, <1>2, <1>4 DEF AccountInv, GrantTypeOK
<1>7. CallInv' BY <1>2 DEF AccountInv, CallInv, InHand
<1>8. ASSUME NEW n \in Undisturbed' PROVE NameInv(n)'
  <2>1. n \in Undisturbed /\ n \in Names /\ NameInv(n)
    BY <1>4 DEF Undisturbed, AccountInv
  <2>2. Matches(n)' <=> Matches(n) BY <1>1 DEF Matches, Listed
  <2>3. CASE n # g.user
    <3>1. Working(n)' = Working(n) BY <1>1, <1>2, <2>3 DEF Working, InHand
    <3>2. \A v \in Working(n) : at'[v] = at[v] /\ job'[v] = job[v]
      BY <1>1, <1>2 DEF Working, InHand
    <3> QED BY <1>1, <2>1, <2>2, <3>1, <3>2 DEF NameInv, Pending, Listed
  <2>4. CASE n = g.user
    <3>1. Working(n) = {} BY <1>5, <2>4 DEF Undisturbed
    <3>2. Working(n)' = {w} BY <1>1, <1>2, <2>4, <3>1 DEF Working, InHand
    <3>3. Matches(n)' BY <2>1, <2>2, <3>1 DEF NameInv
    <3>4. Pending(n, w)'
      BY <1>1, <1>2, <2>1, <2>4, <3>3 DEF Pending, NameInv
    <3> QED BY <1>1, <2>1, <3>2, <3>3, <3>4 DEF NameInv
  <2> QED BY <2>3, <2>4
<1> QED BY <1>6, <1>7, <1>8 DEF AccountInv

LEMMA Begins ==
  ASSUME AccountInv, NEW w \in Clerks,
         PermanentGrant(w) \/ PermanentRevoke(w) \/ UserCreate(w) \/ UserDrop(w)
  PROVE  AccountInv'
<1>1. spent \subseteq GrantIds /\ opened \subseteq GrantIds /\ asked \subseteq Names
  BY DEF AccountInv, GrantTypeOK
<1>2. CASE PermanentGrant(w)
  <2>1. PICK id \in GrantIds \ spent, n \in Names, b \in Blocks \cup {NoBlock}, fw \in BOOLEAN :
          /\ Begin(w, "grant", [id |-> id, user |-> n, block |-> b], fw, "create")
          /\ spent' = spent \cup {id}
          /\ UNCHANGED <<opened, asked>>
    BY <1>2 DEF PermanentGrant
  <2>2. /\ [op |-> "grant", grant |-> [id |-> id, user |-> n, block |-> b], fw |-> fw] \in Job
        /\ [id |-> id, user |-> n, block |-> b] \in Grant
    BY DEF Job, Grant
  <2> QED BY <1>1, <2>1, <2>2, BeginStep
<1>3. CASE PermanentRevoke(w)
  <2>1. PICK g \in grants : Begin(w, "revoke", g, FALSE, "drop") /\ asked' = asked \cup {g.user}
    BY <1>3 DEF PermanentRevoke
  <2>2. g \in Grant BY DEF AccountInv, GrantTypeOK
  <2>3. [op |-> "revoke", grant |-> g, fw |-> FALSE] \in Job /\ g.user \in Names
    BY <2>2 DEF Job, Grant
  <2>4. UNCHANGED <<spent, opened>> BY <1>3 DEF PermanentRevoke
  <2> QED BY <1>1, <2>1, <2>2, <2>3, <2>4, BeginStep
<1>4. CASE UserCreate(w)
  <2>1. PICK n \in Names : Begin(w, "user", OnlyName(n), FALSE, "create")
    BY <1>4 DEF UserCreate
  <2>2. [op |-> "user", grant |-> OnlyName(n), fw |-> FALSE] \in Job /\ OnlyName(n).block = NoBlock
    BY DEF Job, OnlyName
  <2>3. UNCHANGED history BY <1>4 DEF UserCreate
  <2> QED BY <1>1, <2>1, <2>2, <2>3, BeginStep DEF history
<1>5. CASE UserDrop(w)
  <2>1. PICK n \in Names : Begin(w, "drop", OnlyName(n), FALSE, "drop") /\ asked' = asked \cup {n}
    BY <1>5 DEF UserDrop
  <2>2. [op |-> "drop", grant |-> OnlyName(n), fw |-> FALSE] \in Job /\ OnlyName(n).block = NoBlock
    BY DEF Job, OnlyName
  <2>3. UNCHANGED <<spent, opened>> BY <1>5 DEF UserDrop
  <2> QED BY <1>1, <2>1, <2>2, <2>3, BeginStep
<1> QED BY <1>2, <1>3, <1>4, <1>5

-----------------------------------------------------------------------------
(* What every later step of a handler shares: it goes on to some step, and  *)
(* what it leaves behind is typed.                                          *)
LEMMA CallStep ==
  ASSUME AccountInv, NEW w \in Clerks, NEW step \in Steps, Go(w, step), at[w] # "idle",
         step \in {"add", "remove"} => job[w].grant \in Grant,
         step \in {"allow", "add"} => job[w].op = "grant",
         step \in {"deny", "remove"} => job[w].op = "revoke",
         step = "cleanup" => at[w] = "create",
         step \notin {"create", "drop"},
         origin' \in [Names -> {"none", "page", "grant"}], open' \subseteq Blocks,
         grants' \subseteq Grant, file' \subseteq Grant, opened' \subseteq GrantIds,
         excused \subseteq excused', excused' \subseteq Names \cup Blocks,
         faultsG' \in 0..MaxGrantFaults,
         UNCHANGED <<tenants, mode, spent, asked, restartsG>>,
         \A n \in Undisturbed' : n # job[w].grant.user =>
           /\ origin'[n] = origin[n]
           /\ \A g : g.user = n => (g \in grants' <=> g \in grants),
         \A n \in Undisturbed' : n = job[w].grant.user =>
           /\ \A g, h \in grants' : g.user = n /\ h.user = n => g = h
           /\ step = "idle" => Matches(n)'
           /\ at'[w] = step /\ step # "idle" /\ job'[w] = job[w] => Pending(n, w)'
  PROVE  AccountInv'
<1>1. /\ GrantTypeOK /\ CallInv
      /\ step \in {"create", "cleanup"} => job[w].op \in {"grant", "user"}
  BY DEF AccountInv, CallInv, InHand
<1>2. /\ at' \in [Clerks -> Steps] /\ job' \in [Clerks -> Job \cup {NoGrant}]
      /\ \A v \in Clerks : at'[v] # "idle" => job'[v] \in Job
      /\ \A v \in Clerks : at'[v] \in {"add", "remove"} => job'[v].grant \in Grant
      /\ CallInv'
      /\ at'[w] = step /\ (step # "idle" => job'[w] = job[w])
      /\ \A v \in Clerks \ {w} : at'[v] = at[v] /\ job'[v] = job[v]
  BY <1>1, GoOn
<1>3. GrantTypeOK' BY <1>1, <1>2 DEF GrantTypeOK
<1>4. ASSUME NEW n \in Undisturbed' PROVE NameInv(n)'
  <2>1. n \in Names /\ NameInv(n) BY DEF Undisturbed, AccountInv
  <2>2. n # job[w].grant.user => /\ origin'[n] = origin[n]
                                 /\ \A g : g.user = n => (g \in grants' <=> g \in grants)
    OBVIOUS
  <2>3. n = job[w].grant.user =>
           /\ \A g, h \in grants' : g.user = n /\ h.user = n => g = h
           /\ step = "idle" => Matches(n)'
           /\ step # "idle" => Pending(n, w)'
    BY <1>2
  <2> QED BY <1>1, <1>2, <2>1, <2>2, <2>3, StepName
<1> QED BY <1>2, <1>3, <1>4 DEF AccountInv

(* What the invariant says of the name a handler works on.                  *)
LEMMA AtHand ==
  ASSUME AccountInv, NEW w \in Clerks, at[w] # "idle"
  PROVE  /\ job[w] \in Job /\ job[w].grant.user \in Names
         /\ job[w].grant.user \in Undisturbed =>
              NameInv(job[w].grant.user) /\ Pending(job[w].grant.user, w)
<1>1. job[w] \in Job BY DEF AccountInv, GrantTypeOK
<1>2. w \in Working(job[w].grant.user) BY DEF Working, InHand
<1> QED BY <1>1, <1>2 DEF Job, AccountInv, NameInv

-----------------------------------------------------------------------------
(* The MySQL calls.                                                         *)
LEMMA CreateStep ==
  ASSUME AccountInv, NEW w \in Clerks, CreateAdminUser(w)
  PROVE  AccountInv'
<1>0. PICK m, step, maker : /\ m = job[w].grant.user
                            /\ step = IF job[w].op = "grant" THEN "allow" ELSE "idle"
                            /\ maker = IF job[w].op = "grant" THEN "grant" ELSE "page"
  OBVIOUS
<1>1. /\ at[w] = "create" /\ ~Exists(m) /\ Go(w, step)
      /\ origin' = [origin EXCEPT ![m] = maker]
      /\ UNCHANGED <<open, tenants, files, mode, history, excused, faultsG, restartsG>>
  BY <1>0 DEF CreateAdminUser
<1>2. /\ m \in Names /\ (m \in Undisturbed => NameInv(m) /\ Pending(m, w))
      /\ w \in InHand
  BY <1>0, <1>1, AtHand DEF InHand
<1>3. GrantTypeOK BY DEF AccountInv
<1>4. /\ origin' \in [Names -> {"none", "page", "grant"}]
      /\ origin'[m] = maker /\ \A n \in Names \ {m} : origin'[n] = origin[n]
  BY <1>0, <1>1, <1>2, <1>3 DEF GrantTypeOK
<1>5. /\ open' \subseteq Blocks /\ grants' \subseteq Grant /\ file' \subseteq Grant
      /\ opened' \subseteq GrantIds /\ excused' = excused /\ excused' \subseteq Names \cup Blocks
      /\ faultsG' \in 0..MaxGrantFaults /\ grants' = grants
      /\ UNCHANGED <<tenants, mode, spent, asked, restartsG>>
  BY <1>1, <1>3 DEF GrantTypeOK, files, history
<1>6. step \in Steps /\ step \notin {"create", "drop", "add", "remove", "deny"}
      /\ (step = "allow" => job[w].op = "grant")
  BY <1>0 DEF Steps
<1>7. ASSUME m \in Undisturbed'
      PROVE  /\ \A g, h \in grants' : g.user = m /\ h.user = m => g = h
             /\ step = "idle" => Matches(m)'
             /\ at'[w] = step /\ step # "idle" /\ job'[w] = job[w] => Pending(m, w)'
  <2>1. NameInv(m) /\ Pending(m, w) BY <1>2, <1>5, <1>7 DEF Undisturbed
  <2>2. m \notin Listed /\ m \notin Listed'
    BY <1>1, <1>5, <2>1 DEF Pending, Matches, Exists, Listed
  <2> QED BY <1>0, <1>4, <1>5, <2>1, <2>2 DEF Matches, Pending, NameInv
<1>8. \A n \in Undisturbed' : n # m =>
        /\ origin'[n] = origin[n]
        /\ \A g : g.user = n => (g \in grants' <=> g \in grants)
  BY <1>4, <1>5 DEF Undisturbed
<1> QED BY <1>0, <1>1, <1>4, <1>5, <1>6, <1>7, <1>8, CallStep

LEMMA CreateFailsStep ==
  ASSUME AccountInv, NEW w \in Clerks, CreateAdminUserFails(w)
  PROVE  AccountInv'
<1>0. PICK m : m = job[w].grant.user
  OBVIOUS
<1>1. /\ at[w] = "create"
      /\ UNCHANGED <<open, tenants, files, mode, history, restartsG>>
  BY <1>0 DEF CreateAdminUserFails
<1>2. /\ m \in Names /\ (m \in Undisturbed => NameInv(m) /\ Pending(m, w))
      /\ job[w] \in Job
  BY <1>0, <1>1, AtHand
<1>3. GrantTypeOK BY DEF AccountInv
<1>4. /\ origin' \in [Names -> {"none", "page", "grant"}]
      /\ \A n \in Names \ {m} : origin'[n] = origin[n]
      /\ faultsG' \in 0..MaxGrantFaults
  BY <1>0, <1>2, <1>3 DEF CreateAdminUserFails, GrantTypeOK, FailureG
<1>5. PICK step \in {"cleanup", "idle"} : /\ Go(w, step)
                                          /\ step = "cleanup" => excused' = excused
                                          /\ step = "idle" => excused' = excused \cup {m}
  BY <1>0 DEF CreateAdminUserFails
<1>6. /\ open' \subseteq Blocks /\ grants' \subseteq Grant /\ file' \subseteq Grant
      /\ opened' \subseteq GrantIds /\ grants' = grants
      /\ excused \subseteq excused' /\ excused' \subseteq Names \cup Blocks
      /\ UNCHANGED <<tenants, mode, spent, asked, restartsG>>
  BY <1>1, <1>2, <1>3, <1>5 DEF GrantTypeOK, files, history
<1>7. ASSUME m \in Undisturbed'
      PROVE  /\ \A g, h \in grants' : g.user = m /\ h.user = m => g = h
             /\ step = "idle" => Matches(m)'
             /\ at'[w] = step /\ step # "idle" /\ job'[w] = job[w] => Pending(m, w)'
  <2>1. NameInv(m) /\ step # "idle" BY <1>2, <1>5, <1>6, <1>7 DEF Undisturbed
  <2> QED BY <1>6, <2>1 DEF Pending, NameInv
<1>8. \A n \in Undisturbed' : n # m =>
        /\ origin'[n] = origin[n]
        /\ \A g : g.user = n => (g \in grants' <=> g \in grants)
  BY <1>4, <1>6 DEF Undisturbed
<1>9. step \in Steps BY DEF Steps
<1> QED BY <1>0, <1>1, <1>4, <1>5, <1>6, <1>7, <1>8, <1>9, CallStep

LEMMA CleanUpStep ==
  ASSUME AccountInv, NEW w \in Clerks, CleanUp(w)
  PROVE  AccountInv'
<1>0. PICK m : m = job[w].grant.user
  OBVIOUS
<1>1. /\ at[w] = "cleanup" /\ Go(w, "idle")
      /\ origin' = [origin EXCEPT ![m] = "none"]
      /\ excused' = excused \cup ({m} \cap Listed)
      /\ UNCHANGED <<open, tenants, files, mode, history, faultsG, restartsG>>
  BY <1>0 DEF CleanUp
<1>2. m \in Names /\ (m \in Undisturbed => NameInv(m)) BY <1>0, <1>1, AtHand
<1>3. GrantTypeOK BY DEF AccountInv
<1>4. /\ origin' \in [Names -> {"none", "page", "grant"}]
      /\ origin'[m] = "none" /\ \A n \in Names \ {m} : origin'[n] = origin[n]
  BY <1>1, <1>2, <1>3 DEF GrantTypeOK
<1>5. /\ open' \subseteq Blocks /\ grants' \subseteq Grant /\ file' \subseteq Grant
      /\ opened' \subseteq GrantIds /\ grants' = grants /\ faultsG' \in 0..MaxGrantFaults
      /\ excused \subseteq excused' /\ excused' \subseteq Names \cup Blocks
      /\ UNCHANGED <<tenants, mode, spent, asked, restartsG>>
  BY <1>1, <1>2, <1>3 DEF GrantTypeOK, files, history
<1>6. ASSUME m \in Undisturbed'
      PROVE  /\ \A g, h \in grants' : g.user = m /\ h.user = m => g = h
             /\ Matches(m)'
  <2>1. NameInv(m) BY <1>2, <1>5, <1>6 DEF Undisturbed
  <2>2. m \notin Listed' BY <1>1, <1>5, <1>6 DEF Undisturbed, Listed
  <2> QED BY <1>4, <1>5, <2>1, <2>2 DEF Matches, NameInv
<1>7. \A n \in Undisturbed' : n # m =>
        /\ origin'[n] = origin[n]
        /\ \A g : g.user = n => (g \in grants' <=> g \in grants)
  BY <1>4, <1>5 DEF Undisturbed
<1>8. "idle" \in Steps BY DEF Steps
<1> QED BY <1>0, <1>1, <1>4, <1>5, <1>6, <1>7, <1>8, CallStep

LEMMA DropStep ==
  ASSUME AccountInv, NEW w \in Clerks, DropAdminUser(w)
  PROVE  AccountInv'
<1>0. PICK m, step : /\ m = job[w].grant.user
                     /\ step = IF job[w].op = "drop" THEN "idle" ELSE "deny"
  OBVIOUS
<1>1. /\ at[w] = "drop" /\ Go(w, step)
      /\ UNCHANGED <<open, tenants, files, mode, history, restartsG>>
  BY <1>0 DEF DropAdminUser
<1>2. /\ m \in Names /\ (m \in Undisturbed => NameInv(m) /\ Pending(m, w))
      /\ job[w].op \in {"drop", "revoke"}
  BY <1>0, <1>1, AtHand DEF AccountInv, CallInv, InHand
<1>3. GrantTypeOK BY DEF AccountInv
<1>4. \/ /\ m \notin TmpNames
         /\ origin' = [origin EXCEPT ![m] = "none"]
         /\ excused' = IF job[w].op = "drop" THEN excused \cup ({m} \cap Listed) ELSE excused
         /\ UNCHANGED faultsG
      \/ m \in TmpNames /\ UNCHANGED <<origin, excused, faultsG>>
      \/ FailureG /\ excused' = excused \cup {m} /\ UNCHANGED origin
  BY <1>0 DEF DropAdminUser
<1>5. /\ origin' \in [Names -> {"none", "page", "grant"}]
      /\ \A n \in Names \ {m} : origin'[n] = origin[n]
      /\ excused \subseteq excused' /\ excused' \subseteq Names \cup Blocks
      /\ faultsG' \in 0..MaxGrantFaults
  BY <1>2, <1>3, <1>4 DEF GrantTypeOK, FailureG
<1>6. /\ open' \subseteq Blocks /\ grants' \subseteq Grant /\ file' \subseteq Grant
      /\ opened' \subseteq GrantIds /\ grants' = grants
      /\ UNCHANGED <<tenants, mode, spent, asked, restartsG>>
  BY <1>1, <1>3 DEF GrantTypeOK, files, history
<1>7. ASSUME m \in Undisturbed'
      PROVE  /\ \A g, h \in grants' : g.user = m /\ h.user = m => g = h
             /\ step = "idle" => Matches(m)'
             /\ at'[w] = step /\ step # "idle" /\ job'[w] = job[w] => Pending(m, w)'
  <2>1. NameInv(m) /\ Pending(m, w) BY <1>2, <1>5, <1>7 DEF Undisturbed
  <2>2. origin'[m] = "none" BY <1>2, <1>3, <1>4, <1>7 DEF Undisturbed, GrantTypeOK
  <2>3. step = "idle" => m \notin Listed'
    BY <1>0, <1>2, <1>3, <1>4, <1>6, <1>7 DEF Undisturbed, Listed
  <2>4. step # "idle" => \A g \in grants : g.user = m => g = job[w].grant
    BY <1>0, <1>1, <1>2, <2>1 DEF Pending
  <2> QED BY <1>0, <1>6, <2>1, <2>2, <2>3, <2>4 DEF Matches, Pending, NameInv
<1>8. \A n \in Undisturbed' : n # m =>
        /\ origin'[n] = origin[n]
        /\ \A g : g.user = n => (g \in grants' <=> g \in grants)
  BY <1>5, <1>6 DEF Undisturbed
<1>9. step \in Steps /\ step \notin {"create", "drop", "add", "remove", "allow"}
      /\ (step = "deny" => job[w].op = "revoke")
  BY <1>0, <1>2 DEF Steps
<1> QED BY <1>0, <1>1, <1>5, <1>6, <1>7, <1>8, <1>9, CallStep

-----------------------------------------------------------------------------
(* The rule and the list.                                                   *)
LEMMA FirewallStep ==
  ASSUME AccountInv, NEW w \in Clerks, OpenFirewall(w) \/ CloseFirewall(w)
  PROVE  AccountInv'
<1>1. GrantTypeOK /\ CallInv BY DEF AccountInv
<1>2. PICK m, step : /\ m = job[w].grant.user
                     /\ step = IF at[w] = "allow" THEN "add" ELSE "remove"
  OBVIOUS
<1>3. /\ at[w] \in {"allow", "deny"} /\ Go(w, step)
      /\ UNCHANGED <<origin, grants, file, tenants, mode, spent, asked, restartsG>>
  BY <1>2 DEF OpenFirewall, CloseFirewall, files, history
<1>4. /\ m \in Names /\ (m \in Undisturbed => NameInv(m) /\ Pending(m, w))
      /\ at[w] = "allow" => job[w].op = "grant"
      /\ at[w] = "deny" => job[w].op = "revoke"
  BY <1>1, <1>2, <1>3, AtHand DEF CallInv, InHand
<1>5. job[w].grant \in Grant
  BY <1>1, <1>3, <1>4 DEF CallInv, InHand
<1>6. PICK b, i : b = job[w].grant.block /\ i = job[w].grant.id OBVIOUS
<1>7. b \in Blocks \cup {NoBlock} /\ i \in GrantIds BY <1>5, <1>6 DEF Grant
<1>8. /\ open' \subseteq Blocks /\ opened' \subseteq GrantIds
      /\ excused \subseteq excused' /\ excused' \subseteq Names \cup Blocks
      /\ faultsG' \in 0..MaxGrantFaults
  <2>1. CASE OpenFirewall(w)
    <3>1. CASE job[w].fw /\ b # NoBlock
      BY <1>1, <1>6, <1>7, <2>1, <3>1 DEF OpenFirewall, GrantTypeOK, FailureG
    <3>2. CASE ~(job[w].fw /\ b # NoBlock)
      BY <1>1, <1>6, <2>1, <3>2 DEF OpenFirewall, GrantTypeOK
    <3> QED BY <3>1, <3>2
  <2>2. CASE CloseFirewall(w)
    <3>1. open' \subseteq open /\ opened' = opened BY <1>6, <2>2 DEF CloseFirewall, history
    <3>2. excused' = excused \/ (b # NoBlock /\ excused' = excused \cup {b})
      BY <1>6, <2>2 DEF CloseFirewall
    <3>3. faultsG' \in 0..MaxGrantFaults BY <1>1, <2>2 DEF CloseFirewall, FailureG, GrantTypeOK
    <3> QED BY <1>1, <1>7, <3>1, <3>2, <3>3 DEF GrantTypeOK
  <2> QED BY <2>1, <2>2
<1>9. ASSUME m \in Undisturbed'
      PROVE  /\ \A g, h \in grants' : g.user = m /\ h.user = m => g = h
             /\ at'[w] = step /\ step # "idle" /\ job'[w] = job[w] => Pending(m, w)'
  <2>1. NameInv(m) /\ Pending(m, w) BY <1>4, <1>8, <1>9 DEF Undisturbed
  <2>2. m \in Listed' <=> m \in Listed BY <1>3 DEF Listed
  <2> QED BY <1>2, <1>3, <1>4, <2>1, <2>2 DEF Pending, NameInv
<1>10. \A n \in Undisturbed' : n # m =>
         /\ origin'[n] = origin[n]
         /\ \A g : g.user = n => (g \in grants' <=> g \in grants)
  BY <1>3
<1>11. /\ step \in Steps /\ step \in {"add", "remove"}
       /\ step = "add" => job[w].op = "grant"
       /\ step = "remove" => job[w].op = "revoke"
  BY <1>2, <1>3, <1>4 DEF Steps
<1>12. /\ origin' \in [Names -> {"none", "page", "grant"}]
       /\ grants' \subseteq Grant /\ file' \subseteq Grant
  BY <1>1, <1>3 DEF GrantTypeOK
<1> QED BY <1>2, <1>3, <1>5, <1>8, <1>9, <1>10, <1>11, <1>12, CallStep

LEMMA AddStep ==
  ASSUME AccountInv, NEW w \in Clerks, Add(w)
  PROVE  AccountInv'
<1>1. GrantTypeOK /\ CallInv BY DEF AccountInv
<1>2. PICK m, mine : mine = job[w].grant /\ m = mine.user OBVIOUS
<1>3. /\ at[w] = "add" /\ Go(w, "idle") /\ grants' = grants \cup {mine}
      /\ file' = grants' \/ file' = file
      /\ UNCHANGED <<origin, open, tenants, mode, spent, opened, asked, excused, restartsG>>
  BY <1>2 DEF Add, Store, history
<1>4. /\ m \in Names /\ (m \in Undisturbed => NameInv(m) /\ Pending(m, w))
      /\ mine \in Grant
  BY <1>1, <1>2, <1>3, AtHand DEF GrantTypeOK
<1>5. /\ grants' \subseteq Grant /\ file' \subseteq Grant /\ faultsG' \in 0..MaxGrantFaults
      /\ origin' \in [Names -> {"none", "page", "grant"}] /\ open' \subseteq Blocks
      /\ opened' \subseteq GrantIds /\ excused' \subseteq Names \cup Blocks
  BY <1>1, <1>3, <1>4 DEF GrantTypeOK, Add, Store, FailureG
<1>6. ASSUME m \in Undisturbed'
      PROVE  /\ \A g, h \in grants' : g.user = m /\ h.user = m => g = h
             /\ Matches(m)'
  <2>1. NameInv(m) /\ Pending(m, w) BY <1>3, <1>4, <1>6 DEF Undisturbed
  <2>2. m \notin Listed /\ origin[m] = "grant" BY <1>3, <2>1 DEF Pending
  <2> QED BY <1>2, <1>3, <2>2 DEF Matches, Listed
<1>7. \A n \in Undisturbed' : n # m =>
        /\ origin'[n] = origin[n]
        /\ \A g : g.user = n => (g \in grants' <=> g \in grants)
  BY <1>2, <1>3
<1>8. "idle" \in Steps BY DEF Steps
<1> QED BY <1>2, <1>3, <1>5, <1>6, <1>7, <1>8, CallStep

LEMMA RemoveStep ==
  ASSUME AccountInv, NEW w \in Clerks, Remove(w)
  PROVE  AccountInv'
<1>1. GrantTypeOK /\ CallInv BY DEF AccountInv
<1>2. PICK m, mine : mine = job[w].grant /\ m = mine.user OBVIOUS
<1>3. /\ at[w] = "remove" /\ Go(w, "idle") /\ grants' = grants \ {mine}
      /\ file' = grants' \/ file' = file
      /\ UNCHANGED <<origin, open, tenants, mode, spent, opened, asked, excused, restartsG>>
  BY <1>2 DEF Remove, Store, history, files
<1>4. /\ m \in Names /\ (m \in Undisturbed => NameInv(m) /\ Pending(m, w))
      /\ job[w].op = "revoke"
  BY <1>1, <1>2, <1>3, AtHand DEF CallInv, InHand
<1>5. /\ grants' \subseteq Grant /\ file' \subseteq Grant /\ faultsG' \in 0..MaxGrantFaults
      /\ origin' \in [Names -> {"none", "page", "grant"}] /\ open' \subseteq Blocks
      /\ opened' \subseteq GrantIds /\ excused' \subseteq Names \cup Blocks
  BY <1>1, <1>3 DEF GrantTypeOK, Remove, Store, FailureG
<1>6. ASSUME m \in Undisturbed'
      PROVE  /\ \A g, h \in grants' : g.user = m /\ h.user = m => g = h
             /\ Matches(m)'
  <2>1. NameInv(m) /\ Pending(m, w) BY <1>3, <1>4, <1>6 DEF Undisturbed
  <2>2. /\ origin[m] # "grant"
        /\ \A g \in grants : g.user = m => g = mine
    BY <1>2, <1>3, <1>4, <2>1 DEF Pending
  <2> QED BY <1>3, <2>2 DEF Matches, Listed
<1>7. \A n \in Undisturbed' : n # m =>
        /\ origin'[n] = origin[n]
        /\ \A g : g.user = n => (g \in grants' <=> g \in grants)
  BY <1>2, <1>3
<1>8. "idle" \in Steps BY DEF Steps
<1> QED BY <1>2, <1>3, <1>5, <1>6, <1>7, <1>8, CallStep

-----------------------------------------------------------------------------
(* A session touches no account; a crash excuses what was in hand.          *)
LEMMA SessionStep ==
  ASSUME AccountInv, NEW b \in Blocks, SessionOpens(b) \/ SessionCloses(b)
  PROVE  AccountInv'
<1>1. /\ UNCHANGED <<origin, grants, file, mode, at, job, spent, opened, asked, faultsG, restartsG>>
      /\ tenants' \subseteq tenants \cup {b} /\ open' \subseteq open \cup {b}
      /\ excused \subseteq excused' /\ excused' \subseteq excused \cup {b}
  BY DEF SessionOpens, SessionCloses, files, history
<1>2. GrantTypeOK' BY <1>1 DEF AccountInv, GrantTypeOK
<1>3. ASSUME NEW n \in Undisturbed' PROVE NameInv(n)'
  BY <1>1, Untouched DEF AccountInv, Undisturbed
<1>4. CallInv' BY <1>1 DEF AccountInv, CallInv, InHand
<1> QED BY <1>2, <1>3, <1>4 DEF AccountInv

LEMMA RestartStep ==
  ASSUME AccountInv, RestartWeb
  PROVE  AccountInv'
<1> DEFINE torn == {job[w].grant : w \in InHand} \cup (grants \ file) \cup (file \ grants)
<1>1. /\ grants' = file /\ mode' \in Modes
      /\ excused' = excused \cup {g.user : g \in torn} \cup ({g.block : g \in torn} \ {NoBlock})
      /\ at' = [w \in Clerks |-> "idle"] /\ job' = [w \in Clerks |-> NoGrant]
      /\ restartsG' \in 0..MaxGrantRestarts
      /\ UNCHANGED <<origin, open, tenants, file, spent, opened, asked, faultsG>>
  BY DEF RestartWeb, history, AccountInv, GrantTypeOK
<1>2. \A g \in torn : g.user \in Names /\ g.block \in Blocks \cup {NoBlock}
  BY DEF AccountInv, GrantTypeOK, Grant, Job, InHand
<1>3. excused' \subseteq Names \cup Blocks
  BY <1>1, <1>2 DEF AccountInv, GrantTypeOK
<1>4. GrantTypeOK' BY <1>1, <1>3 DEF AccountInv, GrantTypeOK, Steps
<1>5. InHand' = {} BY <1>1 DEF InHand
<1>6. CallInv' BY <1>5 DEF CallInv
<1>7. ASSUME NEW n \in Undisturbed' PROVE NameInv(n)'
  <2>1. n \in Undisturbed /\ NameInv(n) /\ \A g \in torn : g.user # n
    BY <1>1 DEF Undisturbed, AccountInv
  <2>2. Working(n) = {} BY <2>1 DEF Working
  <2>3. \A g : g.user = n => (g \in file <=> g \in grants) BY <2>1
  <2>4. Matches(n)' BY <1>1, <2>1, <2>2, <2>3 DEF Matches, Listed, NameInv
  <2>5. \A g, h \in grants' : g.user = n /\ h.user = n => g = h
    BY <1>1, <2>1, <2>3 DEF NameInv
  <2>6. Working(n)' = {} BY <1>5 DEF Working
  <2> QED BY <2>4, <2>5, <2>6 DEF NameInv
<1> QED BY <1>4, <1>6, <1>7 DEF AccountInv

LEMMA AccountNext == AccountInv /\ [GrantNext]_gvars => AccountInv'
<1> SUFFICES ASSUME AccountInv, [GrantNext]_gvars PROVE AccountInv' OBVIOUS
<1>1. CASE \E w \in Clerks : GrantStep(w)
  BY <1>1, Begins, CreateStep, CreateFailsStep, CleanUpStep, DropStep, FirewallStep,
     AddStep, RemoveStep DEF GrantStep
<1>2. CASE \E b \in Blocks : SessionOpens(b) \/ SessionCloses(b) BY <1>2, SessionStep
<1>3. CASE RestartWeb BY <1>3, RestartStep
<1>4. CASE UNCHANGED gvars
  <2>1. UNCHANGED <<origin, open, tenants, grants, file, mode, at, job, spent, opened, asked,
                    excused, faultsG, restartsG>>
    BY <1>4 DEF gvars, files, history
  <2>2. GrantTypeOK' BY <2>1 DEF AccountInv, GrantTypeOK
  <2>3. ASSUME NEW n \in Undisturbed' PROVE NameInv(n)'
    BY <2>1, Untouched DEF AccountInv, Undisturbed
  <2>4. CallInv' BY <2>1 DEF AccountInv, CallInv, InHand
  <2> QED BY <2>2, <2>3, <2>4 DEF AccountInv
<1> QED BY <1>1, <1>2, <1>3, <1>4 DEF GrantNext

-----------------------------------------------------------------------------
(* The same for a block of addresses.  The id a grant draws is nobody       *)
(* else's; one handler at most works on a block nobody interferes with, one *)
(* grant at most holds it, and no session has it then.                      *)
Drawn(w) == at[w] \in {"create", "cleanup", "allow", "add"} /\ job[w].op = "grant"
IdInv ==
  /\ opened \subseteq spent
  /\ \A g \in grants \cup file : g.id \in spent
  /\ \A w \in Clerks : Drawn(w) =>
       /\ job[w].grant.id \in spent
       /\ at[w] # "add" => job[w].grant.id \notin opened
       /\ \A g \in grants \cup file : g.id # job[w].grant.id
       /\ \A v \in Clerks \ {w} : Drawn(v) => job[v].grant.id # job[w].grant.id

Told(b) == b \in open <=> b \in tenants \/ \E g \in Holders(b) : g.id \in opened
Promised(b, w) ==
  /\ Holders(b) \subseteq {job[w].grant}
  /\ at[w] \in {"create", "cleanup", "allow"} => b \notin open
  /\ at[w] = "add" => (b \in open <=> job[w].grant.id \in opened)
  /\ at[w] \in {"drop", "deny"} => Told(b)
  /\ at[w] = "remove" => b \notin open
BlockInv(b) ==
  /\ \A v, w \in Sharing(b) : v = w
  /\ \A g, h \in Holders(b) : g = h
  /\ b \in tenants => Holders(b) = {} /\ Sharing(b) = {}
  /\ Sharing(b) = {} => Told(b)
  /\ \A w \in Sharing(b) : Promised(b, w)

Apart == Blocks \ excused
RuleInv == AccountInv /\ IdInv /\ \A b \in Apart : BlockInv(b)

LEMMA RuleInit == GrantInit => RuleInv
<1> SUFFICES ASSUME GrantInit PROVE RuleInv OBVIOUS
<1>1. AccountInv BY AccountInit
<1>2. InHand = {} /\ grants = {} /\ file = {} /\ open = {} /\ tenants = {} /\ opened = {}
  BY DEF GrantInit, InHand
<1>3. IdInv BY <1>2 DEF IdInv, Drawn, InHand
<1>4. ASSUME NEW b \in Apart PROVE BlockInv(b)
  BY <1>2 DEF BlockInv, Sharing, Holders, Told
<1> QED BY <1>1, <1>3, <1>4 DEF RuleInv

(* What becomes of the ids and of a block when a handler goes on.           *)
LEMMA StepId ==
  ASSUME RuleInv, NEW w \in Clerks, NEW step \in Steps \ {"create", "drop"}, Go(w, step),
         at[w] # "idle", UNCHANGED spent,
         step = "cleanup" => at[w] = "create", step = "allow" => at[w] = "create",
         step = "add" => at[w] = "allow",
         opened' = opened \/ (Drawn(w) /\ step = "add" /\ opened' = opened \cup {job[w].grant.id}),
         \A g \in grants' \cup file' : \/ g \in grants \cup file
                                       \/ step = "idle" /\ Drawn(w) /\ g = job[w].grant
  PROVE  IdInv'
<1>1. at' = [at EXCEPT ![w] = step] BY DEF Go
<1>2. job' = [job EXCEPT ![w] = IF step = "idle" THEN NoGrant ELSE @] BY DEF Go
<1>3. /\ at'[w] = step /\ (step # "idle" => job'[w] = job[w])
      /\ \A v \in Clerks \ {w} : at'[v] = at[v] /\ job'[v] = job[v]
  BY <1>1, <1>2 DEF RuleInv, AccountInv, GrantTypeOK
<1>4. \A v \in Clerks : Drawn(v)' =>
        /\ Drawn(v) /\ job'[v] = job[v] /\ (at'[v] = "add" \/ at[v] # "add")
        /\ step = "idle" => v # w
  BY <1>3 DEF Drawn
<1>5. opened' \subseteq spent' BY DEF RuleInv, IdInv
<1>6. \A g \in grants' \cup file' : g.id \in spent' BY DEF RuleInv, IdInv
<1>7. ASSUME NEW v \in Clerks, Drawn(v)'
      PROVE  /\ job'[v].grant.id \in spent'
             /\ at'[v] # "add" => job'[v].grant.id \notin opened'
             /\ \A g \in grants' \cup file' : g.id # job'[v].grant.id
             /\ \A u \in Clerks \ {v} : Drawn(u)' => job'[u].grant.id # job'[v].grant.id
  <2>1. Drawn(v) /\ job'[v] = job[v] BY <1>4, <1>7
  <2>2. at'[v] # "add" => job'[v].grant.id \notin opened'
    <3>1. CASE opened' = opened BY <1>4, <1>7, <2>1, <3>1 DEF RuleInv, IdInv
    <3>2. CASE Drawn(w) /\ step = "add" /\ opened' = opened \cup {job[w].grant.id}
      BY <1>3, <1>4, <1>7, <2>1, <3>2 DEF RuleInv, IdInv
    <3> QED BY <3>1, <3>2
  <2>3. \A g \in grants' \cup file' : g.id # job'[v].grant.id
    BY <1>4, <1>7, <2>1 DEF RuleInv, IdInv
  <2>4. \A u \in Clerks \ {v} : Drawn(u)' => job'[u].grant.id # job'[v].grant.id
    BY <1>4, <2>1 DEF RuleInv, IdInv
  <2> QED BY <2>1, <2>2, <2>3, <2>4 DEF RuleInv, IdInv
<1> QED BY <1>5, <1>6, <1>7 DEF IdInv

LEMMA StepBlock ==
  ASSUME RuleInv, NEW w \in Clerks, NEW step \in Steps, Go(w, step), at[w] # "idle",
         UNCHANGED tenants, NEW b \in Apart',  excused \subseteq excused',
         opened' = opened \/ (Drawn(w) /\ opened' = opened \cup {job[w].grant.id}),
         b # job[w].grant.block =>
           /\ b \in open' <=> b \in open
           /\ \A g : g.block = b => (g \in grants' <=> g \in grants),
         b = job[w].grant.block =>
           /\ \A g, h \in Holders(b)' : g = h
           /\ step = "idle" => Told(b)'
           /\ at'[w] = step /\ step # "idle" /\ job'[w] = job[w] => Promised(b, w)'
  PROVE  BlockInv(b)'
<1>1. at' = [at EXCEPT ![w] = step] BY DEF Go
<1>2. job' = [job EXCEPT ![w] = IF step = "idle" THEN NoGrant ELSE @] BY DEF Go
<1>3. /\ at'[w] = step /\ (step # "idle" => job'[w] = job[w])
      /\ \A v \in Clerks \ {w} : at'[v] = at[v] /\ job'[v] = job[v]
  BY <1>1, <1>2 DEF RuleInv, AccountInv, GrantTypeOK
<1>4. b \in Apart /\ BlockInv(b) BY DEF Apart, RuleInv
<1>5. CASE b # job[w].grant.block
  <2>1. Sharing(b)' = Sharing(b) /\ w \notin Sharing(b)
    BY <1>3, <1>5 DEF Sharing, InHand
  <2>2. \A v \in Sharing(b) : at'[v] = at[v] /\ job'[v] = job[v]
    BY <1>3, <2>1 DEF Sharing, InHand
  <2>3. Holders(b)' = Holders(b) BY <1>5 DEF Holders
  <2>4. \A g \in Holders(b) : g.id \in opened' <=> g.id \in opened
    BY DEF RuleInv, IdInv, Holders
  <2>5. Told(b)' <=> Told(b) BY <1>5, <2>3, <2>4 DEF Told
  <2>6. ASSUME NEW v \in Sharing(b), Promised(b, v) PROVE Promised(b, v)'
    <3>1. at[v] = "add" => (job[v].grant.id \in opened' <=> job[v].grant.id \in opened)
      <4>1. at[v] = "add" => Drawn(v)
        BY DEF Drawn, Sharing, RuleInv, AccountInv, CallInv
      <4>2. v \in Clerks \ {w} BY <2>1 DEF Sharing, InHand
      <4> QED BY <4>1, <4>2 DEF RuleInv, IdInv
    <3> QED BY <1>5, <2>2, <2>3, <2>5, <2>6, <3>1 DEF Promised
  <2> QED BY <1>4, <2>1, <2>3, <2>5, <2>6 DEF BlockInv
<1>6. CASE b = job[w].grant.block
  <2>1. Sharing(b) = {w} BY <1>4, <1>6 DEF BlockInv, Sharing, InHand
  <2>2. Sharing(b)' = IF step = "idle" THEN {} ELSE {w}
    BY <1>3, <1>6, <2>1 DEF Sharing, InHand
  <2>3. b \notin tenants' BY <1>4, <2>1 DEF BlockInv
  <2> QED BY <1>3, <1>6, <2>2, <2>3 DEF BlockInv
<1> QED BY <1>5, <1>6

LEMMA SameBlock ==
  ASSUME NEW b, BlockInv(b),
         UNCHANGED <<at, job, grants, opened, tenants, open>>
  PROVE  BlockInv(b)'
BY DEF BlockInv, Sharing, InHand, Holders, Told, Promised

(* What the invariant says of the block a handler works on.                 *)
LEMMA BlockAtHand ==
  ASSUME RuleInv, NEW w \in Clerks, at[w] # "idle", NEW b \in Apart, b = job[w].grant.block
  PROVE  BlockInv(b) /\ Promised(b, w) /\ b \notin tenants
<1>1. w \in Sharing(b) BY DEF Sharing, InHand
<1> QED BY <1>1 DEF RuleInv, BlockInv

LEMMA RuleBegin ==
  ASSUME RuleInv, NEW w \in Clerks, NEW op, NEW g, NEW fw, NEW step \in {"create", "drop"},
         Begin(w, op, g, fw, step), opened' = opened,
         [op |-> op, grant |-> g, fw |-> fw] \in Job,
         op \in {"user", "drop"} => g.block = NoBlock /\ spent' = spent,
         op = "grant" => step = "create" /\ g.id \notin spent /\ spent' = spent \cup {g.id},
         op = "revoke" => step = "drop" /\ g \in grants /\ spent' = spent
  PROVE  IdInv' /\ \A b \in Apart' : BlockInv(b)'
<1> DEFINE task == [op |-> op, grant |-> g, fw |-> fw]
<1>1. /\ at[w] = "idle" /\ at' = [at EXCEPT ![w] = step] /\ job' = [job EXCEPT ![w] = task]
      /\ UNCHANGED <<open, tenants, grants, file>>
  BY DEF Begin, files
<1>2. /\ at'[w] = step /\ job'[w] = task
      /\ \A v \in Clerks \ {w} : at'[v] = at[v] /\ job'[v] = job[v]
  BY <1>1 DEF RuleInv, AccountInv, GrantTypeOK
<1>3. op \in {"grant", "revoke", "user", "drop"} BY DEF Job
<1>4. IdInv'
  <2>1. \A v \in Clerks : Drawn(v)' =>
          \/ v # w /\ Drawn(v) /\ job'[v] = job[v] /\ at'[v] = at[v]
          \/ v = w /\ op = "grant" /\ job'[v].grant = g /\ g.id \notin spent /\ g.id \in spent'
    BY <1>2 DEF Drawn
  <2>2. spent \subseteq spent' BY <1>3
  <2> QED BY <1>1, <2>1, <2>2 DEF IdInv, RuleInv
<1>5. ASSUME NEW b \in Apart' PROVE BlockInv(b)'
  <2>1. b \in Apart /\ BlockInv(b) /\ b # NoBlock BY DEF Begin, Apart, RuleInv
  <2>2. Holders(b)' = Holders(b) /\ Told(b)' = Told(b) BY <1>1 DEF Holders, Told
  <2>3. CASE b # g.block
    <3>1. Sharing(b)' = Sharing(b) BY <1>2, <1>1, <2>3 DEF Sharing, InHand
    <3>2. \A v \in Sharing(b) : at'[v] = at[v] /\ job'[v] = job[v]
      BY <1>1, <1>2 DEF Sharing, InHand
    <3> QED BY <1>1, <2>1, <2>2, <3>1, <3>2 DEF BlockInv, Promised
  <2>4. CASE b = g.block
    <3>1. Sharing(b) = {} /\ Holders(b) \subseteq {g} /\ b \notin tenants
      BY <2>1, <2>4 DEF Begin, Apart
    <3>2. Sharing(b)' = {w} BY <1>1, <1>2, <2>4, <3>1 DEF Sharing, InHand
    <3>3. Told(b) BY <2>1, <3>1 DEF BlockInv
    <3>4. op = "grant" => b \notin open
      <4>1. op = "grant" => g \notin grants BY DEF RuleInv, IdInv
      <4>2. op = "grant" => Holders(b) = {} BY <3>1, <4>1 DEF Holders
      <4> QED BY <3>1, <3>3, <4>2 DEF Told
    <3>5. op \in {"grant", "revoke"} BY <1>3, <2>1, <2>4
    <3>6. Promised(b, w)' BY <1>1, <1>2, <2>2, <3>1, <3>3, <3>4, <3>5 DEF Promised
    <3> QED BY <1>1, <2>1, <2>2, <3>1, <3>2, <3>6 DEF BlockInv
  <2> QED BY <2>3, <2>4
<1> QED BY <1>4, <1>5

LEMMA RuleBegins ==
  ASSUME RuleInv, NEW w \in Clerks,
         PermanentGrant(w) \/ PermanentRevoke(w) \/ UserCreate(w) \/ UserDrop(w)
  PROVE  IdInv' /\ \A b \in Apart' : BlockInv(b)'
<1>2. CASE PermanentGrant(w)
  <2>1. PICK id \in GrantIds \ spent, n \in Names, b \in Blocks \cup {NoBlock}, fw \in BOOLEAN :
          /\ Begin(w, "grant", [id |-> id, user |-> n, block |-> b], fw, "create")
          /\ spent' = spent \cup {id}
          /\ UNCHANGED <<opened, asked>>
    BY <1>2 DEF PermanentGrant
  <2>2. [op |-> "grant", grant |-> [id |-> id, user |-> n, block |-> b], fw |-> fw] \in Job
    BY DEF Job
  <2> QED BY <2>1, <2>2, RuleBegin
<1>3. CASE PermanentRevoke(w)
  <2>1. PICK g \in grants : Begin(w, "revoke", g, FALSE, "drop")
    BY <1>3 DEF PermanentRevoke
  <2>2. g \in Grant BY DEF RuleInv, AccountInv, GrantTypeOK
  <2>3. [op |-> "revoke", grant |-> g, fw |-> FALSE] \in Job BY <2>2 DEF Job, Grant
  <2>4. UNCHANGED <<spent, opened>> BY <1>3 DEF PermanentRevoke
  <2> QED BY <2>1, <2>3, <2>4, RuleBegin
<1>4. CASE UserCreate(w)
  <2>1. PICK n \in Names : Begin(w, "user", OnlyName(n), FALSE, "create")
    BY <1>4 DEF UserCreate
  <2>2. [op |-> "user", grant |-> OnlyName(n), fw |-> FALSE] \in Job /\ OnlyName(n).block = NoBlock
    BY DEF Job, OnlyName
  <2>3. UNCHANGED <<spent, opened>> BY <1>4 DEF UserCreate, history
  <2> QED BY <2>1, <2>2, <2>3, RuleBegin
<1>5. CASE UserDrop(w)
  <2>1. PICK n \in Names : Begin(w, "drop", OnlyName(n), FALSE, "drop")
    BY <1>5 DEF UserDrop
  <2>2. [op |-> "drop", grant |-> OnlyName(n), fw |-> FALSE] \in Job /\ OnlyName(n).block = NoBlock
    BY DEF Job, OnlyName
  <2>3. UNCHANGED <<spent, opened>> BY <1>5 DEF UserDrop
  <2> QED BY <2>1, <2>2, <2>3, RuleBegin
<1> QED BY <1>2, <1>3, <1>4, <1>5

(* The MySQL calls leave rules and list alone.                              *)
LEMMA RuleMySQL ==
  ASSUME RuleInv, NEW w \in Clerks,
         CreateAdminUser(w) \/ CreateAdminUserFails(w) \/ CleanUp(w) \/ DropAdminUser(w)
  PROVE  IdInv' /\ \A b \in Apart' : BlockInv(b)'
<1>1. PICK step \in {"allow", "idle", "cleanup", "deny"} :
        /\ Go(w, step) /\ at[w] \in {"create", "cleanup", "drop"}
        /\ step = "allow" => at[w] = "create" /\ job[w].op = "grant"
        /\ step = "cleanup" => at[w] = "create"
        /\ step = "deny" => at[w] = "drop"
        /\ step = "idle" /\ at[w] = "drop" => job[w].op = "drop"
  BY DEF CreateAdminUser, CreateAdminUserFails, CleanUp, DropAdminUser
<1>2. /\ UNCHANGED <<open, tenants, grants, file, spent, opened>>
      /\ excused \subseteq excused'
  BY DEF CreateAdminUser, CreateAdminUserFails, CleanUp, DropAdminUser, files, history
<1>3. step \in Steps \ {"create", "drop", "add"} BY DEF Steps
<1>4. IdInv' BY <1>1, <1>2, <1>3, StepId
<1>5. ASSUME NEW b \in Apart' PROVE BlockInv(b)'
  <2>1. Holders(b)' = Holders(b) /\ Told(b)' = Told(b) BY <1>2 DEF Holders, Told
  <2>2. ASSUME b = job[w].grant.block
        PROVE  /\ \A g, h \in Holders(b)' : g = h
               /\ step = "idle" => Told(b)'
               /\ at'[w] = step /\ step # "idle" /\ job'[w] = job[w] => Promised(b, w)'
    <3>1. b \in Apart /\ b # NoBlock BY <1>2 DEF Apart
    <3>2. BlockInv(b) /\ Promised(b, w) /\ b \notin tenants
      BY <1>1, <2>2, <3>1, BlockAtHand
    <3>3. job[w].op # "drop" /\ (at[w] \in {"create", "cleanup"} => job[w].op = "grant")
      BY <1>1, <2>2, <3>1 DEF RuleInv, AccountInv, CallInv, InHand
    <3>4. at[w] \in {"create", "cleanup"} => Holders(b) = {}
      <4>1. at[w] \in {"create", "cleanup"} => job[w].grant \notin grants
        BY <3>3 DEF RuleInv, IdInv, Drawn
      <4> QED BY <3>2, <4>1 DEF Promised, Holders
    <3>5. step # "deny" => at[w] \in {"create", "cleanup"} /\ b \notin open
      BY <1>1, <3>2, <3>3 DEF Promised
    <3>6. step = "idle" => Told(b)'
      BY <1>2, <2>1, <3>2, <3>4, <3>5 DEF Told
    <3>7. step = "deny" => Told(b) BY <1>1, <3>2 DEF Promised
    <3> QED BY <1>1, <1>2, <2>1, <3>2, <3>5, <3>6, <3>7 DEF Promised, BlockInv
  <2> QED BY <1>1, <1>2, <1>3, <2>2, StepBlock
<1> QED BY <1>4, <1>5

LEMMA RuleOpen ==
  ASSUME RuleInv, NEW w \in Clerks, OpenFirewall(w)
  PROVE  IdInv' /\ \A b \in Apart' : BlockInv(b)'
<1>1. PICK i, c : i = job[w].grant.id /\ c = job[w].grant.block OBVIOUS
<1>2. /\ at[w] = "allow" /\ Go(w, "add")
      /\ UNCHANGED <<tenants, grants, file, spent>>
      /\ \/ c # NoBlock /\ open' = open \cup {c} /\ opened' = opened \cup {i} /\ excused' = excused
         \/ /\ c # NoBlock /\ open' \subseteq open \cup {c} /\ open \subseteq open'
            /\ excused' = excused \cup {c} /\ opened' = opened
         \/ UNCHANGED <<open, opened, excused>>
  BY <1>1 DEF OpenFirewall, files
<1>3. Drawn(w) BY <1>2 DEF Drawn, RuleInv, AccountInv, CallInv, InHand
<1>4. "add" \in Steps \ {"create", "drop"} BY DEF Steps
<1>5. opened' = opened \/ opened' = opened \cup {job[w].grant.id} BY <1>1, <1>2
<1>6. IdInv' BY <1>2, <1>3, <1>4, <1>5, StepId
<1>7. ASSUME NEW b \in Apart' PROVE BlockInv(b)'
  <2>1. b \in Apart BY <1>2 DEF Apart
  <2>2. ASSUME b = c
        PROVE  /\ \A g, h \in Holders(b)' : g = h
               /\ at'[w] = "add" /\ job'[w] = job[w] => Promised(b, w)'
    <3>1. BlockInv(b) /\ Promised(b, w) /\ b \notin tenants
      BY <1>1, <1>2, <2>1, <2>2, BlockAtHand
    <3>2. Holders(b)' = Holders(b) BY <1>2 DEF Holders
    <3>3. i \notin opened /\ b \notin open BY <1>1, <1>2, <1>3, <3>1 DEF RuleInv, IdInv, Promised
    <3>4. b \in open' <=> i \in opened' BY <1>2, <1>7, <2>2, <3>3 DEF Apart
    <3> QED BY <1>1, <3>1, <3>2, <3>4 DEF Promised, BlockInv
  <2>3. b # c => /\ b \in open' <=> b \in open
                 /\ \A g : g.block = b => (g \in grants' <=> g \in grants)
    BY <1>2
  <2>4. excused \subseteq excused' BY <1>2
  <2> QED BY <1>1, <1>2, <1>3, <1>4, <1>5, <2>2, <2>3, <2>4, StepBlock
<1> QED BY <1>6, <1>7

LEMMA RuleClose ==
  ASSUME RuleInv, NEW w \in Clerks, CloseFirewall(w)
  PROVE  IdInv' /\ \A b \in Apart' : BlockInv(b)'
<1>1. PICK c : c = job[w].grant.block OBVIOUS
<1>2. /\ at[w] = "deny" /\ Go(w, "remove")
      /\ UNCHANGED <<tenants, grants, file, spent, opened>>
      /\ \/ open' = open \ {c} /\ excused' = excused
         \/ open' = open /\ excused' = excused \cup {c}
  BY <1>1 DEF CloseFirewall, files, history
<1>3. "remove" \in Steps \ {"create", "drop"} BY DEF Steps
<1>4. IdInv' BY <1>2, <1>3, StepId
<1>5. ASSUME NEW b \in Apart' PROVE BlockInv(b)'
  <2>1. b \in Apart BY <1>2 DEF Apart
  <2>2. ASSUME b = c
        PROVE  /\ \A g, h \in Holders(b)' : g = h
               /\ at'[w] = "remove" /\ job'[w] = job[w] => Promised(b, w)'
    <3>1. BlockInv(b) /\ Promised(b, w) BY <1>1, <1>2, <2>1, <2>2, BlockAtHand
    <3>2. Holders(b)' = Holders(b) BY <1>2 DEF Holders
    <3>3. b \notin open' BY <1>2, <1>5, <2>2 DEF Apart
    <3> QED BY <3>1, <3>2, <3>3 DEF Promised, BlockInv
  <2>3. b # c => /\ b \in open' <=> b \in open
                 /\ \A g : g.block = b => (g \in grants' <=> g \in grants)
    BY <1>2
  <2>4. excused \subseteq excused' BY <1>2
  <2> QED BY <1>1, <1>2, <1>3, <2>2, <2>3, <2>4, StepBlock
<1> QED BY <1>4, <1>5

(* The list is changed: what the rule says already is now in it, or no more. *)
LEMMA RuleList ==
  ASSUME RuleInv, NEW w \in Clerks, Add(w) \/ Remove(w)
  PROVE  IdInv' /\ \A b \in Apart' : BlockInv(b)'
<1>1. PICK mine, c : mine = job[w].grant /\ c = mine.block OBVIOUS
<1>2. /\ at[w] \in {"add", "remove"} /\ Go(w, "idle")
      /\ UNCHANGED <<open, tenants, spent, opened, excused>>
      /\ at[w] = "add" => grants' = grants \cup {mine}
      /\ at[w] = "remove" => grants' = grants \ {mine}
      /\ file' = grants' \/ file' = file
  BY <1>1 DEF Add, Remove, Store, files, history
<1>3. at[w] = "add" => Drawn(w) BY <1>2 DEF Drawn, RuleInv, AccountInv, CallInv, InHand
<1>4. "idle" \in Steps \ {"create", "drop"} BY DEF Steps
<1>5. \A g \in grants' \cup file' : g \in grants \cup file \/ (Drawn(w) /\ g = job[w].grant)
  BY <1>1, <1>2, <1>3
<1>6. IdInv' BY <1>2, <1>4, <1>5, StepId
<1>7. ASSUME NEW b \in Apart' PROVE BlockInv(b)'
  <2>1. b \in Apart BY <1>2 DEF Apart
  <2>2. ASSUME b = c
        PROVE  (\A g, h \in Holders(b)' : g = h) /\ Told(b)'
    <3>1. Promised(b, w) /\ b \notin tenants
      BY <1>1, <1>2, <2>1, <2>2, BlockAtHand
    <3>2. Holders(b)' = IF at[w] = "add" THEN {mine} ELSE {}
      BY <1>1, <1>2, <2>2, <3>1 DEF Holders, Promised
    <3>3. at[w] = "add" => (b \in open <=> mine.id \in opened) BY <1>1, <3>1 DEF Promised
    <3>4. at[w] = "remove" => b \notin open BY <3>1 DEF Promised
    <3> QED BY <1>2, <3>1, <3>2, <3>3, <3>4 DEF Told
  <2>3. b # c => /\ b \in open' <=> b \in open
                 /\ \A g : g.block = b => (g \in grants' <=> g \in grants)
    BY <1>1, <1>2
  <2> QED BY <1>1, <1>2, <1>4, <2>2, <2>3, StepBlock
<1> QED BY <1>6, <1>7

LEMMA RuleSession ==
  ASSUME RuleInv, NEW c \in Blocks, SessionOpens(c) \/ SessionCloses(c)
  PROVE  IdInv' /\ \A b \in Apart' : BlockInv(b)'
<1>1. /\ UNCHANGED <<grants, file, at, job, spent, opened>> /\ excused \subseteq excused'
      /\ \A b \in Blocks \ {c} : (b \in open' <=> b \in open) /\ (b \in tenants' <=> b \in tenants)
  BY DEF SessionOpens, SessionCloses, files, history
<1>2. IdInv' BY <1>1 DEF IdInv, RuleInv, Drawn
<1>3. ASSUME NEW b \in Apart' PROVE BlockInv(b)'
  <2>1. b \in Apart /\ BlockInv(b) BY <1>1 DEF Apart, RuleInv
  <2>2. /\ Sharing(b)' = Sharing(b) /\ Holders(b)' = Holders(b)
    BY <1>1 DEF Sharing, InHand, Holders
  <2>3. CASE b # c
    <3>1. (b \in open' <=> b \in open) /\ (b \in tenants' <=> b \in tenants) BY <1>1, <2>3 DEF Apart
    <3>2. Told(b)' <=> Told(b) BY <1>1, <2>2, <3>1 DEF Told
    <3> QED BY <1>1, <2>1, <2>2, <3>1, <3>2 DEF BlockInv, Promised
  <2>4. CASE b = c /\ SessionOpens(c)
    <3>1. Holders(b) = {} /\ Sharing(b) = {} BY <2>4 DEF SessionOpens, Apart
    <3>2. b \in tenants' /\ b \in open' BY <2>4 DEF SessionOpens
    <3> QED BY <2>2, <3>1, <3>2 DEF BlockInv, Told
  <2>5. CASE b = c /\ SessionCloses(c)
    <3>1. Holders(b) = {} /\ Sharing(b) = {} BY <2>1, <2>5 DEF SessionCloses, BlockInv
    <3>2. b \notin tenants' /\ b \notin open' BY <2>5 DEF SessionCloses
    <3> QED BY <2>2, <3>1, <3>2 DEF BlockInv, Told
  <2> QED BY <2>3, <2>4, <2>5
<1> QED BY <1>2, <1>3

LEMMA RuleRestart ==
  ASSUME RuleInv, RestartWeb
  PROVE  IdInv' /\ \A b \in Apart' : BlockInv(b)'
<1> DEFINE torn == {job[w].grant : w \in InHand} \cup (grants \ file) \cup (file \ grants)
<1>1. /\ grants' = file
      /\ excused' = excused \cup {g.user : g \in torn} \cup ({g.block : g \in torn} \ {NoBlock})
      /\ at' = [w \in Clerks |-> "idle"]
      /\ UNCHANGED <<open, tenants, file, spent, opened>>
  BY DEF RestartWeb, history
<1>2. InHand' = {} /\ \A w \in Clerks : ~Drawn(w)' BY <1>1 DEF InHand, Drawn
<1>3. IdInv' BY <1>1, <1>2 DEF IdInv, RuleInv
<1>4. ASSUME NEW b \in Apart' PROVE BlockInv(b)'
  <2>1. b \in Apart /\ BlockInv(b) /\ \A g \in torn : g.block # b
    BY <1>1 DEF Apart, RuleInv
  <2>2. Sharing(b) = {} /\ Sharing(b)' = {} BY <1>2, <2>1 DEF Sharing
  <2>3. Holders(b)' = Holders(b) BY <1>1, <2>1 DEF Holders
  <2> QED BY <1>1, <2>1, <2>2, <2>3 DEF BlockInv, Told
<1> QED BY <1>3, <1>4

LEMMA RuleNext == RuleInv /\ [GrantNext]_gvars => RuleInv'
<1> SUFFICES ASSUME RuleInv, [GrantNext]_gvars PROVE RuleInv' OBVIOUS
<1>1. AccountInv' BY AccountNext DEF RuleInv
<1>2. CASE \E w \in Clerks : GrantStep(w)
  BY <1>1, <1>2, RuleBegins, RuleMySQL, RuleOpen, RuleClose, RuleList DEF GrantStep, RuleInv
<1>3. CASE \E b \in Blocks : SessionOpens(b) \/ SessionCloses(b)
  BY <1>1, <1>3, RuleSession DEF RuleInv
<1>4. CASE RestartWeb BY <1>1, <1>4, RuleRestart DEF RuleInv
<1>5. CASE UNCHANGED gvars
  <2>1. UNCHANGED <<open, tenants, grants, file, at, job, spent, opened, excused>>
    BY <1>5 DEF gvars, files, history
  <2>2. IdInv' BY <2>1 DEF RuleInv, IdInv, Drawn
  <2>3. \A b \in Apart' : BlockInv(b)' BY <2>1, SameBlock DEF RuleInv, Apart
  <2> QED BY <1>1, <2>2, <2>3 DEF RuleInv
<1> QED BY <1>2, <1>3, <1>4, <1>5 DEF GrantNext

-----------------------------------------------------------------------------
(* The variables of the grants keep their types.                            *)
THEOREM GrantTypes == GrantSpec => []GrantTypeOK
<1>1. AccountInv => GrantTypeOK BY DEF AccountInv
<1> QED BY <1>1, AccountInit, AccountNext, PTL DEF GrantSpec

(* Once nobody is at work on a name, a grant made its account if and only   *)
(* if a grant with that name is listed, however many handlers, failures and *)
(* restarts there were, wherever they did not interfere with that name      *)
(* (handlePermanentGrant, handlePermanentRevoke, permanentStore).           *)
THEOREM AccountsAreListed == GrantSpec => []AccountMatchesList
<1>1. AccountInv => AccountMatchesList
  BY DEF AccountInv, AccountMatchesList, Undisturbed, NameInv, Matches
<1> QED BY <1>1, AccountInit, AccountNext, PTL DEF GrantSpec

(* Once nobody is at work on a block, its rule is open if and only if a     *)
(* session has it or a listed grant that had it opened, wherever no second  *)
(* user of the block and no failure interfered (openFirewall and the        *)
(* revocation's ufw call, Activator).                                       *)
THEOREM RulesAreListed == GrantSpec => []RuleMatchesList
<1>1. RuleInv => RuleMatchesList
  BY DEF RuleInv, RuleMatchesList, Apart, BlockInv, Told
<1> QED BY <1>1, RuleInit, RuleNext, PTL DEF GrantSpec
=============================================================================
