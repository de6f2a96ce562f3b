--------------------------- MODULE DashboardProofs ---------------------------
(***************************************************************************)
(* What the dashboard computes, for tables of any finite size, any limits   *)
(* and counters of any width: single statements and their previews          *)
(* (UserQuery), pages of a table and the edits sent from them               *)
(* (TableBrowsing), and the server's figures (ServerStats).                 *)
(***************************************************************************)
EXTENDS UserQuery, TableBrowsing, ServerStats, FiniteSetTheorems, SequenceTheorems,
        WellFoundedInduction, TLAPS

-----------------------------------------------------------------------------
(* Single statements.                                                       *)

(* Before the second sending the first has either failed on a connection    *)
(* that still answers, so that it did not take whole effect, or lost it.    *)
SentInv ==
  /\ stmt \in Statement
  /\ table \subseteq TableRows /\ seen \subseteq TableRows
  /\ at \in {"typed", "conn", "use", "query", "exec", "done"}
  /\ sent \in [1..2 -> {"not", "nothing", "half", "whole"}]
  /\ at \in {"typed", "conn", "use", "query"} => sent = [n \in 1..2 |-> "not"]
  /\ at \in {"typed", "conn", "use", "query", "exec"} => answer = "none"
  /\ at = "exec" => /\ sent[2] = "not"
                    /\ link = "up" => sent[1] # "whole"
                    /\ link \in {"up", "down"}

LEMMA SentInit == QueryInit => SentInv
BY DEF QueryInit, SentInv

LEMMA SentNext ==
  ASSUME SentInv /\ NeverTwiceWhole, [QueryNext]_queryVars
  PROVE  SentInv' /\ NeverTwiceWhole'
<1> USE DEF SentInv, NeverTwiceWhole
<1>1. CASE PreviewQuery \/ PreviewFails BY <1>1 DEF PreviewQuery, PreviewFails
<1>2. CASE TableChanges BY <1>2 DEF TableChanges
<1>3. CASE AIExecute BY <1>3 DEF AIExecute
<1>4. CASE TakeConn BY <1>4 DEF TakeConn, Fail
<1>5. CASE UseDatabase BY <1>5 DEF UseDatabase, Fail
<1>6. CASE SendQuery
  <2>1. PICK o \in Outcome :
          /\ sent' = [sent EXCEPT ![1] = o[1]]
          /\ link' = o[3]
          /\ IF o[2] = "ok" THEN at' = "done" /\ answer' = "rows"
                            ELSE at' = "exec" /\ UNCHANGED answer
    BY <1>6 DEF SendQuery
  <2>2. /\ o[1] \in {"nothing", "half", "whole"} /\ o[3] \in {"up", "down"}
        /\ o[2] = "ok" => o[1] = "whole"
        /\ o[2] # "ok" /\ o[3] = "up" => o[1] # "whole"
    BY <2>1 DEF Outcome
  <2>3. at = "query" /\ sent = [n \in 1..2 |-> "not"] /\ answer = "none"
    BY <1>6 DEF SendQuery
  <2>4. sent'[1] = o[1] /\ sent'[2] = "not" BY <2>1, <2>3
  <2> QED BY <1>6, <2>1, <2>2, <2>3, <2>4 DEF SendQuery
<1>7. CASE SendExec
  <2>1. CASE link = "down" BY <1>7, <2>1 DEF SendExec, Fail
  <2>2. CASE link # "down"
    <3>1. PICK o \in Outcome :
            /\ sent' = [sent EXCEPT ![2] = o[1]]
            /\ IF o[2] = "ok" THEN at' = "done" /\ answer' = "affected" ELSE Fail
      BY <1>7, <2>2 DEF SendExec
    <3>2. o[1] \in {"nothing", "half", "whole"} /\ (o[2] = "ok" => o[1] = "whole")
      BY DEF Outcome
    <3>3. sent[1] # "whole" BY <1>7, <2>2 DEF SendExec
    <3>4. sent'[1] = sent[1] /\ sent'[2] = o[1] BY <3>1
    <3>5. at' = "done" /\ stmt' = stmt /\ table' = table /\ seen' = seen BY <1>7, <3>1 DEF SendExec, Fail
    <3> QED BY <3>1, <3>2, <3>3, <3>4, <3>5 DEF Fail
  <2> QED BY <2>1, <2>2
<1>8. CASE UNCHANGED queryVars BY <1>8 DEF queryVars
<1> QED BY <1>1, <1>2, <1>3, <1>4, <1>5, <1>6, <1>7, <1>8 DEF QueryNext

(* Sending a statement again never makes it take whole effect twice, and an *)
(* answer that is no error means that it took effect (RunUserQuery).        *)
THEOREM SentOnceWhole == QuerySpec => []NeverTwiceWhole
<1>1. QueryInit => SentInv /\ NeverTwiceWhole BY SentInit DEF QueryInit, NeverTwiceWhole
<1>2. SentInv /\ NeverTwiceWhole /\ [QueryNext]_queryVars => (SentInv /\ NeverTwiceWhole)'
  BY SentNext
<1> QED BY <1>1, <1>2, PTL DEF QuerySpec

-----------------------------------------------------------------------------
(* The count of a plain statement that is cut in the right place is of its  *)
(* rows or of the whole table.                                              *)
LEMMA CountsEnough ==
  ASSUME SentInv, stmt.verb \in {"update", "delete"},
         stmt.plain, ~Miscut(stmt), NEW guess \in Estimates(stmt)
  PROVE  guess \in Nat /\ guess >= Cardinality(stmt.picks \cap table)
<1>1. IsFiniteSet(table) /\ Cardinality(table) \in Nat
  BY TableRowsAssumption, FS_Subset, FS_CardinalityType DEF SentInv
<1>2. /\ IsFiniteSet(stmt.picks \cap table)
      /\ Cardinality(stmt.picks \cap table) <= Cardinality(table)
  BY <1>1, FS_Subset, stmt.picks \cap table \subseteq table
<1>3. Cardinality(stmt.picks \cap table) \in Nat BY <1>2, FS_CardinalityType
<1>4. guess \in dmlToCountSQL(stmt) BY DEF Estimates, classifySQL
<1>5. guess = Cardinality(IF stmt.verb = "update" /\ stmt.where # "blank" THEN table
                                                ELSE stmt.picks \cap table)
  BY <1>4 DEF dmlToCountSQL
<1> QED BY <1>1, <1>2, <1>3, <1>5

(* Rows that come in are the only ones a count can miss.                    *)
LEMMA RowsComeIn ==
  ASSUME SentInv, NEW S \in SUBSET TableRows
  PROVE  /\ Cardinality(S \cap table) \in Nat /\ Cardinality(S \cap seen) \in Nat
         /\ Cardinality(table \ seen) \in Nat
         /\ Cardinality(S \cap table) <= Cardinality(S \cap seen) + Cardinality(table \ seen)
<1>1. /\ IsFiniteSet(S \cap table) /\ IsFiniteSet(S \cap seen) /\ IsFiniteSet(table \ seen)
  BY TableRowsAssumption, FS_Subset, S \cap table \subseteq TableRows,
     S \cap seen \subseteq TableRows, table \ seen \subseteq TableRows DEF SentInv
<1>2. /\ Cardinality(S \cap table) \in Nat /\ Cardinality(S \cap seen) \in Nat
      /\ Cardinality(table \ seen) \in Nat
  BY <1>1, FS_CardinalityType
<1> DEFINE both == (S \cap seen) \cup (table \ seen)
           common == (S \cap seen) \cap (table \ seen)
<1>3. /\ IsFiniteSet(both)
      /\ Cardinality(both) = Cardinality(S \cap seen) + Cardinality(table \ seen)
                               - Cardinality(common)
  BY <1>1, FS_Union
<1>4. Cardinality(common) = 0
  <2>1. common = {} OBVIOUS
  <2> QED BY <2>1, FS_EmptySet
<1>5. Cardinality(S \cap table) <= Cardinality(both)
  <2>1. S \cap table \subseteq both OBVIOUS
  <2> QED BY <1>3, <2>1, FS_Subset
<1>6. Cardinality(both) \in Nat BY <1>3, FS_CardinalityType
<1> HIDE DEF both, common
<1> QED BY <1>2, <1>3, <1>4, <1>5, <1>6

(* A preview that fails has no count.                                       *)
LEMMA FailedPreview ==
  ASSUME PreviewFails
  PROVE  /\ preview'.counted = FALSE /\ preview'.estimate = 0
         /\ \/ preview'.kind = classifySQL(stmt.verb) /\ preview'.warned \in {FALSE, Warned(stmt)}
            \/ preview'.kind = "none" /\ preview'.warned = FALSE
<1>1. ASSUME NEW warned \in {FALSE, Warned(stmt)},
             preview' = [NoPreview EXCEPT !.kind = classifySQL(stmt.verb), !.warned = warned]
      PROVE  /\ preview'.counted = FALSE /\ preview'.estimate = 0
             /\ preview'.kind = classifySQL(stmt.verb) /\ preview'.warned \in {FALSE, Warned(stmt)}
  <2>1. preview' = [kind |-> classifySQL(stmt.verb), estimate |-> 0, counted |-> FALSE,
                    warned |-> warned]
    BY <1>1 DEF NoPreview
  <2> QED BY <2>1
<1>2. CASE preview' = NoPreview BY <1>2 DEF NoPreview
<1> QED BY <1>1, <1>2 DEF PreviewFails

(* What a preview counted, of the table as it was then.                     *)
CountInv ==
  preview.counted /\ stmt.verb \in {"update", "delete"} /\ stmt.plain =>
    /\ ~Miscut(stmt) => /\ preview.estimate \in Nat
                        /\ preview.estimate >= Cardinality(stmt.picks \cap seen)
    /\ stmt.where = "none" /\ ~stmt.quoted => preview.warned

LEMMA CountNext ==
  ASSUME SentInv, CountInv, [QueryNext]_queryVars
  PROVE  CountInv'
<1>1. CASE PreviewQuery
  <2>1. PICK guess \in Estimates(stmt) :
          preview' = [kind |-> classifySQL(stmt.verb), estimate |-> guess,
                      counted |-> TRUE, warned |-> Warned(stmt)]
    BY <1>1 DEF PreviewQuery
  <2>2. stmt' = stmt /\ seen' = table BY <1>1 DEF PreviewQuery
  <2>3. preview'.estimate = guess /\ preview'.warned = Warned(stmt) BY <2>1
  <2>4. Miscut(stmt)' <=> Miscut(stmt) BY <2>2 DEF Miscut
  <2> QED BY <2>2, <2>3, <2>4, CountsEnough DEF CountInv, Warned
<1>2. CASE PreviewFails
  <2>1. ~preview'.counted BY <1>2, FailedPreview
  <2> QED BY <2>1 DEF CountInv
<1>3. CASE UNCHANGED <<stmt, seen, preview>> BY <1>3 DEF CountInv, Miscut
<1> QED BY <1>1, <1>2, <1>3 DEF QueryNext, queryVars, TableChanges, AIExecute, TakeConn,
          UseDatabase, SendQuery, SendExec

LEMMA CountIsCautious == ASSUME SentInv, CountInv PROVE PreviewIsCautious
<1> SUFFICES ASSUME preview.counted, stmt.verb \in {"update", "delete"}, stmt.plain,
                    ~Miscut(stmt)
             PROVE  ~Uncounted
  BY DEF CountInv, PreviewIsCautious
<1> DEFINE picked == Cardinality(stmt.picks \cap table)  then == Cardinality(stmt.picks \cap seen)
           come == Cardinality(table \ seen)  estimate == preview.estimate
<1>1. stmt.picks \in SUBSET TableRows BY DEF SentInv, Statement
<1>2. picked \in Nat /\ then \in Nat /\ come \in Nat /\ picked <= then + come
  BY <1>1, RowsComeIn
<1>3. estimate \in Nat /\ estimate >= then BY DEF CountInv
<1>4. ~(picked > estimate + come)
  <2> HIDE DEF picked, then, come, estimate
  <2> QED BY <1>2, <1>3
<1> QED BY <1>4 DEF Uncounted

(* For tables of any size, changed as they may be while the preview is      *)
(* shown: it falls short of what a plain UPDATE or DELETE that is not cut   *)
(* in the wrong place would change by no more than the rows that have come  *)
(* since, and it warns when there is no WHERE (PreviewQuery).               *)
THEOREM PreviewCounts == QuerySpec => []PreviewIsCautious
<1>1. QueryInit => SentInv /\ NeverTwiceWhole /\ CountInv
  BY SentInit DEF QueryInit, NeverTwiceWhole, CountInv, NoPreview
<1>2. SentInv /\ NeverTwiceWhole /\ CountInv /\ [QueryNext]_queryVars
        => (SentInv /\ NeverTwiceWhole /\ CountInv)'
  BY SentNext, CountNext
<1>3. SentInv /\ CountInv => PreviewIsCautious BY CountIsCautious
<1> QED BY <1>1, <1>2, <1>3, PTL DEF QuerySpec

-----------------------------------------------------------------------------
(* What a preview guesses or counts is a number.                            *)
LEMMA EstimatesAreNumbers ==
  ASSUME QueryTypeOK, NEW guess \in Estimates(stmt)
  PROVE  guess \in Nat
<1>1. Cardinality(table) \in Nat /\ Cardinality(stmt.picks \cap table) \in Nat
  BY TableRowsAssumption, FS_Subset, FS_CardinalityType,
     stmt.picks \cap table \subseteq TableRows DEF QueryTypeOK
<1>2. \/ guess \in Guesses \/ guess = 0 \/ guess \in 0..Cardinality(table)
      \/ guess \in {Cardinality(table), Cardinality(stmt.picks \cap table)}
  BY DEF Estimates, dmlToCountSQL
<1>3. CASE guess \in 0..Cardinality(table) BY <1>1, <1>3
<1>4. CASE guess \in Guesses BY <1>4, TableRowsAssumption
<1>5. CASE guess \in {Cardinality(table), Cardinality(stmt.picks \cap table)} BY <1>1, <1>5
<1> QED BY <1>2, <1>3, <1>4, <1>5

LEMMA QueryTypesNext == QueryTypeOK /\ [QueryNext]_queryVars => QueryTypeOK'
<1> SUFFICES ASSUME QueryTypeOK, [QueryNext]_queryVars PROVE QueryTypeOK'
  OBVIOUS
<1>1. /\ classifySQL(stmt.verb) \in {"none", "select", "dml", "ddl", "other"}
      /\ Warned(stmt) \in BOOLEAN
  BY DEF QueryTypeOK, Statement, Verbs, classifySQL, Warned
<1>2. CASE PreviewQuery
  <2>1. PICK r \in Estimates(stmt) :
          preview' = [kind |-> classifySQL(stmt.verb), estimate |-> r,
                      counted |-> TRUE, warned |-> Warned(stmt)]
    BY <1>2 DEF PreviewQuery
  <2>2. r \in Nat BY EstimatesAreNumbers
  <2> QED BY <1>1, <1>2, <2>1, <2>2 DEF PreviewQuery, QueryTypeOK
<1>4. CASE PreviewFails
  <2>1. preview'.counted \in BOOLEAN
    <3>1. preview'.counted = FALSE BY <1>4, FailedPreview, Zenon
    <3> QED BY <3>1, Zenon
  <2>2. preview'.estimate \in Nat BY <1>4, FailedPreview
  <2>3. preview'.kind \in {"none", "select", "dml", "ddl", "other"}
    <3>1. preview'.kind \in {classifySQL(stmt.verb), "none"} BY <1>4, FailedPreview, Zenon
    <3> QED BY <1>1, <3>1, Zenon
  <2>4. preview'.warned \in {FALSE, Warned(stmt)} BY <1>4, FailedPreview, Zenon
  <2>5. {FALSE, Warned(stmt)} \subseteq BOOLEAN BY <1>1
  <2>6. preview'.warned \in BOOLEAN BY <2>4, <2>5
  <2> QED BY <1>4, <2>1, <2>2, <2>3, <2>6 DEF PreviewFails, QueryTypeOK
<1>5. CASE TableChanges BY <1>5 DEF TableChanges, QueryTypeOK
<1>6. CASE AIExecute BY <1>6 DEF AIExecute, QueryTypeOK
<1>7. CASE TakeConn BY <1>7 DEF TakeConn, Fail, QueryTypeOK
<1>8. CASE UseDatabase BY <1>8 DEF UseDatabase, Fail, QueryTypeOK
<1>9. ASSUME NEW o \in Outcome
      PROVE  o[1] \in {"nothing", "half", "whole"} /\ o[3] \in {"up", "down"}
  BY DEF Outcome
<1>10. CASE SendQuery BY <1>9, <1>10 DEF SendQuery, QueryTypeOK
<1>11. CASE SendExec BY <1>9, <1>11 DEF SendExec, Fail, QueryTypeOK
<1>12. CASE UNCHANGED queryVars BY <1>12 DEF queryVars, QueryTypeOK
<1> QED BY <1>2, <1>4, <1>5, <1>6, <1>7, <1>8, <1>10, <1>11, <1>12 DEF QueryNext

(* The types of a statement, its preview and its sendings: PreviewQuery and *)
(* RunUserQuery.                                                            *)
THEOREM QueryTypes == QuerySpec => []QueryTypeOK
<1>1. QueryInit => QueryTypeOK BY DEF QueryInit, QueryTypeOK, NoPreview
<1> QED BY <1>1, QueryTypesNext, PTL DEF QuerySpec

-----------------------------------------------------------------------------
(* The server's figures.                                                    *)

(* The remainder of what lies at most one turn outside the counter.         *)
LEMMA OneTurn ==
  ASSUME NEW n \in Int
  PROVE  /\ n % Word \in Counter
         /\ 0 <= n /\ n < Word => n % Word = n
         /\ Word <= n /\ n < 2 * Word => n % Word = n - Word
         /\ -Word <= n /\ n < 0 => n % Word = n + Word
<1>1. n % Word \in 0..Word - 1 BY StatsAssumption
<1>2. 0 <= n /\ n < Word => n % Word = n BY StatsAssumption
<1>3. Word <= n /\ n < 2 * Word => n % Word = n - Word BY StatsAssumption
<1>4. -Word <= n /\ n < 0 => n % Word = n + Word BY StatsAssumption
<1> QED BY <1>1, <1>2, <1>3, <1>4 DEF Counter

LEMMA PlusMinus ==
  ASSUME NEW m \in Counter, NEW n \in Int, -Word < n, n < Word
  PROVE  /\ Plus(m, n) = IF m + n < 0 THEN m + n + Word
                        ELSE IF m + n < Word THEN m + n ELSE m + n - Word
         /\ Minus(m, n) = IF m - n < 0 THEN m - n + Word
                         ELSE IF m - n < Word THEN m - n ELSE m - n - Word
         /\ Plus(m, n) \in Counter /\ Minus(m, n) \in Counter
<1>1. m \in Int /\ 0 <= m /\ m < Word /\ Word \in Nat \ {0}
  BY StatsAssumption DEF Counter
<1>2. m + n \in Int /\ m - n \in Int BY <1>1
<1> DEFINE sum == m + n  difference == m - n
<1>3. /\ sum % Word \in Counter
      /\ 0 <= sum /\ sum < Word => sum % Word = sum
      /\ Word <= sum /\ sum < 2 * Word => sum % Word = sum - Word
      /\ -Word <= sum /\ sum < 0 => sum % Word = sum + Word
  <2> HIDE DEF sum
  <2> QED BY <1>2, OneTurn DEF sum
<1>4. /\ difference % Word \in Counter
      /\ 0 <= difference /\ difference < Word => difference % Word = difference
      /\ Word <= difference /\ difference < 2 * Word => difference % Word = difference - Word
      /\ -Word <= difference /\ difference < 0 => difference % Word = difference + Word
  <2> HIDE DEF difference
  <2> QED BY <1>2, OneTurn DEF difference
<1> QED BY <1>1, <1>3, <1>4 DEF Plus, Minus

(* Between the readings the sums of the counters gain what the counters     *)
(* gain, in all and at rest.                                                *)
GainInv ==
  /\ gained \in Int
  /\ stage = "ask" => ticks = 0
  /\ stage = "pause" => \E worked \in 0..ticks :
       /\ -(ticks - worked) <= gained /\ gained <= ticks - worked
       /\ Reading.total = Plus(first.total, worked + gained)
       /\ Reading.idle = Plus(first.idle, gained)

StatsInv == StatsTypeOK /\ GainInv /\ PercentagesInRange

(* Adding one, or taking one off, commutes with a sum.                      *)
LEMMA PlusOne ==
  ASSUME 1 < Word, NEW m \in Counter, NEW n \in Counter
  PROVE  /\ Plus(m, n) \in Counter /\ Plus(m, 1) \in Counter
         /\ Plus(Plus(m, 1), n) = Plus(Plus(m, n), 1)
         /\ Plus(m, Plus(n, 1)) = Plus(Plus(m, n), 1)
         /\ Plus(m, Plus(n, -1)) = Plus(Plus(m, n), -1)
         /\ n > 0 => /\ n - 1 \in Counter
                    /\ Plus(m, n - 1) = Plus(Plus(m, n), -1)
<1>1. /\ m \in Int /\ 0 <= m /\ m < Word /\ n \in Int /\ 0 <= n /\ n < Word
      /\ Word \in Nat
  BY StatsAssumption DEF Counter
<1>2. \A j \in Counter, k \in Int : -Word < k /\ k < Word =>
        /\ Plus(j, k) = IF j + k < 0 THEN j + k + Word
                       ELSE IF j + k < Word THEN j + k ELSE j + k - Word
        /\ Plus(j, k) \in Counter
  BY PlusMinus
<1>3. \A j \in Counter : j \in Int /\ -Word < j /\ j < Word
  BY <1>1 DEF Counter
<1> DEFINE sum == Plus(m, n)  mUp == Plus(m, 1)  nUp == Plus(n, 1)  nDown == Plus(n, -1)
<1>4. /\ sum \in Counter /\ mUp \in Counter /\ nUp \in Counter /\ nDown \in Counter
      /\ sum = IF m + n < Word THEN m + n ELSE m + n - Word
      /\ mUp = IF m + 1 < Word THEN m + 1 ELSE 0
      /\ nUp = IF n + 1 < Word THEN n + 1 ELSE 0
      /\ nDown = IF n = 0 THEN Word - 1 ELSE n - 1
  BY <1>1, <1>2
<1> HIDE DEF sum, mUp, nUp, nDown
<1>5. Plus(mUp, n) = IF mUp + n < Word THEN mUp + n ELSE mUp + n - Word
  BY <1>1, <1>2, <1>3, <1>4
<1>6. Plus(m, nUp) = IF m + nUp < Word THEN m + nUp ELSE m + nUp - Word
  BY <1>1, <1>2, <1>3, <1>4
<1>7. Plus(m, nDown) = IF m + nDown < Word THEN m + nDown ELSE m + nDown - Word
  BY <1>1, <1>2, <1>3, <1>4
<1>8. /\ Plus(sum, 1) = IF sum + 1 < Word THEN sum + 1 ELSE 0
      /\ Plus(sum, -1) = IF sum = 0 THEN Word - 1 ELSE sum - 1
  BY <1>1, <1>2, <1>3, <1>4
<1>9. Plus(mUp, n) = Plus(sum, 1) BY <1>1, <1>4, <1>5, <1>8
<1>10. Plus(m, nUp) = Plus(sum, 1) BY <1>1, <1>4, <1>6, <1>8
<1>11. Plus(m, nDown) = Plus(sum, -1) BY <1>1, <1>4, <1>7, <1>8
<1>12. n > 0 => n - 1 = nDown BY <1>1, <1>4
<1> QED BY <1>4, <1>9, <1>10, <1>11, <1>12 DEF sum, mUp, nUp, nDown

(* What a tick does to a reading.                                           *)
LEMMA TickReading ==
  ASSUME StatsTypeOK, Tick
  PROVE  /\ busy' \in Counter /\ idle' \in Counter /\ iowait' \in Counter
         /\ \/ /\ Reading'.total = Plus(Reading.total, 1) /\ Reading'.idle = Reading.idle
               /\ gained' = gained
            \/ /\ Reading'.total = Plus(Reading.total, 1)
               /\ Reading'.idle = Plus(Reading.idle, 1)
               /\ gained' = gained + 1
            \/ /\ Reading'.total = Plus(Reading.total, -1)
               /\ Reading'.idle = Plus(Reading.idle, -1)
               /\ gained' = gained - 1
<1>1. /\ busy \in Counter /\ idle \in Counter /\ iowait \in Counter
      /\ 1 < Word /\ Word \in Nat
  BY StatsAssumption DEF StatsTypeOK, Tick
<1>3. ASSUME NEW m \in Counter, NEW n \in Counter
      PROVE  /\ Plus(m, n) \in Counter /\ Plus(m, 1) \in Counter
             /\ Plus(Plus(m, 1), n) = Plus(Plus(m, n), 1)
             /\ Plus(m, Plus(n, 1)) = Plus(Plus(m, n), 1)
             /\ n > 0 => /\ n - 1 \in Counter
                        /\ Plus(m, n - 1) = Plus(Plus(m, n), -1)
  BY <1>1, PlusOne
<1>4. ASSUME NEW m \in Counter, NEW n \in Counter
      PROVE  Plus(m, Plus(n, -1)) = Plus(Plus(m, n), -1)
  BY <1>1, PlusOne
<1>5. /\ Reading = [total |-> Plus(busy, Plus(idle, iowait)), idle |-> Plus(idle, iowait)]
      /\ Reading' = [total |-> Plus(busy', Plus(idle', iowait')), idle |-> Plus(idle', iowait')]
  BY DEF Reading
<1>6. /\ Plus(idle, iowait) \in Counter
      /\ Plus(busy, Plus(Plus(idle, iowait), 1)) = Plus(Plus(busy, Plus(idle, iowait)), 1)
  <2> DEFINE rest == Plus(idle, iowait)
  <2>1. rest \in Counter BY <1>1, <1>3
  <2> HIDE DEF rest
  <2>2. Plus(busy, Plus(rest, 1)) = Plus(Plus(busy, rest), 1) BY <1>1, <1>3, <2>1
  <2> QED BY <2>1, <2>2 DEF rest
<1>7. CASE busy' = Plus(busy, 1) /\ UNCHANGED <<idle, iowait, gained>>
  BY <1>1, <1>3, <1>5, <1>6, <1>7
<1>8. CASE idle' = Plus(idle, 1) /\ gained' = gained + 1 /\ UNCHANGED <<busy, iowait>>
  <2>1. Plus(idle', iowait') = Plus(Plus(idle, iowait), 1) BY <1>1, <1>3, <1>8
  <2>2. Plus(busy', Plus(idle', iowait')) = Plus(Plus(busy, Plus(idle, iowait)), 1)
    BY <1>6, <1>8, <2>1
  <2>3. busy' \in Counter /\ idle' \in Counter /\ iowait' \in Counter
    BY <1>1, <1>3, <1>8
  <2> QED BY <1>5, <1>8, <2>1, <2>2, <2>3
<1>9. CASE iowait' = Plus(iowait, 1) /\ gained' = gained + 1 /\ UNCHANGED <<busy, idle>>
  <2>1. Plus(idle', iowait') = Plus(Plus(idle, iowait), 1) BY <1>1, <1>3, <1>9
  <2>2. Plus(busy', Plus(idle', iowait')) = Plus(Plus(busy, Plus(idle, iowait)), 1)
    BY <1>6, <1>9, <2>1
  <2>3. busy' \in Counter /\ idle' \in Counter /\ iowait' \in Counter
    BY <1>1, <1>3, <1>9
  <2> QED BY <1>5, <1>9, <2>1, <2>2, <2>3
<1>10. CASE /\ iowait > 0 /\ iowait' = iowait - 1 /\ gained' = gained - 1
            /\ UNCHANGED <<busy, idle>>
  BY <1>1, <1>3, <1>4, <1>5, <1>6, <1>10
<1> QED BY <1>7, <1>8, <1>9, <1>10 DEF Tick

LEMMA ReadingType ==
  ASSUME StatsTypeOK
  PROVE  Reading \in [total : Counter, idle : Counter]
<1>1. \A m, n \in Int : Plus(m, n) \in Counter BY OneTurn DEF Plus
<1>2. \A m \in Counter : m \in Int BY DEF Counter
<1> QED BY <1>1, <1>2 DEF Reading, StatsTypeOK

(* A tick moves the gains with it.                                          *)
LEMMA TickGains ==
  ASSUME StatsTypeOK, GainInv, Tick
  PROVE  GainInv'
<1>1. /\ first \in [total : Counter, idle : Counter] /\ first' = first
      /\ ticks \in Nat /\ ticks' = ticks + 1 /\ ticks + 1 <= MaxTicks
      /\ ticks + 1 < Word /\ stage = "pause" /\ stage' = "pause" /\ gained \in Int
  BY StatsAssumption DEF StatsTypeOK, GainInv, Tick
<1>2. PICK worked \in 0..ticks :
        /\ -(ticks - worked) <= gained /\ gained <= ticks - worked
        /\ Reading.total = Plus(first.total, worked + gained)
        /\ Reading.idle = Plus(first.idle, gained)
  BY <1>1 DEF GainInv
<1>3. ASSUME NEW m \in Counter, NEW n \in Int, NEW d \in {-1, 1},
             -Word < n, n < Word, -Word < n + d, n + d < Word
      PROVE  Plus(Plus(m, n), d) = Plus(m, n + d)
  <2>1. /\ m \in Int /\ 0 <= m /\ m < Word /\ Word \in Nat /\ 1 < Word
        /\ d \in Int /\ n + d \in Int /\ -Word < d /\ d < Word
    BY <1>1, StatsAssumption DEF Counter
  <2> DEFINE sum == Plus(m, n)
  <2>2. /\ sum \in Counter
        /\ sum = IF m + n < 0 THEN m + n + Word
                 ELSE IF m + n < Word THEN m + n ELSE m + n - Word
    BY <1>3, PlusMinus
  <2> HIDE DEF sum
  <2>3. Plus(sum, d) = IF sum + d < 0 THEN sum + d + Word
                       ELSE IF sum + d < Word THEN sum + d ELSE sum + d - Word
    BY <2>1, <2>2, PlusMinus
  <2>4. Plus(m, n + d) = IF m + (n + d) < 0 THEN m + (n + d) + Word
                         ELSE IF m + (n + d) < Word THEN m + (n + d) ELSE m + (n + d) - Word
    BY <1>3, <2>1, PlusMinus
  <2>5. sum \in Int /\ 0 <= sum /\ sum < Word BY <2>2, <2>1 DEF Counter
  <2>6. Plus(sum, d) = Plus(m, n + d) BY <1>3, <2>1, <2>2, <2>3, <2>4, <2>5
  <2> QED BY <2>6 DEF sum
<1>4. worked \in Nat /\ worked <= ticks BY <1>1, <1>2
<1>5. /\ first.total \in Counter /\ first.idle \in Counter
      /\ -Word < worked + gained /\ worked + gained < Word
      /\ -Word < worked + gained + 1 /\ worked + gained + 1 < Word
      /\ -Word < worked + gained - 1 /\ worked + gained - 1 < Word
      /\ -Word < gained /\ gained < Word
      /\ -Word < gained + 1 /\ gained + 1 < Word
      /\ -Word < gained - 1 /\ gained - 1 < Word
  <2>1. first.total \in Counter /\ first.idle \in Counter BY <1>1
  <2>2. /\ worked \in Int /\ gained \in Int /\ ticks \in Int /\ Word \in Int
        /\ 0 <= worked /\ worked <= ticks /\ ticks + 1 < Word
        /\ -(ticks - worked) <= gained /\ gained <= ticks - worked
    BY <1>1, <1>2, <1>4, StatsAssumption
  <2> QED BY <2>1, <2>2
<1>6. /\ Plus(Plus(first.total, worked + gained), 1) = Plus(first.total, worked + gained + 1)
      /\ Plus(Plus(first.total, worked + gained), -1) = Plus(first.total, worked + gained - 1)
      /\ Plus(Plus(first.idle, gained), 1) = Plus(first.idle, gained + 1)
      /\ Plus(Plus(first.idle, gained), -1) = Plus(first.idle, gained - 1)
  <2>1. ASSUME NEW m \in Counter, NEW n \in Int, -Word < n, n < Word,
               -Word < n + 1, n + 1 < Word
        PROVE  Plus(Plus(m, n), 1) = Plus(m, n + 1)
    BY <1>3, <2>1
  <2>2. ASSUME NEW m \in Counter, NEW n \in Int, -Word < n, n < Word,
               -Word < n - 1, n - 1 < Word
        PROVE  Plus(Plus(m, n), -1) = Plus(m, n - 1)
    <3>1. n + -1 = n - 1 OBVIOUS
    <3> QED BY <1>3, <2>2, <3>1
  <2> QED BY <1>1, <1>4, <1>5, <2>1, <2>2
<1>7. CASE /\ Reading'.total = Plus(Reading.total, 1) /\ Reading'.idle = Reading.idle
           /\ gained' = gained
  <2>1. /\ worked + 1 \in 0..ticks' /\ ticks' - (worked + 1) = ticks - worked
        /\ worked + gained + 1 = worked + 1 + gained
    BY <1>1, <1>4
  <2> QED BY <1>1, <1>2, <1>6, <1>7, <2>1 DEF GainInv
<1>8. CASE /\ Reading'.total = Plus(Reading.total, 1)
           /\ Reading'.idle = Plus(Reading.idle, 1)
           /\ gained' = gained + 1
  <2>1. /\ worked \in 0..ticks' /\ worked + gained + 1 = worked + gained'
        /\ -(ticks' - worked) <= gained' /\ gained' <= ticks' - worked
    BY <1>1, <1>2, <1>4, <1>8
  <2> QED BY <1>1, <1>2, <1>6, <1>8, <2>1 DEF GainInv
<1>9. CASE /\ Reading'.total = Plus(Reading.total, -1)
           /\ Reading'.idle = Plus(Reading.idle, -1)
           /\ gained' = gained - 1
  <2>1. /\ worked \in 0..ticks' /\ worked + gained - 1 = worked + gained'
        /\ -(ticks' - worked) <= gained' /\ gained' <= ticks' - worked
    BY <1>1, <1>2, <1>4, <1>9
  <2> QED BY <1>1, <1>2, <1>6, <1>9, <2>1 DEF GainInv
<1> QED BY <1>7, <1>8, <1>9, TickReading

(* The second reading less the first is what was gained.                    *)
LEMMA SampleInRange ==
  ASSUME StatsTypeOK, GainInv, stage = "pause"
  PROVE  /\ Sample(Reading).total \in Counter
         /\ gained >= 0 => Sample(Reading).used \in 0..Sample(Reading).total
<1>1. PICK worked \in 0..ticks :
        /\ -(ticks - worked) <= gained /\ gained <= ticks - worked
        /\ Reading.total = Plus(first.total, worked + gained)
        /\ Reading.idle = Plus(first.idle, gained)
  BY DEF GainInv
<1>2. /\ first.total \in Counter /\ first.idle \in Counter /\ gained \in Int
      /\ ticks \in Nat /\ ticks < Word /\ Word \in Nat \ {0} /\ worked \in Nat
  BY StatsAssumption DEF StatsTypeOK, GainInv
<1>3. ASSUME NEW m \in Counter, NEW n \in Nat, n < Word
      PROVE  Minus(Plus(m, n), m) = n
  <2>1. m \in Int /\ 0 <= m /\ m < Word BY <1>2 DEF Counter
  <2> DEFINE sum == Plus(m, n)
  <2>2. sum \in Counter /\ sum = IF m + n < Word THEN m + n ELSE m + n - Word
    BY <1>2, <1>3, <2>1, PlusMinus
  <2> HIDE DEF sum
  <2>3. sum \in Int /\ 0 <= sum /\ sum < Word BY <1>2, <2>2 DEF Counter
  <2>4. Minus(sum, m) = IF sum - m < 0 THEN sum - m + Word
                        ELSE IF sum - m < Word THEN sum - m ELSE sum - m - Word
    BY <1>2, <2>1, <2>2, PlusMinus
  <2>5. Minus(sum, m) = n BY <1>2, <1>3, <2>1, <2>2, <2>3, <2>4
  <2> QED BY <2>5 DEF sum
<1>4. Minus(Reading.total, first.total) \in Counter
  <2>1. Reading.total \in Int /\ first.total \in Int
    BY <1>2, ReadingType DEF Counter
  <2> QED BY <2>1, OneTurn DEF Minus
<1>5. /\ Sample(Reading).total \in {0, Minus(Reading.total, first.total)}
      /\ 0 \in Counter
  BY <1>2 DEF Sample, Nothing, Counter
<1>6. ASSUME gained >= 0 PROVE Sample(Reading).used \in 0..Sample(Reading).total
  <2>1. /\ Minus(Reading.total, first.total) = worked + gained
        /\ Minus(Reading.idle, first.idle) = gained
    BY <1>1, <1>2, <1>3, <1>6
  <2> QED BY <1>2, <1>6, <2>1 DEF Sample, Nothing
<1> QED BY <1>4, <1>5, <1>6

(* Memory and disk: what is free is part of the total.                      *)
LEMMA UsedOfTotal ==
  ASSUME NEW total \in Sizes, NEW rest \in 0..total
  PROVE  Minus(total, rest) = total - rest /\ total \in Counter /\ total - rest \in 0..total
                /\ total - rest \in Counter
<1>1. /\ total \in Int /\ 0 <= total /\ total < Word /\ rest \in Int /\ Word \in Nat
      /\ 0 <= rest /\ rest <= total /\ total \in Counter
  BY StatsAssumption DEF Counter
<1>2. total - rest \in Int /\ 0 <= total - rest /\ total - rest < Word BY <1>1
<1>3. (total - rest) % Word = total - rest BY <1>2, OneTurn
<1> QED BY <1>1, <1>2, <1>3 DEF Minus, Counter

LEMMA StatsNextInv == StatsInv /\ [StatsNext]_statsVars => StatsInv'
<1> SUFFICES ASSUME StatsInv, [StatsNext]_statsVars PROVE StatsInv'
  OBVIOUS
<1>0. StatsTypeOK /\ GainInv /\ PercentagesInRange BY DEF StatsInv
<1>1. CASE ReadFirst
  <2>1. /\ first' = Reading /\ Reading' = Reading /\ gained' = 0 /\ ticks' = 0
        /\ stage' = "pause" /\ UNCHANGED <<busy, idle, iowait, cpu, mem, disk, ticks>>
    BY <1>0, <1>1 DEF ReadFirst, Reading, GainInv
  <2>2. Reading.total \in Counter /\ Reading.idle \in Counter
    BY <1>0, ReadingType
  <2>3. Plus(Reading.total, 0) = Reading.total /\ Plus(Reading.idle, 0) = Reading.idle
    <3>1. \A m \in Counter : m \in Int /\ 0 <= m /\ m < Word /\ Word \in Nat /\ 0 < Word
      BY StatsAssumption DEF Counter
    <3>2. 0 \in Int /\ -Word < 0 /\ 0 < Word BY StatsAssumption
    <3>3. \A m \in Counter : Plus(m, 0) = IF m + 0 < 0 THEN m + 0 + Word
                                  ELSE IF m + 0 < Word THEN m + 0 ELSE m + 0 - Word
      BY <3>2, PlusMinus
    <3> QED BY <2>2, <3>1, <3>3
  <2>4. GainInv' BY <2>1, <2>3 DEF GainInv
  <2>5. StatsTypeOK' BY <1>0, <2>1, ReadingType DEF StatsTypeOK
  <2>6. PercentagesInRange' BY <1>0, <2>1 DEF PercentagesInRange
  <2> QED BY <2>4, <2>5, <2>6 DEF StatsInv
<1>2. CASE Tick
  <2>1. GainInv' BY <1>0, <1>2, TickGains
  <2>2. StatsTypeOK'
    <3>1. busy' \in Counter /\ idle' \in Counter /\ iowait' \in Counter
      BY <1>0, <1>2, TickReading
    <3>2. ticks' \in 0..MaxTicks BY <1>0, <1>2, StatsAssumption DEF StatsTypeOK, Tick
    <3> QED BY <1>0, <1>2, <3>1, <3>2 DEF StatsTypeOK, Tick
  <2>3. PercentagesInRange' BY <1>0, <1>2 DEF PercentagesInRange, Tick
  <2> QED BY <2>1, <2>2, <2>3 DEF StatsInv
<1>3. CASE ReadSecond
  <2>1. /\ cpu' = Sample(Reading) /\ stage' = "mem" /\ stage = "pause"
        /\ UNCHANGED <<busy, idle, iowait, first, mem, disk, ticks, gained>>
    BY <1>3 DEF ReadSecond
  <2>2. /\ cpu'.total \in Counter
        /\ gained >= 0 => cpu'.used \in 0..cpu'.total
    BY <1>0, <2>1, SampleInRange
  <2>3. StatsTypeOK' BY <1>0, <2>1, <2>2 DEF StatsTypeOK
  <2>4. GainInv' BY <1>0, <2>1 DEF GainInv
  <2>5. PercentagesInRange' BY <1>0, <2>1, <2>2 DEF PercentagesInRange
  <2> QED BY <2>3, <2>4, <2>5 DEF StatsInv
<1>4. 0 \in Counter /\ Nothing.total = 0 /\ Nothing.used = 0
  BY StatsAssumption DEF Counter, Nothing
<1>5. CASE NoCPU
  BY <1>0, <1>4, <1>5 DEF NoCPU, StatsInv, StatsTypeOK, GainInv, PercentagesInRange
<1>6. CASE MemInfo
  <2>1. PICK total \in Sizes : \E available, unused \in 0..total :
          mem' = [used |-> UsedMemory(total, available, unused), total |-> total]
    BY <1>6 DEF MemInfo
  <2>2. PICK rest \in 0..total : mem' = [used |-> Minus(total, rest), total |-> total]
    BY <2>1 DEF UsedMemory
  <2>3. mem' \in [used : Counter, total : Counter] /\ mem'.used \in 0..mem'.total
    BY <2>2, UsedOfTotal
  <2>4. stage' = "disk" /\ UNCHANGED <<busy, idle, iowait, first, cpu, disk, ticks, gained>>
        /\ stage = "mem"
    BY <1>6 DEF MemInfo
  <2> QED BY <1>0, <2>3, <2>4 DEF StatsInv, StatsTypeOK, GainInv, PercentagesInRange
<1>7. CASE DiskInfo
  <2>1. PICK total \in Sizes : \E free \in 0..total :
          disk' = [used |-> Minus(total, free), total |-> total]
    BY <1>7 DEF DiskInfo
  <2>2. disk' \in [used : Counter, total : Counter] /\ disk'.used \in 0..disk'.total
    BY <2>1, UsedOfTotal
  <2>3. stage' = "shown" /\ UNCHANGED <<busy, idle, iowait, first, cpu, mem, ticks, gained>>
        /\ stage = "disk"
    BY <1>7 DEF DiskInfo
  <2> QED BY <1>0, <2>2, <2>3 DEF StatsInv, StatsTypeOK, GainInv, PercentagesInRange
<1>8. CASE CollectFails
  BY <1>0, <1>8 DEF CollectFails, StatsInv, StatsTypeOK, GainInv, PercentagesInRange
<1>9. CASE UNCHANGED statsVars
  <2>1. Reading' = Reading BY <1>9 DEF statsVars, Reading
  <2> QED BY <1>0, <1>9, <2>1 DEF statsVars, StatsInv, StatsTypeOK, GainInv, PercentagesInRange
<1> QED BY <1>1, <1>2, <1>3, <1>5, <1>6, <1>7, <1>8, <1>9 DEF StatsNext

LEMMA StatsInitInv == StatsInit => StatsInv
<1> SUFFICES ASSUME StatsInit PROVE StatsInv
  OBVIOUS
<1>1. 0 \in Counter /\ Nothing = [used |-> 0, total |-> 0]
  BY StatsAssumption DEF Counter, Nothing
<1>2. 0 \in 0..MaxTicks /\ 1 \in Counter BY StatsAssumption DEF Counter
<1>3. StatsTypeOK BY <1>1, <1>2 DEF StatsInit, StatsTypeOK
<1>4. GainInv /\ PercentagesInRange BY <1>1 DEF StatsInit, GainInv, PercentagesInRange
<1> QED BY <1>3, <1>4 DEF StatsInv

(* Collect and what it calls.                                               *)
THEOREM StatsTypes == StatsSpec => []StatsTypeOK
<1>1. StatsInv => StatsTypeOK BY DEF StatsInv
<1> QED BY <1>1, StatsInitInv, StatsNextInv, PTL DEF StatsSpec

(* Every figure is between nothing and everything, across the counters'     *)
(* wrap too, unless the kernel has taken back more iowait than it has added *)
(* to idle: cpuPercent, memInfo, diskInfo.                                  *)
THEOREM FiguresInRange == StatsSpec => []PercentagesInRange
<1>1. StatsInv => PercentagesInRange BY DEF StatsInv
<1> QED BY <1>1, StatsInitInv, StatsNextInv, PTL DEF StatsSpec

-----------------------------------------------------------------------------
(* Pages of a table.                                                        *)

RowsOf(seq)    == {seq[n] : n \in 1..Len(seq)}
NoneTwice(seq) == \A m, n \in 1..Len(seq) : seq[m] = seq[n] => m = n

Entry == [row : RowIds, key : Keys \cup {Null}]

(* The table, and its primary key of one column.                            *)
RowsInv == rows \in Seq(RowIds) /\ NoneTwice(rows)
KeysInv == kind = "single" => \A r \in InTable : KeysFit(r, keyOf[r])

(* As long as its key has not changed hands, what the page shows of a row   *)
(* leads to that row or to none.                                            *)
ShownInv ==
  /\ page.limit \in 1..MaxLimit /\ page.offset \in Int
  /\ page.shown \in Seq(Entry) /\ Len(page.shown) <= page.limit
  /\ \A m, n \in 1..Len(page.shown) : page.shown[m].row = page.shown[n].row => m = n
  /\ kind = "single" =>
       \A n \in 1..Len(page.shown) :
         page.shown[n].key \notin moved => Found(n) \subseteq {page.shown[n].row}

HitInv ==
  /\ hit.meant \subseteq RowIds /\ hit.changed \subseteq RowIds
  /\ kind \in {"single", "first"} /\ keyOf \in [RowIds -> Keys \cup {Null}]
  /\ edited \subseteq RowIds /\ moved \subseteq Keys /\ edits \in 0..MaxEdits

EditInv == RowsInv /\ KeysInv /\ ShownInv /\ HitInv

(* As many rows as places, for a sequence without repetition.               *)
LEMMA CountRows ==
  ASSUME NEW S, NEW seq \in Seq(S), NoneTwice(seq)
  PROVE  Cardinality(RowsOf(seq)) = Len(seq)
<1> DEFINE T == {seq[n] : n \in 1..Len(seq)}
<1>1. Len(seq) \in Nat /\ seq \in [1..Len(seq) -> T] /\ DOMAIN seq = 1..Len(seq)
  BY LenProperties
<1>2. seq \in Injection(1..Len(seq), T)
  BY <1>1 DEF Injection, IsInjective, NoneTwice
<1>3. seq \in Surjection(1..Len(seq), T)
  BY <1>1 DEF Surjection
<1>4. ExistsBijection(1..Len(seq), T)
  BY <1>2, <1>3 DEF ExistsBijection, Bijection
<1> HIDE DEF T
<1>5. Cardinality(T) = Len(seq) BY <1>1, <1>4, FS_CountingElements
<1> QED BY <1>5 DEF T, RowsOf

(* A row less.                                                              *)
LEMMA RemoveAtRow ==
  ASSUME NEW S, NEW seq \in Seq(S), NoneTwice(seq), NEW place \in 1..Len(seq),
         NEW shorter, shorter = RemoveAt(seq, place)
  PROVE  /\ shorter \in Seq(S) /\ NoneTwice(shorter)
         /\ RowsOf(shorter) = RowsOf(seq) \ {seq[place]}
<1> DEFINE before == SubSeq(seq, 1, place - 1)
           after  == SubSeq(seq, place + 1, Len(seq))
<1>1. Len(seq) \in Nat /\ place \in Int /\ 1 <= place /\ place <= Len(seq)
      /\ \A n \in 1..Len(seq) : seq[n] \in S
  BY LenProperties, ElementOfSeq
<1>2. /\ before \in Seq(S) /\ Len(before) = place - 1
      /\ \A n \in 1..place - 1 : before[n] = seq[n]
  <2>1. \A n \in 1..place - 1 : seq[n] \in S BY <1>1
  <2>2. 1 \in Int /\ place - 1 \in Int BY <1>1
  <2>3. /\ before \in Seq(S)
        /\ Len(before) = IF 1 <= place - 1 THEN place - 1 - 1 + 1 ELSE 0
        /\ \A n \in 1..place - 1 - 1 + 1 : before[n] = seq[1 + n - 1]
    BY <2>1, <2>2, SubSeqProperties
  <2> QED BY <1>1, <2>3
<1>3. /\ after \in Seq(S) /\ Len(after) = Len(seq) - place
      /\ \A n \in 1..Len(seq) - place : after[n] = seq[place + n]
  <2>1. \A n \in place + 1..Len(seq) : seq[n] \in S BY <1>1
  <2>2. place + 1 \in Int /\ Len(seq) \in Int BY <1>1
  <2>3. /\ after \in Seq(S)
        /\ Len(after) = IF place + 1 <= Len(seq) THEN Len(seq) - (place + 1) + 1 ELSE 0
        /\ \A n \in 1..Len(seq) - (place + 1) + 1 : after[n] = seq[place + 1 + n - 1]
    BY <2>1, <2>2, SubSeqProperties
  <2> QED BY <1>1, <2>3
<1> HIDE DEF before, after
<1>4. shorter = before \o after BY DEF RemoveAt, before, after
<1>5. /\ shorter \in Seq(S) /\ Len(shorter) = Len(seq) - 1
      /\ \A n \in 1..Len(seq) - 1 : shorter[n] = IF n < place THEN seq[n] ELSE seq[n + 1]
  <2>1. /\ shorter \in Seq(S) /\ Len(shorter) = Len(before) + Len(after)
        /\ \A n \in 1..Len(before) + Len(after) :
             shorter[n] = IF n <= Len(before) THEN before[n] ELSE after[n - Len(before)]
    <3>1. /\ before \o after \in Seq(S) /\ Len(before \o after) = Len(before) + Len(after)
          /\ \A n \in 1..Len(before) + Len(after) : (before \o after)[n] =
               IF n <= Len(before) THEN before[n] ELSE after[n - Len(before)]
      BY <1>2, <1>3, ConcatProperties
    <3> QED BY <1>4, <3>1
  <2> SUFFICES ASSUME NEW n \in 1..Len(seq) - 1
               PROVE  shorter[n] = IF n < place THEN seq[n] ELSE seq[n + 1]
    BY <1>1, <1>2, <1>3, <2>1
  <2>2. CASE n < place
    BY <1>1, <1>2, <1>3, <2>1, <2>2
  <2>3. CASE ~(n < place)
    <3>1. n - Len(before) \in 1..Len(seq) - place /\ place + (n - Len(before)) = n + 1
          /\ n \in 1..Len(before) + Len(after) /\ ~(n <= Len(before))
      BY <1>1, <1>2, <1>3, <2>3
    <3> QED BY <1>3, <2>1, <2>3, <3>1
  <2> QED BY <2>2, <2>3
<1>6. NoneTwice(shorter)
  <2> SUFFICES ASSUME NEW m \in 1..Len(shorter), NEW n \in 1..Len(shorter),
                      shorter[m] = shorter[n]
               PROVE  m = n
    BY DEF NoneTwice
  <2>1. m \in 1..Len(seq) - 1 /\ n \in 1..Len(seq) - 1 BY <1>5
  <2>2. /\ shorter[m] = IF m < place THEN seq[m] ELSE seq[m + 1]
        /\ shorter[n] = IF n < place THEN seq[n] ELSE seq[n + 1]
    BY <1>5, <2>1
  <2>3. /\ m \in Int /\ n \in Int /\ m \in 1..Len(seq) /\ n \in 1..Len(seq)
        /\ m + 1 \in 1..Len(seq) /\ n + 1 \in 1..Len(seq)
    BY <1>1, <2>1
  <2>4. \A i, j \in 1..Len(seq) : seq[i] = seq[j] => i = j BY DEF NoneTwice
  <2>5. CASE m < place /\ n < place BY <2>2, <2>3, <2>4, <2>5
  <2>6. CASE ~(m < place) /\ ~(n < place)
    <3>1. m + 1 = n + 1 BY <2>2, <2>3, <2>4, <2>6
    <3> QED BY <2>3, <3>1
  <2>7. CASE m < place /\ ~(n < place)
    <3>1. m = n + 1 BY <2>2, <2>3, <2>4, <2>7
    <3> QED BY <1>1, <2>3, <2>7, <3>1
  <2>8. CASE ~(m < place) /\ n < place
    <3>1. m + 1 = n BY <2>2, <2>3, <2>4, <2>8
    <3> QED BY <1>1, <2>3, <2>8, <3>1
  <2> QED BY <2>5, <2>6, <2>7, <2>8
<1>7. \A n \in 1..Len(shorter) :
        \E m \in 1..Len(seq) : m # place /\ shorter[n] = seq[m]
  <2> SUFFICES ASSUME NEW n \in 1..Len(shorter)
               PROVE  \E m \in 1..Len(seq) : m # place /\ shorter[n] = seq[m]
    OBVIOUS
  <2>1. n \in 1..Len(seq) - 1 BY <1>5
  <2>2. CASE n < place
    <3>1. n \in 1..Len(seq) /\ n # place /\ shorter[n] = seq[n] BY <1>1, <1>5, <2>1, <2>2
    <3> QED BY <3>1
  <2>3. CASE ~(n < place)
    <3>1. n + 1 \in 1..Len(seq) /\ n + 1 # place /\ shorter[n] = seq[n + 1]
      BY <1>1, <1>5, <2>1, <2>3
    <3> QED BY <3>1
  <2> QED BY <2>2, <2>3
<1>8. \A m \in 1..Len(seq) : m # place =>
        \E n \in 1..Len(shorter) : shorter[n] = seq[m]
  <2> SUFFICES ASSUME NEW m \in 1..Len(seq), m # place
               PROVE  \E n \in 1..Len(shorter) : shorter[n] = seq[m]
    OBVIOUS
  <2>1. CASE m < place
    <3>1. m \in 1..Len(shorter) /\ shorter[m] = seq[m] BY <1>1, <1>5, <2>1
    <3> QED BY <3>1
  <2>2. CASE m > place
    <3>1. m - 1 \in 1..Len(shorter) /\ shorter[m - 1] = seq[m] BY <1>1, <1>5, <2>2
    <3> QED BY <3>1
  <2> QED BY <1>1, <2>1, <2>2
<1>9. {shorter[n] : n \in 1..Len(shorter)} = {seq[n] : n \in 1..Len(seq)} \ {seq[place]}
  <2>1. \A m \in 1..Len(seq) : m # place => seq[m] # seq[place] BY DEF NoneTwice
  <2>2. ASSUME NEW x \in {shorter[n] : n \in 1..Len(shorter)}
        PROVE  x \in {seq[n] : n \in 1..Len(seq)} \ {seq[place]}
    BY <1>7, <2>1
  <2>3. ASSUME NEW x \in {seq[n] : n \in 1..Len(seq)} \ {seq[place]}
        PROVE  x \in {shorter[n] : n \in 1..Len(shorter)}
    BY <1>8
  <2> QED BY <2>2, <2>3
<1> QED BY <1>5, <1>6, <1>9 DEF RowsOf

(* A row more.                                                              *)
LEMMA InsertAtRow ==
  ASSUME NEW S, NEW seq \in Seq(S), NoneTwice(seq), NEW place \in 1..Len(seq) + 1,
         NEW r \in S, \A n \in 1..Len(seq) : seq[n] # r,
         NEW longer, longer = InsertAt(seq, place, r)
  PROVE  /\ longer \in Seq(S) /\ NoneTwice(longer)
         /\ RowsOf(longer) = RowsOf(seq) \cup {r}
<1> DEFINE before == SubSeq(seq, 1, place - 1)
           after  == SubSeq(seq, place, Len(seq))
           begun  == before \o <<r>>
<1>1. Len(seq) \in Nat /\ place \in Int /\ 1 <= place /\ place <= Len(seq) + 1
      /\ \A n \in 1..Len(seq) : seq[n] \in S
  BY LenProperties, ElementOfSeq
<1>2. /\ before \in Seq(S) /\ Len(before) = place - 1
      /\ \A n \in 1..place - 1 : before[n] = seq[n]
  <2>1. \A n \in 1..place - 1 : seq[n] \in S BY <1>1
  <2>2. 1 \in Int /\ place - 1 \in Int BY <1>1
  <2>3. /\ before \in Seq(S)
        /\ Len(before) = IF 1 <= place - 1 THEN place - 1 - 1 + 1 ELSE 0
        /\ \A n \in 1..place - 1 - 1 + 1 : before[n] = seq[1 + n - 1]
    BY <2>1, <2>2, SubSeqProperties
  <2> QED BY <1>1, <2>3
<1>3. /\ after \in Seq(S) /\ Len(after) = Len(seq) - place + 1
      /\ \A n \in 1..Len(seq) - place + 1 : after[n] = seq[place + n - 1]
  <2>1. \A n \in place..Len(seq) : seq[n] \in S BY <1>1
  <2>2. place \in Int /\ Len(seq) \in Int BY <1>1
  <2>3. /\ after \in Seq(S)
        /\ Len(after) = IF place <= Len(seq) THEN Len(seq) - place + 1 ELSE 0
        /\ \A n \in 1..Len(seq) - place + 1 : after[n] = seq[place + n - 1]
    BY <2>1, <2>2, SubSeqProperties
  <2> QED BY <1>1, <2>3
<1>4. <<r>> \in Seq(S) /\ Len(<<r>>) = 1 /\ <<r>>[1] = r
  OBVIOUS
<1> HIDE DEF before, after
<1>5. /\ begun \in Seq(S) /\ Len(begun) = place
      /\ \A n \in 1..place : begun[n] = IF n < place THEN seq[n] ELSE r
  <2>1. /\ begun \in Seq(S) /\ Len(begun) = Len(before) + Len(<<r>>)
        /\ \A n \in 1..Len(before) + Len(<<r>>) :
             begun[n] = IF n <= Len(before) THEN before[n] ELSE <<r>>[n - Len(before)]
    BY <1>2, <1>4, ConcatProperties
  <2> QED BY <1>1, <1>2, <1>4, <2>1
<1>6. longer = begun \o after BY DEF InsertAt, before, after
<1> HIDE DEF begun
<1>7. /\ longer \in Seq(S) /\ Len(longer) = Len(seq) + 1
      /\ \A n \in 1..Len(seq) + 1 :
           longer[n] = IF n < place THEN seq[n] ELSE IF n = place THEN r ELSE seq[n - 1]
  <2>1. /\ longer \in Seq(S) /\ Len(longer) = Len(begun) + Len(after)
        /\ \A n \in 1..Len(begun) + Len(after) :
             longer[n] = IF n <= Len(begun) THEN begun[n] ELSE after[n - Len(begun)]
    BY <1>3, <1>5, <1>6, ConcatProperties
  <2>2. Len(longer) = Len(seq) + 1 BY <1>1, <1>3, <1>5, <2>1
  <2> SUFFICES ASSUME NEW n \in 1..Len(seq) + 1
               PROVE  longer[n] = IF n < place THEN seq[n]
                                  ELSE IF n = place THEN r ELSE seq[n - 1]
    BY <2>1, <2>2
  <2>3. CASE n <= place
    BY <1>1, <1>3, <1>5, <2>1, <2>3
  <2>4. CASE n > place
    <3>1. n - Len(begun) \in 1..Len(seq) - place + 1 /\ place + (n - Len(begun)) - 1 = n - 1
          /\ n \in 1..Len(begun) + Len(after) /\ ~(n <= Len(begun))
      BY <1>1, <1>3, <1>5, <2>4
    <3>2. longer[n] = after[n - Len(begun)] BY <2>1, <3>1
    <3>3. after[n - Len(begun)] = seq[n - 1] BY <1>3, <3>1
    <3> QED BY <1>1, <2>4, <3>2, <3>3
  <2> QED BY <1>1, <2>3, <2>4
<1>8. \A n \in 1..Len(longer) :
        \/ n = place /\ longer[n] = r
        \/ n < place /\ n \in 1..Len(seq) /\ longer[n] = seq[n]
        \/ n > place /\ n - 1 \in 1..Len(seq) /\ longer[n] = seq[n - 1]
  <2> SUFFICES ASSUME NEW n \in 1..Len(longer)
               PROVE  \/ n = place /\ longer[n] = r
                      \/ n < place /\ n \in 1..Len(seq) /\ longer[n] = seq[n]
                      \/ n > place /\ n - 1 \in 1..Len(seq) /\ longer[n] = seq[n - 1]
    OBVIOUS
  <2>1. n \in 1..Len(seq) + 1 BY <1>7
  <2>2. longer[n] = IF n < place THEN seq[n] ELSE IF n = place THEN r ELSE seq[n - 1]
    BY <1>7, <2>1
  <2> QED BY <1>1, <2>1, <2>2
<1>9. NoneTwice(longer)
  <2> SUFFICES ASSUME NEW m \in 1..Len(longer), NEW n \in 1..Len(longer),
                      longer[m] = longer[n]
               PROVE  m = n
    BY DEF NoneTwice
  <2>1. m \in Int /\ n \in Int BY <1>1, <1>7
  <2>2. \A i, j \in 1..Len(seq) : seq[i] = seq[j] => i = j BY DEF NoneTwice
  <2>3. CASE m = place \/ n = place
    <3>1. longer[place] = r BY <1>1, <1>7
    <3>2. ASSUME NEW j \in 1..Len(longer), longer[j] = r PROVE j = place
      <4>1. \/ j = place
            \/ j \in 1..Len(seq) /\ longer[j] = seq[j]
            \/ j - 1 \in 1..Len(seq) /\ longer[j] = seq[j - 1]
        BY <1>8
      <4> QED BY <3>2, <4>1
    <3> QED BY <2>3, <3>1, <3>2
  <2>4. CASE m # place /\ n # place
    <3>1. /\ \/ m < place /\ m \in 1..Len(seq) /\ longer[m] = seq[m]
             \/ m > place /\ m - 1 \in 1..Len(seq) /\ longer[m] = seq[m - 1]
          /\ \/ n < place /\ n \in 1..Len(seq) /\ longer[n] = seq[n]
             \/ n > place /\ n - 1 \in 1..Len(seq) /\ longer[n] = seq[n - 1]
      BY <1>8, <2>4
    <3> QED BY <1>1, <2>1, <2>2, <3>1
  <2> QED BY <2>3, <2>4
<1>10. \A n \in 1..Len(longer) : longer[n] = r \/ \E m \in 1..Len(seq) : longer[n] = seq[m]
  BY <1>8
<1>11. place \in 1..Len(longer) /\ longer[place] = r
  BY <1>1, <1>7
<1>12. \A m \in 1..Len(seq) : \E n \in 1..Len(longer) : longer[n] = seq[m]
  <2> SUFFICES ASSUME NEW m \in 1..Len(seq)
               PROVE  \E n \in 1..Len(longer) : longer[n] = seq[m]
    OBVIOUS
  <2>1. CASE m < place
    <3>1. m \in 1..Len(longer) /\ longer[m] = seq[m] BY <1>1, <1>7, <2>1
    <3> QED BY <3>1
  <2>2. CASE m >= place
    <3>1. m + 1 \in 1..Len(longer) /\ longer[m + 1] = seq[m] BY <1>1, <1>7, <2>2
    <3> QED BY <3>1
  <2> QED BY <1>1, <2>1, <2>2
<1>13. {longer[n] : n \in 1..Len(longer)} = {seq[n] : n \in 1..Len(seq)} \cup {r}
  <2>1. ASSUME NEW x \in {longer[n] : n \in 1..Len(longer)}
        PROVE  x \in {seq[n] : n \in 1..Len(seq)} \cup {r}
    BY <1>10
  <2>2. ASSUME NEW x \in {seq[n] : n \in 1..Len(seq)} \cup {r}
        PROVE  x \in {longer[n] : n \in 1..Len(longer)}
    BY <1>11, <1>12
  <2> QED BY <2>1, <2>2
<1> QED BY <1>7, <1>9, <1>13 DEF RowsOf

-----------------------------------------------------------------------------
(* What LIMIT and OFFSET leave of the table.                                *)
LEMMA SliceRows ==
  ASSUME rows \in Seq(RowIds), NEW limit \in Nat \ {0}, NEW offset \in Int
  PROVE  /\ Slice(limit, offset) \in Seq(RowIds)
         /\ Len(Slice(limit, offset)) <= limit
         /\ \A n \in 1..Len(Slice(limit, offset)) :
              offset + n \in 1..Len(rows) /\ Slice(limit, offset)[n] = rows[offset + n]
         /\ \A n \in 1..limit : 0 <= offset /\ offset + n <= Len(rows)
              => n \in 1..Len(Slice(limit, offset))
<1>1. Len(rows) \in Nat /\ \A n \in 1..Len(rows) : rows[n] \in RowIds
  BY LenProperties, ElementOfSeq
<1>2. CASE offset < 0
  <2>1. Slice(limit, offset) = <<>> /\ <<>> \in Seq(RowIds) /\ Len(<<>>) = 0
    BY <1>2, EmptySeq DEF Slice
  <2> QED BY <1>2, <2>1
<1>3. CASE ~(offset < 0)
  <2> DEFINE last == IF offset + limit < Len(rows) THEN offset + limit ELSE Len(rows)
             slice == SubSeq(rows, offset + 1, last)
  <2>1. last \in Int /\ last <= Len(rows) /\ last <= offset + limit
        /\ \A n \in Int : n <= limit /\ offset + n <= Len(rows) => offset + n <= last
    BY <1>1
  <2>2. Slice(limit, offset) = slice BY <1>3 DEF Slice
  <2> HIDE DEF last
  <2>3. offset + 1 \in Int /\ \A n \in offset + 1..last : rows[n] \in RowIds
    BY <1>1, <1>3, <2>1
  <2>4. /\ slice \in Seq(RowIds)
        /\ Len(slice) = IF offset + 1 <= last THEN last - (offset + 1) + 1 ELSE 0
        /\ \A n \in 1..last - (offset + 1) + 1 : slice[n] = rows[offset + 1 + n - 1]
    BY <2>1, <2>3, SubSeqProperties
  <2> HIDE DEF slice
  <2>5. \A n \in 1..Len(slice) : offset + n \in 1..Len(rows) /\ slice[n] = rows[offset + n]
    BY <1>1, <1>3, <2>1, <2>4
  <2>6. \A n \in 1..limit : offset + n <= Len(rows) => n \in 1..Len(slice)
    BY <1>1, <1>3, <2>1, <2>4
  <2> QED BY <1>1, <1>3, <2>1, <2>2, <2>4, <2>5, <2>6
<1> QED BY <1>2, <1>3

(* What queryInt and the bounds make of the parameters.                     *)
LEMMA ParameterTypes ==
  ASSUME NEW raw \in Params \cup {Unread}
  PROVE  Limit(raw) \in 1..MaxLimit /\ Offset(raw) \in Int
  BY BrowseAssumption DEF Limit, Offset

(* A page that has just been read.                                          *)
LEMMA BrowseStep ==
  ASSUME EditInv, NEW l \in Params \cup {Unread}, NEW o \in Params \cup {Unread}, Browse(l, o)
  PROVE  EditInv'
<1> DEFINE limit == Limit(l)  offset == Offset(o)  slice == Slice(limit, offset)
           shown == [n \in 1..Len(slice) |-> [row |-> slice[n], key |-> keyOf[slice[n]]]]
<1>1. /\ limit \in 1..MaxLimit /\ limit \in Nat \ {0} /\ offset \in Int
  BY ParameterTypes, BrowseAssumption
<1>2. /\ page'.limit = limit /\ page'.offset = offset /\ page'.shown = shown
      /\ moved' = {} /\ hit' = [meant |-> {}, changed |-> {}]
      /\ UNCHANGED <<kind, rows, keyOf, edited, edits>>
  BY DEF Browse
<1> HIDE DEF limit, offset
<1>3. /\ slice \in Seq(RowIds) /\ Len(slice) <= limit
      /\ \A n \in 1..Len(slice) : offset + n \in 1..Len(rows) /\ slice[n] = rows[offset + n]
  BY <1>1, SliceRows DEF EditInv, RowsInv
<1> HIDE DEF slice
<1>4. Len(slice) \in Nat /\ \A n \in 1..Len(slice) : slice[n] \in RowIds /\ slice[n] \in InTable
  BY <1>3, LenProperties, ElementOfSeq DEF InTable
<1>5. shown \in [1..Len(slice) -> Entry]
  BY <1>4 DEF EditInv, HitInv, Entry
<1>6. shown \in Seq(Entry) /\ Len(shown) = Len(slice)
  BY <1>4, <1>5
<1>7. \A n \in 1..Len(shown) : shown[n].row = slice[n] /\ shown[n].key = keyOf[slice[n]]
  BY <1>6
<1> HIDE DEF shown
<1>8. RowsInv' /\ KeysInv' /\ HitInv' /\ InTable' = InTable
  BY <1>2 DEF EditInv, RowsInv, KeysInv, KeysFit, WithKey, InTable, HitInv
<1>9. ASSUME kind = "single", NEW n \in 1..Len(shown)
      PROVE  Found(n)' \subseteq {shown[n].row}
  <2>1. KeysFit(slice[n], keyOf[slice[n]])
    BY <1>4, <1>6, <1>9 DEF EditInv, KeysInv
  <2>2. WithKey(keyOf[slice[n]]) \subseteq {slice[n]}
    BY <1>9, <2>1 DEF KeysFit
  <2>3. Found(n)' = WithKey(keyOf[slice[n]])
    BY <1>2, <1>7, <1>8 DEF Found, WithKey
  <2> QED BY <1>7, <2>2, <2>3
<1>11. \A m, n \in 1..Len(shown) : shown[m].row = shown[n].row => m = n
  <2>1. \A m, n \in 1..Len(slice) : slice[m] = slice[n] => offset + m = offset + n
    BY <1>3 DEF EditInv, RowsInv, NoneTwice
  <2>2. \A m, n \in 1..Len(slice) : offset + m = offset + n => m = n
    BY <1>1, <1>4
  <2> QED BY <1>6, <1>7, <2>1, <2>2
<1>10. ShownInv'
  BY <1>1, <1>2, <1>3, <1>6, <1>9, <1>11 DEF ShownInv
<1> QED BY <1>8, <1>10 DEF EditInv

(* Rows are taken away.                                                     *)
LEMMA FewerRows ==
  ASSUME EditInv, rows' \in Seq(RowIds), NoneTwice(rows'), InTable' \subseteq InTable,
         UNCHANGED <<kind, keyOf, edited, page, moved>>, edits' \in 0..MaxEdits,
         hit'.meant \subseteq RowIds, hit'.changed \subseteq RowIds
  PROVE  EditInv'
<1>1. \A k : WithKey(k)' \subseteq WithKey(k)
  BY DEF WithKey
<1>2. KeysInv'
  BY <1>1 DEF EditInv, KeysInv, KeysFit
<1>3. \A n \in 1..Len(page.shown) : Found(n)' \subseteq Found(n)
  BY <1>1 DEF Found
<1>4. ShownInv'
  BY <1>3 DEF EditInv, ShownInv
<1> QED BY <1>2, <1>4 DEF EditInv, RowsInv, HitInv

LEMMA EditCounts == ASSUME HitInv, Edit PROVE edits' \in 0..MaxEdits
  BY BrowseAssumption DEF HitInv, Edit

LEMMA ShownEntry ==
  ASSUME ShownInv, NEW n \in 1..Len(page.shown)
  PROVE  page.shown[n].row \in RowIds /\ page.shown[n].key \in Keys \cup {Null}
<1>1. page.shown[n] \in Entry BY ElementOfSeq DEF ShownInv
<1> QED BY <1>1 DEF Entry

(* What an edit finds, with a primary key of one column.                    *)
LEMMA FoundOne ==
  ASSUME EditInv, NEW n \in 1..Len(page.shown)
  PROVE  /\ Found(n) \subseteq InTable /\ InTable \subseteq RowIds
         /\ Found(n) # {} => page.shown[n].key \in Keys
         /\ kind = "single" /\ page.shown[n].key \notin moved
              => Found(n) \subseteq {page.shown[n].row}
<1>1. InTable \subseteq RowIds
  BY ElementOfSeq DEF EditInv, RowsInv, InTable
<1>2. page.shown[n].key \in Keys \cup {Null}
  BY ShownEntry DEF EditInv
<1> QED BY <1>1, <1>2 DEF Found, WithKey, EditInv, ShownInv

LEMMA RowDeleteStep ==
  ASSUME EditInv, NEW n \in 1..Len(page.shown), RowDelete(n)
  PROVE  EditInv'
<1>1. /\ edits' \in 0..MaxEdits /\ UNCHANGED <<kind, keyOf, edited, page, moved>>
      /\ page.shown[n].row \in RowIds
  BY EditCounts, ShownEntry DEF RowDelete, EditInv
<1>2. CASE Found(n) = {}
  <2>1. hit' = [meant |-> {page.shown[n].row}, changed |-> {}] /\ rows' = rows
    BY <1>2 DEF RowDelete
  <2>2. rows' \in Seq(RowIds) /\ NoneTwice(rows') /\ InTable' \subseteq InTable
    BY <2>1 DEF EditInv, RowsInv, InTable
  <2> QED BY <1>1, <2>1, <2>2, FewerRows
<1>3. CASE Found(n) # {}
  <2>1. PICK place \in 1..Len(rows) :
          /\ rows[place] \in Found(n) /\ rows' = RemoveAt(rows, place)
          /\ hit' = [meant |-> {page.shown[n].row}, changed |-> {rows[place]}]
    BY <1>3 DEF RowDelete
  <2>2. rows' \in Seq(RowIds) /\ NoneTwice(rows') /\ InTable' \subseteq InTable
    <3>1. rows \in Seq(RowIds) /\ NoneTwice(rows) BY DEF EditInv, RowsInv
    <3>2. /\ rows' \in Seq(RowIds) /\ NoneTwice(rows')
          /\ RowsOf(rows') = RowsOf(rows) \ {rows[place]}
      BY <2>1, <3>1, RemoveAtRow
    <3> QED BY <3>2 DEF InTable, RowsOf
  <2>3. rows[place] \in RowIds
    BY <2>1, FoundOne
  <2> QED BY <1>1, <2>1, <2>2, <2>3, FewerRows
<1> QED BY <1>2, <1>3

LEMMA ElsewhereStep ==
  ASSUME EditInv, NEW place \in 1..Len(rows), Elsewhere(place)
  PROVE  EditInv'
<1>1. /\ edits' \in 0..MaxEdits /\ UNCHANGED <<kind, keyOf, edited, page, moved>>
      /\ hit' = [meant |-> {}, changed |-> {}] /\ rows' = RemoveAt(rows, place)
  BY EditCounts DEF Elsewhere, EditInv
<1>2. rows' \in Seq(RowIds) /\ NoneTwice(rows') /\ InTable' \subseteq InTable
  <2>1. rows \in Seq(RowIds) /\ NoneTwice(rows) BY DEF EditInv, RowsInv
  <2>2. /\ rows' \in Seq(RowIds) /\ NoneTwice(rows')
        /\ RowsOf(rows') = RowsOf(rows) \ {rows[place]}
    BY <1>1, <2>1, RemoveAtRow
  <2> QED BY <2>2 DEF InTable, RowsOf
<1> QED BY <1>1, <1>2, FewerRows

(* The new key belongs to nobody else, and no other leads elsewhere now.    *)
LEMMA RowInsertStep ==
  ASSUME EditInv, NEW r \in RowIds, NEW k \in Keys \cup {Null}, RowInsert(r, k)
  PROVE  EditInv'
<1>1. /\ edits' \in 0..MaxEdits /\ UNCHANGED <<kind, edited, page>>
      /\ hit' = [meant |-> {}, changed |-> {}] /\ r \notin InTable /\ KeysFit(r, k)
      /\ keyOf' = [keyOf EXCEPT ![r] = k] /\ moved' = moved \cup ({k} \ {Null})
  BY EditCounts DEF RowInsert, EditInv
<1>2. PICK place \in 1..Len(rows) + 1 : rows' = InsertAt(rows, place, r)
  BY DEF RowInsert
<1>3. \A n \in 1..Len(rows) : rows[n] # r BY <1>1 DEF InTable
<1>4. rows' \in Seq(RowIds) /\ NoneTwice(rows') /\ InTable' = InTable \cup {r}
  <2>1. rows \in Seq(RowIds) /\ NoneTwice(rows) BY DEF EditInv, RowsInv
  <2>2. /\ rows' \in Seq(RowIds) /\ NoneTwice(rows')
        /\ RowsOf(rows') = RowsOf(rows) \cup {r}
    BY <1>2, <1>3, <2>1, InsertAtRow
  <2> QED BY <2>2 DEF InTable, RowsOf
<1>5. /\ keyOf' \in [RowIds -> Keys \cup {Null}] /\ keyOf'[r] = k
      /\ \A q \in InTable : keyOf'[q] = keyOf[q]
  <2>1. InTable \subseteq RowIds BY ElementOfSeq DEF EditInv, RowsInv, InTable
  <2> QED BY <1>1, <2>1 DEF EditInv, HitInv
<1>6. \A x : WithKey(x)' \subseteq WithKey(x) \cup {r} /\ (r \in WithKey(x)' => x = k)
  BY <1>4, <1>5, <1>1 DEF WithKey
<1>7. KeysInv'
  <2> SUFFICES ASSUME kind = "single", NEW q \in InTable'
               PROVE  KeysFit(q, keyOf[q])'
    BY <1>1 DEF KeysInv
  <2>1. CASE q = r
    BY <1>1, <1>5, <1>6, <2>1 DEF KeysFit
  <2>2. CASE q # r
    <3>1. q \in InTable /\ keyOf'[q] = keyOf[q] BY <1>4, <1>5, <2>2
    <3>2. KeysFit(q, keyOf[q]) BY <3>1 DEF EditInv, KeysInv
    <3>3. keyOf[q] # k
      BY <1>1, <3>1, <3>2 DEF KeysFit, WithKey
    <3> QED BY <1>1, <1>6, <3>1, <3>2, <3>3 DEF KeysFit
  <2> QED BY <2>1, <2>2
<1>8. ShownInv'
  <2> SUFFICES ASSUME kind = "single", NEW n \in 1..Len(page.shown),
                      page.shown[n].key \notin moved'
               PROVE  Found(n)' \subseteq {page.shown[n].row}
    BY <1>1 DEF EditInv, ShownInv
  <2>1. k # Null /\ k # page.shown[n].key BY <1>1 DEF KeysFit
  <2>2. Found(n)' \subseteq Found(n) BY <1>1, <1>6, <2>1 DEF Found
  <2> QED BY <1>1, <2>2 DEF EditInv, ShownInv
<1>9. moved' \subseteq Keys BY <1>1 DEF EditInv, HitInv
<1> QED BY <1>1, <1>4, <1>5, <1>7, <1>8, <1>9
     DEF EditInv, RowsInv, HitInv

(* With a primary key, an edit of the key column is refused when the key is *)
(* taken; otherwise both keys have changed hands, or it stays as it was.    *)
LEMMA RowUpdateStep ==
  ASSUME EditInv, NEW n \in 1..Len(page.shown), NEW k \in Keys, RowUpdate(n, k)
  PROVE  EditInv'
<1>1. /\ edits' \in 0..MaxEdits /\ UNCHANGED <<kind, rows, page>> /\ InTable' = InTable
      /\ page.shown[n].row \in RowIds
  BY EditCounts, ShownEntry DEF RowUpdate, EditInv, InTable
<1>2. CASE kind = "single" /\ Found(n) # {} /\ WithKey(k) \ Found(n) # {}
  <2>1. hit' = [meant |-> {}, changed |-> {}] /\ UNCHANGED <<keyOf, edited, moved>>
    BY <1>2 DEF RowUpdate
  <2> QED BY <1>1, <2>1, FewerRows DEF EditInv, RowsInv
<1>3. CASE ~(kind = "single" /\ Found(n) # {} /\ WithKey(k) \ Found(n) # {})
  <2>1. /\ keyOf' = [r \in RowIds |-> IF r \in Found(n) THEN k ELSE keyOf[r]]
        /\ edited' = edited \cup Found(n)
        /\ hit' = [meant |-> {page.shown[n].row}, changed |-> Found(n)]
        /\ moved' = IF Found(n) = {} \/ k = page.shown[n].key
                    THEN moved ELSE moved \cup {page.shown[n].key, k}
    BY <1>3 DEF RowUpdate
  <2>2. Found(n) \subseteq InTable /\ InTable \subseteq RowIds
        /\ (Found(n) # {} => page.shown[n].key \in Keys)
    BY FoundOne
  <2>3. HitInv' BY <1>1, <2>1, <2>2 DEF EditInv, HitInv
  <2>4. CASE Found(n) = {} \/ k = page.shown[n].key
    <3>1. keyOf' = keyOf
      <4>1. keyOf \in [RowIds -> Keys \cup {Null}] BY DEF EditInv, HitInv
      <4>2. \A r \in Found(n) : keyOf[r] = page.shown[n].key BY DEF Found, WithKey
      <4> QED BY <2>1, <2>4, <4>1, <4>2
    <3>2. moved' = moved /\ kind' = kind /\ page' = page /\ rows' = rows BY <1>1, <2>1, <2>4
    <3>3. \A x : WithKey(x)' = WithKey(x) BY <1>1, <3>1 DEF WithKey
    <3>4. KeysInv' BY <1>1, <3>1, <3>2, <3>3 DEF EditInv, KeysInv, KeysFit
    <3>5. ShownInv' BY <3>2, <3>3 DEF EditInv, ShownInv, Found
    <3> QED BY <2>3, <3>2, <3>4, <3>5 DEF EditInv, RowsInv
  <2>5. CASE Found(n) # {} /\ k # page.shown[n].key
    <3>1. moved' = moved \cup {page.shown[n].key, k} BY <2>1, <2>5
    <3>2. RowsInv' BY <1>1 DEF EditInv, RowsInv
    <3>4. ASSUME kind = "single", NEW m \in 1..Len(page.shown), page.shown[m].key \notin moved'
          PROVE  Found(m)' \subseteq {page.shown[m].row}
      <4>1. page.shown[m].key # k /\ page.shown[m].key \notin moved BY <3>1, <3>4
      <4>2. \A r \in InTable : keyOf'[r] = page.shown[m].key => keyOf[r] = page.shown[m].key
        BY <2>1, <2>2, <4>1
      <4>3. Found(m)' \subseteq Found(m) BY <1>1, <4>2 DEF Found, WithKey
      <4> QED BY <3>4, <4>1, <4>3 DEF EditInv, ShownInv
    <3>5. ShownInv' BY <1>1, <3>4 DEF EditInv, ShownInv
    <3>3. KeysInv'
      <4> SUFFICES ASSUME kind = "single", NEW q \in InTable
                   PROVE  KeysFit(q, keyOf[q])'
        BY <1>1 DEF KeysInv
      <4>1. WithKey(k) \subseteq Found(n) /\ k # Null
        BY <1>3, <2>5, BrowseAssumption
      <4>2. \A r \in InTable : keyOf'[r] = IF r \in Found(n) THEN k ELSE keyOf[r]
        BY <2>1, <2>2
      <4>3. \A r \in InTable : KeysFit(r, keyOf[r])
        BY DEF EditInv, KeysInv
      <4>4. \A r, t \in Found(n) : r = t
        BY <2>2, <4>3 DEF KeysFit, Found, WithKey
      <4>5. \A r \in InTable \ Found(n) : keyOf[r] # k
        BY <4>1 DEF WithKey
      <4>6. CASE q \in Found(n)
        BY <1>1, <4>1, <4>2, <4>4, <4>5, <4>6 DEF KeysFit, WithKey
      <4>7. CASE q \notin Found(n)
        <5>1. keyOf'[q] = keyOf[q] /\ keyOf[q] # Null /\ keyOf[q] # k
          BY <4>2, <4>3, <4>5, <4>7 DEF KeysFit
        <5>2. \A r \in InTable : keyOf'[r] = keyOf[q] => r = q
          BY <4>2, <4>3, <5>1 DEF KeysFit, WithKey
        <5> QED BY <1>1, <5>1, <5>2 DEF KeysFit, WithKey
      <4> QED BY <4>6, <4>7
    <3> QED BY <2>3, <3>2, <3>3, <3>5 DEF EditInv
  <2> QED BY <2>4, <2>5
<1> QED BY <1>2, <1>3

LEMMA EditNext == EditInv /\ [BrowseNext]_browseVars => EditInv'
<1> SUFFICES ASSUME EditInv, [BrowseNext]_browseVars PROVE EditInv'
  OBVIOUS
<1>1. CASE UNCHANGED browseVars
  BY <1>1 DEF browseVars, EditInv, RowsInv, KeysInv, KeysFit, WithKey, InTable, ShownInv, Found,
              HitInv
<1> QED BY <1>1, BrowseStep, RowDeleteStep, RowUpdateStep, RowInsertStep, ElsewhereStep
     DEF BrowseNext

LEMMA EditInit == BrowseInit => EditInv
<1> SUFFICES ASSUME BrowseInit PROVE EditInv
  OBVIOUS
<1>1. PICK len \in 0..Cardinality(RowIds) :
        rows \in [1..len -> RowIds] /\ \A m, n \in DOMAIN rows : m # n => rows[m] # rows[n]
  BY DEF BrowseInit
<1>2. len \in Nat
  BY <1>1, BrowseAssumption, FS_CardinalityType
<1>3. RowsInv
  BY <1>1, <1>2 DEF RowsInv, NoneTwice
<1>4. KeysInv BY DEF BrowseInit, KeysInv, KeysFit
<1>5. HitInv
  BY BrowseAssumption DEF BrowseInit, HitInv
<1>6. ShownInv
  <2>1. page = NoPage /\ <<>> \in Seq(Entry) /\ Len(<<>>) = 0
    BY EmptySeq DEF BrowseInit
  <2> QED BY <2>1, BrowseAssumption DEF ShownInv, NoPage
<1> QED BY <1>3, <1>4, <1>5, <1>6 DEF EditInv

(* What a step changes of the rows it means.                                *)
Hits == kind = "single" =>
          \A n \in 1..Len(page.shown) :
            hit'.meant = {page.shown[n].row} /\ page.shown[n].key \notin moved
              => hit'.changed \subseteq hit'.meant

LEMMA EditHitsRow == ASSUME EditInv, [BrowseNext]_browseVars, browseVars' # browseVars PROVE Hits
<1> SUFFICES ASSUME kind = "single", NEW m \in 1..Len(page.shown),
                    hit'.meant = {page.shown[m].row}, page.shown[m].key \notin moved
             PROVE  hit'.changed \subseteq hit'.meant
  BY DEF Hits
<1>1. ASSUME NEW n \in 1..Len(page.shown), hit'.meant = {page.shown[n].row}
      PROVE  n = m
  BY <1>1 DEF EditInv, ShownInv
<1>2. kind = "single" /\ page.shown[m].key \notin moved => Found(m) \subseteq {page.shown[m].row}
  BY FoundOne
<1>8. kind = "single" /\ page.shown[m].key \notin moved OBVIOUS
<1>9. Found(m) \subseteq hit'.meant BY <1>2, <1>8
<1>3. ASSUME NEW n \in 1..Len(page.shown), RowDelete(n) PROVE hit'.changed \subseteq hit'.meant
  <2>1. hit'.meant = {page.shown[n].row} BY <1>3 DEF RowDelete
  <2>2. n = m BY <1>1, <2>1
  <2>3. hit'.changed \subseteq Found(n) BY <1>3 DEF RowDelete
  <2> QED BY <1>9, <2>2, <2>3
<1>4. ASSUME NEW n \in 1..Len(page.shown), NEW k \in Keys, RowUpdate(n, k)
      PROVE  hit'.changed \subseteq hit'.meant
  <2>1. CASE hit' = [meant |-> {}, changed |-> {}] BY <2>1
  <2>2. CASE hit' = [meant |-> {page.shown[n].row}, changed |-> Found(n)]
    <3>1. n = m BY <1>1, <2>2
    <3> QED BY <1>9, <2>2, <3>1
  <2> QED BY <1>4, <2>1, <2>2 DEF RowUpdate
<1>5. ASSUME NEW l \in Params \cup {Unread}, NEW o \in Params \cup {Unread}, Browse(l, o)
      PROVE  hit'.changed \subseteq hit'.meant
  BY <1>5 DEF Browse
<1>6. ASSUME NEW r \in RowIds, NEW k \in Keys \cup {Null}, RowInsert(r, k)
      PROVE  hit'.changed \subseteq hit'.meant
  BY <1>6 DEF RowInsert
<1>7. ASSUME NEW place \in 1..Len(rows), Elsewhere(place) PROVE hit'.changed \subseteq hit'.meant
  BY <1>7 DEF Elsewhere
<1> QED BY <1>3, <1>4, <1>5, <1>6, <1>7 DEF BrowseNext

(* With a primary key of one column an update or a delete changes the row   *)
(* that was shown and no other, unless its key has changed hands since:     *)
(* UpdateRow and DeleteRow, which find it by the text on the page.          *)
THEOREM EditsHit == BrowseSpec => EditsHitShownRow
<1>1. EditInv /\ [BrowseNext]_browseVars => [Hits]_browseVars BY EditHitsRow
<1>2. BrowseSpec => [][Hits]_browseVars BY <1>1, EditInit, EditNext, PTL DEF BrowseSpec
<1>3. [][Hits]_browseVars <=> EditsHitShownRow BY DEF Hits, EditsHitShownRow
<1> QED BY <1>2, <1>3

-----------------------------------------------------------------------------
(* The links below a table.                                                 *)

LEMMA Products ==
  ASSUME NEW m \in Nat, NEW n \in Nat, NEW limit \in Nat \ {0}
  PROVE  /\ m * limit \in Nat /\ m <= m * limit
         /\ m <= n => m * limit <= n * limit
         /\ m < n => m * limit + limit <= n * limit
         /\ m > 0 => (m - 1) * limit + limit = m * limit
<1>1. m * limit \in Nat /\ m <= m * limit OBVIOUS
<1>2. m <= n => m * limit <= n * limit OBVIOUS
<1>3. m < n => m * limit + limit <= n * limit OBVIOUS
<1>4. m > 0 => (m - 1) * limit + limit = m * limit OBVIOUS
<1> QED BY <1>1, <1>2, <1>3, <1>4

LinkList(most, limit, offset) ==
  [n \in 1..most |-> [offset |-> (n - 1) * limit, active |-> (n - 1) * limit = offset]]

(* There is one for each page that begins within the table, up to the most  *)
(* there may be.                                                            *)
LEMMA LinkPages ==
  ASSUME NEW limit \in Nat \ {0}, NEW offset, NEW size \in Nat, size = Len(rows)
  PROVE  \E most \in 0..MaxLinks :
           /\ Links(limit, offset) = LinkList(most, limit, offset)
           /\ \A n \in 1..most : (n - 1) * limit < size
           /\ \A n \in 1..MaxLinks : (n - 1) * limit < size => n \in 1..most
<1> DEFINE pages == {n \in 1..MaxLinks : (n - 1) * limit < Len(rows)}
           beyond == {n \in Nat : n >= 1 /\ n \notin pages}
<1>0. MaxLinks \in Nat BY BrowseAssumption
<1>1. MaxLinks + 1 \in beyond /\ beyond \subseteq Nat BY <1>0
<1>2. PICK least \in beyond : \A n \in beyond : least <= n
  <2> HIDE DEF beyond
  <2>1. \E x \in beyond : \A y \in beyond : ~(<<y, x>> \in OpToRel(<, Nat))
    BY <1>1, NatLessThanWellFounded, WFMin
  <2>2. ASSUME NEW x \in beyond, NEW y \in beyond, ~(<<y, x>> \in OpToRel(<, Nat))
        PROVE  x <= y
    BY <1>1, <2>2 DEF OpToRel
  <2> QED BY <2>1, <2>2
<1> DEFINE most == least - 1
<1>3. least \in Nat /\ least >= 1 /\ least <= MaxLinks + 1 /\ most \in 0..MaxLinks
  BY <1>0, <1>1, <1>2
<1>4. \A n \in 1..most : n \in pages
  BY <1>2, <1>3
<1>5. \A n \in pages : n \in 1..most
  <2> SUFFICES ASSUME NEW n \in pages, n >= least PROVE FALSE
    BY <1>3
  <2>1. n \in Nat /\ n <= MaxLinks /\ (n - 1) * limit < size BY <1>0
  <2>2. least - 1 \in Nat /\ n - 1 \in Nat /\ least - 1 <= n - 1 BY <1>3, <2>1
  <2>3. (least - 1) * limit <= (n - 1) * limit /\ (least - 1) * limit \in Nat
        /\ (n - 1) * limit \in Nat
    BY <2>2, Products
  <2>4. (least - 1) * limit < size BY <2>1, <2>3
  <2>5. least \in 1..MaxLinks BY <1>0, <1>3, <2>1
  <2>6. least \in pages BY <2>4, <2>5
  <2> QED BY <1>2, <2>6
<1>6. pages = 1..most BY <1>4, <1>5
<1>7. Cardinality(pages) = most
  <2>1. 1 \in Int /\ most \in Int /\ 0 <= most BY <1>0, <1>3
  <2> HIDE DEF most, pages
  <2>2. Cardinality(1..most) = IF 1 > most THEN 0 ELSE most - 1 + 1 BY <2>1, FS_Interval
  <2> QED BY <1>6, <2>1, <2>2
<1>8. Links(limit, offset) = LinkList(most, limit, offset)
  BY <1>7 DEF Links, LinkList
<1>9. \A n \in 1..most : (n - 1) * limit < size BY <1>4
<1>10. \A n \in 1..MaxLinks : (n - 1) * limit < size => n \in 1..most BY <1>5
<1> QED BY <1>3, <1>8, <1>9, <1>10

LinksInv ==
  /\ Len(page.links) <= MaxLinks
  /\ edits = 0 /\ page # NoPage => page.links = Links(page.limit, page.offset)

(* Every row is on the page of a link, if there are links enough.           *)
LEMMA LinkOfRow ==
  ASSUME NEW limit \in Nat \ {0}, NEW most \in Nat, NEW size \in Nat, NEW place \in 1..size,
         size <= most * limit
  PROVE  \E n \in 1..most : (n - 1) * limit < place /\ place <= (n - 1) * limit + limit
<1> DEFINE far == {n \in Nat : place <= n * limit}
<1>1. most \in far /\ far \subseteq Nat
  <2>1. most * limit \in Nat BY Products
  <2> QED BY <2>1
<1>2. PICK least \in far : \A n \in far : least <= n
  <2> HIDE DEF far
  <2>1. \E x \in far : \A y \in far : ~(<<y, x>> \in OpToRel(<, Nat))
    BY <1>1, NatLessThanWellFounded, WFMin
  <2>2. ASSUME NEW x \in far, NEW y \in far, ~(<<y, x>> \in OpToRel(<, Nat))
        PROVE  x <= y
    BY <1>1, <2>2 DEF OpToRel
  <2> QED BY <2>1, <2>2
<1>3. least \in Nat /\ least <= most /\ place <= least * limit BY <1>1, <1>2
<1>4. least # 0
  <2>1. 0 * limit = 0 OBVIOUS
  <2> QED BY <1>3, <2>1
<1>5. least - 1 \in Nat /\ least - 1 \notin far BY <1>2, <1>3, <1>4
<1>6. (least - 1) * limit \in Nat /\ (least - 1) * limit + limit = least * limit
  BY <1>3, <1>4, <1>5, Products
<1>7. (least - 1) * limit < place BY <1>5, <1>6
<1> QED BY <1>3, <1>4, <1>6, <1>7

LEMMA LinksLead ==
  ASSUME EditInv, LinksInv
  PROVE  LinksLeadEverywhere
<1> SUFFICES ASSUME edits = 0, page # NoPage
             PROVE  LET behind(n) == Slice(page.limit, page.links[n].offset)
                        reached   == UNION {{behind(n)[m] : m \in 1..Len(behind(n))} : n \in DOMAIN page.links}
                    IN  /\ Len(rows) <= MaxLinks * page.limit => reached = InTable
                        /\ \A n \in DOMAIN page.links : behind(n) # <<>>
                        /\ Cardinality({n \in DOMAIN page.links : page.links[n].active}) <= 1
  BY DEF LinksLeadEverywhere
<1> DEFINE limit == page.limit  offset == page.offset  links == page.links  size == Len(rows)
           behind(n) == Slice(limit, links[n].offset)
           shown(n) == {behind(n)[m] : m \in 1..Len(behind(n))}
           reached == UNION {shown(n) : n \in DOMAIN links}
           lit == {n \in DOMAIN links : links[n].active}
<1>1. limit \in Nat \ {0} /\ links = Links(limit, offset) /\ rows \in Seq(RowIds)
      /\ size \in Nat /\ MaxLinks \in Nat
  BY BrowseAssumption, LenProperties DEF EditInv, ShownInv, RowsInv, LinksInv
<1> HIDE DEF limit, offset, links, size
<1>2. PICK most \in 0..MaxLinks :
        /\ links = LinkList(most, limit, offset)
        /\ \A n \in 1..most : (n - 1) * limit < size
        /\ \A n \in 1..MaxLinks : (n - 1) * limit < size => n \in 1..most
  <2>1. size = Len(rows) BY DEF size
  <2> QED BY <1>1, <2>1, LinkPages
<1>3. /\ DOMAIN links = 1..most /\ most \in Nat /\ most <= MaxLinks
      /\ \A n \in 1..most : /\ links[n].offset = (n - 1) * limit
                            /\ links[n].active <=> (n - 1) * limit = offset
  <2>1. most \in Nat /\ most <= MaxLinks /\ DOMAIN links = 1..most
    BY <1>1, <1>2 DEF LinkList
  <2>2. ASSUME NEW n \in 1..most
        PROVE  links[n] = [offset |-> (n - 1) * limit, active |-> (n - 1) * limit = offset]
    BY <1>2 DEF LinkList
  <2>3. ASSUME NEW n \in 1..most
        PROVE  /\ links[n].offset = (n - 1) * limit
               /\ links[n].active <=> (n - 1) * limit = offset
    <3> DEFINE from == (n - 1) * limit  here == from = offset
    <3>1. links[n] = [offset |-> from, active |-> here] BY <2>2
    <3>2. here \in BOOLEAN OBVIOUS
    <3> HIDE DEF from, here
    <3>3. links[n].offset = from /\ links[n].active = here BY <3>1
    <3>4. links[n].active <=> here BY <3>2, <3>3, Zenon
    <3> QED BY <3>3, <3>4 DEF from, here
  <2> QED BY <2>1, <2>3
<1>4. ASSUME NEW n \in 1..most
      PROVE  /\ (n - 1) * limit \in Nat
             /\ \A m \in 1..Len(behind(n)) : /\ (n - 1) * limit + m \in 1..size
                                            /\ behind(n)[m] = rows[(n - 1) * limit + m]
             /\ \A m \in 1..limit : (n - 1) * limit + m <= size => m \in 1..Len(behind(n))
  <2>1. n - 1 \in Nat BY <1>3
  <2>2. (n - 1) * limit \in Nat BY <1>1, <2>1, Products
  <2>3. behind(n) = Slice(limit, (n - 1) * limit) BY <1>3
  <2> DEFINE base == (n - 1) * limit  slice == Slice(limit, base)
  <2>4. base \in Int /\ size = Len(rows) /\ 0 <= base BY <2>2 DEF size
  <2>5. behind(n) = slice BY <2>3
  <2> HIDE DEF behind, base
  <2>6. /\ \A m \in 1..Len(slice) : base + m \in 1..Len(rows) /\ slice[m] = rows[base + m]
        /\ \A m \in 1..limit : 0 <= base /\ base + m <= Len(rows) => m \in 1..Len(slice)
    BY <1>1, <2>4, SliceRows
  <2> HIDE DEF slice
  <2>7. /\ \A m \in 1..Len(behind(n)) : /\ base + m \in 1..size
                                       /\ behind(n)[m] = rows[base + m]
        /\ \A m \in 1..limit : base + m <= size => m \in 1..Len(behind(n))
    BY <2>4, <2>5, <2>6
  <2> QED BY <2>2, <2>7 DEF base
<1> HIDE DEF behind
<1>5. \A n \in DOMAIN links : behind(n) # <<>>
  <2> SUFFICES ASSUME NEW n \in 1..most PROVE behind(n) # <<>>
    BY <1>3
  <2>1. (n - 1) * limit + 1 <= size /\ 1 \in 1..limit BY <1>1, <1>2, <1>4
  <2>2. 1 \in 1..Len(behind(n)) BY <1>4, <2>1
  <2> QED BY <2>2
<1>6. Cardinality(lit) <= 1
  <2>1. \A m, n \in lit : m = n
    <3>1. ASSUME NEW m \in 1..most, NEW n \in 1..most,
                 (m - 1) * limit = (n - 1) * limit, m < n
          PROVE  FALSE
      <4>1. m - 1 \in Nat /\ n - 1 \in Nat /\ m - 1 < n - 1 BY <1>3, <3>1
      <4>2. (m - 1) * limit + limit <= (n - 1) * limit /\ (m - 1) * limit \in Nat
        BY <1>1, <4>1, Products
      <4> QED BY <1>1, <3>1, <4>2
    <3>2. \A n \in lit : n \in 1..most /\ n \in Int /\ (n - 1) * limit = offset
      BY <1>3
    <3> HIDE DEF lit
    <3>3. \A m, n \in lit : ~(m < n) BY <3>1, <3>2
    <3>4. \A m, n \in Int : ~(m < n) /\ ~(n < m) => m = n OBVIOUS
    <3> QED BY <3>2, <3>3, <3>4
  <2> HIDE DEF lit
  <2>2. CASE lit = {} BY <2>2, FS_EmptySet
  <2>3. CASE lit # {}
    <3>1. PICK n \in lit : TRUE BY <2>3
    <3>2. lit = {n} BY <2>1, <3>1
    <3> QED BY <3>2, FS_Singleton
  <2> QED BY <2>2, <2>3
<1>7. ASSUME size <= MaxLinks * limit PROVE reached = InTable
  <2>1. \A n \in 1..most : shown(n) \subseteq InTable
    <3> SUFFICES ASSUME NEW n \in 1..most, NEW m \in 1..Len(behind(n))
                 PROVE  behind(n)[m] \in InTable
      OBVIOUS
    <3>1. (n - 1) * limit + m \in 1..size /\ behind(n)[m] = rows[(n - 1) * limit + m]
      BY <1>4
    <3> DEFINE i == (n - 1) * limit + m
    <3>2. i \in 1..Len(rows) /\ behind(n)[m] = rows[i] BY <3>1 DEF size
    <3> HIDE DEF i
    <3> QED BY <3>2 DEF InTable
  <2>2. ASSUME NEW place \in 1..size
        PROVE  \E n \in 1..most : rows[place] \in shown(n)
    <3>1. PICK n \in 1..MaxLinks :
            (n - 1) * limit < place /\ place <= (n - 1) * limit + limit
      BY <1>1, <1>7, LinkOfRow
    <3>2. n - 1 \in Nat BY <1>1
    <3>3. (n - 1) * limit \in Nat BY <1>1, <3>2, Products
    <3>4. n \in 1..most BY <1>1, <1>2, <3>1, <3>3
    <3> DEFINE m == place - (n - 1) * limit
    <3>5. m \in 1..limit /\ (n - 1) * limit + m = place BY <1>1, <3>1, <3>3
    <3> HIDE DEF m
    <3>6. m \in 1..Len(behind(n)) BY <1>1, <1>4, <3>4, <3>5
    <3>7. behind(n)[m] = rows[place] BY <1>4, <3>4, <3>5, <3>6
    <3> QED BY <3>4, <3>6, <3>7
  <2> HIDE DEF shown
  <2>3. \A x \in InTable : \E n \in 1..most : x \in shown(n)
    BY <2>2 DEF InTable, size
  <2>4. InTable \subseteq reached BY <1>3, <2>3
  <2> QED BY <1>3, <2>1, <2>4
<1> QED BY <1>5, <1>6, <1>7 DEF limit, links, size, behind

(* There are no more links than there may be.                               *)
LEMMA LinksCount ==
  ASSUME rows \in Seq(RowIds), NEW limit \in Nat \ {0}, NEW offset
  PROVE  Len(Links(limit, offset)) <= MaxLinks
<1>1. Len(rows) \in Nat /\ MaxLinks \in Nat BY BrowseAssumption, LenProperties
<1>2. PICK most \in 0..MaxLinks : Links(limit, offset) = LinkList(most, limit, offset)
  BY <1>1, LinkPages
<1>3. most \in Nat /\ most <= MaxLinks BY <1>1
<1>4. Len(LinkList(most, limit, offset)) = most
  BY <1>3 DEF LinkList
<1> QED BY <1>2, <1>3, <1>4

(* Only reading the page changes the links; an edit leaves them behind.     *)
LEMMA LinksNext ==
  ASSUME EditInv, LinksInv, [BrowseNext]_browseVars
  PROVE  LinksInv'
<1>1. ASSUME NEW l \in Params \cup {Unread}, NEW o \in Params \cup {Unread}, Browse(l, o)
      PROVE  LinksInv'
  <2>1. /\ page'.limit = Limit(l) /\ page'.offset = Offset(o)
        /\ page'.links = Links(Limit(l), Offset(o)) /\ rows' = rows
    BY <1>1 DEF Browse
  <2>2. Limit(l) \in Nat \ {0} BY ParameterTypes, BrowseAssumption
  <2>3. Len(page'.links) <= MaxLinks BY <2>1, <2>2, LinksCount DEF EditInv, RowsInv
  <2>4. page'.links = Links(page.limit, page.offset)' BY <2>1 DEF Links
  <2> QED BY <2>3, <2>4 DEF LinksInv
<1>2. ASSUME Edit, page' = page PROVE LinksInv'
  <2>1. edits' # 0 BY <1>2 DEF Edit, EditInv, HitInv
  <2> QED BY <1>2, <2>1 DEF LinksInv
<1>3. ASSUME NEW n \in 1..Len(page.shown), RowDelete(n) PROVE LinksInv'
  BY <1>2, <1>3 DEF RowDelete
<1>4. ASSUME NEW n \in 1..Len(page.shown), NEW k \in Keys, RowUpdate(n, k) PROVE LinksInv'
  BY <1>2, <1>4 DEF RowUpdate
<1>5. ASSUME NEW r \in RowIds, NEW k \in Keys \cup {Null}, RowInsert(r, k) PROVE LinksInv'
  BY <1>2, <1>5 DEF RowInsert
<1>6. ASSUME NEW place \in 1..Len(rows), Elsewhere(place) PROVE LinksInv'
  BY <1>2, <1>6 DEF Elsewhere
<1>7. CASE UNCHANGED browseVars
  BY <1>7 DEF browseVars, LinksInv, Links
<1> QED BY <1>1, <1>3, <1>4, <1>5, <1>6, <1>7 DEF BrowseNext

LEMMA LinksInit == BrowseInit => LinksInv
<1>1. Len(<<>>) = 0 /\ MaxLinks \in Nat BY BrowseAssumption
<1> QED BY <1>1 DEF BrowseInit, LinksInv, NoPage

LEMMA BrowseTypes == ASSUME EditInv, LinksInv PROVE BrowseTypeOK
<1>1. InTable \subseteq RowIds
  BY ElementOfSeq DEF EditInv, RowsInv, InTable
<1>2. Cardinality(InTable) = Len(rows)
  <2>1. Cardinality(RowsOf(rows)) = Len(rows) BY CountRows DEF EditInv, RowsInv
  <2> QED BY <2>1 DEF RowsOf, InTable
<1> QED BY <1>1, <1>2 DEF EditInv, ShownInv, HitInv, LinksInv, BrowseTypeOK

(* The links lead to every row, each to a page of its own, as long as there *)
(* are links enough, and one at most is the page shown: handleBrowse.       *)
THEOREM LinksReach == BrowseSpec => []LinksLeadEverywhere
<1>1. BrowseInit => EditInv /\ LinksInv BY EditInit, LinksInit
<1>2. EditInv /\ LinksInv /\ [BrowseNext]_browseVars => (EditInv /\ LinksInv)'
  BY EditNext, LinksNext
<1>3. EditInv /\ LinksInv => LinksLeadEverywhere BY LinksLead
<1> QED BY <1>1, <1>2, <1>3, PTL DEF BrowseSpec

THEOREM PageTypes == BrowseSpec => []BrowseTypeOK
<1>1. BrowseInit => EditInv /\ LinksInv BY EditInit, LinksInit
<1>2. EditInv /\ LinksInv /\ [BrowseNext]_browseVars => (EditInv /\ LinksInv)'
  BY EditNext, LinksNext
<1>3. EditInv /\ LinksInv => BrowseTypeOK BY BrowseTypes
<1> QED BY <1>1, <1>2, <1>3, PTL DEF BrowseSpec
=============================================================================
