------------------------------ MODULE UserQuery ------------------------------
(***************************************************************************)
(* A single statement from the query page or the assistant (internal/mysql/ *)
(* query.go): the preview of what it would do, and RunUserQuery, which      *)
(* sends it a second time when the first answer is an error.                *)
(***************************************************************************)
EXTENDS Naturals, FiniteSets

CONSTANTS TableRows,    \* rows of the table the statement is about
          Guesses       \* totals a count or EXPLAIN of other tables may give

ASSUME TableRowsAssumption == IsFiniteSet(TableRows) /\ Guesses \subseteq Nat

VARIABLES stmt,         \* the statement, by what the code looks at
          table,        \* rows in the table now
          preview,      \* what the preview shown says
          seen,         \* history: the table when that preview counted it
          link,         \* the connection of RunUserQuery
          sent,         \* the effect of each time it was sent
          answer, at
queryVars == <<stmt, table, preview, seen, link, sent, answer, at>>

Verbs == {"select", "update", "delete", "insert", "ddl", "other"}
(* Where: the clause the statement has, after a blank or a new line; quoted: *)
(* " WHERE " occurs in a text or a subquery before it; grows: a letter       *)
(* before it takes other bytes in upper case; picks: the rows it is about;   *)
(* plain: a plain table name, and one blank between the first words.  None   *)
(* of this is looked at in other statements than UPDATE and DELETE.          *)
Statement == {s \in [verb : Verbs, where : {"none", "blank", "newline"}, quoted : BOOLEAN,
                     grows : BOOLEAN, plain : BOOLEAN, picks : SUBSET TableRows] :
                /\ s.where = "none" => s.picks = TableRows
                /\ s.verb \notin {"update", "delete"} =>
                     s.where = "none" /\ ~s.quoted /\ ~s.grows /\ s.plain}
NoPreview == [kind |-> "none", estimate |-> 0, counted |-> FALSE, warned |-> FALSE]

QueryTypeOK ==
  /\ stmt \in Statement /\ table \subseteq TableRows /\ seen \subseteq TableRows
  /\ preview.kind \in {"none", "select", "dml", "ddl", "other"}
  /\ preview.estimate \in Nat
  /\ preview.counted \in BOOLEAN /\ preview.warned \in BOOLEAN
  /\ link \in {"none", "up", "down"}
  /\ sent \in [1..2 -> {"not", "nothing", "half", "whole"}]
  /\ answer \in {"none", "rows", "affected", "error"}
  /\ at \in {"typed", "conn", "use", "query", "exec", "done"}

QueryInit ==
  /\ stmt \in Statement
  /\ table = TableRows /\ preview = NoPreview /\ seen = {}
  /\ link = "none" /\ sent = [n \in 1..2 |-> "not"]
  /\ answer = "none" /\ at = "typed"

(* By the first word.                                                       *)
classifySQL(verb) == CASE verb \in {"update", "delete", "insert"} -> "dml"
                       [] OTHER -> verb

(* Slip: the rest after the word DELETE FROM is taken for a condition.      *)
dmlToCountSQLOfDelete(s) ==
  IF s.verb = "delete" /\ s.where = "none" THEN {0} ELSE {Cardinality(s.picks \cap table)}

(* q is cut where " WHERE " stands in ToUpper(q): at the first one, be it in *)
(* a text, and as many bytes away from it as upper case made of the letters  *)
(* before it.                                                                *)
Miscut(s) == s.verb = "update" /\ (s.quoted \/ (s.grows /\ s.where = "blank"))

(* What the SELECT COUNT made of a statement may answer.  A DELETE keeps    *)
(* its text; an UPDATE without the word counts the table.  A piece of a     *)
(* condition may pick any rows, a name that is not a plain one may be of    *)
(* another table or none, and what is no UPDATE or DELETE counts nothing.   *)
dmlToCountSQL(s) ==
  IF s.verb \notin {"update", "delete"} THEN {0}
  ELSE IF ~s.plain THEN {0} \cup Guesses
  ELSE IF Miscut(s) THEN 0..Cardinality(table)
  ELSE {Cardinality(IF s.verb = "update" /\ s.where # "blank" THEN table
                                                             ELSE s.picks \cap table)}

(* EXPLAIN's guess for a SELECT, added up over its tables; a count for the  *)
(* rest.                                                                    *)
Estimates(s) == IF classifySQL(s.verb) = "select" THEN Guesses ELSE dmlToCountSQL(s)

Warned(s) == s.verb \in {"update", "delete"} /\ s.where # "blank" /\ ~s.quoted

PreviewQuery ==
  /\ at = "typed"
  /\ \E rows \in Estimates(stmt) :
       preview' = [kind |-> classifySQL(stmt.verb), estimate |-> rows,
                   counted |-> TRUE, warned |-> Warned(stmt)]
  /\ seen' = table
  /\ UNCHANGED <<stmt, table, link, sent, answer, at>>

(* Slip: an early return without the kind.                                  *)
PreviewFailsUnclassified ==
  /\ at = "typed"
  /\ preview' = [NoPreview EXCEPT !.kind = ""]
  /\ UNCHANGED <<stmt, table, seen, link, sent, answer, at>>

(* Without a connection there is nothing to say, without a count the        *)
(* warning.  An UPDATE cut behind its end makes the handler panic, and the  *)
(* page has nothing to show.                                                *)
PreviewFails ==
  /\ at = "typed"
  /\ \/ \E warned \in {FALSE, Warned(stmt)} :
          preview' = [NoPreview EXCEPT !.kind = classifySQL(stmt.verb), !.warned = warned]
     \/ Miscut(stmt) /\ stmt.grows /\ preview' = NoPreview
  /\ UNCHANGED <<stmt, table, seen, link, sent, answer, at>>

(* Another user adds or removes rows before the statement is sent; what is  *)
(* shown of it stays.                                                       *)
TableChanges ==
  /\ at = "typed" /\ table' \in SUBSET TableRows \ {table}
  /\ UNCHANGED <<stmt, preview, seen, link, sent, answer, at>>

-----------------------------------------------------------------------------
(* RunUserQuery takes one connection for all it does.                       *)
AIExecute ==
  /\ at = "typed"
  /\ at' = "conn"
  /\ UNCHANGED <<stmt, table, preview, seen, link, sent, answer>>

Fail == at' = "done" /\ answer' = "error"

TakeConn ==
  /\ at = "conn"
  /\ \/ link' = "up" /\ at' = "use" /\ UNCHANGED answer
     \/ Fail /\ UNCHANGED link
  /\ UNCHANGED <<stmt, table, preview, seen, sent>>

UseDatabase ==
  /\ at = "use"
  /\ \/ at' = "query" /\ UNCHANGED answer
     \/ Fail
  /\ UNCHANGED <<stmt, table, preview, seen, link, sent>>

(* What one sending may come to: an answer; an error message, after nothing *)
(* or after half of a statement MySQL does not undo; or no answer in time,  *)
(* after anything, and then the connection is gone.                         *)
Outcome == {<<"whole", "ok", "up">>, <<"nothing", "error", "up">>, <<"half", "error", "up">>}
             \cup {<<effect, "error", "down">> : effect \in {"nothing", "half", "whole"}}

SendQuery ==
  /\ at = "query"
  /\ \E o \in Outcome :
       /\ sent' = [sent EXCEPT ![1] = o[1]]
       /\ link' = o[3]
       /\ IF o[2] = "ok" THEN at' = "done" /\ answer' = "rows"
                         ELSE at' = "exec" /\ UNCHANGED answer
  /\ UNCHANGED <<stmt, table, preview, seen>>

(* Slip: the second sending takes a connection of its own.                  *)
SendExecElsewhere ==
  /\ at = "exec"
  /\ \E o \in Outcome :
       /\ sent' = [sent EXCEPT ![2] = o[1]]
       /\ IF o[2] = "ok" THEN at' = "done" /\ answer' = "affected" ELSE Fail
  /\ UNCHANGED <<stmt, table, preview, seen, link>>

(* Any error makes it send the statement again on the same connection,      *)
(* which does nothing when that is gone.                                    *)
SendExec ==
  /\ at = "exec"
  /\ IF link = "down"
     THEN Fail /\ UNCHANGED <<sent, link>>
     ELSE \E o \in Outcome :
            /\ sent' = [sent EXCEPT ![2] = o[1]]
            /\ link' = o[3]
            /\ IF o[2] = "ok" THEN at' = "done" /\ answer' = "affected" ELSE Fail
  /\ UNCHANGED <<stmt, table, preview, seen>>

QueryNext ==
  \/ PreviewQuery \/ PreviewFails \/ TableChanges
  \/ AIExecute \/ TakeConn \/ UseDatabase \/ SendQuery \/ SendExec

QuerySpec == QueryInit /\ [][QueryNext]_queryVars

-----------------------------------------------------------------------------
(* Sending a statement again never makes it take whole effect twice, and no *)
(* error means that it took whole effect once (RunUserQuery).  Half an      *)
(* effect and then all of it is possible.                                   *)
NeverTwiceWhole ==
  /\ ~(sent[1] = "whole" /\ sent[2] = "whole")
  /\ answer \in {"rows", "affected"} => "whole" \in {sent[1], sent[2]}

(* What an UPDATE or DELETE of a plain table would change now that the      *)
(* preview shown did not count, other than rows put there since.            *)
Uncounted == Cardinality(stmt.picks \cap table) > preview.estimate + Cardinality(table \ seen)

(* "no WHERE clause - all rows will be affected": of a plain UPDATE or      *)
(* DELETE that is not cut in the wrong place, a preview that got its count  *)
(* falls short of what would be changed by no more than the rows that have  *)
(* come since, however long it is shown, and it warns when there is no      *)
(* WHERE and the word stands nowhere else (PreviewQuery).                   *)
PreviewIsCautious ==
  preview.counted /\ stmt.verb \in {"update", "delete"} /\ stmt.plain =>
    /\ ~Miscut(stmt) => ~Uncounted
    /\ stmt.where = "none" /\ ~stmt.quoted => preview.warned
=============================================================================
