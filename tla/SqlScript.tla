------------------------------ MODULE SqlScript ------------------------------
(***************************************************************************)
(* SQL scripts from the query page and from an uploaded file: how          *)
(* SplitStatements (internal/mysql/query.go) cuts a script into            *)
(* statements, and how RunScript then runs them.                           *)
(*                                                                         *)
(* A script is a sequence of characters, of which only the ones the        *)
(* splitter looks at are told apart; "a" is any other.  A statement is the *)
(* sequence of the positions of its characters in the script.              *)
(*                                                                         *)
(* Of the four flags of the loop at most one is ever set, each being set   *)
(* only while the others are clear: they are the values of `mode`.         *)
(***************************************************************************)
EXTENDS Naturals, Sequences, FiniteSets, SequencesExt, FiniteSetsExt

CONSTANTS
  Scripts,    \* the scripts considered
  None        \* what peek returns at the end

Chars  == {"'", "\"", "-", "/", "*", "\\", ";", "newline", "a"}
Single == "'"
Double == "\""

ASSUME ScriptsAssumption == Scripts \subseteq Seq(Chars) /\ None \notin Chars

VARIABLES
  script,
  i,          \* the loop variable
  mode,       \* "plain", or the flag that is set
  cur,        \* the statement being collected
  stmts,      \* the statements found
  upload,     \* an uploaded file: server-level statements are skipped
  phase,
  next,       \* the statement RunScript has come to
  executed, skipped, failed   \* its counters

splitVars == <<i, mode, cur, stmts>>
counters  == <<executed, skipped, failed>>
vars == <<script, splitVars, upload, phase, next, counters>>

TypeOK ==
  /\ script \in Scripts
  /\ i \in 1..Len(script) + 1
  /\ mode \in {"plain", "single", "double", "line", "block"}
  /\ cur \in Seq(1..Len(script)) /\ stmts \in Seq(Seq(1..Len(script)))
  /\ upload \in BOOLEAN
  /\ phase \in {"split", "query", "run", "done"}
  /\ next \in 1..Len(stmts) + 1
  /\ executed \in Nat /\ skipped \in Nat /\ failed \in Nat

Init ==
  /\ script \in Scripts
  /\ i = 1 /\ mode = "plain" /\ cur = <<>> /\ stmts = <<>>
  /\ upload = FALSE
  /\ phase = "split"
  /\ next = 1 /\ executed = 0 /\ skipped = 0 /\ failed = 0

-----------------------------------------------------------------------------
(* SplitStatements: one iteration of its loop is one step. *)

At(k)  == IF k \in DOMAIN script THEN script[k] ELSE None
c      == At(i)
peek   == At(i + 1)
Quoted == mode \in {"single", "double"}

(* strings.TrimSpace; the newline stands for every blank. *)
Trim(s, stmt) ==
  LET solid == {k \in DOMAIN stmt : s[stmt[k]] # "newline"}
  IN  IF solid = {} THEN <<>> ELSE SubSeq(stmt, Min(solid), Max(solid))

Flush(found) ==
  LET stmt == Trim(script, found)
  IN  /\ stmts' = IF stmt = <<>> THEN stmts ELSE Append(stmts, stmt)
      /\ cur' = <<>>

Looping == phase = "split" /\ i <= Len(script)

Step(n, m) == /\ i' = i + n /\ mode' = m
              /\ UNCHANGED <<script, stmts, upload, phase, next, counters>>

(* The newline that ends a line comment is kept. *)
InLine ==
  /\ Looping /\ mode = "line"
  /\ IF c = "newline" THEN Step(1, "plain") /\ cur' = Append(cur, i)
                      ELSE Step(1, "line") /\ UNCHANGED cur

InBlock ==
  /\ Looping /\ mode = "block"
  /\ IF c = "*" /\ peek = "/" THEN Step(2, "plain") ELSE Step(1, "block")
  /\ UNCHANGED cur

OpenComment ==
  /\ Looping /\ mode = "plain"
  /\ \/ c = "-" /\ peek = "-" /\ Step(2, "line")
     \/ c = "/" /\ peek = "*" /\ Step(2, "block")
  /\ UNCHANGED cur

OpensComment == mode = "plain" /\ <<c, peek>> \in {<<"-", "-">>, <<"/", "*">>}

(* Slip: the backslash is not checked to be followed by anything. *)
EscapeUnguarded ==
  /\ Looping
  /\ \/ mode = "single" /\ c = Single /\ peek = Single
     \/ Quoted /\ c = "\\"
  /\ Step(2, mode)
  /\ cur' = cur \o <<i, i + 1>>

(* Two characters are taken as they are: a quote doubled in a string, and  *)
(* a backslash with the character after it.                                *)
Escape ==
  /\ Looping
  /\ \/ mode = "single" /\ c = Single /\ peek = Single
     \/ Quoted /\ c = "\\" /\ peek # None
  /\ Step(2, mode)
  /\ cur' = cur \o <<i, i + 1>>

(* Slip: a quote of the other kind ends a string, too. *)
QuoteAny ==
  /\ Looping /\ mode \in {"plain", "single", "double"}
  /\ c \in {Single, Double} /\ ~(mode = "single" /\ c = Single /\ peek = Single)
  /\ Step(1, IF Quoted THEN "plain" ELSE IF c = Single THEN "single" ELSE "double")
  /\ cur' = Append(cur, i)

Quote ==
  /\ Looping
  /\ \/ mode = "plain" /\ c = Single /\ Step(1, "single")
     \/ mode = "single" /\ c = Single /\ peek # Single /\ Step(1, "plain")
     \/ mode = "plain" /\ c = Double /\ Step(1, "double")
     \/ mode = "double" /\ c = Double /\ Step(1, "plain")
  /\ cur' = Append(cur, i)

Semicolon ==
  /\ Looping /\ mode = "plain" /\ c = ";"
  /\ Flush(cur)
  /\ i' = i + 1
  /\ UNCHANGED <<script, mode, upload, phase, next, counters>>

IsQuote == \/ c = Single /\ mode \in {"plain", "single"}
           \/ c = Double /\ mode \in {"plain", "double"}

Other ==
  /\ Looping /\ mode \in {"plain", "single", "double"}
  /\ ~OpensComment /\ ~IsQuote
  /\ ~(Quoted /\ c = "\\" /\ peek # None)
  /\ ~(mode = "plain" /\ c = ";")
  /\ Step(1, mode)
  /\ cur' = Append(cur, i)

(* Both callers split the same way: handleUploadSQL, whose script is run,   *)
(* and handleQuery, which first looks at the number of statements.         *)
Called == \/ upload' = TRUE  /\ phase' = "run"
          \/ upload' = FALSE /\ phase' = "query"

(* Slip: the rest after the last semicolon is forgotten. *)
SplitEndsForgets ==
  /\ phase = "split" /\ i > Len(script)
  /\ cur' = <<>> /\ UNCHANGED stmts
  /\ Called
  /\ UNCHANGED <<script, i, mode, next, counters>>

SplitEnds ==
  /\ phase = "split" /\ i > Len(script)
  /\ Flush(cur)
  /\ Called
  /\ UNCHANGED <<script, i, mode, next, counters>>

-----------------------------------------------------------------------------
(* RunScript. *)

(* handleQuery runs a single statement with RunUserQuery instead. *)
Query ==
  /\ phase = "query"
  /\ phase' = IF Len(stmts) > 1 THEN "run" ELSE "done"
  /\ UNCHANGED <<script, splitVars, upload, next, counters>>

(* No connection, or no such database. *)
ConnectFails ==
  /\ phase = "run" /\ next = 1
  /\ failed' = Len(stmts)
  /\ phase' = "done"
  /\ UNCHANGED <<script, splitVars, upload, next, executed, skipped>>

Advance == /\ phase = "run" /\ next <= Len(stmts)
           /\ next' = next + 1
           /\ UNCHANGED <<script, splitVars, upload, phase>>

SkipStatement ==
  Advance /\ upload /\ skipped' = skipped + 1 /\ UNCHANGED <<executed, failed>>

Execute ==
  Advance /\ executed' = executed + 1 /\ UNCHANGED <<skipped, failed>>

(* Slip: the loop is left at the first error. *)
ExecuteFailsStops ==
  /\ phase = "run" /\ next <= Len(stmts)
  /\ failed' = failed + 1 /\ phase' = "done"
  /\ UNCHANGED <<script, splitVars, upload, next, executed, skipped>>

ExecuteFails ==
  Advance /\ failed' = failed + 1 /\ UNCHANGED <<executed, skipped>>

RunEnds ==
  /\ phase = "run" /\ next > Len(stmts)
  /\ phase' = "done"
  /\ UNCHANGED <<script, splitVars, upload, next, counters>>

Next == \/ InLine \/ InBlock \/ OpenComment \/ Escape \/ Quote \/ Semicolon
        \/ Other \/ SplitEnds
        \/ Query \/ ConnectFails \/ SkipStatement \/ Execute \/ ExecuteFails
        \/ RunEnds

Spec == Init /\ [][Next]_vars /\ WF_vars(Next)

-----------------------------------------------------------------------------
(* What the comment on SplitStatements describes, said without a loop.     *)
(* A token is a comment, a quoted text, or a single character; it begins   *)
(* where the one before it ends.                                           *)

First(S, default) == IF S = {} THEN default ELSE Min(S)

(* A backslash escapes the next character, itself included. *)
Escaped(s, j, k) ==
  LET run == {m \in j + 1..k - 1 : \A l \in m..k - 1 : s[l] = "\\"}
  IN  Cardinality(run) % 2 = 1

Opens(s, j, mark) == j < Len(s) /\ <<s[j], s[j + 1]>> = mark
IsComment(s, j)   == Opens(s, j, <<"-", "-">>) \/ Opens(s, j, <<"/", "*">>)

TokenEnd(s, j) ==
  LET n == Len(s)
  IN  CASE Opens(s, j, <<"-", "-">>) ->
             First({k \in j..n : s[k] = "newline"}, n + 1) - 1
        [] Opens(s, j, <<"/", "*">>) ->
             First({k \in j + 3..n : s[k - 1] = "*" /\ s[k] = "/"}, n)
        [] s[j] \in {Single, Double} ->
             First({k \in j + 1..n : s[k] = s[j] /\ ~Escaped(s, j, k)}, n)
        [] OTHER -> j

(* One of them begins at k if k is in every set of positions that has the  *)
(* first, and with one beginning the one behind its token.                 *)
TokenStarts(s) ==
  LET n       == Len(s)
      behind  == {<<j, TokenEnd(s, j) + 1>> : j \in 1..n}
      follows == {p \in behind : p[2] <= n}
      closed  == {T \in SUBSET (1..n) :
                    1 \in T /\ \A p \in follows : p[1] \in T => p[2] \in T}
  IN  {k \in 1..n : \A T \in closed : k \in T}

(* What no cut parts, from the first to the last that is no blank, without *)
(* the comments.                                                           *)
Pieces(s) ==
  LET starts == TokenStarts(s)
      kept   == UNION {j..TokenEnd(s, j) : j \in {k \in starts : ~IsComment(s, k)}}
      cuts   == {k \in starts : s[k] = ";"}
      solid  == {k \in kept \ cuts : s[k] # "newline"}
      Together(j, k) == \A cut \in cuts : ~(j < cut /\ cut < k) /\ ~(k < cut /\ cut < j)
  IN  {{m \in kept : \E lo, hi \in solid :
                       Together(lo, j) /\ Together(hi, j) /\ lo <= m /\ m <= hi} :
         j \in solid}

Ascending(stmt) == \A k, l \in DOMAIN stmt : k < l => stmt[k] < stmt[l]

(* A script is cut at the semicolons that stand in no quoted text and no   *)
(* comment, and nowhere else; comments are dropped, everything else stays, *)
(* in order.                                                               *)
SplitsAsDescribed ==
  phase # "split" =>
    /\ {Range(stmts[m]) : m \in DOMAIN stmts} = Pieces(script)
    /\ \A m \in DOMAIN stmts : Ascending(stmts[m])
    /\ \A l, m \in DOMAIN stmts : l < m =>
         \A j \in Range(stmts[l]), k \in Range(stmts[m]) : j < k

(* Every statement of a script is accounted for, whatever fails. *)
AllAccounted ==
  phase = "done" /\ (upload \/ Len(stmts) > 1)
    => executed + skipped + failed = Len(stmts)

=============================================================================
