--------------------------- MODULE SqlScriptProofs ---------------------------
(* Proofs about SqlScript, for any set of scripts, of any length: the       *)
(* splitter never reads past the end of the text, RunScript accounts for    *)
(* every statement, and the statements are the pieces of the script that    *)
(* the description of a cut asks for.                                       *)
EXTENDS SqlScript, SequenceTheorems, FiniteSetTheorems, WellFoundedInduction,
        TLAPS

(* A non-empty set of naturals has a least element, which is its Min. *)
LEMMA MinInSet ==
  ASSUME NEW S, S \subseteq Nat, S # {}
  PROVE  Min(S) \in S /\ \A y \in S : Min(S) <= y
<1>1. \E x \in S : \A y \in S : ~ (<<y, x>> \in OpToRel(<, Nat))
  BY NatLessThanWellFounded, WFMin
<1>2. ASSUME NEW x \in S, NEW y \in S, ~ (<<y, x>> \in OpToRel(<, Nat))
      PROVE  x <= y
  BY <1>2 DEF OpToRel
<1>3. \E x \in S : \A y \in S : x <= y
  BY <1>1, <1>2
<1> QED
  BY <1>3 DEF Min

(* A non-empty set of naturals up to n has a greatest element. *)
LEMMA MaxInSet ==
  ASSUME NEW n \in Nat, NEW S, S \subseteq 1..n, S # {}
  PROVE  Max(S) \in S /\ \A y \in S : Max(S) >= y
<1> DEFINE T == {n - k : k \in S}
<1>1. \A k \in S : k \in Nat /\ n - k \in Nat
  OBVIOUS
<1>2. T \subseteq Nat
  BY <1>1
<1>3. T # {}
  OBVIOUS
<1>4. Min(T) \in T /\ \A u \in T : Min(T) <= u
  <2> HIDE DEF T
  <2> QED
    BY <1>2, <1>3, MinInSet
<1>5. PICK x \in S : Min(T) = n - x
  BY <1>4
<1>6. ASSUME NEW y \in S
      PROVE  x >= y
  <2>1. n - y \in T
    OBVIOUS
  <2>2. n - x <= n - y
    BY <1>4, <1>5, <2>1
  <2> QED
    BY <1>1, <2>2
<1> QED
  BY <1>6 DEF Max

(* What is left of a statement without its blanks is a sequence over the   *)
(* same positions.                                                         *)
LEMMA TrimTyped ==
  ASSUME NEW P, NEW s, NEW stmt \in Seq(P)
  PROVE  Trim(s, stmt) \in Seq(P)
<1> DEFINE solid == {k \in DOMAIN stmt : s[stmt[k]] # "newline"}
<1>1. CASE solid = {}
  BY <1>1 DEF Trim
<1>2. CASE solid # {}
  <2>1. solid \subseteq 1..Len(stmt) /\ Len(stmt) \in Nat
    OBVIOUS
  <2>2. Min(solid) \in solid /\ \A k \in solid : Min(solid) <= k
    <3> HIDE DEF solid
    <3>1. solid \subseteq Nat
      BY <2>1
    <3> QED
      BY <1>2, <3>1, MinInSet
  <2>3. Max(solid) \in solid
    <3> HIDE DEF solid
    <3> QED
      BY <1>2, <2>1, MaxInSet
  <2>4. SubSeq(stmt, Min(solid), Max(solid)) \in Seq(P)
    <3> DEFINE m == Min(solid)
               n == Max(solid)
    <3>1. m \in 1..Len(stmt) /\ n \in 1..Len(stmt) /\ m <= n
      <4> HIDE DEF solid
      <4> QED
        BY <2>1, <2>2, <2>3
    <3> HIDE DEF m, n, solid
    <3>2. \A k \in 1..(n - m + 1) : stmt[m + k - 1] \in P
      BY <3>1
    <3>3. SubSeq(stmt, m, n) \in Seq(P)
      BY <3>1, <3>2, SubSeqProperties
    <3> QED
      BY <3>3 DEF m, n
  <2> QED
    BY <1>2, <2>4 DEF Trim
<1> QED
  BY <1>1, <1>2

(* A flush adds the statement, or nothing, and starts the next one. *)
LEMMA FlushTyped ==
  ASSUME NEW P, cur \in Seq(P), stmts \in Seq(Seq(P)), Flush(cur)
  PROVE  /\ cur' \in Seq(P) /\ stmts' \in Seq(Seq(P))
         /\ Len(stmts') >= Len(stmts)
<1>1. Trim(script, cur) \in Seq(P)
  BY TrimTyped
<1> QED
  BY <1>1 DEF Flush

-----------------------------------------------------------------------------
(* The counters add up to the statements that are behind, or, at the end,   *)
(* to all of them.                                                          *)
CountInv ==
  /\ TypeOK
  /\ phase # "done" => executed + skipped + failed = next - 1
  /\ phase \in {"split", "query"} => next = 1
  /\ phase = "query" => ~upload
  /\ AllAccounted

LEMMA CountInit == Init => CountInv
<1> SUFFICES ASSUME Init
             PROVE  CountInv
  OBVIOUS
<1>1. Len(script) \in Nat
  BY ScriptsAssumption DEF Init
<1>2. TypeOK
  <2>1. i \in 1..Len(script) + 1
    BY <1>1 DEF Init
  <2>2. cur \in Seq(1..Len(script)) /\ stmts \in Seq(Seq(1..Len(script)))
    BY DEF Init
  <2>3. next \in 1..Len(stmts) + 1
    BY DEF Init
  <2> QED
    BY <2>1, <2>2, <2>3 DEF Init, TypeOK
<1>3. executed + skipped + failed = next - 1 /\ next = 1 /\ phase = "split"
  BY DEF Init
<1> QED
  BY <1>2, <1>3 DEF CountInv, AllAccounted

(* One iteration of the splitter's loop stays inside the text. *)
LEMMA SplitTyped ==
  ASSUME CountInv,
         InLine \/ InBlock \/ OpenComment \/ Escape \/ Quote \/ Semicolon \/ Other
  PROVE  CountInv'
<1> DEFINE P == 1..Len(script)
<1>1. /\ Len(script) \in Nat /\ Len(stmts) \in Nat /\ i \in P
      /\ cur \in Seq(P) /\ stmts \in Seq(Seq(P))
      /\ phase = "split" /\ script' = script
      /\ UNCHANGED <<upload, phase, next, counters>>
  <2>1. script \in Seq(Chars)
    BY ScriptsAssumption DEF CountInv, TypeOK
  <2>2. phase = "split" /\ i <= Len(script)
    BY DEF InLine, InBlock, OpenComment, Escape, Quote, Semicolon, Other, Looping
  <2>3. UNCHANGED <<script, upload, phase, next, counters>>
    BY DEF InLine, InBlock, OpenComment, Escape, Quote, Semicolon, Other, Step
  <2> QED
    BY <2>1, <2>2, <2>3 DEF CountInv, TypeOK
<1>2. peek # None => i + 1 \in P
  BY <1>1 DEF peek, At
<1>3. "/" # None /\ "-" # None /\ "*" # None /\ Single # None
  BY ScriptsAssumption DEF Chars, Single
<1>4. mode \in {"plain", "single", "double", "line", "block"}
  BY DEF CountInv, TypeOK
<1> HIDE DEF P
(* The loop goes on by one character, or by two if there are two. *)
<1>5. /\ i' = i + 1 \/ (i' = i + 2 /\ i + 1 \in P)
      /\ mode' \in {"plain", "single", "double", "line", "block"}
  <2>1. CASE InLine
    BY <2>1 DEF InLine, Step
  <2>2. CASE InBlock
    BY <2>2, <1>2, <1>3 DEF InBlock, Step
  <2>3. CASE OpenComment
    BY <2>3, <1>2, <1>3 DEF OpenComment, Step
  <2>4. CASE Escape
    BY <2>4, <1>2, <1>3, <1>4 DEF Escape, Step
  <2>5. CASE Quote
    BY <2>5 DEF Quote, Step
  <2>6. CASE Semicolon
    BY <2>6, <1>4 DEF Semicolon
  <2>7. CASE Other
    BY <2>7, <1>4 DEF Other, Step
  <2> QED
    BY <2>1, <2>2, <2>3, <2>4, <2>5, <2>6, <2>7
(* It collects what it has passed. *)
<1>6. \/ /\ stmts' = stmts
         /\ \/ cur' = cur
            \/ cur' = Append(cur, i)
            \/ cur' = cur \o <<i, i + 1>> /\ i + 1 \in P
      \/ Flush(cur)
  <2>1. CASE InLine
    BY <2>1 DEF InLine, Step
  <2>2. CASE InBlock
    BY <2>2 DEF InBlock, Step
  <2>3. CASE OpenComment
    BY <2>3 DEF OpenComment, Step
  <2>4. CASE Escape
    BY <2>4, <1>2, <1>3 DEF Escape, Step
  <2>5. CASE Quote
    BY <2>5 DEF Quote, Step
  <2>6. CASE Semicolon
    BY <2>6 DEF Semicolon
  <2>7. CASE Other
    BY <2>7 DEF Other, Step
  <2> QED
    BY <2>1, <2>2, <2>3, <2>4, <2>5, <2>6, <2>7
<1>7. cur' \in Seq(P) /\ stmts' \in Seq(Seq(P)) /\ Len(stmts') >= Len(stmts)
  <2>1. CASE Flush(cur)
    BY <1>1, <2>1, FlushTyped
  <2>2. CASE cur' = Append(cur, i) /\ stmts' = stmts
    <3>1. Append(cur, i) \in Seq(P)
      BY <1>1
    <3> QED
      BY <1>1, <2>2, <3>1
  <2>3. CASE cur' = cur \o <<i, i + 1>> /\ i + 1 \in P /\ stmts' = stmts
    <3>1. <<i, i + 1>> \in Seq(P)
      BY <1>1, <2>3
    <3>2. cur \o <<i, i + 1>> \in Seq(P)
      BY <1>1, <3>1, ConcatProperties
    <3> QED
      BY <1>1, <2>3, <3>2
  <2> QED
    BY <1>1, <1>6, <2>1, <2>2, <2>3
<1>8. i' \in 1..Len(script) + 1
  BY <1>1, <1>5 DEF P
<1>9. TypeOK'
  BY <1>1, <1>5, <1>7, <1>8 DEF CountInv, TypeOK, counters, P
<1> QED
  BY <1>1, <1>9 DEF CountInv, AllAccounted, counters

LEMMA SplitEndsCounts ==
  ASSUME CountInv, SplitEnds
  PROVE  CountInv'
<1> DEFINE P == 1..Len(script)
<1>1. cur \in Seq(P) /\ stmts \in Seq(Seq(P)) /\ Flush(cur)
  BY DEF CountInv, TypeOK, SplitEnds
<1>2. cur' \in Seq(P) /\ stmts' \in Seq(Seq(P)) /\ Len(stmts') >= Len(stmts)
  <2> HIDE DEF P
  <2> QED
    BY <1>1, FlushTyped
<1>3. /\ phase = "split" /\ phase' \in {"run", "query"} /\ upload' \in BOOLEAN
      /\ phase' = "query" => ~upload'
      /\ UNCHANGED <<script, i, mode, next, counters>>
  BY DEF SplitEnds, Called
<1>4. TypeOK'
  <2>1. next' \in 1..Len(stmts') + 1
    <3>1. Len(stmts) \in Nat /\ Len(stmts') \in Nat
      BY <1>1, <1>2
    <3> QED
      BY <1>2, <1>3, <3>1 DEF CountInv, TypeOK
  <2> QED
    BY <1>2, <1>3, <2>1 DEF CountInv, TypeOK, counters
<1> QED
  BY <1>3, <1>4 DEF CountInv, AllAccounted, counters

(* A statement that is passed is counted once. *)
LEMMA RunCounts ==
  ASSUME CountInv,
         Query \/ ConnectFails \/ SkipStatement \/ Execute \/ ExecuteFails \/ RunEnds
  PROVE  CountInv'
<1>1. /\ Len(stmts) \in Nat /\ next \in 1..Len(stmts) + 1
      /\ executed \in Nat /\ skipped \in Nat /\ failed \in Nat
      /\ UNCHANGED <<script, i, mode, cur, stmts, upload>>
  BY DEF CountInv, TypeOK, Query, ConnectFails, SkipStatement, Execute,
         ExecuteFails, RunEnds, Advance, splitVars
<1>2. CASE Query
  <2>1. /\ phase = "query" /\ phase' \in {"run", "done"}
        /\ phase' = "done" => ~(Len(stmts) > 1)
        /\ UNCHANGED <<next, executed, skipped, failed>>
    BY <1>2 DEF Query, counters
  <2>2. next = 1 /\ executed + skipped + failed = next - 1
    BY <2>1 DEF CountInv
  <2>3. TypeOK'
    BY <1>1, <2>1 DEF CountInv, TypeOK
  <2>4. phase' = "done" => ~upload
    BY <2>1 DEF CountInv
  <2> QED
    BY <1>1, <2>1, <2>2, <2>3, <2>4 DEF CountInv, AllAccounted
<1>3. CASE ConnectFails
  <2>1. executed = 0 /\ skipped = 0
    BY <1>1, <1>3 DEF ConnectFails, CountInv
  <2>2. /\ executed' = 0 /\ skipped' = 0 /\ failed' = Len(stmts)
        /\ phase' = "done" /\ next' = next
    BY <1>3, <2>1 DEF ConnectFails
  <2> QED
    BY <1>1, <2>2 DEF CountInv, TypeOK, AllAccounted
<1>4. CASE SkipStatement
  BY <1>1, <1>4 DEF SkipStatement, Advance, CountInv, TypeOK, AllAccounted
<1>5. CASE Execute
  BY <1>1, <1>5 DEF Execute, Advance, CountInv, TypeOK, AllAccounted
<1>6. CASE ExecuteFails
  BY <1>1, <1>6 DEF ExecuteFails, Advance, CountInv, TypeOK, AllAccounted
<1>7. CASE RunEnds
  BY <1>1, <1>7 DEF RunEnds, CountInv, TypeOK, AllAccounted, counters
<1> QED
  BY <1>2, <1>3, <1>4, <1>5, <1>6, <1>7

LEMMA CountNext == CountInv /\ [Next]_vars => CountInv'
<1>1. CountInv /\ UNCHANGED vars => CountInv'
  BY DEF vars, splitVars, counters, CountInv, TypeOK, AllAccounted
<1> QED
  BY <1>1, SplitTyped, SplitEndsCounts, RunCounts DEF Next

LEMMA CountInvariance == Spec => []CountInv
  BY CountInit, CountNext, PTL DEF Spec

(* The loop index never passes the end of the text, and a statement is made *)
(* of characters of the script only, however long the script.               *)
THEOREM StaysInsideScript == Spec => []TypeOK
<1>1. CountInv => TypeOK
  BY DEF CountInv
<1> QED
  BY <1>1, CountInvariance, PTL

(* RunScript's counters cover every statement of every script, whichever    *)
(* calls fail.                                                              *)
THEOREM EveryStatementCounts == Spec => []AllAccounted
<1>1. CountInv => AllAccounted
  BY DEF CountInv
<1> QED
  BY <1>1, CountInvariance, PTL

-----------------------------------------------------------------------------
(* Tokens: where one ends, and that they follow each other without a gap    *)
(* and without an overlap.                                                  *)

(* First of a set of positions is its least element, if there is one.       *)
LEMMA FirstIs ==
  ASSUME NEW S, S \subseteq Nat, NEW default, NEW k \in S, \A m \in S : k <= m
  PROVE  First(S, default) = k
<1>1. Min(S) \in S /\ \A y \in S : Min(S) <= y BY MinInSet
<1>2. k \in Nat /\ Min(S) \in Nat /\ k <= Min(S) /\ Min(S) <= k BY <1>1
<1>3. Min(S) = k BY <1>2
<1> QED BY <1>3 DEF First

LEMMA FirstOrNone ==
  ASSUME NEW S, S \subseteq Nat, NEW default
  PROVE  \/ S = {} /\ First(S, default) = default
         \/ First(S, default) \in S /\ \A m \in S : First(S, default) <= m
<1>1. CASE S = {} BY <1>1 DEF First
<1>2. CASE S # {}
  <2>1. Min(S) \in S /\ \A y \in S : Min(S) <= y BY <1>2, MinInSet
  <2> QED BY <1>2, <2>1 DEF First
<1> QED BY <1>1, <1>2

LineEnds(s, j)  == {k \in j..Len(s) : s[k] = "newline"}
BlockEnds(s, j) == {k \in j + 3..Len(s) : s[k - 1] = "*" /\ s[k] = "/"}
QuoteEnds(s, j) == {k \in j + 1..Len(s) : s[k] = s[j] /\ ~Escaped(s, j, k)}

IsLine(s, j)  == Opens(s, j, <<"-", "-">>)
IsBlock(s, j) == Opens(s, j, <<"/", "*">>)
IsText(s, j)  == s[j] \in {Single, Double}

(* The alternatives exclude each other. *)
LEMMA Kinds ==
  ASSUME NEW s, NEW j
  PROVE  /\ IsLine(s, j) => s[j] = "-" /\ s[j + 1] = "-" /\ ~IsBlock(s, j) /\ ~IsText(s, j)
         /\ IsBlock(s, j) => s[j] = "/" /\ s[j + 1] = "*" /\ ~IsLine(s, j) /\ ~IsText(s, j)
         /\ IsText(s, j) => ~IsLine(s, j) /\ ~IsBlock(s, j)
         /\ IsComment(s, j) <=> IsLine(s, j) \/ IsBlock(s, j)
BY DEF IsLine, IsBlock, IsText, Opens, IsComment, Single, Double

(* TokenEnd, one line for each kind of token.                               *)
LEMMA TokenEnds ==
  ASSUME NEW s, NEW j
  PROVE  /\ IsLine(s, j) => TokenEnd(s, j) = First(LineEnds(s, j), Len(s) + 1) - 1
         /\ IsBlock(s, j) => TokenEnd(s, j) = First(BlockEnds(s, j), Len(s))
         /\ IsText(s, j) => TokenEnd(s, j) = First(QuoteEnds(s, j), Len(s))
         /\ ~IsLine(s, j) /\ ~IsBlock(s, j) /\ ~IsText(s, j) => TokenEnd(s, j) = j
<1>1. CASE IsLine(s, j)
  BY <1>1, Kinds DEF TokenEnd, IsLine, IsBlock, IsText, LineEnds
<1>2. CASE IsBlock(s, j)
  BY <1>2, Kinds DEF TokenEnd, IsLine, IsBlock, IsText, BlockEnds
<1>3. CASE IsText(s, j)
  BY <1>3, Kinds DEF TokenEnd, IsLine, IsBlock, IsText, QuoteEnds
<1>4. CASE ~IsLine(s, j) /\ ~IsBlock(s, j) /\ ~IsText(s, j)
  BY <1>4 DEF TokenEnd, IsLine, IsBlock, IsText
<1> QED BY <1>1, <1>2, <1>3, <1>4, Kinds

(* The sets a token's end is looked for in.                                 *)
LEMMA EndSets ==
  ASSUME NEW s \in Seq(Chars), NEW j \in 1..Len(s)
  PROVE  /\ Len(s) \in Nat
         /\ LineEnds(s, j) \subseteq j..Len(s) /\ LineEnds(s, j) \subseteq Nat
         /\ BlockEnds(s, j) \subseteq j + 3..Len(s) /\ BlockEnds(s, j) \subseteq Nat
         /\ QuoteEnds(s, j) \subseteq j + 1..Len(s) /\ QuoteEnds(s, j) \subseteq Nat
<1>1. Len(s) \in Nat OBVIOUS
<1> QED BY <1>1 DEF LineEnds, BlockEnds, QuoteEnds

(* How far a token goes that has not ended before position `at`.            *)
LEMMA LineLasts ==
  ASSUME NEW s \in Seq(Chars), NEW j \in 1..Len(s), IsLine(s, j),
         NEW at \in j + 2..Len(s) + 1, \A k \in j..at - 1 : s[k] # "newline"
  PROVE  /\ TokenEnd(s, j) \in at - 1..Len(s)
         /\ at <= Len(s) /\ s[at] = "newline" => TokenEnd(s, j) = at - 1
<1> DEFINE E == LineEnds(s, j)
           e == First(E, Len(s) + 1)
<1>1. Len(s) \in Nat /\ E \subseteq j..Len(s) /\ E \subseteq Nat BY EndSets
<1>2. \A k \in E : k >= at BY <1>1 DEF LineEnds
<1>3. TokenEnd(s, j) = e - 1 BY TokenEnds
<1>4. at <= Len(s) /\ s[at] = "newline" => at \in E BY <1>1 DEF LineEnds
<1> HIDE DEF E
<1>5. (e = Len(s) + 1 /\ E = {}) \/ (e \in E /\ \A m \in E : e <= m) BY <1>1, FirstOrNone
<1>6. at <= Len(s) /\ s[at] = "newline" => e = at BY <1>1, <1>2, <1>4, FirstIs
<1> HIDE DEF e
<1>7. e \in at..Len(s) + 1
  <2>1. CASE e = Len(s) + 1 BY <1>1, <2>1
  <2>2. CASE e \in E
    <3>1. e \in j..Len(s) /\ e >= at BY <1>1, <1>2, <2>2
    <3> QED BY <1>1, <3>1
  <2> QED BY <1>5, <2>1, <2>2
<1> QED BY <1>1, <1>3, <1>6, <1>7

(* The same of a block comment: the end is a "*" with a "/" behind it.      *)
LEMMA BlockLasts ==
  ASSUME NEW s \in Seq(Chars), NEW j \in 1..Len(s), IsBlock(s, j),
         NEW at \in j + 2..Len(s) + 1,
         \A k \in j + 3..Len(s) : k <= at => ~(s[k - 1] = "*" /\ s[k] = "/")
  PROVE  /\ TokenEnd(s, j) \in at - 1..Len(s)
         /\ at <= Len(s) => TokenEnd(s, j) >= at
         /\ at < Len(s) /\ s[at] = "*" /\ s[at + 1] = "/" => TokenEnd(s, j) = at + 1
<1> DEFINE E == BlockEnds(s, j)
           e == First(E, Len(s))
<1>1. Len(s) \in Nat /\ E \subseteq j + 3..Len(s) /\ E \subseteq Nat BY EndSets
<1>2. \A k \in E : k > at BY <1>1 DEF BlockEnds
<1>3. TokenEnd(s, j) = e BY TokenEnds
<1>4. at < Len(s) /\ s[at] = "*" /\ s[at + 1] = "/" => at + 1 \in E
  BY <1>1 DEF BlockEnds
<1> HIDE DEF E
<1>5. (e = Len(s) /\ E = {}) \/ (e \in E /\ \A m \in E : e <= m) BY <1>1, FirstOrNone
<1>6. at < Len(s) /\ s[at] = "*" /\ s[at + 1] = "/" => e = at + 1
  <2> SUFFICES ASSUME at + 1 \in E PROVE e = at + 1 BY <1>4
  <2>1. \A k \in E : at + 1 <= k BY <1>1, <1>2
  <2> QED BY <1>1, <2>1, FirstIs
<1> HIDE DEF e
<1>7. e \in at - 1..Len(s) /\ (at <= Len(s) => e >= at)
  <2>1. CASE e = Len(s) BY <1>1, <2>1
  <2>2. CASE e \in E
    <3>1. e \in j + 3..Len(s) /\ e > at BY <1>1, <1>2, <2>2
    <3> QED BY <1>1, <3>1
  <2> QED BY <1>5, <2>1, <2>2
<1> QED BY <1>1, <1>3, <1>6, <1>7

(* The same of a quoted text: the end is its mark, not escaped.             *)
LEMMA TextLasts ==
  ASSUME NEW s \in Seq(Chars), NEW j \in 1..Len(s), IsText(s, j),
         NEW at \in j + 1..Len(s) + 1,
         \A k \in j + 1..at - 1 : ~(s[k] = s[j] /\ ~Escaped(s, j, k))
  PROVE  /\ TokenEnd(s, j) \in at - 1..Len(s)
         /\ at <= Len(s) => TokenEnd(s, j) >= at
         /\ at <= Len(s) /\ s[at] = s[j] /\ ~Escaped(s, j, at) => TokenEnd(s, j) = at
<1> DEFINE E == QuoteEnds(s, j)
           e == First(E, Len(s))
<1>1. Len(s) \in Nat /\ E \subseteq j + 1..Len(s) /\ E \subseteq Nat BY EndSets
<1>2. \A k \in E : k >= at BY <1>1 DEF QuoteEnds
<1>3. TokenEnd(s, j) = e BY TokenEnds
<1>4. at <= Len(s) /\ s[at] = s[j] /\ ~Escaped(s, j, at) => at \in E
  BY <1>1 DEF QuoteEnds
<1> HIDE DEF E
<1>5. (e = Len(s) /\ E = {}) \/ (e \in E /\ \A m \in E : e <= m) BY <1>1, FirstOrNone
<1>6. at <= Len(s) /\ s[at] = s[j] /\ ~Escaped(s, j, at) => e = at
  BY <1>1, <1>2, <1>4, FirstIs
<1> HIDE DEF e
<1>7. e \in at - 1..Len(s) /\ (at <= Len(s) => e >= at)
  <2>1. CASE e = Len(s) BY <1>1, <2>1
  <2>2. CASE e \in E
    <3>1. e \in j + 1..Len(s) /\ e >= at BY <1>1, <1>2, <2>2
    <3> QED BY <1>1, <3>1
  <2> QED BY <1>5, <2>1, <2>2
<1> QED BY <1>1, <1>3, <1>6, <1>7

(* Every token has a character at least, and ends within the script.        *)
LEMMA EndInside ==
  ASSUME NEW s \in Seq(Chars), NEW j \in 1..Len(s)
  PROVE  TokenEnd(s, j) \in j..Len(s)
<1>0. Len(s) \in Nat /\ s[j] \in Chars OBVIOUS
<1>1. CASE IsLine(s, j)
  <2>1. j < Len(s) BY <1>1 DEF IsLine, Opens
  <2>2. j + 2 \in j + 2..Len(s) + 1 BY <1>0, <2>1
  <2>3. \A k \in j..j + 2 - 1 : s[k] # "newline"
    <3>1. s[j] = "-" /\ s[j + 1] = "-" BY <1>1, Kinds
    <3>2. \A k \in j..j + 2 - 1 : k = j \/ k = j + 1 BY <1>0
    <3> QED BY <3>1, <3>2
  <2>4. TokenEnd(s, j) \in j + 2 - 1..Len(s) BY <1>1, <2>2, <2>3, LineLasts
  <2> QED BY <2>4, <1>0
<1>2. CASE IsBlock(s, j)
  <2>1. j < Len(s) BY <1>2 DEF IsBlock, Opens
  <2>2. j + 2 \in j + 2..Len(s) + 1 BY <1>0, <2>1
  <2>3. \A k \in j + 3..Len(s) : k <= j + 2 => ~(s[k - 1] = "*" /\ s[k] = "/") BY <1>0
  <2>4. TokenEnd(s, j) \in j + 2 - 1..Len(s) BY <1>2, <2>2, <2>3, BlockLasts
  <2> QED BY <2>4, <1>0
<1>3. CASE IsText(s, j)
  <2>2. j + 1 \in j + 1..Len(s) + 1 BY <1>0
  <2>3. \A k \in j + 1..j + 1 - 1 : ~(s[k] = s[j] /\ ~Escaped(s, j, k)) BY <1>0
  <2>4. TokenEnd(s, j) \in j + 1 - 1..Len(s) BY <1>3, <2>2, <2>3, TextLasts
  <2> QED BY <2>4, <1>0
<1>4. CASE ~IsLine(s, j) /\ ~IsBlock(s, j) /\ ~IsText(s, j) BY <1>4, <1>0, TokenEnds
<1> QED BY <1>1, <1>2, <1>3, <1>4

(* Where tokens begin. *)
LEMMA Starts ==
  ASSUME NEW s \in Seq(Chars)
  PROVE  /\ TokenStarts(s) \subseteq 1..Len(s)
         /\ 1 <= Len(s) => 1 \in TokenStarts(s)
         /\ \A j \in TokenStarts(s) :
              TokenEnd(s, j) < Len(s) => TokenEnd(s, j) + 1 \in TokenStarts(s)
<1> DEFINE n == Len(s)
           behind  == {<<j, TokenEnd(s, j) + 1>> : j \in 1..n}
           follows == {p \in behind : p[2] <= n}
           closed  == {T \in SUBSET (1..n) : 1 \in T /\ \A p \in follows : p[1] \in T => p[2] \in T}
<1>1. TokenStarts(s) = {k \in 1..n : \A T \in closed : k \in T} BY DEF TokenStarts
<1>2. n \in Nat OBVIOUS
<1>3. ASSUME NEW j \in TokenStarts(s), TokenEnd(s, j) < n
      PROVE  TokenEnd(s, j) + 1 \in TokenStarts(s)
  <2>1. j \in 1..n BY <1>1
  <2>2. TokenEnd(s, j) \in j..n BY <2>1, EndInside
  <2>3. TokenEnd(s, j) + 1 \in 1..n BY <1>2, <1>3, <2>1, <2>2
  <2>4. <<j, TokenEnd(s, j) + 1>> \in follows
    <3>1. TokenEnd(s, j) + 1 <= n BY <1>2, <2>3
    <3> QED BY <2>1, <3>1
  <2>5. ASSUME NEW T \in closed PROVE TokenEnd(s, j) + 1 \in T
    <3>1. j \in T BY <1>1
    <3> QED BY <2>4, <3>1
  <2> QED BY <1>1, <2>3, <2>5
<1>4. TokenStarts(s) \subseteq 1..n BY <1>1
<1>5. 1 <= n => 1 \in TokenStarts(s) BY <1>1, <1>2
<1> QED BY <1>3, <1>4, <1>5

(* Nothing smaller has the beginnings of all tokens. *)
LEMMA StartsLeast ==
  ASSUME NEW s \in Seq(Chars), NEW T \in SUBSET (1..Len(s)), 1 \in T,
         \A j \in T : TokenEnd(s, j) < Len(s) => TokenEnd(s, j) + 1 \in T
  PROVE  TokenStarts(s) \subseteq T
<1>1. Len(s) \in Nat OBVIOUS
<1>2. ASSUME NEW j \in 1..Len(s), TokenEnd(s, j) + 1 <= Len(s), j \in T
      PROVE  TokenEnd(s, j) + 1 \in T
  <2>1. TokenEnd(s, j) \in j..Len(s) BY EndInside
  <2>2. TokenEnd(s, j) < Len(s) BY <1>1, <1>2, <2>1
  <2> QED BY <1>2, <2>2
<1> QED BY <1>2 DEF TokenStarts

(* No token begins within another. *)
LEMMA NoStartInside ==
  ASSUME NEW s \in Seq(Chars), NEW j \in TokenStarts(s), NEW k \in TokenStarts(s),
         j < k
  PROVE  TokenEnd(s, j) < k
<1> DEFINE in(m)  == {h \in TokenStarts(s) : m < h /\ h <= TokenEnd(s, m)}
           bad    == {m \in TokenStarts(s) : in(m) # {}}
<1>0. Len(s) \in Nat /\ TokenStarts(s) \subseteq 1..Len(s) BY Starts
<1>1. \A m \in TokenStarts(s) : TokenEnd(s, m) \in m..Len(s) BY <1>0, EndInside
<1>2. SUFFICES ASSUME bad # {} PROVE FALSE
  <2>1. TokenEnd(s, j) >= k => k \in in(j) BY <1>0, <1>1
  <2>2. TokenEnd(s, j) >= k => j \in bad BY <2>1
  <2> QED BY <1>0, <1>1, <2>2
<1>3. PICK m \in bad : \A h \in bad : m <= h
  <2>1. bad \subseteq Nat BY <1>0
  <2> HIDE DEF bad
  <2> QED BY <1>2, <2>1, MinInSet
<1>4. PICK h \in in(m) : \A g \in in(m) : h <= g
  <2>1. in(m) \subseteq Nat /\ in(m) # {} BY <1>0, <1>3
  <2> HIDE DEF in
  <2> QED BY <2>1, MinInSet
<1>5. m \in TokenStarts(s) /\ h \in TokenStarts(s) /\ m < h /\ h <= TokenEnd(s, m)
      /\ m \in 1..Len(s) /\ h \in 1..Len(s) /\ h # 1
  <2>1. m \in TokenStarts(s) BY <1>3
  <2>2. h \in TokenStarts(s) /\ m < h /\ h <= TokenEnd(s, m) BY <1>4
  <2> QED BY <1>0, <2>1, <2>2
<1> DEFINE T == TokenStarts(s) \ {h}
<1>6. T \in SUBSET (1..Len(s)) /\ 1 \in T
  <2>1. 1 \in TokenStarts(s) BY <1>0, <1>5, Starts
  <2> QED BY <1>0, <1>5, <2>1
<1>7. ASSUME NEW g \in T, TokenEnd(s, g) < Len(s) PROVE TokenEnd(s, g) + 1 \in T
  <2>1. TokenEnd(s, g) + 1 \in TokenStarts(s) BY <1>7, Starts
  <2>2. g \in 1..Len(s) /\ TokenEnd(s, g) \in g..Len(s) BY <1>0, <1>1
  <2>3. ASSUME TokenEnd(s, g) + 1 = h PROVE FALSE
    <3>1. CASE g = m BY <1>0, <1>1, <1>5, <2>2, <2>3, <3>1
    <3>2. CASE g > m
      <4>1. g \in in(m) BY <1>0, <1>1, <1>5, <2>2, <2>3, <3>2
      <4>2. h <= g BY <1>4, <4>1
      <4> QED BY <1>0, <1>5, <2>2, <2>3, <4>2
    <3>3. CASE g < m
      <4>1. m \in in(g) BY <1>0, <1>1, <1>5, <2>2, <2>3, <3>3
      <4>2. g \in bad BY <4>1
      <4>3. m <= g BY <1>3, <4>2
      <4> QED BY <1>5, <2>2, <3>3, <4>3
    <3> QED BY <1>5, <2>2, <3>1, <3>2, <3>3
  <2> QED BY <2>1, <2>3
<1>8. TokenStarts(s) \subseteq T
  <2> HIDE DEF T
  <2> QED BY <1>6, <1>7, StartsLeast
<1> QED BY <1>5, <1>8

(* A position is in one token only. *)
LEMMA OneToken ==
  ASSUME NEW s \in Seq(Chars), NEW j \in TokenStarts(s), NEW k \in TokenStarts(s),
         NEW m \in Nat, j <= m, m <= TokenEnd(s, j), k <= m, m <= TokenEnd(s, k)
  PROVE  j = k
<1>1. j \in 1..Len(s) /\ k \in 1..Len(s) /\ Len(s) \in Nat BY Starts
<1>2. TokenEnd(s, j) \in j..Len(s) /\ TokenEnd(s, k) \in k..Len(s) BY <1>1, EndInside
<1>3. CASE j < k BY <1>1, <1>2, <1>3, NoStartInside
<1>4. CASE k < j BY <1>1, <1>2, <1>4, NoStartInside
<1> QED BY <1>1, <1>3, <1>4

(* A character is escaped if a backslash before it is there and is not. *)
LEMMA EscapedNext ==
  ASSUME NEW s \in Seq(Chars), NEW j \in Nat, NEW k \in Nat, k > j
  PROVE  /\ ~Escaped(s, j, j + 1)
         /\ Escaped(s, j, k + 1) <=> s[k] = "\\" /\ ~Escaped(s, j, k)
<1> DEFINE run(p) == {m \in j + 1..p - 1 : \A l \in m..p - 1 : s[l] = "\\"}
<1>1. \A p : Escaped(s, j, p) <=> Cardinality(run(p)) % 2 = 1 BY DEF Escaped
<1>2. IsFiniteSet(run(k)) /\ k \notin run(k)
  <2>1. IsFiniteSet(j + 1..k - 1) BY FS_Interval
  <2>2. run(k) \subseteq j + 1..k - 1 OBVIOUS
  <2> QED BY <2>1, <2>2, FS_Subset
<1>3. Cardinality(run(k)) \in Nat BY <1>2, FS_CardinalityType
<1>4. run(j + 1) = {} OBVIOUS
<1>7. 0 % 2 # 1 /\ \A p \in Nat : (p + 1) % 2 = 1 <=> ~(p % 2 = 1) OBVIOUS
<1>8. Cardinality(run(j + 1)) = 0 BY <1>4, FS_EmptySet
<1>5. CASE s[k] = "\\"
  <2>1. run(k + 1) = run(k) \cup {k}
    <3>1. ASSUME NEW m \in run(k + 1), m # k PROVE m \in run(k)
      <4>1. m \in j + 1..k - 1 BY <3>1
      <4>2. \A l \in m..k - 1 : s[l] = "\\" BY <3>1
      <4> QED BY <4>1, <4>2
    <3>2. ASSUME NEW m \in run(k) PROVE m \in run(k + 1)
      <4>1. m \in j + 1..k + 1 - 1 OBVIOUS
      <4>2. \A l \in m..k + 1 - 1 : l = k \/ l \in m..k - 1 OBVIOUS
      <4> QED BY <1>5, <4>1, <4>2
    <3>3. k \in run(k + 1)
      <4>1. \A l \in k..k + 1 - 1 : l = k OBVIOUS
      <4> QED BY <1>5, <4>1
    <3> QED BY <3>1, <3>2, <3>3
  <2>2. Cardinality(run(k + 1)) = Cardinality(run(k)) + 1
    <3> HIDE DEF run
    <3> QED BY <1>2, <2>1, FS_AddElement
  <2> HIDE DEF run
  <2> QED BY <1>1, <1>3, <1>5, <1>7, <1>8, <2>2
<1>6. CASE s[k] # "\\"
  <2>1. run(k + 1) = {}
    <3> SUFFICES ASSUME NEW m \in run(k + 1) PROVE FALSE OBVIOUS
    <3>1. k \in m..k + 1 - 1 OBVIOUS
    <3> QED BY <1>6, <3>1
  <2>2. Cardinality(run(k + 1)) = 0 BY <2>1, FS_EmptySet
  <2> HIDE DEF run
  <2> QED BY <1>1, <1>6, <1>7, <1>8, <2>2
<1> QED BY <1>5, <1>6

-----------------------------------------------------------------------------
(* What Pieces is made of. *)
Kept(s) == UNION {j..TokenEnd(s, j) : j \in {k \in TokenStarts(s) : ~IsComment(s, k)}}
Cuts(s) == {k \in TokenStarts(s) : s[k] = ";"}

(* What the token a position is in says of it. *)
LEMMA InToken ==
  ASSUME NEW s \in Seq(Chars), NEW j \in TokenStarts(s), NEW m \in Nat,
         j <= m, m <= TokenEnd(s, j)
  PROVE  /\ m \in Kept(s) <=> ~IsComment(s, j)
         /\ m \in Cuts(s) <=> m = j /\ s[j] = ";"
<1>0. Len(s) \in Nat /\ TokenStarts(s) \subseteq 1..Len(s) BY Starts
<1>1. \A k \in TokenStarts(s) :
        k \in Nat /\ TokenEnd(s, k) \in k..Len(s) /\ TokenEnd(s, k) \in Nat /\ k <= TokenEnd(s, k)
  <2> TAKE k \in TokenStarts(s)
  <2>1. k \in 1..Len(s) BY <1>0
  <2>2. TokenEnd(s, k) \in k..Len(s) BY <2>1, EndInside
  <2> QED BY <1>0, <2>1, <2>2
<1>2. ASSUME ~IsComment(s, j) PROVE m \in Kept(s)
  <2>1. m \in j..TokenEnd(s, j) BY <1>0, <1>1
  <2> QED BY <1>2, <2>1 DEF Kept
<1>3. ASSUME m \in Kept(s) PROVE ~IsComment(s, j)
  <2>1. PICK k \in TokenStarts(s) : ~IsComment(s, k) /\ m \in k..TokenEnd(s, k)
    BY <1>3 DEF Kept
  <2>2. k <= m /\ m <= TokenEnd(s, k) BY <1>0, <1>1, <2>1
  <2>3. k = j BY <2>2, OneToken
  <2> QED BY <2>1, <2>3
<1>4. ASSUME m \in Cuts(s) PROVE m = j /\ s[j] = ";"
  <2>1. m \in TokenStarts(s) /\ s[m] = ";" BY <1>4 DEF Cuts
  <2>2. m <= TokenEnd(s, m) BY <1>1, <2>1
  <2>4. m <= m OBVIOUS
  <2>3. m = j BY <2>1, <2>2, <2>4, OneToken
  <2> QED BY <2>1, <2>3
<1> QED BY <1>2, <1>3, <1>4 DEF Cuts

(* What the splitter sees. *)
LEMMA Reads ==
  ASSUME TypeOK, i <= Len(script)
  PROVE  /\ script \in Seq(Chars) /\ Len(script) \in Nat /\ i \in 1..Len(script)
         /\ c = script[i] /\ c \in Chars /\ c # None
         /\ i < Len(script) => peek = script[i + 1] /\ peek \in Chars /\ peek # None
         /\ i = Len(script) => peek = None
<1>1. script \in Seq(Chars) /\ Len(script) \in Nat /\ i \in 1..Len(script)
  BY ScriptsAssumption DEF TypeOK
<1>2. DOMAIN script = 1..Len(script) /\ \A k \in 1..Len(script) : script[k] \in Chars
  BY <1>1
<1>3. /\ i \in DOMAIN script /\ script[i] \in Chars
      /\ i < Len(script) => i + 1 \in DOMAIN script /\ script[i + 1] \in Chars
      /\ i = Len(script) => i + 1 \notin DOMAIN script
  <2>1. i \in Nat /\ (i < Len(script) => i + 1 \in 1..Len(script))
        /\ (i = Len(script) => i + 1 \notin 1..Len(script))
    BY <1>1
  <2> QED BY <1>1, <1>2, <2>1
<1>4. c = script[i] /\ c \in Chars /\ c # None BY <1>3, ScriptsAssumption DEF c, At
<1>5. i < Len(script) => peek = script[i + 1] /\ peek \in Chars /\ peek # None
  BY <1>3, ScriptsAssumption DEF peek, At
<1>6. i = Len(script) => peek = None BY <1>3 DEF peek, At
<1> QED BY <1>1, <1>4, <1>5, <1>6

(* Where the loop stands within the token that its mode tells.              *)
InLineComment(s, at) ==
  \E j \in TokenStarts(s) :
    /\ IsLine(s, j) /\ j + 2 <= at
    /\ \A k \in j..at - 1 : s[k] # "newline"

InBlockComment(s, at) ==
  \E j \in TokenStarts(s) :
    /\ IsBlock(s, j) /\ j + 2 <= at
    /\ \A k \in j + 3..Len(s) : k <= at => ~(s[k - 1] = "*" /\ s[k] = "/")

InText(s, at, mark) ==
  \E j \in TokenStarts(s) :
    /\ s[j] = mark /\ j + 1 <= at
    /\ \A k \in j + 1..at - 1 : ~(s[k] = mark /\ ~Escaped(s, j, k))
    /\ at <= Len(s) => ~Escaped(s, j, at)

(* The token that is not yet at its end. *)
LEMMA IsInLine ==
  ASSUME NEW s, NEW at, NEW j \in TokenStarts(s), IsLine(s, j), j + 2 <= at,
         \A k \in j..at - 1 : s[k] # "newline"
  PROVE  InLineComment(s, at)
BY DEF InLineComment

LEMMA IsInText ==
  ASSUME NEW s, NEW at, NEW mark, NEW j \in TokenStarts(s), s[j] = mark, j + 1 <= at,
         \A k \in j + 1..at - 1 : ~(s[k] = mark /\ ~Escaped(s, j, k)),
         at <= Len(s) => ~Escaped(s, j, at)
  PROVE  InText(s, at, mark)
BY DEF InText

LexInv ==
  /\ mode = "plain"  => (i <= Len(script) => i \in TokenStarts(script))
  /\ mode = "line"   => InLineComment(script, i)
  /\ mode = "block"  => InBlockComment(script, i)
  /\ mode = "single" => InText(script, i, Single)
  /\ mode = "double" => InText(script, i, Double)

(* The loop goes on by one or two characters, takes them or leaves them     *)
(* out, and passes no cut.                                                  *)
Goes(n) == i' = i + n /\ i + n <= Len(script) + 1
             /\ script' = script /\ stmts' = stmts /\ phase' = phase
Skips(n) == Goes(n) /\ cur' = cur /\ \A m \in i..i + n - 1 : m \notin Kept(script)
Takes(n) == /\ Goes(n) /\ cur' = (IF n = 1 THEN Append(cur, i) ELSE cur \o <<i, i + 1>>)
            /\ \A m \in i..i + n - 1 : m \in Kept(script) /\ m \notin Cuts(script)
Passes == Skips(1) \/ Skips(2) \/ Takes(1) \/ Takes(2)

(* Behind the end of a token, the next begins. *)
LEMMA NextToken ==
  ASSUME TypeOK, NEW j \in TokenStarts(script), NEW k \in Nat, TokenEnd(script, j) = k,
         k + 1 <= Len(script)
  PROVE  k + 1 \in TokenStarts(script)
<1>1. script \in Seq(Chars) /\ Len(script) \in Nat BY ScriptsAssumption DEF TypeOK
<1>2. k < Len(script) BY <1>1
<1> QED BY <1>1, <1>2, Starts

(* In a line comment: at its newline a token begins, until then nothing.    *)
LEMMA LexInLine ==
  ASSUME TypeOK, LexInv, InLine
  PROVE  LexInv' /\ Passes
<1>1. mode = "line" /\ i <= Len(script) BY DEF InLine, Looping
<1>2. /\ script \in Seq(Chars) /\ Len(script) \in Nat /\ i \in 1..Len(script)
      /\ c = script[i]
  BY <1>1, Reads
<1>3. PICK j \in TokenStarts(script) :
        /\ IsLine(script, j) /\ j + 2 <= i
        /\ \A k \in j..i - 1 : script[k] # "newline"
  BY <1>1 DEF LexInv, InLineComment
<1>4. j \in 1..Len(script) /\ i \in j + 2..Len(script) + 1 /\ i + 1 \in j + 2..Len(script) + 1
      /\ i \in Nat /\ i - 1 \in Nat /\ j <= i /\ i <= Len(script) /\ i <= i
  BY <1>2, <1>3, Starts
<1>5. script' = script /\ i' = i + 1 /\ stmts' = stmts /\ phase' = phase
  BY DEF InLine, Step
<1>6. CASE c = "newline"
  <2>1. mode' = "plain" /\ cur' = Append(cur, i) BY <1>6 DEF InLine, Step
  <2>2. TokenEnd(script, j) = i - 1 
    <3>1. script[i] = "newline" BY <1>2, <1>6
    <3> QED BY <1>2, <1>3, <1>4, <3>1, LineLasts
  <2>3. i \in TokenStarts(script)
    <3>1. i - 1 + 1 = i BY <1>4
    <3>2. i - 1 + 1 <= Len(script) BY <1>4
    <3>3. i - 1 + 1 \in TokenStarts(script) BY <1>4, <2>2, <3>2, NextToken
    <3> QED BY <3>1, <3>3
  <2>4. TokenEnd(script, i) = i /\ ~IsComment(script, i)
    <3>1. script[i] = "newline" BY <1>2, <1>6
    <3>2. ~IsLine(script, i) /\ ~IsBlock(script, i) /\ ~IsText(script, i)
      BY <3>1, Kinds DEF IsText, Single, Double
    <3> QED BY <3>2, TokenEnds, Kinds
  <2>5. i \in Kept(script) /\ i \notin Cuts(script)
    <3>1. script[i] # ";" BY <1>2, <1>6
    <3>2. i <= TokenEnd(script, i) BY <1>4, <2>4
    <3> QED BY <1>2, <1>4, <2>3, <2>4, <3>1, <3>2, InToken
  <2>6. i + 1 <= Len(script) => i + 1 \in TokenStarts(script)
    BY <1>4, <2>3, <2>4, NextToken
  <2>7. Takes(1)
    <3>1. \A m \in i..i + 1 - 1 : m = i BY <1>2
    <3> QED BY <1>2, <1>5, <2>1, <2>5, <3>1 DEF Takes, Goes
  <2> QED BY <1>5, <2>1, <2>6, <2>7 DEF LexInv, Passes
<1>7. CASE c # "newline"
  <2>1. mode' = "line" /\ cur' = cur BY <1>7 DEF InLine, Step
  <2>2. \A k \in j..i + 1 - 1 : script[k] # "newline"
    <3>1. \A k \in j..i + 1 - 1 : k = i \/ k \in j..i - 1 BY <1>2, <1>4
    <3> QED BY <1>2, <1>3, <1>7, <3>1
  <2>3. TokenEnd(script, j) \in i..Len(script)
    <3>1. \A p \in j + 2..Len(script) + 1 :
             (\A k \in j..p - 1 : script[k] # "newline")
               => TokenEnd(script, j) \in p - 1..Len(script)
      BY <1>2, <1>3, <1>4, LineLasts
    <3> DEFINE p == i + 1
    <3>2. p \in j + 2..Len(script) + 1 /\ \A k \in j..p - 1 : script[k] # "newline"
      BY <1>4, <2>2
    <3> HIDE DEF p
    <3>3. TokenEnd(script, j) \in p - 1..Len(script) BY <3>1, <3>2
    <3>4. p - 1 = i BY <1>4 DEF p
    <3> QED BY <3>3, <3>4
  <2>4. i \notin Kept(script)
    <3>1. IsComment(script, j) BY <1>3, Kinds
    <3>2. j <= i /\ i <= TokenEnd(script, j) BY <1>2, <1>4, <2>3
    <3> QED BY <1>2, <1>4, <3>1, <3>2, InToken
  <2>5. Skips(1)
    <3>1. \A m \in i..i + 1 - 1 : m = i BY <1>2
    <3> QED BY <1>2, <1>5, <2>1, <2>4, <3>1 DEF Skips, Goes
  <2>6. InLineComment(script, i + 1)
    <3>1. j + 2 <= i + 1 BY <1>4, <1>2
    <3> QED BY <1>2, <1>3, <1>4, <2>2, <3>1, IsInLine
  <2> QED BY <1>5, <2>1, <2>5, <2>6 DEF LexInv, Passes
<1> QED BY <1>6, <1>7

(* In a block comment: behind its end a token begins.                       *)
LEMMA LexInBlock ==
  ASSUME TypeOK, LexInv, InBlock
  PROVE  LexInv' /\ Passes
<1>1. mode = "block" /\ i <= Len(script) BY DEF InBlock, Looping
<1>2. /\ script \in Seq(Chars) /\ Len(script) \in Nat /\ i \in 1..Len(script)
      /\ c = script[i] /\ (i < Len(script) => peek = script[i + 1])
      /\ (i = Len(script) => peek = None)
  BY <1>1, Reads
<1>3. PICK j \in TokenStarts(script) :
        /\ IsBlock(script, j) /\ j + 2 <= i
        /\ \A k \in j + 3..Len(script) : k <= i => ~(script[k - 1] = "*" /\ script[k] = "/")
  BY <1>1 DEF LexInv, InBlockComment
<1>4. j \in 1..Len(script) /\ i \in j + 2..Len(script) + 1 /\ IsComment(script, j)
  BY <1>2, <1>3, Starts, Kinds
<1>5. script' = script /\ stmts' = stmts /\ phase' = phase /\ cur' = cur
  BY DEF InBlock, Step
<1>8. TokenEnd(script, j) \in Nat /\ i <= TokenEnd(script, j)
  BY <1>1, <1>2, <1>3, <1>4, BlockLasts
<1>6. CASE c = "*" /\ peek = "/"
  <2>1. mode' = "plain" /\ i' = i + 2 BY <1>6 DEF InBlock, Step
  <2>2. i < Len(script)
    <3>1. "/" # None BY ScriptsAssumption DEF Chars
    <3> QED BY <1>2, <1>6, <3>1
  <2>3. TokenEnd(script, j) = i + 1 BY <1>2, <1>3, <1>4, <1>6, <2>2, BlockLasts
  <2>4. i \notin Kept(script) /\ i + 1 \notin Kept(script)
    <3>1. j <= i /\ i <= i + 1 /\ j <= i + 1 /\ i + 1 \in Nat BY <1>2, <1>4
    <3>2. i <= TokenEnd(script, j) /\ i + 1 <= TokenEnd(script, j) /\ i \in Nat
      BY <1>2, <2>3, <3>1
    <3> QED BY <1>2, <1>4, <3>1, <3>2, InToken
  <2>5. Skips(2)
    <3>1. \A m \in i..i + 2 - 1 : m = i \/ m = i + 1 BY <1>2
    <3> QED BY <1>2, <1>5, <2>1, <2>2, <2>4, <3>1 DEF Skips, Goes
  <2>6. i + 2 <= Len(script) => i + 2 \in TokenStarts(script)
    <3>1. i + 1 \in Nat /\ i + 2 = i + 1 + 1 BY <1>2
    <3> QED BY <2>3, <3>1, NextToken
  <2> QED BY <1>5, <2>1, <2>5, <2>6 DEF LexInv, Passes
<1>7. CASE ~(c = "*" /\ peek = "/")
  <2>1. mode' = "block" /\ i' = i + 1 BY <1>7 DEF InBlock, Step
  <2>2. \A k \in j + 3..Len(script) : k <= i + 1 => ~(script[k - 1] = "*" /\ script[k] = "/")
    <3> SUFFICES ASSUME NEW k \in j + 3..Len(script), k <= i + 1
                 PROVE  ~(script[k - 1] = "*" /\ script[k] = "/")
      OBVIOUS
    <3>1. CASE k <= i BY <1>3, <3>1
    <3>2. CASE k = i + 1
      <4>1. k - 1 = i /\ i < Len(script) BY <1>2, <1>4, <3>2
      <4> QED BY <1>2, <1>7, <3>2, <4>1
    <3> QED BY <1>2, <1>4, <3>1, <3>2
  <2>4. i \notin Kept(script)
    <3>1. j <= i /\ i \in Nat BY <1>2, <1>4
    <3> QED BY <1>2, <1>4, <1>8, <3>1, InToken
  <2>5. Skips(1)
    <3>1. \A m \in i..i + 1 - 1 : m = i BY <1>2
    <3> QED BY <1>2, <1>5, <2>1, <2>4, <3>1 DEF Skips, Goes
  <2>6. InBlockComment(script, i + 1)
    <3>1. j + 2 <= i + 1 BY <1>4, <1>2
    <3> QED BY <1>3, <2>2, <3>1 DEF InBlockComment
  <2> QED BY <1>5, <2>1, <2>5, <2>6 DEF LexInv, Passes
<1> QED BY <1>6, <1>7

(* A comment that opens is a token, of two characters at least.             *)
LEMMA LexOpenComment ==
  ASSUME TypeOK, LexInv, OpenComment
  PROVE  LexInv' /\ Passes
<1>1. mode = "plain" /\ i <= Len(script) BY DEF OpenComment, Looping
<1>2. /\ script \in Seq(Chars) /\ Len(script) \in Nat /\ i \in 1..Len(script)
      /\ c = script[i] /\ (i < Len(script) => peek = script[i + 1])
      /\ (i = Len(script) => peek = None)
  BY <1>1, Reads
<1>3. i \in TokenStarts(script) BY <1>1 DEF LexInv
<1>4. script' = script /\ stmts' = stmts /\ phase' = phase /\ cur' = cur /\ i' = i + 2
      /\ (\/ c = "-" /\ peek = "-" /\ mode' = "line"
          \/ c = "/" /\ peek = "*" /\ mode' = "block")
  BY DEF OpenComment, Step
<1>5. i < Len(script) /\ i + 1 <= Len(script)
  <2>1. "-" # None /\ "*" # None BY ScriptsAssumption DEF Chars
  <2> QED BY <1>2, <1>4, <2>1
<1>6. i + 2 \in i + 2..Len(script) + 1 BY <1>2, <1>5
<1>7. /\ IsComment(script, i) /\ TokenEnd(script, i) \in i + 1..Len(script)
      /\ mode' = "line" => InLineComment(script, i + 2)
      /\ mode' = "block" => InBlockComment(script, i + 2)
  <2>1. CASE c = "-" /\ peek = "-" /\ mode' = "line"
    <3>1. IsLine(script, i) BY <1>2, <1>5, <2>1 DEF IsLine, Opens
    <3>2. \A k \in i..i + 2 - 1 : script[k] # "newline"
      <4>1. \A k \in i..i + 2 - 1 : k = i \/ k = i + 1 BY <1>2
      <4> QED BY <1>2, <1>5, <2>1, <4>1
    <3>3. TokenEnd(script, i) \in i + 2 - 1..Len(script)
      BY <1>2, <1>6, <3>1, <3>2, LineLasts
    <3>4. InLineComment(script, i + 2) BY <1>2, <1>3, <3>1, <3>2 DEF InLineComment
    <3> QED BY <1>2, <2>1, <3>1, <3>3, <3>4, Kinds
  <2>2. CASE c = "/" /\ peek = "*" /\ mode' = "block"
    <3>1. IsBlock(script, i) BY <1>2, <1>5, <2>2 DEF IsBlock, Opens
    <3>2. \A k \in i + 3..Len(script) : k <= i + 2 => ~(script[k - 1] = "*" /\ script[k] = "/")
      BY <1>2
    <3>3. TokenEnd(script, i) \in i + 2 - 1..Len(script)
      BY <1>2, <1>6, <3>1, <3>2, BlockLasts
    <3>4. InBlockComment(script, i + 2) BY <1>2, <1>3, <3>1, <3>2 DEF InBlockComment
    <3> QED BY <1>2, <2>2, <3>1, <3>3, <3>4, Kinds
  <2> QED BY <1>4, <2>1, <2>2
<1>8. i \notin Kept(script) /\ i + 1 \notin Kept(script)
  <2>1. i \in Nat /\ i + 1 \in Nat /\ i <= TokenEnd(script, i) /\ i + 1 <= TokenEnd(script, i)
        /\ i <= i /\ i <= i + 1
    BY <1>2, <1>7
  <2> QED BY <1>2, <1>3, <1>7, <2>1, InToken
<1>9. Skips(2)
  <2>1. \A m \in i..i + 2 - 1 : m = i \/ m = i + 1 BY <1>2
  <2> QED BY <1>2, <1>4, <1>5, <1>8, <2>1 DEF Skips, Goes
<1> QED BY <1>4, <1>7, <1>9 DEF LexInv, Passes

(* A character of a quoted text. *)
LEMMA InTextKept ==
  ASSUME NEW s \in Seq(Chars), NEW j \in TokenStarts(s), IsText(s, j),
         NEW m \in Nat, j <= m, m <= TokenEnd(s, j)
  PROVE  m \in Kept(s) /\ m \notin Cuts(s)
<1>1. ~IsComment(s, j) BY Kinds
<1>2. s[j] # ";" BY DEF IsText, Single, Double
<1> QED BY <1>1, <1>2, InToken

(* What is escaped ends no text; a doubled quote ends and opens one.        *)
LEMMA LexEscape ==
  ASSUME TypeOK, LexInv, Escape
  PROVE  LexInv' /\ Passes
<1>1. i <= Len(script) /\ mode \in {"single", "double"}
  BY DEF Escape, Looping, Quoted
<1>2. /\ script \in Seq(Chars) /\ Len(script) \in Nat /\ i \in 1..Len(script)
      /\ c = script[i] /\ (i < Len(script) => peek = script[i + 1])
      /\ (i = Len(script) => peek = None)
  BY <1>1, Reads
<1> DEFINE mark == IF mode = "single" THEN Single ELSE Double
<1>3. PICK j \in TokenStarts(script) :
        /\ script[j] = mark /\ j + 1 <= i
        /\ \A k \in j + 1..i - 1 : ~(script[k] = mark /\ ~Escaped(script, j, k))
        /\ i <= Len(script) => ~Escaped(script, j, i)
  BY <1>1 DEF LexInv, InText
<1>4. j \in 1..Len(script) /\ IsText(script, j) /\ j < i /\ j \in Nat /\ i \in Nat
  BY <1>2, <1>3, Starts DEF IsText
<1>5. script' = script /\ stmts' = stmts /\ phase' = phase /\ i' = i + 2 /\ mode' = mode
      /\ cur' = cur \o <<i, i + 1>>
  BY DEF Escape, Step
<1>6. i < Len(script) /\ i + 1 \in 1..Len(script) /\ i + 2 \in j + 1..Len(script) + 1
  <2>1. peek # None
    BY ScriptsAssumption DEF Escape, Chars, Single
  <2> QED BY <1>2, <1>4, <2>1
<1>7. SUFFICES /\ i \in Kept(script) /\ i \notin Cuts(script)
               /\ i + 1 \in Kept(script) /\ i + 1 \notin Cuts(script)
               /\ InText(script, i + 2, mark)
  <2> SUFFICES ASSUME i \in Kept(script) /\ i \notin Cuts(script),
                      i + 1 \in Kept(script) /\ i + 1 \notin Cuts(script),
                      InText(script, i + 2, mark)
               PROVE  LexInv' /\ Passes
    OBVIOUS
  <2>1. Takes(2)
    <3>1. \A m \in i..i + 2 - 1 : m = i \/ m = i + 1 BY <1>2
    <3> QED BY <1>2, <1>5, <1>6, <3>1 DEF Takes, Goes
  <2> QED BY <1>1, <1>5, <2>1 DEF LexInv, Passes
<1>8. CASE mode = "single" /\ c = Single /\ peek = Single
  <2>1. TokenEnd(script, j) = i
    <3>1. i \in j + 1..Len(script) + 1 BY <1>2, <1>4
    <3>2. script[i] = script[j] BY <1>2, <1>3, <1>8
    <3> QED BY <1>1, <1>2, <1>3, <1>4, <3>1, <3>2, TextLasts
  <2>2. i + 1 \in TokenStarts(script) /\ script[i + 1] = Single /\ IsText(script, i + 1)
    BY <1>2, <1>4, <1>6, <1>8, <2>1, NextToken DEF IsText
  <2>3. TokenEnd(script, i + 1) \in i + 1..Len(script) BY <1>2, <1>6, EndInside
  <2>4. i \in Kept(script) /\ i \notin Cuts(script) BY <1>2, <1>4, <2>1, InTextKept
  <2>5. i + 1 \in Kept(script) /\ i + 1 \notin Cuts(script)
    BY <1>2, <1>4, <2>2, <2>3, InTextKept
  <2>6. ~Escaped(script, i + 1, i + 2)
    <3>1. i + 1 \in Nat /\ i + 2 \in Nat /\ i + 2 > i + 1 /\ i + 2 = i + 1 + 1 BY <1>4
    <3> QED BY <1>2, <3>1, EscapedNext
  <2>7. InText(script, i + 2, mark)
    <3>1. i + 1 + 1 <= i + 2 /\ \A k \in i + 1 + 1..i + 2 - 1 : FALSE BY <1>4
    <3>2. mark = Single BY <1>8
    <3>3. \A k \in i + 1 + 1..i + 2 - 1 : ~(script[k] = mark /\ ~Escaped(script, i + 1, k))
      BY <3>1
    <3> HIDE DEF mark
    <3> QED BY <1>2, <1>4, <2>2, <2>6, <3>1, <3>2, <3>3, IsInText
  <2> QED BY <2>4, <2>5, <2>7
<1>9. CASE c = "\\"
  <2>1. script[i] = "\\" /\ mark # "\\" BY <1>2, <1>9 DEF Single, Double
  <2>2. Escaped(script, j, i + 1) /\ ~Escaped(script, j, i + 2)
    <3>1. i + 1 \in Nat /\ i + 1 > j /\ i + 2 = i + 1 + 1 BY <1>4
    <3>2. Escaped(script, j, i + 1)
      BY <1>1, <1>2, <1>3, <1>4, <2>1, EscapedNext
    <3> QED BY <1>2, <1>4, <3>1, <3>2, EscapedNext
  <2>3. \A k \in j + 1..i + 2 - 1 : ~(script[k] = mark /\ ~Escaped(script, j, k))
    <3>1. \A k \in j + 1..i + 2 - 1 : k \in j + 1..i - 1 \/ k = i \/ k = i + 1 BY <1>4
    <3> QED BY <1>3, <2>1, <2>2, <3>1
  <2>4. TokenEnd(script, j) \in i + 2 - 1..Len(script)
    BY <1>2, <1>3, <1>4, <1>6, <2>3, TextLasts
  <2>5. TokenEnd(script, j) \in Nat /\ i <= TokenEnd(script, j) /\ i + 1 <= TokenEnd(script, j)
        /\ j <= i /\ j <= i + 1 /\ i + 1 \in Nat
    BY <1>2, <1>4, <2>4
  <2>6. InText(script, i + 2, mark)
    <3>1. j + 1 <= i + 2 BY <1>4
    <3> HIDE DEF mark
    <3> QED BY <1>2, <1>3, <1>4, <2>2, <2>3, <3>1, IsInText
  <2> QED BY <1>2, <1>4, <2>5, <2>6, InTextKept
<1> QED BY <1>8, <1>9 DEF Escape

(* A quote opens a text, or ends the one it opened.                         *)
LEMMA LexQuote ==
  ASSUME TypeOK, LexInv, Quote
  PROVE  LexInv' /\ Passes
<1>1. i <= Len(script) BY DEF Quote, Looping
<1>2. /\ script \in Seq(Chars) /\ Len(script) \in Nat /\ i \in 1..Len(script)
      /\ c = script[i] /\ i \in Nat
  BY <1>1, Reads
<1>3. script' = script /\ stmts' = stmts /\ phase' = phase /\ i' = i + 1
      /\ cur' = Append(cur, i)
  BY DEF Quote, Step
<1>4. ASSUME i \in Kept(script), i \notin Cuts(script) PROVE Passes
  <2>1. \A m \in i..i + 1 - 1 : m = i BY <1>2
  <2> QED BY <1>2, <1>3, <1>4, <2>1 DEF Passes, Takes, Goes
<1>5. ASSUME NEW mark \in {Single, Double}, mode = "plain", c = mark
      PROVE  InText(script, i + 1, mark) /\ Passes
  <2>1. i \in TokenStarts(script) BY <1>1, <1>5 DEF LexInv
  <2>2. IsText(script, i) BY <1>2, <1>5 DEF IsText
  <2>3. TokenEnd(script, i) \in i..Len(script) BY <1>2, EndInside
  <2>4. i \in Kept(script) /\ i \notin Cuts(script) BY <1>2, <2>1, <2>2, <2>3, InTextKept
  <2>5. ~Escaped(script, i, i + 1)
    <3>1. i + 1 > i /\ i + 1 \in Nat BY <1>2
    <3> QED BY <1>2, <3>1, EscapedNext
  <2>6. InText(script, i + 1, mark)
    <3>1. i + 1 <= i + 1 /\ \A k \in i + 1..i + 1 - 1 : FALSE BY <1>2
    <3>2. \A k \in i + 1..i + 1 - 1 : ~(script[k] = mark /\ ~Escaped(script, i, k)) BY <3>1
    <3>3. script[i] = mark BY <1>2, <1>5
    <3> QED BY <1>2, <2>1, <2>5, <3>1, <3>2, <3>3, IsInText
  <2> QED BY <1>4, <2>4, <2>6
<1>6. ASSUME NEW mark \in {Single, Double}, InText(script, i, mark), c = mark
      PROVE  (i + 1 <= Len(script) => i + 1 \in TokenStarts(script)) /\ Passes
  <2>1. PICK j \in TokenStarts(script) :
          /\ script[j] = mark /\ j + 1 <= i
          /\ \A k \in j + 1..i - 1 : ~(script[k] = mark /\ ~Escaped(script, j, k))
          /\ i <= Len(script) => ~Escaped(script, j, i)
    BY <1>6 DEF InText
  <2>2. j \in 1..Len(script) /\ IsText(script, j) /\ i \in j + 1..Len(script) + 1 /\ j <= i
    BY <1>2, <1>6, <2>1, Starts DEF IsText
  <2>3. TokenEnd(script, j) = i BY <1>1, <1>2, <1>6, <2>1, <2>2, TextLasts
  <2>4. i \in Kept(script) /\ i \notin Cuts(script) BY <1>2, <2>2, <2>3, InTextKept
  <2>5. i + 1 <= Len(script) => i + 1 \in TokenStarts(script) BY <1>2, <2>3, NextToken
  <2> QED BY <1>4, <2>4, <2>5
<1>7. CASE mode = "plain" /\ c = Single /\ Step(1, "single")
  BY <1>3, <1>5, <1>7 DEF LexInv, Step
<1>8. CASE mode = "single" /\ c = Single /\ Step(1, "plain")
  BY <1>3, <1>6, <1>8 DEF LexInv, Step
<1>9. CASE mode = "plain" /\ c = Double /\ Step(1, "double")
  BY <1>3, <1>5, <1>9 DEF LexInv, Step
<1>10. CASE mode = "double" /\ c = Double /\ Step(1, "plain")
  BY <1>3, <1>6, <1>10 DEF LexInv, Step
<1> QED BY <1>7, <1>8, <1>9, <1>10 DEF Quote

(* Any other character is a token, or one more of a quoted text.            *)
LEMMA LexOther ==
  ASSUME TypeOK, LexInv, Other
  PROVE  LexInv' /\ Passes
<1>1. i <= Len(script) /\ mode \in {"plain", "single", "double"} BY DEF Other, Looping
<1>2. /\ script \in Seq(Chars) /\ Len(script) \in Nat /\ i \in 1..Len(script)
      /\ c = script[i] /\ i \in Nat
      /\ (i < Len(script) => peek = script[i + 1] /\ peek # None)
  BY <1>1, Reads
<1>3. script' = script /\ stmts' = stmts /\ phase' = phase /\ i' = i + 1 /\ mode' = mode
      /\ cur' = Append(cur, i)
  BY DEF Other, Step
<1>4. ASSUME i \in Kept(script), i \notin Cuts(script) PROVE Passes
  <2>1. \A m \in i..i + 1 - 1 : m = i BY <1>2
  <2> QED BY <1>2, <1>3, <1>4, <2>1 DEF Passes, Takes, Goes
<1>5. CASE mode = "plain"
  <2>1. i \in TokenStarts(script) BY <1>1, <1>5 DEF LexInv
  <2>2. script[i] # ";" /\ ~IsText(script, i)
    BY <1>2, <1>5 DEF Other, IsQuote, IsText
  <2>3. ~IsLine(script, i) /\ ~IsBlock(script, i)
    BY <1>2, <1>5 DEF Other, OpensComment, IsLine, IsBlock, Opens
  <2>4. TokenEnd(script, i) = i /\ ~IsComment(script, i) BY <2>2, <2>3, TokenEnds, Kinds
  <2>5. i \in Kept(script) /\ i \notin Cuts(script) 
    <3>1. i <= i /\ i <= TokenEnd(script, i) BY <1>2, <2>4
    <3> QED BY <1>2, <2>1, <2>2, <2>4, <3>1, InToken
  <2>6. i + 1 <= Len(script) => i + 1 \in TokenStarts(script)
    BY <1>2, <2>1, <2>4, NextToken
  <2> QED BY <1>3, <1>4, <1>5, <2>5, <2>6 DEF LexInv
<1>6. CASE mode \in {"single", "double"}
  <2> DEFINE mark == IF mode = "single" THEN Single ELSE Double
  <2>1. PICK j \in TokenStarts(script) :
          /\ script[j] = mark /\ j + 1 <= i
          /\ \A k \in j + 1..i - 1 : ~(script[k] = mark /\ ~Escaped(script, j, k))
          /\ i <= Len(script) => ~Escaped(script, j, i)
    BY <1>6 DEF LexInv, InText
  <2>2. j \in 1..Len(script) /\ IsText(script, j) /\ i + 1 \in j + 1..Len(script) + 1
        /\ j <= i /\ j < i /\ j \in Nat
    BY <1>2, <2>1, Starts DEF IsText
  <2>3. script[i] # mark BY <1>2, <1>6 DEF Other, IsQuote
  <2>4. \A k \in j + 1..i + 1 - 1 : ~(script[k] = mark /\ ~Escaped(script, j, k))
    <3>1. \A k \in j + 1..i + 1 - 1 : k = i \/ k \in j + 1..i - 1 BY <1>2, <2>2
    <3> QED BY <2>1, <2>3, <3>1
  <2>5. TokenEnd(script, j) \in i + 1 - 1..Len(script)
    BY <1>2, <2>1, <2>2, <2>4, TextLasts
  <2>6. TokenEnd(script, j) \in Nat /\ i <= TokenEnd(script, j) BY <1>2, <2>5
  <2>7. i \in Kept(script) /\ i \notin Cuts(script) BY <1>2, <2>2, <2>6, InTextKept
  <2>8. i + 1 <= Len(script) => ~Escaped(script, j, i + 1)
    <3> SUFFICES ASSUME i + 1 <= Len(script) PROVE ~Escaped(script, j, i + 1) OBVIOUS
    <3>1. script[i] # "\\"
      <4>1. peek # None BY <1>2
      <4> QED BY <1>2, <1>6, <4>1 DEF Other, Quoted
    <3> QED BY <1>2, <2>2, <3>1, EscapedNext
  <2>9. InText(script, i + 1, mark)
    <3>1. j + 1 <= i + 1 BY <1>2, <2>2
    <3> DEFINE at == i + 1
    <3> HIDE DEF mark
    <3>2. \A k \in j + 1..at - 1 : ~(script[k] = mark /\ ~Escaped(script, j, k))
      BY <1>2, <2>2, <2>4
    <3>4. j + 1 <= at /\ (at <= Len(script) => ~Escaped(script, j, at)) BY <2>8, <3>1
    <3> HIDE DEF at
    <3>3. InText(script, at, mark) BY <2>1, <3>2, <3>4, IsInText
    <3> QED BY <3>3 DEF at
  <2> QED BY <1>3, <1>4, <1>6, <2>7, <2>9 DEF LexInv
<1> QED BY <1>1, <1>5, <1>6

(* The semicolon of a cut. *)
LEMMA LexSemicolon ==
  ASSUME TypeOK, LexInv, Semicolon
  PROVE  LexInv' /\ i \in Cuts(script) /\ i' = i + 1 /\ i + 1 <= Len(script) + 1
<1>1. i <= Len(script) /\ mode = "plain" /\ c = ";" BY DEF Semicolon, Looping
<1>2. /\ script \in Seq(Chars) /\ Len(script) \in Nat /\ i \in 1..Len(script)
      /\ c = script[i] /\ i \in Nat
  <2>1. i <= Len(script) BY <1>1
  <2> QED BY <2>1, Reads
<1>3. script' = script /\ i' = i + 1 /\ mode' = mode BY DEF Semicolon
<1>4. i \in TokenStarts(script) BY <1>1 DEF LexInv
<1>5. TokenEnd(script, i) = i
  <2>1. ~IsLine(script, i) /\ ~IsBlock(script, i) /\ ~IsText(script, i)
    BY <1>1, <1>2, Kinds DEF IsText, Single, Double
  <2> QED BY <2>1, TokenEnds
<1>6. i + 1 <= Len(script) => i + 1 \in TokenStarts(script)
  BY <1>2, <1>4, <1>5, NextToken
<1>7. i \in Cuts(script) BY <1>1, <1>2, <1>4 DEF Cuts
<1>8. LexInv' BY <1>1, <1>3, <1>6 DEF LexInv
<1> QED BY <1>2, <1>3, <1>7, <1>8

-----------------------------------------------------------------------------
(* The pieces, one for each segment between two cuts that has more than     *)
(* blanks.                                                                  *)
Solid(s) == {k \in Kept(s) \ Cuts(s) : s[k] # "newline"}
Together(s, j, k) == \A cut \in Cuts(s) : ~(j < cut /\ cut < k) /\ ~(k < cut /\ cut < j)
Piece(s, j) ==
  {m \in Kept(s) : \E lo, hi \in Solid(s) :
     Together(s, lo, j) /\ Together(s, hi, j) /\ lo <= m /\ m <= hi}

LEMMA PiecesAre ==
  ASSUME NEW s
  PROVE  Pieces(s) = {Piece(s, j) : j \in Solid(s)}
BY DEF Pieces, Piece, Solid, Together, Kept, Cuts

(* All of these are positions of the script.                                *)
LEMMA KeptInside ==
  ASSUME NEW s \in Seq(Chars)
  PROVE  /\ Len(s) \in Nat
         /\ Kept(s) \subseteq 1..Len(s) /\ Cuts(s) \subseteq Kept(s)
         /\ Solid(s) \subseteq Kept(s) /\ Solid(s) \cap Cuts(s) = {}
<1>0. Len(s) \in Nat /\ TokenStarts(s) \subseteq 1..Len(s) BY Starts
<1>1. \A j \in TokenStarts(s) : TokenEnd(s, j) \in j..Len(s)
  <2> TAKE j \in TokenStarts(s)
  <2>1. j \in 1..Len(s) BY <1>0
  <2> QED BY <2>1, EndInside
<1>2. ASSUME NEW m \in Kept(s) PROVE m \in 1..Len(s)
  <2>1. PICK j \in TokenStarts(s) : m \in j..TokenEnd(s, j) BY DEF Kept
  <2>2. j \in 1..Len(s) /\ TokenEnd(s, j) \in j..Len(s) BY <1>0, <1>1
  <2> QED BY <1>0, <2>1, <2>2
<1>3. ASSUME NEW m \in Cuts(s) PROVE m \in Kept(s)
  <2>1. m \in TokenStarts(s) /\ s[m] = ";" BY DEF Cuts
  <2>2. m \in 1..Len(s) /\ TokenEnd(s, m) \in m..Len(s) BY <1>0, <1>1, <2>1
  <2>3. ~IsComment(s, m) BY <2>1, Kinds
  <2>4. m \in Nat /\ m <= m /\ m <= TokenEnd(s, m) BY <1>0, <2>2
  <2> QED BY <2>1, <2>3, <2>4, InToken
<1> QED BY <1>0, <1>2, <1>3 DEF Solid

(* d and u bound a segment. *)
Segment(s, d, u) ==
  /\ d \in Nat /\ u \in Nat /\ d < u
  /\ d \in Cuts(s) \cup {0}
  /\ \A cut \in Cuts(s) : ~(d < cut /\ cut < u)
Closed(s, u) == u \in Cuts(s) \cup {Len(s) + 1}
Within(s, d, u) == {m \in Kept(s) : d < m /\ m < u}

Collected(s, seq, d, u) ==
  /\ Segment(s, d, u)
  /\ Ascending(seq)
  /\ Range(seq) = Within(s, d, u)

(* The other solid positions together with one of a segment are those of    *)
(* the segment.                                                             *)
LEMMA TogetherIn ==
  ASSUME NEW s \in Seq(Chars), NEW d, NEW u, Segment(s, d, u), Closed(s, u),
         NEW j \in Solid(s), d < j, j < u, NEW k \in Solid(s)
  PROVE  Together(s, k, j) <=> d < k /\ k < u
<1>0. Len(s) \in Nat /\ Kept(s) \subseteq 1..Len(s) /\ j \in Kept(s) /\ k \in Kept(s)
      /\ k \notin Cuts(s) /\ Cuts(s) \subseteq Kept(s)
  BY KeptInside
<1>1. j \in 1..Len(s) /\ k \in 1..Len(s) /\ d \in Nat /\ u \in Nat /\ Cuts(s) \subseteq Nat
  BY <1>0 DEF Segment
<1>2. ASSUME d < k, k < u PROVE Together(s, k, j)
  <2> SUFFICES ASSUME NEW cut \in Cuts(s)
               PROVE  ~(k < cut /\ cut < j) /\ ~(j < cut /\ cut < k)
    BY DEF Together
  <2>1. ~(d < cut /\ cut < u) /\ cut \in Nat BY <1>1 DEF Segment
  <2> QED BY <1>1, <1>2, <2>1
<1>3. ASSUME Together(s, k, j) PROVE d < k
  <2>1. CASE d = 0 BY <1>1, <2>1
  <2>2. CASE d \in Cuts(s)
    <3>1. ~(k < d /\ d < j) BY <1>3, <2>2 DEF Together
    <3>2. k # d BY <1>0, <2>2
    <3> QED BY <1>1, <3>1, <3>2
  <2> QED BY <2>1, <2>2 DEF Segment
<1>4. ASSUME Together(s, k, j) PROVE k < u
  <2>1. CASE u = Len(s) + 1 BY <1>0, <1>1, <2>1
  <2>2. CASE u \in Cuts(s)
    <3>1. ~(j < u /\ u < k) BY <1>4, <2>2 DEF Together
    <3>2. k # u BY <1>0, <2>2
    <3> QED BY <1>1, <3>1, <3>2
  <2> QED BY <2>1, <2>2 DEF Closed
<1> QED BY <1>2, <1>3, <1>4

(* The piece of a solid position, from its segment alone.                   *)
LEMMA PieceOf ==
  ASSUME NEW s \in Seq(Chars), NEW d, NEW u, Segment(s, d, u), Closed(s, u),
         NEW j \in Solid(s), d < j, j < u, NEW m
  PROVE  m \in Piece(s, j) <=>
           /\ m \in Within(s, d, u)
           /\ \E lo, hi \in Solid(s) : d < lo /\ hi < u /\ lo <= m /\ m <= hi
<1>0. Kept(s) \subseteq Nat /\ Solid(s) \subseteq Kept(s) BY KeptInside
<1>1. d \in Nat /\ u \in Nat BY DEF Segment
<1>2. \A k \in Solid(s) : Together(s, k, j) <=> d < k /\ k < u BY TogetherIn
<1>3. ASSUME m \in Piece(s, j)
      PROVE  /\ m \in Within(s, d, u)
             /\ \E lo, hi \in Solid(s) : d < lo /\ hi < u /\ lo <= m /\ m <= hi
  <2>1. PICK lo \in Solid(s), hi \in Solid(s) :
          Together(s, lo, j) /\ Together(s, hi, j) /\ lo <= m /\ m <= hi
    BY <1>3 DEF Piece
  <2>2. m \in Kept(s) BY <1>3 DEF Piece
  <2>3. d < lo /\ hi < u BY <1>2, <2>1
  <2>4. lo \in Nat /\ hi \in Nat /\ m \in Nat BY <1>0, <2>2
  <2>5. d < m /\ m < u BY <1>1, <2>1, <2>3, <2>4
  <2> QED BY <2>1, <2>2, <2>3, <2>5 DEF Within
<1>4. ASSUME m \in Within(s, d, u),
             NEW lo \in Solid(s), NEW hi \in Solid(s), d < lo, hi < u, lo <= m, m <= hi
      PROVE  m \in Piece(s, j)
  <2>1. m \in Kept(s) /\ d < m /\ m < u BY <1>4 DEF Within
  <2>2. lo \in Nat /\ hi \in Nat /\ m \in Nat BY <1>0, <2>1
  <2>3. lo < u /\ d < hi BY <1>1, <1>4, <2>1, <2>2
  <2>4. Together(s, lo, j) /\ Together(s, hi, j) BY <1>2, <1>4, <2>3
  <2> QED BY <1>4, <2>1, <2>4 DEF Piece
<1> QED BY <1>3, <1>4

-----------------------------------------------------------------------------
(* Trimming a collected segment gives its piece.                            *)
Solids(s, seq) == {k \in DOMAIN seq : s[seq[k]] # "newline"}

(* Of a statement that is all blanks nothing is left.                       *)
LEMMA TrimEmpty ==
  ASSUME NEW s, NEW seq, Solids(s, seq) = {}
  PROVE  Trim(s, seq) = <<>>
BY DEF Trim, Solids

(* Otherwise what is left reaches from the first solid position to the last. *)
LEMMA TrimIs ==
  ASSUME NEW s, NEW seq \in Seq(Nat), Solids(s, seq) # {}
  PROVE  \E a \in Solids(s, seq), b \in Solids(s, seq) :
           /\ a \in 1..Len(seq) /\ b \in 1..Len(seq) /\ a <= b
           /\ \A k \in Solids(s, seq) : a <= k /\ k <= b
           /\ Len(Trim(s, seq)) = b - a + 1
           /\ Trim(s, seq) \in Seq(Nat)
           /\ \A k \in 1..b - a + 1 : Trim(s, seq)[k] = seq[a + k - 1]
<1> DEFINE S == Solids(s, seq)
           a == Min(S)
           b == Max(S)
<1>1. Len(seq) \in Nat /\ S \subseteq 1..Len(seq) /\ S \subseteq Nat
  <2>1. Len(seq) \in Nat /\ DOMAIN seq = 1..Len(seq) OBVIOUS
  <2> QED BY <2>1 DEF Solids
<1>2. Trim(s, seq) = SubSeq(seq, a, b) BY DEF Trim, Solids
<1> HIDE DEF S
<1>3. S # {} BY DEF S
<1>4. a \in S /\ \A k \in S : a <= k BY <1>1, <1>3, MinInSet
<1>5. b \in S /\ \A k \in S : b >= k BY <1>1, <1>3, MaxInSet
<1> HIDE DEF a, b
<1>6. a \in 1..Len(seq) /\ b \in 1..Len(seq) /\ a <= b /\ \A k \in S : a <= k /\ k <= b
  BY <1>1, <1>4, <1>5
<1>7. a \in Int /\ b \in Int /\ \A k \in a..b : seq[k] \in Nat BY <1>1, <1>6
<1>8. /\ SubSeq(seq, a, b) \in Seq(Nat)
      /\ Len(SubSeq(seq, a, b)) = b - a + 1
      /\ \A k \in 1..b - a + 1 : SubSeq(seq, a, b)[k] = seq[a + k - 1]
  BY <1>6, <1>7, SubSeqProperties
<1> QED BY <1>2, <1>4, <1>5, <1>6, <1>8 DEF S

(* A position in an ascending sequence. *)
LEMMA AscendingIs ==
  ASSUME NEW seq \in Seq(Nat), Ascending(seq),
         NEW p \in 1..Len(seq), NEW q \in 1..Len(seq)
  PROVE  /\ p <= q => seq[p] <= seq[q]
         /\ seq[p] <= seq[q] => p <= q
<1>1. seq[p] \in Nat /\ seq[q] \in Nat /\ DOMAIN seq = 1..Len(seq) /\ Len(seq) \in Nat OBVIOUS
<1>2. p < q => seq[p] < seq[q] BY <1>1 DEF Ascending
<1>3. q < p => seq[q] < seq[p] BY <1>1 DEF Ascending
<1>4. p = q => seq[p] = seq[q] OBVIOUS
<1> QED BY <1>1, <1>2, <1>3, <1>4

(* The elements of a sequence.                                              *)
LEMMA RangeIs ==
  ASSUME NEW P, NEW seq \in Seq(P)
  PROVE  /\ Range(seq) = {seq[k] : k \in 1..Len(seq)}
         /\ DOMAIN seq = 1..Len(seq) /\ Len(seq) \in Nat
         /\ \A k \in 1..Len(seq) : seq[k] \in Range(seq) /\ seq[k] \in P
<1>1. DOMAIN seq = 1..Len(seq) /\ Len(seq) \in Nat OBVIOUS
<1> QED BY <1>1 DEF Range

(* A collected segment becomes its piece, or nothing if it has none.        *)
LEMMA TrimPiece ==
  ASSUME NEW s \in Seq(Chars), NEW d, NEW u, NEW seq \in Seq(1..Len(s)),
         Collected(s, seq, d, u), Closed(s, u)
  PROVE  LET stmt == Trim(s, seq)
         IN  /\ Ascending(stmt)
             /\ \A m \in Range(stmt) : d < m /\ m < u
             /\ \A j \in Solid(s) : d < j /\ j < u => stmt # <<>> /\ Range(stmt) = Piece(s, j)
             /\ stmt # <<>> => \E j \in Solid(s) : d < j /\ j < u
<1> DEFINE stmt == Trim(s, seq)
           S == Solids(s, seq)
<1>0. /\ Len(s) \in Nat /\ Kept(s) \subseteq 1..Len(s) /\ Kept(s) \subseteq Nat
      /\ Solid(s) \subseteq Kept(s)
  BY KeptInside
<1>1. /\ Segment(s, d, u) /\ Ascending(seq) /\ Range(seq) = Within(s, d, u)
      /\ d \in Nat /\ u \in Nat
  BY DEF Collected, Segment
<1>2. /\ Range(seq) = {seq[k] : k \in 1..Len(seq)} /\ Len(seq) \in Nat
      /\ DOMAIN seq = 1..Len(seq) /\ \A k \in 1..Len(seq) : seq[k] \in Range(seq)
  BY RangeIs
<1>3. seq \in Seq(Nat) BY <1>0
<1>4. \A k \in 1..Len(seq) : k \in S <=> seq[k] \in Solid(s)
  <2> TAKE k \in 1..Len(seq)
  <2>1. seq[k] \in Kept(s) /\ d < seq[k] /\ seq[k] < u BY <1>1, <1>2 DEF Within
  <2>2. seq[k] \notin Cuts(s) BY <1>1, <2>1 DEF Segment
  <2>3. k \in S <=> s[seq[k]] # "newline" BY <1>2 DEF Solids
  <2> QED BY <2>1, <2>2, <2>3 DEF Solid
<1>5. \A j \in Solid(s) : d < j /\ j < u => \E k \in S : j = seq[k]
  <2> TAKE j \in Solid(s)
  <2> HAVE d < j /\ j < u
  <2>1. j \in Within(s, d, u) BY <1>0 DEF Within
  <2>2. PICK k \in 1..Len(seq) : j = seq[k] BY <1>1, <1>2, <2>1
  <2> QED BY <1>4, <2>2
<1>6. S \subseteq 1..Len(seq) BY <1>2 DEF Solids
<1> HIDE DEF stmt, S
<1>7. CASE S = {}
  <2>1. stmt = <<>> BY <1>7, TrimEmpty DEF stmt, S
  <2>2. Ascending(stmt) /\ Range(stmt) = {} BY <2>1 DEF Ascending, Range
  <2> QED BY <1>5, <1>7, <2>1, <2>2 DEF stmt
<1>8. CASE S # {}
  <2>0. \E a \in Solids(s, seq), b \in Solids(s, seq) :
           /\ a \in 1..Len(seq) /\ b \in 1..Len(seq) /\ a <= b
           /\ \A k \in Solids(s, seq) : a <= k /\ k <= b
           /\ Len(Trim(s, seq)) = b - a + 1
           /\ Trim(s, seq) \in Seq(Nat)
           /\ \A k \in 1..b - a + 1 : Trim(s, seq)[k] = seq[a + k - 1]
    <3>1. Solids(s, seq) # {} BY <1>8 DEF S
    <3> QED BY ONLY <1>3, <3>1, TrimIs
  <2>1. PICK a \in S, b \in S :
           /\ a \in 1..Len(seq) /\ b \in 1..Len(seq) /\ a <= b
           /\ \A k \in S : a <= k /\ k <= b
           /\ Len(stmt) = b - a + 1
           /\ stmt \in Seq(Nat)
           /\ \A k \in 1..b - a + 1 : stmt[k] = seq[a + k - 1]
    BY <2>0 DEF stmt, S
  <2>2. DOMAIN stmt = 1..b - a + 1 /\ stmt # <<>> /\ a \in Nat /\ b \in Nat
    <3>1. DOMAIN stmt = 1..Len(stmt) BY <2>1
    <3>2. a \in Nat /\ b \in Nat BY <1>2, <2>1
    <3>3. Len(stmt) # 0 BY <2>1, <3>2
    <3> QED BY <2>1, <3>1, <3>2, <3>3
  <2>3. \A k \in 1..b - a + 1 : a + k - 1 \in a..b /\ a + k - 1 \in 1..Len(seq)
    BY <1>2, <2>1, <2>2
  <2>4. Ascending(stmt)
    <3> SUFFICES ASSUME NEW k \in 1..b - a + 1, NEW l \in 1..b - a + 1, k < l
                 PROVE  stmt[k] < stmt[l]
      BY <2>2 DEF Ascending
    <3>1. a + k - 1 < a + l - 1 BY <2>2
    <3>2. seq[a + k - 1] < seq[a + l - 1] BY <1>1, <1>2, <2>3, <3>1 DEF Ascending
    <3> QED BY <2>1, <3>2
  <2>5. Range(stmt) = {seq[k] : k \in a..b}
    <3>1. ASSUME NEW k \in a..b PROVE seq[k] \in Range(stmt)
      <4>1. k - a + 1 \in 1..b - a + 1 /\ a + (k - a + 1) - 1 = k BY <2>2
      <4>2. stmt[k - a + 1] = seq[k] BY <2>1, <4>1
      <4> QED BY <2>2, <4>1, <4>2 DEF Range
    <3>2. ASSUME NEW k \in 1..b - a + 1 PROVE stmt[k] \in {seq[h] : h \in a..b}
      BY <2>1, <2>3
    <3> QED BY <2>2, <3>1, <3>2 DEF Range
  <2>6. /\ seq[a] \in Solid(s) /\ seq[b] \in Solid(s)
        /\ \A k \in 1..Len(seq) : d < seq[k] /\ seq[k] < u /\ seq[k] \in Within(s, d, u)
                                  /\ seq[k] \in Nat
    BY <1>0, <1>1, <1>2, <1>4, <2>1 DEF Within
  <2>7. \A k \in a..b : k \in 1..Len(seq)
    <3> TAKE k \in a..b
    <3>1. a >= 1 /\ b <= Len(seq) BY <1>2, <2>1
    <3>2. a <= k /\ k <= b /\ k \in Nat BY <2>2
    <3>3. Len(seq) \in Nat /\ a \in Nat /\ b \in Nat BY <1>2, <2>2
    <3>4. 1 <= k /\ k <= Len(seq) BY <3>1, <3>2, <3>3
    <3> QED BY <3>2, <3>3, <3>4
  <2>8. \A m \in Range(stmt) : d < m /\ m < u BY <2>5, <2>6, <2>7
  <2>9. ASSUME NEW j \in Solid(s), d < j, j < u PROVE Range(stmt) = Piece(s, j)
    <3>1. ASSUME NEW k \in a..b PROVE seq[k] \in Piece(s, j)
      <4>1. k \in 1..Len(seq) /\ a <= k /\ k <= b BY <2>2, <2>7
      <4>2. seq[a] <= seq[k] /\ seq[k] <= seq[b] BY <1>1, <1>3, <2>1, <4>1, AscendingIs
      <4>3. d < seq[a] /\ seq[b] < u /\ seq[k] \in Within(s, d, u) BY <2>1, <2>6, <4>1
      <4> QED BY <1>1, <2>6, <2>9, <4>2, <4>3, PieceOf
    <3>2. ASSUME NEW m \in Piece(s, j) PROVE m \in Range(stmt)
      <4>1. /\ m \in Within(s, d, u)
            /\ \E lo, hi \in Solid(s) : d < lo /\ hi < u /\ lo <= m /\ m <= hi
        BY <1>1, <2>9, PieceOf
      <4>2. PICK lo \in Solid(s), hi \in Solid(s) : d < lo /\ hi < u /\ lo <= m /\ m <= hi
        BY <4>1
      <4>3. PICK k \in 1..Len(seq) : m = seq[k] BY <1>1, <1>2, <4>1
      <4>4. lo < u /\ d < hi
        <5>1. d < m /\ m < u BY <4>1 DEF Within
        <5>2. lo \in Nat /\ hi \in Nat /\ m \in Nat BY <1>0, <2>6, <4>3
        <5> QED BY <1>1, <4>2, <5>1, <5>2
      <4>5. PICK p \in S : lo = seq[p] BY <1>5, <4>2, <4>4
      <4>6. PICK q \in S : hi = seq[q] BY <1>5, <4>2, <4>4
      <4>7. p \in 1..Len(seq) /\ q \in 1..Len(seq) BY <1>6
      <4>8. p <= k BY <1>1, <1>3, <4>2, <4>3, <4>5, <4>7, AscendingIs
      <4>9. k <= q BY <1>1, <1>3, <4>2, <4>3, <4>6, <4>7, AscendingIs
      <4>10. a <= p /\ q <= b BY <2>1
      <4>11. k \in a..b 
        <5>1. k \in Nat /\ p \in Nat /\ q \in Nat BY <1>2, <4>7
        <5> QED BY <2>2, <4>8, <4>9, <4>10, <5>1
      <4> QED BY <2>5, <4>3, <4>11
    <3> QED BY <2>5, <3>1, <3>2
  <2>10. d < seq[a] /\ seq[a] < u BY <2>1, <2>6
  <2> QED BY <2>2, <2>4, <2>6, <2>8, <2>9, <2>10 DEF stmt
<1> QED BY <1>7, <1>8

(* One more position of a segment. *)
LEMMA CollectSkip ==
  ASSUME NEW s \in Seq(Chars), NEW d, NEW u, NEW seq, Collected(s, seq, d, u), u \notin Kept(s)
  PROVE  Collected(s, seq, d, u + 1)
<1>0. Kept(s) \subseteq Nat /\ Cuts(s) \subseteq Kept(s) BY KeptInside
<1>1. d \in Nat /\ u \in Nat /\ d < u BY DEF Collected, Segment
<1>2. \A m \in Kept(s) : m < u + 1 <=> m < u BY <1>0, <1>1
<1>3. Within(s, d, u + 1) = Within(s, d, u) BY <1>2 DEF Within
<1>4. Segment(s, d, u + 1)
  <2>1. \A cut \in Cuts(s) : ~(d < cut /\ cut < u) BY DEF Collected, Segment
  <2>2. \A cut \in Cuts(s) : ~(d < cut /\ cut < u + 1) BY <1>0, <1>2, <2>1
  <2>3. u + 1 \in Nat /\ d < u + 1 BY <1>1
  <2> QED BY <2>2, <2>3 DEF Collected, Segment
<1> QED BY <1>3, <1>4 DEF Collected

(* A kept position is taken.                                                *)
LEMMA CollectTake ==
  ASSUME NEW s \in Seq(Chars), NEW d, NEW u, NEW seq \in Seq(1..Len(s)),
         Collected(s, seq, d, u), u \in Kept(s), u \notin Cuts(s)
  PROVE  Append(seq, u) \in Seq(1..Len(s)) /\ Collected(s, Append(seq, u), d, u + 1)
<1> DEFINE more == Append(seq, u)
<1>0. Kept(s) \subseteq Nat /\ Cuts(s) \subseteq Kept(s) /\ u \in 1..Len(s) BY KeptInside
<1>1. d \in Nat /\ u \in Nat /\ d < u BY DEF Collected, Segment
<1>2. \A m \in Kept(s) : m < u + 1 <=> m < u \/ m = u BY <1>0, <1>1
<1>3. Within(s, d, u + 1) = Within(s, d, u) \cup {u} BY <1>1, <1>2 DEF Within
<1>4. Segment(s, d, u + 1)
  <2>1. \A cut \in Cuts(s) : ~(d < cut /\ cut < u) BY DEF Collected, Segment
  <2>2. \A cut \in Cuts(s) : ~(d < cut /\ cut < u + 1) BY <1>0, <1>2, <2>1
  <2>3. u + 1 \in Nat /\ d < u + 1 BY <1>1
  <2> QED BY <2>2, <2>3 DEF Collected, Segment
<1>5. /\ more \in Seq(1..Len(s)) /\ Len(more) = Len(seq) + 1 /\ Len(seq) \in Nat
      /\ \A k \in 1..Len(seq) : more[k] = seq[k]
      /\ more[Len(seq) + 1] = u
      /\ DOMAIN more = 1..Len(seq) + 1 /\ DOMAIN seq = 1..Len(seq)
  BY <1>0, AppendProperties
<1> HIDE DEF more
<1>9. \A k : k \in 1..Len(seq) + 1 <=> k \in 1..Len(seq) \/ k = Len(seq) + 1 BY <1>5
<1>6. \A k \in 1..Len(seq) : seq[k] < u /\ seq[k] \in Range(seq)
  <2> TAKE k \in 1..Len(seq)
  <2>1. seq[k] \in Range(seq) BY <1>5 DEF Range
  <2>2. seq[k] \in Within(s, d, u) BY <2>1 DEF Collected
  <2> QED BY <2>1, <2>2 DEF Within
<1>7. Range(more) = Range(seq) \cup {u}
  BY <1>5, <1>9 DEF Range
<1>8. Ascending(more)
  <2> SUFFICES ASSUME NEW k \in 1..Len(seq) + 1, NEW l \in 1..Len(seq) + 1, k < l
               PROVE  more[k] < more[l]
    BY <1>5 DEF Ascending
  <2>1. k \in 1..Len(seq) BY <1>5
  <2>2. CASE l = Len(seq) + 1 BY <1>5, <1>6, <2>1, <2>2
  <2>3. CASE l # Len(seq) + 1
    <3>1. l \in 1..Len(seq) BY <1>9, <2>3
    <3>2. seq[k] < seq[l] BY <1>5, <2>1, <3>1 DEF Collected, Ascending
    <3> QED BY <1>5, <2>1, <3>1, <3>2
  <2> QED BY <2>2, <2>3
<1> QED BY <1>3, <1>4, <1>5, <1>7, <1>8 DEF Collected, more

(* Nothing is collected right behind a cut, or at the start. *)
LEMMA CollectNone ==
  ASSUME NEW s \in Seq(Chars), NEW d \in Cuts(s) \cup {0}
  PROVE  Collected(s, <<>>, d, d + 1)
<1>1. Kept(s) \subseteq Nat /\ Cuts(s) \subseteq Kept(s) BY KeptInside
<1>2. d \in Nat BY <1>1
<1>3. \A m \in Kept(s) : ~(d < m /\ m < d + 1) BY <1>1, <1>2
<1>4. Within(s, d, d + 1) = {} BY <1>3 DEF Within
<1>5. Range(<<>>) = {} /\ Ascending(<<>>) BY DEF Range, Ascending
<1>6. Segment(s, d, d + 1) BY <1>1, <1>2, <1>3 DEF Segment
<1> QED BY <1>4, <1>5, <1>6 DEF Collected

-----------------------------------------------------------------------------
(* The statements found are the pieces before position u.                   *)
Done(s, found, u) ==
  /\ {Range(found[m]) : m \in DOMAIN found} = {Piece(s, j) : j \in {k \in Solid(s) : k < u}}
  /\ \A m \in DOMAIN found : Ascending(found[m]) /\ \A k \in Range(found[m]) : k < u
  /\ \A l, m \in DOMAIN found : l < m =>
       \A j \in Range(found[l]), k \in Range(found[m]) : j < k

Flushed(s, seq, found) ==
  IF Trim(s, seq) = <<>> THEN found ELSE Append(found, Trim(s, seq))

(* A flush at the end of a segment adds its piece to those before it.       *)
LEMMA FlushDone ==
  ASSUME NEW s \in Seq(Chars), NEW d, NEW u, NEW seq \in Seq(1..Len(s)),
         NEW found \in Seq(Seq(1..Len(s))),
         Collected(s, seq, d, u), Closed(s, u), Done(s, found, d)
  PROVE  Done(s, Flushed(s, seq, found), u)
<1> DEFINE stmt == Trim(s, seq)
           before(p) == {k \in Solid(s) : k < p}
<1>0. /\ Kept(s) \subseteq 1..Len(s) /\ Len(s) \in Nat /\ Solid(s) \subseteq Kept(s)
      /\ Solid(s) \cap Cuts(s) = {}
  BY KeptInside
<1>1. d \in Nat /\ u \in Nat /\ d < u /\ d \notin Solid(s)
  <2>1. d \in Nat /\ u \in Nat /\ d < u /\ d \in Cuts(s) \cup {0} BY DEF Collected, Segment
  <2> QED BY <1>0, <2>1
<1>2. \A k \in Solid(s) : k \in Nat /\ (k < u <=> k < d \/ (d < k /\ k < u)) BY <1>0, <1>1
<1>3. /\ Ascending(stmt)
      /\ \A m \in Range(stmt) : d < m /\ m < u
      /\ \A j \in Solid(s) : d < j /\ j < u => stmt # <<>> /\ Range(stmt) = Piece(s, j)
      /\ stmt # <<>> => \E j \in Solid(s) : d < j /\ j < u
  BY TrimPiece
<1>4. stmt \in Seq(1..Len(s)) BY TrimTyped
<1>5. /\ Len(found) \in Nat /\ DOMAIN found = 1..Len(found)
      /\ \A m \in 1..Len(found) : Range(found[m]) \subseteq Nat
  <2>1. Len(found) \in Nat /\ DOMAIN found = 1..Len(found) OBVIOUS
  <2>2. \A m \in 1..Len(found) : found[m] \in Seq(1..Len(s)) OBVIOUS
  <2>3. ASSUME NEW m \in 1..Len(found) PROVE Range(found[m]) \subseteq Nat
    <3>1. found[m] \in Seq(1..Len(s)) BY <2>2
    <3>2. \A k \in DOMAIN found[m] : found[m][k] \in 1..Len(s) BY <3>1
    <3> QED BY <3>2, <1>0 DEF Range
  <2> QED BY <2>1, <2>3
<1>6. \A m \in 1..Len(found) : \A k \in Range(found[m]) : k < u
  <2> SUFFICES ASSUME NEW m \in 1..Len(found), NEW k \in Range(found[m]) PROVE k < u OBVIOUS
  <2>1. k < d /\ k \in Nat BY <1>5 DEF Done
  <2> QED BY <1>1, <2>1
<1> HIDE DEF stmt
<1>7. CASE stmt = <<>>
  <2>1. Flushed(s, seq, found) = found BY <1>7 DEF Flushed, stmt
  <2>2. before(u) = before(d) BY <1>2, <1>3, <1>7
  <2> QED BY <1>5, <1>6, <2>1, <2>2 DEF Done
<1>8. CASE stmt # <<>>
  <2> DEFINE more == Append(found, stmt)
             n    == Len(found) + 1
  <2>1. Flushed(s, seq, found) = more BY <1>8 DEF Flushed, stmt
  <2>2. /\ DOMAIN more = 1..n /\ more[n] = stmt
        /\ \A k \in 1..Len(found) : more[k] = found[k]
    BY <1>4, AppendProperties
  <2>3. \A k : k \in 1..n <=> k \in 1..Len(found) \/ k = n BY <1>5
  <2>4. n \in Nat /\ n \notin 1..Len(found) BY <1>5
  <2> HIDE DEF more, n
  <2>5. {Range(more[m]) : m \in DOMAIN more}
          = {Range(found[m]) : m \in DOMAIN found} \cup {Range(stmt)}
    BY <1>5, <2>2, <2>3
  <2>6. {Piece(s, j) : j \in before(u)} = {Piece(s, j) : j \in before(d)} \cup {Range(stmt)}
    <3>1. PICK j0 \in Solid(s) : d < j0 /\ j0 < u BY <1>3, <1>8
    <3>2. Range(stmt) = Piece(s, j0) /\ j0 \in before(u) BY <1>3, <3>1
    <3>3. \A j \in before(u) : j \in before(d) \/ Piece(s, j) = Range(stmt) BY <1>2, <1>3
    <3>4. \A j \in before(d) : j \in before(u) BY <1>2
    <3> HIDE DEF before
    <3> QED BY <3>2, <3>3, <3>4
  <2>7. {Range(more[m]) : m \in DOMAIN more} = {Piece(s, j) : j \in before(u)}
    BY <2>5, <2>6 DEF Done
  <2>8. \A m \in DOMAIN more : Ascending(more[m]) /\ \A k \in Range(more[m]) : k < u
    BY <1>3, <1>5, <1>6, <2>2, <2>3 DEF Done
  <2>9. ASSUME NEW l \in DOMAIN more, NEW m \in DOMAIN more, l < m,
               NEW j \in Range(more[l]), NEW k \in Range(more[m])
        PROVE  j < k
    <3>1. l \in 1..Len(found) /\ more[l] = found[l]
      BY <1>5, <2>2, <2>3, <2>9 DEF n
    <3>2. CASE m = n
      <4>1. j < d /\ j \in Nat BY <1>5, <3>1, <2>9 DEF Done
      <4>2. d < k /\ k < u BY <1>3, <2>2, <2>9, <3>2
      <4>3. k \in 1..Len(s)
        <5>1. \A h \in DOMAIN stmt : stmt[h] \in 1..Len(s) BY <1>4
        <5> QED BY <2>2, <2>9, <3>2, <5>1 DEF Range
      <4> QED BY <1>0, <1>1, <4>1, <4>2, <4>3
    <3>3. CASE m \in 1..Len(found)
      <4>1. more[m] = found[m] BY <2>2, <3>3
      <4> QED BY <1>5, <2>9, <3>1, <3>3, <4>1 DEF Done
    <3> QED BY <2>2, <2>3, <3>2, <3>3
  <2> QED BY <2>1, <2>7, <2>8, <2>9 DEF Done
<1> QED BY <1>7, <1>8

(* At the end that is what the splitter promises. *)
LEMMA AllDone ==
  ASSUME NEW s \in Seq(Chars), NEW found, Done(s, found, Len(s) + 1)
  PROVE  /\ {Range(found[m]) : m \in DOMAIN found} = Pieces(s)
         /\ \A m \in DOMAIN found : Ascending(found[m])
         /\ \A l, m \in DOMAIN found : l < m =>
              \A j \in Range(found[l]), k \in Range(found[m]) : j < k
<1>1. \A k \in Solid(s) : k < Len(s) + 1
  <2>1. Len(s) \in Nat /\ Solid(s) \subseteq 1..Len(s) BY KeptInside
  <2> QED BY <2>1
<1>2. {k \in Solid(s) : k < Len(s) + 1} = Solid(s) BY <1>1
<1> QED BY <1>2, PiecesAre DEF Done

-----------------------------------------------------------------------------
(* The invariant: behind the loop everything is done, up to the last cut,   *)
(* and collected, from there on.                                            *)
Behind(s, seq, found, at) == \E d : Collected(s, seq, d, at) /\ Done(s, found, d)

SplitInv ==
  /\ phase = "split" => LexInv /\ Behind(script, cur, stmts, i)
  /\ phase # "split" => Done(script, stmts, Len(script) + 1)

(* What the type invariant says of what the splitter works on.              *)
LEMMA Typed ==
  ASSUME TypeOK
  PROVE  /\ script \in Seq(Chars) /\ Len(script) \in Nat
         /\ i \in Nat /\ i >= 1 /\ i <= Len(script) + 1
         /\ cur \in Seq(1..Len(script)) /\ stmts \in Seq(Seq(1..Len(script)))
<1>1. script \in Seq(Chars) BY ScriptsAssumption DEF TypeOK
<1>2. Len(script) \in Nat BY <1>1
<1> QED BY <1>1, <1>2 DEF TypeOK

(* It holds at the start.                                                   *)
LEMMA SplitInit == TypeOK /\ Init => SplitInv
<1> SUFFICES ASSUME TypeOK, Init PROVE SplitInv OBVIOUS
<1>1. script \in Seq(Chars) /\ Len(script) \in Nat BY Typed
<1>2. i = 1 /\ mode = "plain" /\ cur = <<>> /\ stmts = <<>> /\ phase = "split" BY DEF Init
<1>3. LexInv BY <1>1, <1>2, Starts DEF LexInv
<1>4. Collected(script, <<>>, 0, 0 + 1) BY <1>1, CollectNone
<1>5. Done(script, <<>>, 0)
  <2>1. DOMAIN <<>> = {} OBVIOUS
  <2>2. \A k \in Solid(script) : ~(k < 0)
    <3>1. Solid(script) \subseteq Nat BY <1>1, KeptInside
    <3> QED BY <3>1
  <2> QED BY <2>1, <2>2 DEF Done
<1>6. Behind(script, cur, stmts, i) BY <1>2, <1>4, <1>5 DEF Behind
<1> QED BY <1>2, <1>3, <1>6 DEF SplitInv

(* One or two characters, taken or left out, are collected.                 *)
LEMMA PassesBehind ==
  ASSUME TypeOK, Passes, Behind(script, cur, stmts, i)
  PROVE  Behind(script, cur', stmts, i')
<1>1. script \in Seq(Chars) /\ Len(script) \in Nat /\ i \in Nat /\ cur \in Seq(1..Len(script))
  BY Typed
<1>2. PICK d : Collected(script, cur, d, i) /\ Done(script, stmts, d) BY DEF Behind
<1>3. SUFFICES Collected(script, cur', d, i') BY <1>2 DEF Behind
<1>4. CASE Skips(1)
  <2>1. i \notin Kept(script) /\ i' = i + 1 /\ cur' = cur
    <3>1. i \in i..i + 1 - 1 BY <1>1
    <3> QED BY <1>4, <3>1 DEF Skips, Goes
  <2> QED BY <1>1, <1>2, <2>1, CollectSkip
<1>5. CASE Skips(2)
  <2>1. i \notin Kept(script) /\ i + 1 \notin Kept(script) /\ i' = i + 2 /\ cur' = cur
    <3>1. i \in i..i + 2 - 1 /\ i + 1 \in i..i + 2 - 1 BY <1>1
    <3> QED BY <1>5, <3>1 DEF Skips, Goes
  <2>2. Collected(script, cur, d, i + 1) BY <1>1, <1>2, <2>1, CollectSkip
  <2>3. Collected(script, cur, d, i + 1 + 1) BY <1>1, <2>1, <2>2, CollectSkip
  <2>4. i + 1 + 1 = i + 2 BY <1>1
  <2> QED BY <2>1, <2>3, <2>4
<1>6. CASE Takes(1)
  <2>1. i \in Kept(script) /\ i \notin Cuts(script) /\ i' = i + 1 /\ cur' = Append(cur, i)
    <3>1. i \in i..i + 1 - 1 BY <1>1
    <3> QED BY <1>6, <3>1 DEF Takes, Goes
  <2> QED BY <1>1, <1>2, <2>1, CollectTake
<1>7. CASE Takes(2)
  <2>1. /\ i \in Kept(script) /\ i \notin Cuts(script)
        /\ i + 1 \in Kept(script) /\ i + 1 \notin Cuts(script)
        /\ i' = i + 2 /\ cur' = cur \o <<i, i + 1>>
    <3>1. i \in i..i + 2 - 1 /\ i + 1 \in i..i + 2 - 1 BY <1>1
    <3> QED BY <1>7, <3>1 DEF Takes, Goes
  <2>2. /\ Append(cur, i) \in Seq(1..Len(script))
        /\ Collected(script, Append(cur, i), d, i + 1)
    BY <1>1, <1>2, <2>1, CollectTake
  <2>3. Collected(script, Append(Append(cur, i), i + 1), d, i + 1 + 1)
    BY <1>1, <2>1, <2>2, CollectTake
  <2>4. Append(Append(cur, i), i + 1) = cur \o <<i, i + 1>>
    <3>1. cur \in Seq(Nat) /\ i \in Nat /\ i + 1 \in Nat BY <1>1
    <3> DEFINE e == i + 1
    <3>2. e \in Nat BY <3>1
    <3> HIDE DEF e
    <3>3. Append(cur, i) = cur \o <<i>> /\ Append(cur, i) \in Seq(Nat)
      BY <3>1, AppendIsConcat, AppendProperties
    <3>4. Append(Append(cur, i), e) = (cur \o <<i>>) \o <<e>>
      BY <3>2, <3>3, AppendIsConcat
    <3>5. (cur \o <<i>>) \o <<e>> = cur \o (<<i>> \o <<e>>)
      BY <3>1, <3>2, ConcatAssociative
    <3>6. <<i>> \o <<e>> = <<i, e>>
      <4>1. /\ <<i>> \in Seq(Nat) /\ <<e>> \in Seq(Nat) /\ <<i, e>> \in Seq(Nat)
            /\ Len(<<i>>) = 1 /\ Len(<<e>>) = 1 /\ Len(<<i, e>>) = 2
        BY <3>1, <3>2
      <4>2. /\ <<i>> \o <<e>> \in Seq(Nat) /\ Len(<<i>> \o <<e>>) = 2
            /\ (<<i>> \o <<e>>)[1] = i /\ (<<i>> \o <<e>>)[2] = e
        BY <4>1, ConcatProperties
      <4>3. \A k \in 1..2 : k = 1 \/ k = 2 OBVIOUS
      <4>4. <<i, e>>[1] = i /\ <<i, e>>[2] = e OBVIOUS
      <4>5. \A k \in 1..2 : (<<i>> \o <<e>>)[k] = <<i, e>>[k] BY <4>2, <4>3, <4>4
      <4> QED BY <4>1, <4>2, <4>5, SeqEqual
    <3> QED BY <3>4, <3>5, <3>6 DEF e
  <2>5. i + 1 + 1 = i + 2 BY <1>1
  <2> QED BY <2>1, <2>3, <2>4, <2>5
<1> QED BY <1>4, <1>5, <1>6, <1>7 DEF Passes

(* A cut ends a segment, and the next one is empty so far.                  *)
LEMMA SemicolonBehind ==
  ASSUME TypeOK, LexInv, Semicolon, Behind(script, cur, stmts, i)
  PROVE  LexInv' /\ Behind(script, cur', stmts', i')
<1>1. /\ script \in Seq(Chars) /\ Len(script) \in Nat /\ i \in Nat
      /\ cur \in Seq(1..Len(script)) /\ stmts \in Seq(Seq(1..Len(script)))
  BY Typed
<1>2. PICK d : Collected(script, cur, d, i) /\ Done(script, stmts, d) BY DEF Behind
<1>3. LexInv' /\ i \in Cuts(script) /\ i' = i + 1 BY LexSemicolon
<1>4. cur' = <<>> /\ stmts' = Flushed(script, cur, stmts) BY DEF Semicolon, Flush, Flushed
<1>5. Done(script, Flushed(script, cur, stmts), i)
  BY <1>1, <1>2, <1>3, FlushDone DEF Closed
<1>6. Collected(script, <<>>, i, i + 1) BY <1>1, <1>3, CollectNone
<1> QED BY <1>3, <1>4, <1>5, <1>6 DEF Behind

(* So does the end of the script.                                           *)
LEMMA EndDone ==
  ASSUME TypeOK, SplitEnds, Behind(script, cur, stmts, i)
  PROVE  Done(script, stmts', Len(script) + 1)
<1>1. /\ script \in Seq(Chars) /\ Len(script) \in Nat /\ i = Len(script) + 1
      /\ cur \in Seq(1..Len(script)) /\ stmts \in Seq(Seq(1..Len(script)))
  <2>1. i > Len(script) BY DEF SplitEnds
  <2> QED BY <2>1, Typed
<1>2. PICK d : Collected(script, cur, d, i) /\ Done(script, stmts, d) BY DEF Behind
<1>3. stmts' = Flushed(script, cur, stmts) BY DEF SplitEnds, Flush, Flushed
<1> QED BY <1>1, <1>2, <1>3, FlushDone DEF Closed

(* Every step keeps it, those of RunScript included.                        *)
LEMMA SplitStep == TypeOK /\ SplitInv /\ [Next]_vars => SplitInv'
<1> SUFFICES ASSUME TypeOK, SplitInv, [Next]_vars PROVE SplitInv' OBVIOUS
<1>1. ASSUME phase = "split", LexInv' /\ Passes PROVE SplitInv'
  <2>1. script' = script /\ stmts' = stmts /\ phase' = phase
    BY <1>1 DEF Passes, Skips, Takes, Goes
  <2>2. Behind(script, cur', stmts, i') BY <1>1, PassesBehind DEF SplitInv
  <2> QED BY <1>1, <2>1, <2>2 DEF SplitInv
<1>2. CASE InLine
  <2>1. phase = "split" BY <1>2 DEF InLine, Looping
  <2> QED BY <1>1, <1>2, <2>1, LexInLine DEF SplitInv
<1>3. CASE InBlock
  <2>1. phase = "split" BY <1>3 DEF InBlock, Looping
  <2> QED BY <1>1, <1>3, <2>1, LexInBlock DEF SplitInv
<1>4. CASE OpenComment
  <2>1. phase = "split" BY <1>4 DEF OpenComment, Looping
  <2> QED BY <1>1, <1>4, <2>1, LexOpenComment DEF SplitInv
<1>5. CASE Escape
  <2>1. phase = "split" BY <1>5 DEF Escape, Looping
  <2> QED BY <1>1, <1>5, <2>1, LexEscape DEF SplitInv
<1>6. CASE Quote
  <2>1. phase = "split" BY <1>6 DEF Quote, Looping
  <2> QED BY <1>1, <1>6, <2>1, LexQuote DEF SplitInv
<1>7. CASE Other
  <2>1. phase = "split" BY <1>7 DEF Other, Looping
  <2> QED BY <1>1, <1>7, <2>1, LexOther DEF SplitInv
<1>8. CASE Semicolon
  <2>1. phase = "split" /\ phase' = phase /\ script' = script
    BY <1>8 DEF Semicolon, Looping
  <2>2. LexInv' /\ Behind(script, cur', stmts', i')
    BY <1>8, <2>1, SemicolonBehind DEF SplitInv
  <2> QED BY <2>1, <2>2 DEF SplitInv
<1>9. CASE SplitEnds
  <2>1. phase = "split" /\ phase' # "split" /\ script' = script
    BY <1>9 DEF SplitEnds, Called
  <2>2. Done(script, stmts', Len(script) + 1) BY <1>9, <2>1, EndDone DEF SplitInv
  <2> QED BY <2>1, <2>2 DEF SplitInv
<1>10. CASE Query \/ ConnectFails \/ SkipStatement \/ Execute \/ ExecuteFails \/ RunEnds
  <2>1. phase # "split" /\ phase' # "split" /\ script' = script /\ stmts' = stmts
    BY <1>10 DEF Query, ConnectFails, SkipStatement, Execute, ExecuteFails, RunEnds,
                 Advance, splitVars
  <2> QED BY <2>1 DEF SplitInv
<1>11. CASE UNCHANGED vars
  <2>1. /\ script' = script /\ stmts' = stmts /\ phase' = phase
        /\ cur' = cur /\ i' = i /\ mode' = mode
    BY <1>11 DEF vars, splitVars
  <2> QED BY <2>1 DEF SplitInv, LexInv
<1> QED BY <1>2, <1>3, <1>4, <1>5, <1>6, <1>7, <1>8, <1>9, <1>10, <1>11 DEF Next

(* Every script, however long, is cut at the semicolons that stand in no    *)
(* quoted text and no comment, and nowhere else; comments are dropped, and  *)
(* everything else stays, in order.                                         *)
THEOREM SplitsRight == Spec => []SplitsAsDescribed
<1>1. CountInv => TypeOK BY DEF CountInv
<1>2. Init => SplitInv BY <1>1, CountInit, SplitInit
<1>3. CountInv /\ SplitInv /\ [Next]_vars => SplitInv' BY <1>1, SplitStep
<1>4. CountInv /\ SplitInv => SplitsAsDescribed
  <2> SUFFICES ASSUME TypeOK, SplitInv, phase # "split" PROVE SplitsAsDescribed
    BY <1>1 DEF SplitsAsDescribed
  <2>1. script \in Seq(Chars) /\ Done(script, stmts, Len(script) + 1) BY Typed DEF SplitInv
  <2> QED BY <2>1, AllDone DEF SplitsAsDescribed
<1> QED BY <1>2, <1>3, <1>4, CountInvariance, PTL DEF Spec

=============================================================================
