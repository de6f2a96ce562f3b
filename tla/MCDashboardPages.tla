--------------------------- MODULE MCDashboardPages ---------------------------
(* What the dashboard computes, for TLC: scripts, single statements, tables  *)
(* and figures.  The four components share no variable, so one of them moves *)
(* in a behaviour (focus) and the others keep one initial state.  Scripts    *)
(* are all of up to MaxLen characters, and the ones of MaxLen + 1 that are   *)
(* all about quoting, or all about comments.                                 *)
EXTENDS SqlScript, TableBrowsing, ServerStats, UserQuery, TLC

CONSTANTS MaxLen, r1, r2, r3, a, b

Quoting    == {Single, Double, "\\", ";", "a"}
Commenting == {"-", "/", "*", "newline", ";"}

ShortScripts == UNION {[1..n -> Chars] : n \in 0..MaxLen}
                  \cup [1..MaxLen + 1 -> Quoting]
                  \cup [1..MaxLen + 1 -> Commenting]

ThreeRows == {r1, r2, r3}
TwoKeys   == {a, b}
SomeSizes == {0, 1, 4}
SomeParams == {-1, 0, 1, 2, 3}
SomeGuesses == {0, 1, 5}

VARIABLE focus

Plain == [verb |-> "other", where |-> "none", quoted |-> FALSE, grows |-> FALSE, plain |-> TRUE,
          picks |-> TableRows]

PagesInit ==
  /\ focus \in {"script", "table", "stats", "query"}
  /\ focus # "script" => script = <<>>
  /\ focus # "table"  => kind = "first" /\ rows = <<>> /\ keyOf = [r \in RowIds |-> Null]
  /\ focus # "stats"  => busy = 0 /\ idle = 0 /\ iowait = 0
  /\ focus # "query"  => stmt = Plain
  /\ Init /\ BrowseInit /\ StatsInit /\ QueryInit

PagesNext ==
  /\ \/ focus = "script" /\ Next /\ UNCHANGED <<browseVars, statsVars, queryVars>>
     \/ focus = "table" /\ BrowseNext /\ UNCHANGED <<vars, statsVars, queryVars>>
     \/ focus = "stats" /\ StatsNext /\ UNCHANGED <<vars, browseVars, queryVars>>
     \/ focus = "query" /\ QueryNext /\ UNCHANGED <<vars, browseVars, statsVars>>
  /\ UNCHANGED focus

PagesSpec == PagesInit /\ [][PagesNext]_<<vars, browseVars, statsVars, queryVars, focus>>

Interchangeable == Permutations(ThreeRows) \cup Permutations(TwoKeys)
=============================================================================
