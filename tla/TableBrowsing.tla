---------------------------- MODULE TableBrowsing ----------------------------
(***************************************************************************)
(* The page that shows a table (handleBrowse, internal/web/handlers.go) and *)
(* the edits sent from it.  A page shows rows by their place in the table   *)
(* and edits them later by the value of one column, the key column, while   *)
(* other users of the server change the table.                              *)
(***************************************************************************)
EXTENDS Integers, Sequences, FiniteSets, SequencesExt

CONSTANTS RowIds,     \* rows, whatever their columns hold
          Keys,       \* what the key column may hold besides Null
          Null,
          Unread,     \* a parameter queryInt cannot read
          MaxLimit, DefaultLimit, MaxLinks,
          Params,     \* values of ?limit= and ?offset=
          MaxEdits

ASSUME BrowseAssumption ==
  /\ IsFiniteSet(RowIds) /\ Null \notin Keys
  /\ MaxLimit \in Nat /\ DefaultLimit \in 1..MaxLimit /\ MaxLinks \in Nat \ {0}
  /\ Params \subseteq Int /\ Unread \notin Int
  /\ MaxEdits \in Nat

VARIABLES kind,       \* "single": a primary key of one column; "first": of
                      \* several, or none: the first of them may repeat
          rows,       \* the rows in the table's order
          keyOf,      \* what their key column holds
          edited,     \* rows somebody's form has been written to
          page,       \* what the browser shows
          hit,        \* history: row an edit was meant for, rows it changed
          moved,      \* history: keys that changed hands since the page
          edits
browseVars == <<kind, rows, keyOf, edited, page, hit, moved, edits>>

InTable   == {rows[n] : n \in 1..Len(rows)}
WithKey(k) == {r \in InTable : keyOf[r] = k /\ k # Null}
NoPage    == [limit |-> DefaultLimit, offset |-> 0, shown |-> <<>>, links |-> <<>>]

BrowseTypeOK ==
  /\ kind \in {"single", "first"}
  /\ InTable \subseteq RowIds /\ Cardinality(InTable) = Len(rows)
  /\ keyOf \in [RowIds -> Keys \cup {Null}]
  /\ edited \subseteq RowIds
  /\ page.limit \in 1..MaxLimit
  /\ Len(page.shown) <= page.limit
  /\ Len(page.links) <= MaxLinks
  /\ hit.meant \subseteq RowIds /\ hit.changed \subseteq RowIds
  /\ moved \subseteq Keys
  /\ edits \in 0..MaxEdits

(* A primary key of one column has no value twice and no Null.              *)
KeysFit(r, k) == kind = "single" => k # Null /\ WithKey(k) \ {r} = {}

BrowseInit ==
  /\ kind \in {"single", "first"}
  /\ rows \in {s \in UNION {[1..n -> RowIds] : n \in 0..Cardinality(RowIds)} :
                 \A m, n \in DOMAIN s : m # n => s[m] # s[n]}
  /\ keyOf \in {f \in [RowIds -> Keys \cup {Null}] : \A r \in RowIds \ InTable : f[r] = Null}
  /\ \A r \in InTable : KeysFit(r, keyOf[r])
  /\ edited = {} /\ page = NoPage
  /\ hit = [meant |-> {}, changed |-> {}] /\ moved = {} /\ edits = 0

-----------------------------------------------------------------------------
(* Slip: no upper bound.                                                    *)
LimitUnbounded(raw) == IF raw = Unread \/ raw <= 0 THEN DefaultLimit ELSE raw

(* ?limit=, between 1 and MaxLimit.                                         *)
Limit(raw) == IF raw = Unread \/ raw <= 0 \/ raw > MaxLimit THEN DefaultLimit ELSE raw
Offset(raw) == IF raw = Unread THEN 0 ELSE raw

(* LIMIT and OFFSET; MySQL refuses a negative offset, and the page shows    *)
(* its message instead of rows.                                             *)
Slice(limit, offset) ==
  IF offset < 0 THEN <<>> ELSE SubSeq(rows, offset + 1,
    IF offset + limit < Len(rows) THEN offset + limit ELSE Len(rows))

(* Slip: one link too few.                                                  *)
LinksShort(limit, offset) ==
  LET pages == {n \in 1..MaxLinks : n * limit < Len(rows)}
  IN  [n \in 1..Cardinality(pages) |->
         [offset |-> (n - 1) * limit, active |-> (n - 1) * limit = offset]]

(* The loop over i stops at the end of the table or after MaxLinks links.   *)
Links(limit, offset) ==
  LET pages == {n \in 1..MaxLinks : (n - 1) * limit < Len(rows)}
  IN  [n \in 1..Cardinality(pages) |->
         [offset |-> (n - 1) * limit, active |-> (n - 1) * limit = offset]]

(* Columns, count and rows are three queries; that another user changes the *)
(* table between them is left out.  The key column is the first with "PRI", *)
(* or else the first.                                                       *)
Browse(rawLimit, rawOffset) ==
  LET limit == Limit(rawLimit)  offset == Offset(rawOffset) IN
  /\ page' = [limit |-> limit, offset |-> offset,
              shown |-> [n \in 1..Len(Slice(limit, offset)) |->
                           [row |-> Slice(limit, offset)[n],
                            key |-> keyOf[Slice(limit, offset)[n]]]],
              links |-> Links(limit, offset)]
  /\ moved' = {} /\ hit' = [meant |-> {}, changed |-> {}]
  /\ UNCHANGED <<kind, rows, keyOf, edited, edits>>

Edit == edits < MaxEdits /\ edits' = edits + 1

(* An edit finds its rows by the text the page shows; Null is shown as      *)
(* "NULL", which is equal to no Null.                                       *)
Found(n) == WithKey(page.shown[n].key)

(* Slip: the row is found by what the form has for its key.                 *)
RowUpdateByForm(n, k) ==
  /\ Edit
  /\ edited' = edited \cup WithKey(k)
  /\ hit' = [meant |-> {page.shown[n].row}, changed |-> WithKey(k)]
  /\ UNCHANGED <<kind, rows, keyOf, page, moved>>

(* UpdateRow writes every column of the form, the key column with them,     *)
(* which may be left as it was.                                             *)
RowUpdate(n, k) ==
  /\ Edit
  /\ IF kind = "single" /\ Found(n) # {} /\ WithKey(k) \ Found(n) # {}
     THEN hit' = [meant |-> {}, changed |-> {}]  \* duplicate entry
          /\ UNCHANGED <<keyOf, edited, moved>>
     ELSE /\ keyOf' = [r \in RowIds |-> IF r \in Found(n) THEN k ELSE keyOf[r]]
          /\ edited' = edited \cup Found(n)
          /\ hit' = [meant |-> {page.shown[n].row}, changed |-> Found(n)]
          /\ moved' = IF Found(n) = {} \/ k = page.shown[n].key
                      THEN moved ELSE moved \cup {page.shown[n].key, k}
  /\ UNCHANGED <<kind, rows, page>>

(* Slip: the row is found by its place on the page.                         *)
RowDeletePlace(n) ==
  /\ Edit
  /\ \E place \in {page.offset + n} \cap 1..Len(rows) :
       /\ rows' = RemoveAt(rows, place)
       /\ hit' = [meant |-> {page.shown[n].row}, changed |-> {rows[place]}]
  /\ UNCHANGED <<kind, keyOf, edited, page, moved>>

(* DeleteRow, LIMIT 1: one of the rows found.                               *)
RowDelete(n) ==
  /\ Edit
  /\ IF Found(n) = {}
     THEN hit' = [meant |-> {page.shown[n].row}, changed |-> {}] /\ UNCHANGED rows
     ELSE \E place \in 1..Len(rows) :
            /\ rows[place] \in Found(n)
            /\ rows' = RemoveAt(rows, place)
            /\ hit' = [meant |-> {page.shown[n].row}, changed |-> {rows[place]}]
  /\ UNCHANGED <<kind, keyOf, edited, page, moved>>

(* InsertRow, from this page or another.                                    *)
RowInsert(r, k) ==
  /\ Edit
  /\ r \notin InTable /\ KeysFit(r, k)
  /\ \E place \in 1..Len(rows) + 1 : rows' = InsertAt(rows, place, r)
  /\ keyOf' = [keyOf EXCEPT ![r] = k]
  /\ moved' = moved \cup ({k} \ {Null})
  /\ hit' = [meant |-> {}, changed |-> {}]
  /\ UNCHANGED <<kind, edited, page>>

(* Another user of the server removes a row.                                *)
Elsewhere(place) ==
  /\ Edit
  /\ rows' = RemoveAt(rows, place)
  /\ hit' = [meant |-> {}, changed |-> {}]
  /\ UNCHANGED <<kind, keyOf, edited, page, moved>>

BrowseNext ==
  \/ \E l, o \in Params \cup {Unread} : Browse(l, o)
  \/ \E n \in 1..Len(page.shown) : RowDelete(n) \/ \E k \in Keys : RowUpdate(n, k)
  \/ \E r \in RowIds, k \in Keys \cup {Null} : RowInsert(r, k)
  \/ \E place \in 1..Len(rows) : Elsewhere(place)

BrowseSpec == BrowseInit /\ [][BrowseNext]_browseVars

-----------------------------------------------------------------------------
(* The links lead to every row, each to a page of its own, as long as there *)
(* are no more pages than links; at most one of them is the page shown      *)
(* (handleBrowse).                                                          *)
LinksLeadEverywhere ==
  edits = 0 /\ page # NoPage =>
    LET behind(n) == Slice(page.limit, page.links[n].offset)
        reached   == UNION {{behind(n)[m] : m \in 1..Len(behind(n))} : n \in DOMAIN page.links}
    IN  /\ Len(rows) <= MaxLinks * page.limit => reached = InTable
        /\ \A n \in DOMAIN page.links : behind(n) # <<>>
        /\ Cardinality({n \in DOMAIN page.links : page.links[n].active}) <= 1

(* "a row identified by pkCol=pkVal": with a primary key of one column an   *)
(* update or a delete changes the row that was shown and no other, however  *)
(* old the page is, unless the key shown for it has been given to or taken  *)
(* from a row since (UpdateRow, DeleteRow).                                 *)
EditsHitShownRow ==
  [][kind = "single" =>
       \A n \in 1..Len(page.shown) :
         hit'.meant = {page.shown[n].row} /\ page.shown[n].key \notin moved
           => hit'.changed \subseteq hit'.meant]_browseVars
=============================================================================
