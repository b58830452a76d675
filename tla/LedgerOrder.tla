---------------------------- MODULE LedgerOrder ----------------------------
(***************************************************************************)
(* The order of a household's transactions and paging through it           *)
(* (backend/app/api/routes/transactions.py).                               *)
(*                                                                         *)
(* Rows are numbered in the order of created_at.  A row's place in its day *)
(* is its order_key.  Appending reads the largest key without a lock;      *)
(* inserting beside an anchor locks the rows of the day, takes the middle  *)
(* of a gap or renumbers the day when there is none.  A waiting SELECT ... *)
(* FOR UPDATE keeps the rows and the order of its snapshot, but sees the   *)
(* committed keys (READ COMMITTED).  A reader pages through history with   *)
(* a cursor while all this goes on.                                        *)
(***************************************************************************)
EXTENDS Integers, Sequences, FiniteSets, SequencesExt, Ranks

CONSTANTS Writer,    \* requests that write
          MaxRow,    \* bound: rows ever created
          MaxKey,    \* bound: largest key an append may take
          MaxEdit,   \* bound: moves and deletions
          Day,       \* days, a set of naturals
          Step,      \* _TRANSACTION_ORDER_STEP
          Limit      \* rows per page

ASSUME LedgerAssumption ==
    /\ Day \subseteq Nat /\ MaxRow \in Nat /\ MaxKey \in Nat /\ MaxEdit \in Nat
    /\ Step \in Nat \ {0} /\ Limit \in Nat \ {0}

VARIABLES tx,       \* the committed rows
          created,  \* number of rows begun
          edits,    \* number of moves and deletions, for the bound
          w,        \* the writers
          reader    \* the reader of the history

ledgerVars == <<tx, created, edits, w, reader>>

RowId == 1 .. MaxRow
NoTx == [day |-> -1, key |-> 0]
Resting == [step |-> "rest", row |-> 0, day |-> -1, anchor |-> 0, where |-> "above", rows |-> <<>>, held |-> {}, key |-> 0, renumbered |-> <<>>, current |-> TRUE]
NoReader == [step |-> "rest", forward |-> FALSE, cursor |-> 0, at |-> NoTx, seen |-> <<>>, steady |-> {}]
NoRoom == -1
NoRow == -2

Rows(t) == {x \in RowId : t[x] # NoTx}
RowsOf(t, day) == {x \in Rows(t) : t[x].day = day}

\* _history_ordering_asc, _same_day_ordering: day, key, creation.
Before(t, x, y) ==
    \/ t[x].day < t[y].day
    \/ t[x].day = t[y].day /\ t[x].key < t[y].key
    \/ t[x].day = t[y].day /\ t[x].key = t[y].key /\ x < y

Ordered(t, S) == Sorted(S, {p \in S \X S : Before(t, p[1], p[2])})

\* The rows S of the sequence s, as they come in s.
Within(s, S) == Sorted(S, {p \in S \X S : \E i, j \in DOMAIN s : i < j /\ s[i] = p[1] /\ s[j] = p[2]})

MaxKeyOf(S) == IF S = {} THEN 0 ELSE Max({tx[x].key : x \in S})

LedgerInit ==
    /\ \E n \in 0 .. 2, day \in Day, key \in {<<Step, 2 * Step>>, <<1, 2>>, <<Step, Step>>} :
          \* rows appended one after the other, without room between them, and at once
          /\ tx = [x \in RowId |-> IF x <= n THEN [day |-> day, key |-> key[x]] ELSE NoTx]
          /\ created = n
    /\ edits = 0
    /\ w = [r \in Writer |-> Resting]
    /\ reader = NoReader

Free(r, S) == \A q \in Writer \ {r} : w[q].held \cap S = {}
Done(r) == w' = [w EXCEPT ![r] = Resting]

\* What a write rewrites is no longer steady for the reader.
Rewrites(S) == reader' = [reader EXCEPT !.steady = @ \ S]

---------------------------------------------------------------------------
(* Creating and moving                                                     *)

\* _next_append_order_key
NextAppendKey(day, x) == MaxKeyOf(RowsOf(tx, day) \ {x}) + Step

AppendRead(r, day) ==
    /\ w[r] = Resting /\ created < MaxRow
    /\ NextAppendKey(day, 0) <= MaxKey
    /\ created' = created + 1
    /\ w' = [w EXCEPT ![r] = [Resting EXCEPT !.step = "append", !.row = created', !.day = day, !.key = NextAppendKey(day, 0)]]
    /\ UNCHANGED <<tx, edits, reader>>

AppendCommit(r) ==
    /\ w[r].step = "append"
    /\ tx' = [tx EXCEPT ![w[r].row] = [day |-> w[r].day, key |-> w[r].key]]
    /\ Done(r)
    /\ UNCHANGED <<created, edits, reader>>

\* Patching occurred_on: the row is locked, and appended to its new day.
MoveRead(r, x, day) ==
    /\ w[r] = Resting /\ edits < MaxEdit
    /\ edits' = edits + 1
    /\ x \in Rows(tx) /\ tx[x].day # day /\ Free(r, {x})
    /\ NextAppendKey(day, x) <= MaxKey
    /\ w' = [w EXCEPT ![r] = [Resting EXCEPT !.step = "move", !.row = x, !.day = day, !.held = {x}, !.key = NextAppendKey(day, x)]]
    /\ UNCHANGED <<tx, created, reader>>

MoveCommit(r) ==
    /\ w[r].step = "move"
    /\ tx' = [tx EXCEPT ![w[r].row] = [day |-> w[r].day, key |-> w[r].key]]
    /\ Rewrites({w[r].row})
    /\ Done(r)
    /\ UNCHANGED <<created, edits>>

---------------------------------------------------------------------------
(* Inserting above or below an anchor                                      *)

\* _same_day_transactions begins: the snapshot of the day, in its order.
InsertBegin(r, x, where) ==
    /\ w[r] = Resting /\ created < MaxRow
    /\ x \in Rows(tx)
    /\ created' = created + 1
    /\ w' = [w EXCEPT ![r] = [Resting EXCEPT !.step = "lock", !.row = created', !.day = tx[x].day, !.anchor = x, !.where = where,
                  !.rows = Ordered(tx, RowsOf(tx, tx[x].day))]]
    /\ UNCHANGED <<tx, edits, reader>>

\* The keys this writer sees: the committed ones and those it has renumbered.
Seen(r) == [x \in RowId |-> IF x \in DOMAIN w[r].renumbered THEN [tx[x] EXCEPT !.key = w[r].renumbered[x]] ELSE tx[x]]

MutantNoGap(low, high) == IF high = NoRow THEN low + Step ELSE low + ((high - low) \div 2)

\* _midpoint_or_rebalance: NoRoom when there is no key between the neighbours.
Midpoint(low, high) ==
    IF high = NoRow THEN low + Step ELSE IF high - low > 1 THEN low + ((high - low) \div 2) ELSE NoRoom

\* The key beside the anchor among rows in this order (_allocate_order_key).
KeyBeside(r, rows) ==
    LET i == CHOOSE j \in DOMAIN rows : rows[j] = w[r].anchor
        low == IF w[r].where = "above" THEN i - 1 ELSE i
        key(j, none) == IF j \in DOMAIN rows THEN Seen(r)[rows[j]].key ELSE none
    IN  Midpoint(key(low, 0), key(low + 1, NoRow))

\* The rows the day has now, in order, all of them free to be locked.
DayNow(r) == Ordered(Seen(r), RowsOf(Seen(r), w[r].day))

\* The snapshot's rows that still belong to the day are locked.
InsertLock(r) ==
    LET rows == Within(w[r].rows, {x \in ToSet(w[r].rows) : tx[x].day = w[r].day})
        key == KeyBeside(r, rows)
    IN  /\ w[r].step = "lock"
        /\ w[r].anchor \in ToSet(rows)
        /\ Free(r, ToSet(rows))
        /\ w' = [w EXCEPT ![r].step = IF key = NoRoom THEN "rebalance" ELSE "insert", ![r].held = ToSet(rows), ![r].key = key,
                     ![r].current = rows = Ordered(tx, ToSet(rows))]
        /\ UNCHANGED <<tx, created, edits, reader>>

MutantByCreation(r) ==
    LET rows == SetToSortSeq(RowsOf(tx, w[r].day), LAMBDA x, y : x < y)
    IN  /\ w[r].step = "rebalance"
        /\ Free(r, ToSet(rows))
        /\ w' = [w EXCEPT ![r].step = "again", ![r].held = ToSet(rows),
                     ![r].renumbered = [x \in ToSet(rows) |-> Step * CHOOSE i \in DOMAIN rows : rows[i] = x]]
        /\ UNCHANGED <<tx, created, edits, reader>>

\* _rebalance_order_keys reads the day once more and renumbers what it finds.
Rebalance(r) ==
    LET rows == DayNow(r)
    IN  /\ w[r].step = "rebalance"
        /\ Free(r, ToSet(rows))
        /\ w' = [w EXCEPT ![r].step = "again", ![r].held = ToSet(rows),
                     ![r].renumbered = [x \in ToSet(rows) |-> Step * CHOOSE i \in DOMAIN rows : rows[i] = x]]
        /\ UNCHANGED <<tx, created, edits, reader>>

\* The second round also sees rows committed since; when there is still no
\* room the request fails.
InsertAgain(r) ==
    LET rows == DayNow(r)
        key == KeyBeside(r, rows)
    IN  /\ w[r].step = "again"
        /\ Free(r, ToSet(rows))
        /\ IF key = NoRoom
           THEN Done(r)
           ELSE w' = [w EXCEPT ![r].step = "insert", ![r].held = ToSet(rows), ![r].key = key, ![r].current = TRUE]
        /\ UNCHANGED <<tx, created, edits, reader>>

\* The anchor is gone or on another day.
AnchorMissing(r) ==
    /\ w[r].step = "lock"
    /\ tx[w[r].anchor].day # w[r].day
    /\ Done(r)
    /\ UNCHANGED <<tx, created, edits, reader>>

InsertCommit(r) ==
    /\ w[r].step = "insert"
    /\ tx' = [Seen(r) EXCEPT ![w[r].row] = [day |-> w[r].day, key |-> w[r].key]]
    /\ Rewrites(DOMAIN w[r].renumbered)
    /\ Done(r)
    /\ UNCHANGED <<created, edits>>

---------------------------------------------------------------------------
(* Deleting                                                                *)

\* bulk_delete_transactions: all rows are found and locked, or none is deleted.
BulkDelete(S) ==
    /\ edits < MaxEdit /\ edits' = edits + 1
    /\ S # {} /\ S \subseteq Rows(tx)
    /\ \A r \in Writer : w[r].held \cap S = {}
    /\ tx' = [x \in RowId |-> IF x \in S THEN NoTx ELSE tx[x]]
    /\ Rewrites(S)
    /\ UNCHANGED <<created, w>>

DeleteTransaction(x) == BulkDelete({x})

---------------------------------------------------------------------------
(* Paging                                                                  *)

MutantOlder(x) ==
    \/ tx[x].day < reader.at.day
    \/ tx[x].day = reader.at.day /\ tx[x].key < reader.at.key

\* _older_than_cursor: the cursor keeps the row's place as it was when the
\* page was made.
Older(x) ==
    \/ tx[x].day < reader.at.day
    \/ tx[x].day = reader.at.day /\ tx[x].key < reader.at.key
    \/ tx[x].day = reader.at.day /\ tx[x].key = reader.at.key /\ x < reader.cursor

\* _newer_than_cursor
Newer(x) == ~ Older(x) /\ ~ (x = reader.cursor /\ tx[x] = reader.at)

\* The first page is the newest; reading on needs a cursor.
ReadBegin ==
    /\ reader.step = "rest"
    /\ reader' = [NoReader EXCEPT !.step = "first", !.steady = Rows(tx)]
    /\ UNCHANGED <<tx, created, edits, w>>

\* From a row already on the screen towards the present.
ReadForward(x) ==
    /\ reader.step = "rest"
    /\ x \in Rows(tx)
    /\ reader' = [NoReader EXCEPT !.step = "next", !.forward = TRUE, !.cursor = x, !.at = tx[x],
                     !.steady = {y \in Rows(tx) : Before(tx, x, y)}]
    /\ UNCHANGED <<tx, created, edits, w>>

\* A page of at most Limit rows in reading order; the last one is the cursor.
ReadPage ==
    LET found == {x \in Rows(tx) : reader.step = "next" => IF reader.forward THEN Newer(x) ELSE Older(x)}
        rows == IF reader.forward THEN Ordered(tx, found) ELSE Reverse(Ordered(tx, found))
        page == SubSeq(rows, 1, IF Len(rows) < Limit THEN Len(rows) ELSE Limit)
        more == Len(rows) > Limit
    IN  /\ reader.step \in {"first", "next"}
        /\ reader' = [reader EXCEPT !.step = IF more THEN "next" ELSE "end", !.seen = @ \o page,
                         !.cursor = IF page = <<>> THEN @ ELSE Last(page),
                         !.at = IF page = <<>> THEN @ ELSE tx[Last(page)]]
        /\ UNCHANGED <<tx, created, edits, w>>

\* A writer gives up: it failed, or the database chose it as a deadlock victim.
Rollback(r) ==
    /\ w[r].step \in {"lock", "rebalance", "again", "insert", "move"}
    /\ Done(r)
    /\ UNCHANGED <<tx, created, edits, reader>>

LedgerNext ==
    \/ \E r \in Writer :
          \/ AppendCommit(r) \/ MoveCommit(r) \/ InsertLock(r) \/ Rebalance(r) \/ InsertAgain(r) \/ AnchorMissing(r) \/ InsertCommit(r) \/ Rollback(r)
          \/ \E day \in Day : AppendRead(r, day)
          \/ \E x \in RowId, day \in Day : MoveRead(r, x, day)
          \/ \E x \in RowId, where \in {"above", "below"} : InsertBegin(r, x, where)
    \/ \E x \in RowId : DeleteTransaction(x) \/ ReadForward(x)
    \/ \E S \in SUBSET RowId : Cardinality(S) = 2 /\ BulkDelete(S)
    \/ ReadBegin \/ ReadPage

LedgerSpec == LedgerInit /\ [][LedgerNext]_ledgerVars

---------------------------------------------------------------------------
(* Properties                                                              *)

\* When an insert commits, the new row is on the asked side of its anchor and
\* no row that was known to it lies between them - also when keys were equal,
\* when the day had to be renumbered and when others appended meanwhile.  An
\* insert whose snapshot was in an order that other requests had changed by
\* the time it had its locks is excepted (current).
LandsBesideAnchor ==
    [][\A r \in Writer : (w[r].step = "insert" /\ w[r].current /\ tx'[w[r].row] # tx[w[r].row]) =>
          LET new == w[r].row
              a == w[r].anchor
              InOrder(x, y) == IF w[r].where = "below" THEN Before(tx', x, y) ELSE Before(tx', y, x)
          IN  /\ InOrder(a, new)
              /\ \A y \in w[r].held \ {a} : ~ (InOrder(a, y) /\ InOrder(y, new))]_ledgerVars

\* Two rows of a day that nobody moved keep their order, unless a renumbering
\* did not know one of them: a row it had not seen when it took its locks.
OrderIsKept ==
    [][\A x, y \in RowId :
          (x # y /\ {x, y} \subseteq Rows(tx) /\ Before(tx, x, y) /\ {x, y} \subseteq Rows(tx') /\ tx'[x].day = tx[x].day /\ tx'[y].day = tx[y].day)
             => \/ Before(tx', x, y)
                \/ \E r \in Writer : w[r].step = "insert" /\ ({x, y} \cap DOMAIN w[r].renumbered) \notin {{}, {x, y}}]_ledgerVars

\* Whoever pages to the end sees every row that stayed where it was exactly
\* once, whatever was created, moved, renumbered or deleted beside it.
ReadsEachOnce ==
    \A x \in reader.steady :
        LET times == Cardinality({i \in DOMAIN reader.seen : reader.seen[i] = x})
        IN  times <= 1 /\ (reader.step = "end" => times = 1)
===========================================================================
