--------------------------- MODULE WorkbookImport ---------------------------
(***************************************************************************)
(* What a workbook import does to the ledger (services/importer.py, and    *)
(* the holdings' identity index of db/models.py).                          *)
(*                                                                         *)
(* A transaction row is known again by its source_ref, the hash of its     *)
(* content and its ordinal among equal rows, or because the ledger already *)
(* has that many rows of the same content.  A holding row is known again   *)
(* by its sheet and row number or by its identity.  Between imports users  *)
(* edit, add and delete, and rows of the workbook move.                    *)
(***************************************************************************)
EXTENDS Integers, Sequences, FiniteSets, SequencesExt

CONSTANTS Content,   \* contents of a transaction: all that its hash covers
          Cell,      \* rows of the holding sheets: [sheet, name, quantity, cost, total]
          MaxTx,     \* bound: transactions ever created
          MaxHolding,\* bound: holdings ever created
          MaxSheet,  \* bound: rows of a sheet
          MaxImport, \* bound: imports
          MaxChange, \* bound: user edits
          Nil

ASSUME WorkbookAssumption ==
    /\ \A n \in {MaxTx, MaxHolding, MaxSheet, MaxImport, MaxChange} : n \in Nat
    /\ Nil \notin Content
    /\ \A c \in Cell : c.sheet \in {"stock", "cash", "pension", "estate"} /\ {c.quantity, c.cost, c.total} \subseteq Nat

VARIABLES ledger,     \* the transactions, [content, named, ref]
          holdings,   \* the committed holdings, [key, value, ref]
          imp,        \* the import under way; updated: the holdings its report counts
          uses        \* numbers of imports and user edits, for the bounds

workbookVars == <<ledger, holdings, imp, uses>>

Holding == 1 .. MaxHolding
NoHolding == [key |-> Nil, value |-> Nil, ref |-> Nil]
Idle == [step |-> "idle"]

Held(h) == {x \in Holding : h[x] # NoHolding}
Copies(t, c) == {i \in DOMAIN t : t[i].named /\ t[i].content = c}

WorkbookInit ==
    /\ ledger = <<>>
    /\ holdings = [x \in Holding |-> NoHolding]
    /\ imp = Idle
    /\ uses = [imports |-> 0, changes |-> 0]

---------------------------------------------------------------------------
(* Transactions                                                            *)

\* _parse_transactions: equal rows are numbered; a row without a date or a
\* whole amount has the content Nil.
ParsedTransactions(sheet) ==
    [i \in DOMAIN sheet |-> [content |-> sheet[i], ordinal |-> Cardinality({j \in 1 .. i : sheet[j] = sheet[i]})]]

SourceRef(row) == <<row.content, row.ordinal>>

MutantByCount(t, row) == row.ordinal <= Cardinality(Copies(t, row.content))

\* A row that was imported before, or as many rows like it as are needed.
AlreadyThere(t, row) ==
    \/ \E i \in DOMAIN t : t[i].ref = SourceRef(row)
    \/ row.ordinal <= Cardinality(Copies(t, row.content))

TransactionOf(row) == [content |-> row.content, named |-> TRUE, ref |-> SourceRef(row)]

\* One round of _apply_transactions: the row is left out, or added and flushed.
ApplyTransaction ==
    /\ imp.step = "rows" /\ imp.line <= Len(imp.sheet)
    /\ LET row == imp.sheet[imp.line]
       IN  \/ /\ row.content = Nil \/ AlreadyThere(imp.ledger, row)
              /\ imp' = [imp EXCEPT !.line = @ + 1]
           \/ /\ row.content # Nil /\ ~ AlreadyThere(imp.ledger, row)
              /\ Len(imp.ledger) < MaxTx
              /\ imp' = [imp EXCEPT !.line = @ + 1, !.ledger = Append(@, TransactionOf(row))]
    /\ UNCHANGED <<ledger, holdings, uses>>

---------------------------------------------------------------------------
(* Parsing of holdings: a holding, or NoHolding for a row that is left out *)

\* _holding_key; owner and account are the same for all.
HoldingKey(c, name) == <<c.sheet, name>>

AsHolding(c, name, quantity, cost, i) == [key |-> HoldingKey(c, name), value |-> <<quantity, cost>>, ref |-> <<c.sheet, i>>]

\* _parse_stock_holdings: the unit price, or the sum paid divided by the quantity.
StockHolding(c, i) ==
    IF c.name = Nil \/ c.quantity = 0 \/ c.cost + c.total = 0 THEN NoHolding
    ELSE AsHolding(c, c.name, c.quantity, IF c.cost > 0 THEN c.cost ELSE c.total \div c.quantity, i)

\* _parse_cash_holdings
CashHolding(c, i) == IF c.name = Nil \/ c.total = 0 THEN NoHolding ELSE AsHolding(c, c.name, 1, c.total, i)

\* _parse_pension_holdings: a fund with a quantity, or an amount.
PensionHolding(c, i) ==
    IF c.total = 0 THEN NoHolding
    ELSE IF c.name # Nil /\ c.quantity > 0 THEN AsHolding(c, c.name, c.quantity, c.total \div c.quantity, i)
    ELSE AsHolding(c, c.name, 1, c.total, i)

\* _parse_real_estate_holdings: the row's number is part of its symbol; a
\* repeated row is left out.
EstateHolding(cells, i) ==
    IF cells[i].name = Nil \/ cells[i].total = 0 \/ \E j \in 1 .. i - 1 : cells[j] = cells[i] THEN NoHolding
    ELSE AsHolding(cells[i], <<cells[i].name, i>>, 1, cells[i].total, i)

\* _parse_holdings
ParsedHoldings(cells) ==
    [i \in DOMAIN cells |->
        CASE cells[i].sheet = "stock" -> StockHolding(cells[i], i)
          [] cells[i].sheet = "cash" -> CashHolding(cells[i], i)
          [] cells[i].sheet = "pension" -> PensionHolding(cells[i], i)
          [] cells[i].sheet = "estate" -> EstateHolding(cells, i)]

---------------------------------------------------------------------------
(* Applying holdings                                                       *)

\* run: the sheets are parsed and the existing rows loaded; then the rows of
\* the transaction sheets are applied, and those of the holding sheets.
ImportBegin(sheet, cells) ==
    /\ imp = Idle /\ uses.imports < MaxImport
    /\ imp' = [step |-> "rows", sheet |-> ParsedTransactions(sheet), line |-> 1, ledger |-> ledger,
               rows |-> ParsedHoldings(cells), row |-> 1, session |-> holdings, database |-> holdings, updated |-> 0,
               byRef |-> {<<holdings[x].ref, x>> : x \in {y \in Held(holdings) : holdings[y].ref # Nil}},
               byKey |-> {<<holdings[x].key, x>> : x \in Held(holdings)}]
    /\ uses' = [uses EXCEPT !.imports = @ + 1]
    /\ UNCHANGED <<ledger, holdings>>

\* A dictionary as a set of pairs.
Lookup(dict, k) == {x \in Holding : <<k, x>> \in dict}
Put(dict, k, x) == {p \in dict : p[1] # k} \cup {<<k, x>>}

\* Writing the changed objects in the order of their primary keys, which are
\* random: uq_holding_identity is checked at every statement.
Statement(db, x, new) == IF \E y \in Holding \ {x} : db[y].key = new[x].key THEN <<>> ELSE [db EXCEPT ![x] = new[x]]

Written(db, new, order) ==
    FoldLeft(LAMBDA acc, x : IF acc = <<>> THEN acc ELSE Statement(acc, x, new), db, order)

Dirty(i, new) == {x \in Holding : i.database[x] # new[x]}

\* Some order is accepted; some order is refused.
Flush(i, new) == \E order \in SetToSeqs(Dirty(i, new)) : Written(i.database, new, order) # <<>>
FlushFails(i, new) == \E order \in SetToSeqs(Dirty(i, new)) : Written(i.database, new, order) = <<>>

SheetRow == imp.rows[imp.row]

\* The holding a row belongs to: by source_ref first, by identity otherwise.
Match == IF Lookup(imp.byRef, SheetRow.ref) # {} THEN Lookup(imp.byRef, SheetRow.ref) ELSE Lookup(imp.byKey, SheetRow.key)

MoreRows == imp.step = "rows" /\ imp.line > Len(imp.sheet) /\ imp.row <= Len(imp.rows)
AllApplied == imp.step = "rows" /\ imp.line > Len(imp.sheet) /\ imp.row > Len(imp.rows)

SkipRow ==
    /\ MoreRows /\ SheetRow = NoHolding
    /\ imp' = [imp EXCEPT !.row = @ + 1]
    /\ UNCHANGED <<ledger, holdings, uses>>

Fresh == CHOOSE x \in Holding : imp.session[x] = NoHolding
WithNew == [imp.session EXCEPT ![Fresh] = SheetRow]

\* A new holding is added and flushed, with the updates made so far.
AddRow ==
    /\ MoreRows /\ SheetRow # NoHolding /\ Match = {}
    /\ \E x \in Holding : imp.session[x] = NoHolding
    /\ Flush(imp, WithNew)
    /\ imp' = [imp EXCEPT !.row = @ + 1, !.session = WithNew, !.database = WithNew, !.updated = @ + 1,
                  !.byKey = Put(@, SheetRow.key, Fresh), !.byRef = Put(@, SheetRow.ref, Fresh)]
    /\ UNCHANGED <<ledger, holdings, uses>>

MutantKeepOld ==
    /\ MoreRows /\ SheetRow # NoHolding
    /\ \E x \in Match :
          imp' = [imp EXCEPT !.row = @ + 1, !.session[x] = SheetRow,
                     !.updated = @ + (IF SheetRow = imp.session[x] THEN 0 ELSE 1),
                     !.byKey = Put(@, SheetRow.key, x),
                     !.byRef = Put(@, SheetRow.ref, x)]
    /\ UNCHANGED <<ledger, holdings, uses>>

\* A known holding takes over the row; its old identity is forgotten, its old
\* source_ref is not.
UpdateRow ==
    /\ MoreRows /\ SheetRow # NoHolding
    /\ \E x \in Match :
          imp' = [imp EXCEPT !.row = @ + 1, !.session[x] = SheetRow,
                     !.updated = @ + (IF SheetRow = imp.session[x] THEN 0 ELSE 1),
                     !.byKey = Put(IF imp.session[x].key = SheetRow.key THEN @ ELSE @ \ {<<imp.session[x].key, x>>}, SheetRow.key, x),
                     !.byRef = Put(@, SheetRow.ref, x)]
    /\ UNCHANGED <<ledger, holdings, uses>>

ImportCommit ==
    /\ AllApplied
    /\ Flush(imp, imp.session)
    /\ ledger' = imp.ledger
    /\ holdings' = imp.session
    /\ imp' = Idle
    /\ UNCHANGED uses

\* An IntegrityError, at a flush or at the commit, rolls everything back.
ImportFails ==
    /\ \/ AllApplied /\ FlushFails(imp, imp.session)
       \/ MoreRows /\ SheetRow # NoHolding /\ Match = {} /\ (\E x \in Holding : imp.session[x] = NoHolding) /\ FlushFails(imp, WithNew)
    /\ imp' = Idle
    /\ UNCHANGED <<ledger, holdings, uses>>

---------------------------------------------------------------------------
(* Users, between imports                                                  *)

UserMayAct ==
    /\ imp = Idle /\ uses.changes < MaxChange
    /\ uses' = [uses EXCEPT !.changes = @ + 1]
    /\ UNCHANGED imp

AddTransaction(c) ==
    /\ UserMayAct /\ Len(ledger) < MaxTx
    /\ ledger' = Append(ledger, [content |-> c, named |-> TRUE, ref |-> Nil])
    /\ UNCHANGED holdings

\* Editing a column, or renaming its category, changes the hash.
EditTransaction(i, c) ==
    /\ UserMayAct /\ i \in DOMAIN ledger
    /\ ledger' = [ledger EXCEPT ![i].content = c]
    /\ UNCHANGED holdings

\* Without a category a row has no hash.
ClearCategory(i) ==
    /\ UserMayAct /\ i \in DOMAIN ledger
    /\ ledger' = [ledger EXCEPT ![i].named = FALSE]
    /\ UNCHANGED holdings

RemoveTransaction(i) ==
    /\ UserMayAct /\ i \in DOMAIN ledger
    /\ ledger' = RemoveAt(ledger, i)
    /\ UNCHANGED holdings

\* _find_duplicate_holding
DuplicateHolding(x, key) == \E y \in Holding \ {x} : holdings[y].key = key

\* create_holding and patch_holding keep identities unique (409).
WriteHolding(x, key, value) ==
    /\ UserMayAct
    /\ ~ DuplicateHolding(x, key)
    /\ holdings' = [holdings EXCEPT ![x] = [key |-> key, value |-> value, ref |-> @.ref]]
    /\ UNCHANGED ledger

DeleteHolding(x) ==
    /\ UserMayAct /\ x \in Held(holdings)
    /\ holdings' = [holdings EXCEPT ![x] = NoHolding]
    /\ UNCHANGED ledger

Sheets == SeqOf(Content \cup {Nil}, MaxSheet)
HoldingSheets == SeqOf(Cell, MaxSheet)
Parsed == {ParsedHoldings(<<c>>)[1] : c \in Cell} \ {NoHolding}

WorkbookNext ==
    \/ \E sheet \in Sheets : ImportBegin(sheet, <<>>)
    \/ \E cells \in HoldingSheets : ImportBegin(<<>>, cells)
    \/ ApplyTransaction \/ SkipRow \/ AddRow \/ UpdateRow \/ ImportCommit \/ ImportFails
    \/ \E c \in Content : AddTransaction(c)
    \/ \E i \in 1 .. MaxTx : ClearCategory(i) \/ RemoveTransaction(i) \/ \E c \in Content : EditTransaction(i, c)
    \/ \E x \in Holding : DeleteHolding(x) \/ \E h \in Parsed : WriteHolding(x, h.key, h.value)

---------------------------------------------------------------------------
(* Properties                                                              *)

\* No two transactions get one source_ref, so an import after edits is not
\* refused by the unique index.
ImportedOnce ==
    \A i, j \in DOMAIN ledger : i # j /\ ledger[i].ref = ledger[j].ref => ledger[i].ref = Nil

\* After an import every row of the sheet is a holding, unless a later row has
\* the same identity or took the holding over by its former row number.
HoldingsFollowSheet ==
    [][ImportCommit =>
          \A i \in DOMAIN imp.rows :
              imp.rows[i] = NoHolding
              \/ (\E x \in Holding : holdings'[x].key = imp.rows[i].key /\ holdings'[x].value = imp.rows[i].value)
              \/ \E j \in i + 1 .. Len(imp.rows) :
                    \/ imp.rows[j].key = imp.rows[i].key
                    \/ \E x \in Holding : holdings[x].ref = imp.rows[j].ref /\ holdings[x].key = imp.rows[i].key]_workbookVars
===========================================================================
