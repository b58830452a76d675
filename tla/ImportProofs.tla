---------------------------- MODULE ImportProofs ----------------------------
(***************************************************************************)
(* Proofs about what imports write.                                        *)
(*                                                                         *)
(* WorkbookImport, for every workbook, every table of holdings and any     *)
(* edits of members between imports: a row is imported once and the        *)
(* holdings follow the sheets.  TossImport, for any lines, screenshots and *)
(* reviewers: rows stay together and what was included is entered.         *)
(***************************************************************************)
EXTENDS WorkbookImport, TossImport, FiniteSetTheorems, SequenceTheorems, TLAPS

---------------------------------------------------------------------------
(* WorkbookImport: types                                                   *)

\* The importer and the members, without fairness.
WorkbookSpec == WorkbookInit /\ [][WorkbookNext]_workbookVars

\* The values the parsers and the two tables hold.
SheetKind == {"stock", "cash", "pension", "estate"}
CellName == {c.name : c \in Cell}
SymbolOf == CellName \cup (CellName \X Nat)
KeyOf == SheetKind \X SymbolOf
RefOfRow == SheetKind \X Nat
Stored == [key : KeyOf \cup {Nil}, value : (Nat \X Nat) \cup {Nil}, ref : RefOfRow \cup {Nil}]
ParsedRow == [content : Content \cup {Nil}, ordinal : Nat]
LedgerRow == [content : Content, named : BOOLEAN, ref : (Content \X Nat) \cup {Nil}]

Count == Nat \ {0}
Ledgers == Seq(LedgerRow)
TransactionRows == Seq(ParsedRow)
HoldingRows == Seq(Stored)
HoldingTables == [Holding -> Stored]
RefTables == SUBSET (RefOfRow \X Holding)
KeyTables == SUBSET ((KeyOf \cup {Nil}) \X Holding)

\* An import under way.
Importing ==
    [step : {"rows"}, sheet : TransactionRows, line : Count, ledger : Ledgers,
     rows : HoldingRows, row : Count, session : HoldingTables, database : HoldingTables, updated : Nat,
     byRef : RefTables, byKey : KeyTables]

\* The type invariant of WorkbookImport.
WorkbookTypeOK ==
    /\ ledger \in Seq(LedgerRow)
    /\ holdings \in [Holding -> Stored]
    /\ imp \in {Idle} \cup Importing
    /\ uses \in [imports : Nat, changes : Nat]

---------------------------------------------------------------------------
\* A bounded sequence is a sequence.
LEMMA SeqOfIsSeq ==
    ASSUME NEW S, NEW n \in Nat, NEW s \in SeqOf(S, n)
    PROVE  s \in Seq(S)
<1>1. PICK m \in 0 .. n : s \in [1 .. m -> S]
  BY DEF SeqOf
<1> QED
  BY <1>1, SeqDef

\* Parsed transaction rows, with their occurrence number.
LEMMA ParsedTransactionsType ==
    ASSUME NEW sheet \in Seq(Content \cup {Nil})
    PROVE  ParsedTransactions(sheet) \in Seq(ParsedRow)
<1>1. ASSUME NEW i \in 1 .. Len(sheet)
      PROVE  Cardinality({j \in 1 .. i : sheet[j] = sheet[i]}) \in Nat
  <2>1. IsFiniteSet(1 .. i)
    BY FS_Interval
  <2>2. {j \in 1 .. i : sheet[j] = sheet[i]} \subseteq 1 .. i
    OBVIOUS
  <2> QED
    BY <2>1, <2>2, FS_Subset, FS_CardinalityType
<1>2. ParsedTransactions(sheet) \in [1 .. Len(sheet) -> ParsedRow]
  BY <1>1 DEF ParsedTransactions, ParsedRow
<1> QED
  BY <1>2, SeqDef

\* A parsed holding is known by its sheet and its row number.
LEMMA AsHoldingType ==
    ASSUME NEW c \in Cell, NEW name \in SymbolOf, NEW q \in Nat, NEW p \in Nat, NEW i \in Nat
    PROVE  AsHolding(c, name, q, p, i) \in Stored /\ AsHolding(c, name, q, p, i).ref = <<c.sheet, i>>
<1>1. c.sheet \in SheetKind
  BY WorkbookAssumption DEF SheetKind
<1> QED
  BY <1>1 DEF AsHolding, HoldingKey, Stored, KeyOf, RefOfRow

\* What a row of a sheet parses to: left out, or a holding that is known by
\* its sheet and its row number.
RowParsed(h, i) == h \in Stored /\ (h # NoHolding => \E s \in SheetKind : h.ref = <<s, i>>)

\* A row that is left out is parsed.
LEMMA NoHoldingParsed == \A i : RowParsed(NoHolding, i) /\ NoHolding \in Stored
  BY DEF NoHolding, Stored, RowParsed

\* Dividing a total by a quantity gives an average cost.
LEMMA Quotient ==
    ASSUME NEW t \in Nat, NEW q \in Nat, q # 0
    PROVE  t \div q \in Nat
  OBVIOUS

\* Every row of the stock, cash and pension sheets is parsed.
LEMMA CellParsed ==
    ASSUME NEW c \in Cell, NEW i \in Nat
    PROVE  RowParsed(StockHolding(c, i), i) /\ RowParsed(CashHolding(c, i), i) /\ RowParsed(PensionHolding(c, i), i)
<1>1. c.sheet \in SheetKind /\ c.quantity \in Nat /\ c.cost \in Nat /\ c.total \in Nat /\ c.name \in CellName
  BY WorkbookAssumption DEF SheetKind, CellName
<1>2. ASSUME NEW q \in Nat, NEW p \in Nat
      PROVE  RowParsed(AsHolding(c, c.name, q, p, i), i)
  <2>1. c.name \in SymbolOf
    BY <1>1 DEF SymbolOf
  <2>2. AsHolding(c, c.name, q, p, i) \in Stored /\ AsHolding(c, c.name, q, p, i).ref = <<c.sheet, i>>
    BY <2>1, AsHoldingType
  <2> QED
    BY <2>2, <1>1 DEF RowParsed
<1>3. c.quantity # 0 => c.total \div c.quantity \in Nat
  BY <1>1, Quotient
<1>4. RowParsed(StockHolding(c, i), i)
  <2>1. CASE c.name = Nil \/ c.quantity = 0 \/ c.cost + c.total = 0
    BY <2>1, NoHoldingParsed DEF StockHolding
  <2>2. CASE ~ (c.name = Nil \/ c.quantity = 0 \/ c.cost + c.total = 0)
    BY <2>2, <1>1, <1>2, <1>3 DEF StockHolding
  <2> QED
    BY <2>1, <2>2
<1>5. RowParsed(CashHolding(c, i), i)
  BY <1>1, <1>2, NoHoldingParsed DEF CashHolding
<1>6. RowParsed(PensionHolding(c, i), i)
  BY <1>1, <1>2, <1>3, NoHoldingParsed DEF PensionHolding
<1> QED
  BY <1>4, <1>5, <1>6

\* Every row of the estate sheet is parsed.
LEMMA EstateParsed ==
    ASSUME NEW cells \in Seq(Cell), NEW i \in 1 .. Len(cells)
    PROVE  RowParsed(EstateHolding(cells, i), i)
<1>1. /\ cells[i] \in Cell /\ cells[i].sheet \in SheetKind /\ cells[i].total \in Nat
      /\ <<cells[i].name, i>> \in CellName \X Nat
  BY WorkbookAssumption DEF SheetKind, CellName
<1>2. RowParsed(AsHolding(cells[i], <<cells[i].name, i>>, 1, cells[i].total, i), i)
  <2>1. <<cells[i].name, i>> \in SymbolOf /\ i \in Nat /\ 1 \in Nat
    BY <1>1 DEF SymbolOf
  <2> DEFINE n == <<cells[i].name, i>>
             c == cells[i]
  <2>2. c \in Cell /\ c.sheet \in SheetKind /\ c.total \in Nat /\ n \in SymbolOf
    BY <1>1, <2>1
  <2> HIDE DEF n, c
  <2>3. AsHolding(c, n, 1, c.total, i) \in Stored /\ AsHolding(c, n, 1, c.total, i).ref = <<c.sheet, i>>
    BY <2>1, <2>2, AsHoldingType
  <2>4. RowParsed(AsHolding(c, n, 1, c.total, i), i)
    BY <2>2, <2>3 DEF RowParsed
  <2> QED
    BY <2>4 DEF n, c
<1> QED
  BY <1>2, NoHoldingParsed DEF EstateHolding

\* Every row of the holding sheets is parsed.
LEMMA ParsedHoldingsType ==
    ASSUME NEW cells \in Seq(Cell)
    PROVE  /\ ParsedHoldings(cells) \in Seq(Stored)
           /\ \A i \in DOMAIN ParsedHoldings(cells) : RowParsed(ParsedHoldings(cells)[i], i)
<1>1. ASSUME NEW i \in 1 .. Len(cells)
      PROVE  RowParsed(ParsedHoldings(cells)[i], i)
  <2>1. cells[i] \in Cell /\ cells[i].sheet \in SheetKind /\ i \in Nat
    BY WorkbookAssumption DEF SheetKind
  <2>2. i \in DOMAIN cells
    OBVIOUS
  <2>3. ParsedHoldings(cells)[i] \in {StockHolding(cells[i], i), CashHolding(cells[i], i), PensionHolding(cells[i], i), EstateHolding(cells, i)}
    BY <2>1, <2>2 DEF SheetKind, ParsedHoldings
  <2> QED
    BY <2>1, <2>3, CellParsed, EstateParsed
<1>2. DOMAIN ParsedHoldings(cells) = 1 .. Len(cells)
  BY DEF ParsedHoldings
<1>3. ParsedHoldings(cells) \in [1 .. Len(cells) -> Stored]
  BY <1>1, <1>2 DEF RowParsed, ParsedHoldings
<1> QED
  BY <1>1, <1>2, <1>3, SeqDef

\* An import is under way as long as rows are.
LEMMA ImportingStep ==
    ASSUME imp \in {Idle} \cup Importing
    PROVE  (imp.step = "rows") <=> imp \in Importing
  BY DEF Idle, Importing

\* The import with its fields after a row of the transaction sheets.
LEMMA ApplyTransactionFields ==
    ASSUME WorkbookTypeOK, ApplyTransaction
    PROVE  /\ imp \in Importing /\ imp' \in Importing /\ imp'.line = imp.line + 1
           /\ imp.sheet[imp.line] \in ParsedRow
           /\ \/ imp'.ledger = imp.ledger
              \/ /\ ~ AlreadyThere(imp.ledger, imp.sheet[imp.line])
                 /\ imp'.ledger = Append(imp.ledger, TransactionOf(imp.sheet[imp.line]))
           /\ imp'.sheet = imp.sheet /\ imp'.rows = imp.rows /\ imp'.row = imp.row /\ imp'.session = imp.session
           /\ imp'.byRef = imp.byRef /\ imp'.byKey = imp.byKey
<1> DEFINE row == imp.sheet[imp.line]
           longer == Append(imp.ledger, TransactionOf(row))
<1>1. imp \in Importing
  BY ImportingStep DEF WorkbookTypeOK, ApplyTransaction
<1>2. imp.line \in Nat \ {0} /\ imp.sheet \in Seq(ParsedRow) /\ imp.ledger \in Seq(LedgerRow)
  BY <1>1 DEF Importing, Count, Ledgers, TransactionRows, HoldingRows, HoldingTables, RefTables, KeyTables
<1>3. row \in ParsedRow
  BY <1>2 DEF ApplyTransaction
<1>4. row.content # Nil => longer \in Seq(LedgerRow)
  <2>1. row.content # Nil => TransactionOf(row) \in LedgerRow
    BY <1>3 DEF TransactionOf, LedgerRow, ParsedRow, SourceRef
  <2> QED
    BY <2>1, <1>2
<1>5. \/ imp' = [imp EXCEPT !.line = imp.line + 1]
      \/ /\ row.content # Nil /\ ~ AlreadyThere(imp.ledger, row)
         /\ imp' = [imp EXCEPT !.line = imp.line + 1, !.ledger = longer]
  BY DEF ApplyTransaction
<1> HIDE DEF longer
<1>6. CASE imp' = [imp EXCEPT !.line = imp.line + 1]
  <2>1. imp.line + 1 \in Count
    BY <1>2 DEF Count
  <2>2. /\ imp' \in Importing /\ imp'.line = imp.line + 1 /\ imp'.ledger = imp.ledger
        /\ imp'.sheet = imp.sheet /\ imp'.rows = imp.rows /\ imp'.row = imp.row /\ imp'.session = imp.session
        /\ imp'.byRef = imp.byRef /\ imp'.byKey = imp.byKey
    BY <1>1, <1>6, <2>1 DEF Importing
  <2> QED
    BY <2>2, <1>1, <1>3
<1>7. CASE /\ row.content # Nil /\ ~ AlreadyThere(imp.ledger, row)
           /\ imp' = [imp EXCEPT !.line = imp.line + 1, !.ledger = longer]
  <2>0. imp.line + 1 \in Count /\ longer \in Ledgers
    BY <1>2, <1>4, <1>7 DEF Count, Ledgers
  <2>1. /\ imp' \in Importing /\ imp'.line = imp.line + 1 /\ imp'.ledger = longer
        /\ imp'.sheet = imp.sheet /\ imp'.rows = imp.rows /\ imp'.row = imp.row /\ imp'.session = imp.session
        /\ imp'.byRef = imp.byRef /\ imp'.byKey = imp.byKey
    BY <1>1, <1>7, <2>0 DEF Importing
  <2> QED
    BY <2>1, <1>1, <1>3, <1>7 DEF longer
<1> QED
  BY <1>5, <1>6, <1>7

\* The row at hand is a row of the sheets.
LEMMA MoreRowsType ==
    ASSUME WorkbookTypeOK, MoreRows
    PROVE  imp \in Importing /\ imp.row \in DOMAIN imp.rows /\ SheetRow \in Stored
<1>1. imp \in Importing
  BY ImportingStep DEF WorkbookTypeOK, MoreRows
<1>2. imp.row \in Nat \ {0} /\ imp.rows \in Seq(Stored)
  BY <1>1 DEF Importing, Count, Ledgers, TransactionRows, HoldingRows, HoldingTables, RefTables, KeyTables
<1>3. imp.row \in 1 .. Len(imp.rows)
  BY <1>2 DEF MoreRows
<1> QED
  BY <1>1, <1>2, <1>3 DEF SheetRow

\* The import after a row that is left out.
LEMMA SkipRowFields ==
    ASSUME WorkbookTypeOK, SkipRow
    PROVE  /\ imp' \in Importing /\ imp'.row = imp.row + 1
           /\ imp'.ledger = imp.ledger /\ imp'.rows = imp.rows /\ imp'.session = imp.session
           /\ imp'.byRef = imp.byRef /\ imp'.byKey = imp.byKey
<1>1. imp \in Importing
  BY MoreRowsType DEF SkipRow
<1>2. imp' = [imp EXCEPT !.row = imp.row + 1]
  BY DEF SkipRow
<1>3. imp.row + 1 \in Count
  BY <1>1 DEF Importing, Count
<1> QED
  BY <1>1, <1>2, <1>3 DEF Importing

\* A dictionary of pairs stays one.
LEMMA PutType ==
    ASSUME NEW K, NEW D \in SUBSET (K \X Holding), NEW k \in K, NEW x \in Holding
    PROVE  /\ Put(D, k, x) \in SUBSET (K \X Holding)
           /\ \A f, y : <<f, y>> \in Put(D, k, x) => (f = k /\ y = x) \/ (f # k /\ <<f, y>> \in D)
  BY DEF Put

\* Row numbers and identities that rows and holdings have.
LEMMA RowHasRef ==
    ASSUME NEW h \in Stored, NEW i, RowParsed(h, i), h # NoHolding, i \in Nat
    PROVE  h.ref \in RefOfRow /\ h.key \in KeyOf \cup {Nil}
  BY DEF Stored, RowParsed, RefOfRow

\* The rows of an import are parsed.
RowsParsed == imp \in Importing => \A i \in DOMAIN imp.rows : RowParsed(imp.rows[i], i)

\* The row at hand is known by its row number.
LEMMA SheetRowFields ==
    ASSUME WorkbookTypeOK, RowsParsed, MoreRows, SheetRow # NoHolding
    PROVE  /\ imp.row \in Nat /\ RowParsed(SheetRow, imp.row)
           /\ SheetRow.ref \in RefOfRow /\ SheetRow.key \in KeyOf \cup {Nil}
<1>1. imp \in Importing /\ imp.row \in DOMAIN imp.rows /\ SheetRow \in Stored /\ imp.row \in Nat
  BY MoreRowsType DEF Importing, Count, Ledgers, TransactionRows, HoldingRows, HoldingTables, RefTables, KeyTables
<1>2. RowParsed(SheetRow, imp.row)
  BY <1>1 DEF RowsParsed, SheetRow
<1> QED
  BY <1>1, <1>2, RowHasRef

\* The import after a row that became a new holding.
LEMMA AddRowFields ==
    ASSUME WorkbookTypeOK, RowsParsed, AddRow
    PROVE  /\ Fresh \in Holding /\ imp.session[Fresh] = NoHolding
           /\ imp' \in Importing /\ imp'.row = imp.row + 1
           /\ imp'.ledger = imp.ledger /\ imp'.rows = imp.rows
           /\ imp'.session = [imp.session EXCEPT ![Fresh] = SheetRow]
           /\ imp'.byRef = Put(imp.byRef, SheetRow.ref, Fresh) /\ imp'.byKey = Put(imp.byKey, SheetRow.key, Fresh)
<1> DEFINE new == [imp.session EXCEPT ![Fresh] = SheetRow]
           keys == Put(imp.byKey, SheetRow.key, Fresh)
           refs == Put(imp.byRef, SheetRow.ref, Fresh)
<1>1. imp \in Importing /\ SheetRow \in Stored /\ SheetRow.ref \in RefOfRow /\ SheetRow.key \in KeyOf \cup {Nil}
  BY MoreRowsType, SheetRowFields DEF AddRow
<1>2. Fresh \in Holding /\ imp.session[Fresh] = NoHolding
  BY DEF AddRow, Fresh
<1>3. new \in [Holding -> Stored]
  BY <1>1, <1>2 DEF Importing, Count, Ledgers, TransactionRows, HoldingRows, HoldingTables, RefTables, KeyTables
<1>4. keys \in SUBSET ((KeyOf \cup {Nil}) \X Holding) /\ refs \in SUBSET (RefOfRow \X Holding)
  <2>1. imp.byKey \in SUBSET ((KeyOf \cup {Nil}) \X Holding) /\ imp.byRef \in SUBSET (RefOfRow \X Holding)
    BY <1>1 DEF Importing, Count, Ledgers, TransactionRows, HoldingRows, HoldingTables, RefTables, KeyTables
  <2>2. keys \in SUBSET ((KeyOf \cup {Nil}) \X Holding)
    BY <2>1, <1>1, <1>2, PutType
  <2>3. refs \in SUBSET (RefOfRow \X Holding)
    BY <2>1, <1>1, <1>2, PutType
  <2> QED
    BY <2>2, <2>3
<1>5. imp' = [imp EXCEPT !.row = imp.row + 1, !.session = new, !.database = new, !.updated = imp.updated + 1,
                         !.byKey = keys, !.byRef = refs]
  BY DEF AddRow, WithNew
<1> HIDE DEF new, keys, refs
<1>6. /\ imp' \in Importing /\ imp'.row = imp.row + 1 /\ imp'.ledger = imp.ledger /\ imp'.rows = imp.rows
      /\ imp'.session = new /\ imp'.byRef = refs /\ imp'.byKey = keys
  <2>1. /\ imp.row + 1 \in Count /\ imp.updated + 1 \in Nat
        /\ new \in HoldingTables /\ refs \in RefTables /\ keys \in KeyTables
    BY <1>1, <1>3, <1>4 DEF Importing, Count, HoldingTables, RefTables, KeyTables
  <2> QED
    BY <1>1, <1>5, <2>1 DEF Importing
<1> QED
  BY <1>2, <1>6 DEF new, keys, refs

\* The identities after a holding took over a row.
KeysAfter(x) ==
    Put(IF imp.session[x].key = SheetRow.key THEN imp.byKey ELSE imp.byKey \ {<<imp.session[x].key, x>>}, SheetRow.key, x)

\* The import after a row that a known holding took over.
LEMMA UpdateRowFields ==
    ASSUME WorkbookTypeOK, RowsParsed, UpdateRow
    PROVE  /\ imp' \in Importing /\ imp'.row = imp.row + 1
           /\ imp'.ledger = imp.ledger /\ imp'.rows = imp.rows
           /\ \E x \in Match :
                 /\ x \in Holding
                 /\ imp'.session = [imp.session EXCEPT ![x] = SheetRow]
                 /\ imp'.byRef = Put(imp.byRef, SheetRow.ref, x)
                 /\ imp'.byKey = KeysAfter(x)
<1>1. imp \in Importing /\ SheetRow \in Stored /\ SheetRow.ref \in RefOfRow /\ SheetRow.key \in KeyOf \cup {Nil}
  BY MoreRowsType, SheetRowFields DEF UpdateRow
<1>2. PICK x \in Match :
          imp' = [imp EXCEPT !.row = imp.row + 1, !.session = [imp.session EXCEPT ![x] = SheetRow],
                     !.updated = imp.updated + (IF SheetRow = imp.session[x] THEN 0 ELSE 1),
                     !.byKey = KeysAfter(x), !.byRef = Put(imp.byRef, SheetRow.ref, x)]
  <2>1. PICK x \in Match :
            imp' = [imp EXCEPT !.row = imp.row + 1, !.session[x] = SheetRow,
                       !.updated = imp.updated + (IF SheetRow = imp.session[x] THEN 0 ELSE 1),
                       !.byKey = Put(IF imp.session[x].key = SheetRow.key THEN imp.byKey ELSE imp.byKey \ {<<imp.session[x].key, x>>}, SheetRow.key, x),
                       !.byRef = Put(imp.byRef, SheetRow.ref, x)]
    BY Zenon DEF UpdateRow
  <2>2. imp' = [imp EXCEPT !.row = imp.row + 1, !.session = [imp.session EXCEPT ![x] = SheetRow],
                   !.updated = imp.updated + (IF SheetRow = imp.session[x] THEN 0 ELSE 1),
                   !.byKey = KeysAfter(x), !.byRef = Put(imp.byRef, SheetRow.ref, x)]
    BY <2>1 DEF KeysAfter
  <2> QED
    BY <2>2
<1>3. x \in Holding
  BY DEF Match, Lookup
<1> DEFINE new == [imp.session EXCEPT ![x] = SheetRow]
           refs == Put(imp.byRef, SheetRow.ref, x)
           count == imp.updated + (IF SheetRow = imp.session[x] THEN 0 ELSE 1)
<1>4. new \in [Holding -> Stored]
  BY <1>1, <1>3 DEF Importing, Count, Ledgers, TransactionRows, HoldingRows, HoldingTables, RefTables, KeyTables
<1>5. imp.byKey \in SUBSET ((KeyOf \cup {Nil}) \X Holding) /\ imp.byRef \in SUBSET (RefOfRow \X Holding)
  BY <1>1 DEF Importing, Count, Ledgers, TransactionRows, HoldingRows, HoldingTables, RefTables, KeyTables
<1>6. refs \in SUBSET (RefOfRow \X Holding)
  BY <1>1, <1>3, <1>5, PutType
<1>7. KeysAfter(x) \in SUBSET ((KeyOf \cup {Nil}) \X Holding)
  <2>1. PICK D \in SUBSET ((KeyOf \cup {Nil}) \X Holding) :
            D = IF imp.session[x].key = SheetRow.key THEN imp.byKey ELSE imp.byKey \ {<<imp.session[x].key, x>>}
    BY <1>5
  <2>2. Put(D, SheetRow.key, x) \in SUBSET ((KeyOf \cup {Nil}) \X Holding)
    BY <1>1, <1>3, PutType
  <2> QED
    BY <2>1, <2>2 DEF KeysAfter
<1>8. count \in Nat
  BY <1>1 DEF Importing, Count, Ledgers, TransactionRows, HoldingRows, HoldingTables, RefTables, KeyTables
<1>9. imp' = [imp EXCEPT !.row = imp.row + 1, !.session = new, !.updated = count, !.byKey = KeysAfter(x), !.byRef = refs]
  BY <1>2
<1> HIDE DEF new, refs, count
<1>10. /\ imp' \in Importing /\ imp'.row = imp.row + 1 /\ imp'.ledger = imp.ledger /\ imp'.rows = imp.rows
       /\ imp'.session = new /\ imp'.byRef = refs /\ imp'.byKey = KeysAfter(x)
  <2>1. /\ imp.row + 1 \in Count /\ new \in HoldingTables /\ refs \in RefTables /\ KeysAfter(x) \in KeyTables
    BY <1>1, <1>4, <1>6, <1>7 DEF Importing, Count, HoldingTables, RefTables, KeyTables
  <2> QED
    BY <1>1, <1>8, <1>9, <2>1 DEF Importing
<1> QED
  BY <1>3, <1>10 DEF new, refs

\* An import starts from the two tables and the dictionaries made of them.
LEMMA ImportBeginFields ==
    ASSUME WorkbookTypeOK, NEW sheet \in Seq(Content \cup {Nil}), NEW cells \in Seq(Cell), ImportBegin(sheet, cells)
    PROVE  /\ imp' \in Importing /\ imp'.row = 1 /\ imp'.rows = ParsedHoldings(cells)
           /\ imp'.ledger = ledger /\ imp'.session = holdings
           /\ imp'.byRef = {<<holdings[x].ref, x>> : x \in {y \in Held(holdings) : holdings[y].ref # Nil}}
           /\ imp'.byKey = {<<holdings[x].key, x>> : x \in Held(holdings)}
<1> DEFINE refs == {<<holdings[x].ref, x>> : x \in {y \in Held(holdings) : holdings[y].ref # Nil}}
           keys == {<<holdings[x].key, x>> : x \in Held(holdings)}
           txs == ParsedTransactions(sheet)
           rows == ParsedHoldings(cells)
<1>1. ledger \in Seq(LedgerRow) /\ holdings \in [Holding -> Stored]
  BY DEF WorkbookTypeOK
<1>2. refs \in SUBSET (RefOfRow \X Holding)
  BY <1>1 DEF Stored, Held
<1>3. keys \in SUBSET ((KeyOf \cup {Nil}) \X Holding)
  BY <1>1 DEF Stored, Held
<1>4. txs \in Seq(ParsedRow) /\ rows \in Seq(Stored)
  BY ParsedTransactionsType, ParsedHoldingsType
<1>5. imp' = [step |-> "rows", sheet |-> txs, line |-> 1, ledger |-> ledger, rows |-> rows, row |-> 1,
              session |-> holdings, database |-> holdings, updated |-> 0, byRef |-> refs, byKey |-> keys]
  BY DEF ImportBegin
<1> HIDE DEF refs, keys, txs, rows
<1>6. /\ imp' \in Importing /\ imp'.row = 1 /\ imp'.rows = rows /\ imp'.ledger = ledger /\ imp'.session = holdings
      /\ imp'.byRef = refs /\ imp'.byKey = keys
  <2>1. /\ 1 \in Count /\ 0 \in Nat /\ ledger \in Ledgers /\ holdings \in HoldingTables /\ refs \in RefTables
        /\ keys \in KeyTables /\ txs \in TransactionRows /\ rows \in HoldingRows
    BY <1>1, <1>2, <1>3, <1>4 DEF Count, Ledgers, TransactionRows, HoldingRows, HoldingTables, RefTables, KeyTables
  <2> QED
    BY <1>5, <2>1 DEF Importing
<1> QED
  BY <1>6 DEF refs, keys, rows

\* A holding that a member enters.
LEMMA UserRowType ==
    ASSUME NEW h \in Parsed
    PROVE  h \in Stored
<1>1. PICK c \in Cell : h = ParsedHoldings(<<c>>)[1]
  BY DEF Parsed
<1>2. <<c>> \in Seq(Cell) /\ 1 \in DOMAIN <<c>>
  OBVIOUS
<1>3. 1 \in DOMAIN ParsedHoldings(<<c>>)
  BY <1>2 DEF ParsedHoldings
<1>4. ParsedHoldings(<<c>>) \in Seq(Stored)
  BY <1>2, ParsedHoldingsType
<1> QED
  BY <1>1, <1>3, <1>4

\* A sequence without one of its elements.
LEMMA RemoveAtFields ==
    ASSUME NEW S, NEW t \in Seq(S), NEW i \in DOMAIN t
    PROVE  /\ RemoveAt(t, i) \in Seq(S) /\ Len(RemoveAt(t, i)) = Len(t) - 1
           /\ \A k \in 1 .. Len(t) - 1 : RemoveAt(t, i)[k] = IF k < i THEN t[k] ELSE t[k + 1]
<1> DEFINE a == SubSeq(t, 1, i - 1)
           b == SubSeq(t, i + 1, Len(t))
<1>0. i \in 1 .. Len(t) /\ Len(t) \in Nat
  OBVIOUS
<1>1. a \in Seq(S) /\ Len(a) = i - 1 /\ \A k \in 1 .. i - 1 : a[k] = t[k]
  <2>1. \A k \in 1 .. i - 1 : t[k] \in S
    BY <1>0
  <2> QED
    BY <2>1, <1>0
<1>2. b \in Seq(S) /\ Len(b) = Len(t) - i /\ \A k \in 1 .. Len(t) - i : b[k] = t[k + i]
  <2>1. \A k \in i + 1 .. Len(t) : t[k] \in S
    BY <1>0
  <2> QED
    BY <2>1, <1>0
<1> HIDE DEF a, b
<1>3. RemoveAt(t, i) = a \o b
  BY DEF RemoveAt, a, b
<1>4. a \o b \in Seq(S) /\ Len(a \o b) = Len(t) - 1
  BY <1>0, <1>1, <1>2
<1>5. ASSUME NEW k \in 1 .. Len(t) - 1
      PROVE  (a \o b)[k] = IF k < i THEN t[k] ELSE t[k + 1]
  <2>1. CASE k < i
    BY <2>1, <1>0, <1>1, <1>2
  <2>2. CASE ~ (k < i)
    <3>1. k - (i - 1) \in 1 .. Len(t) - i /\ (a \o b)[k] = b[k - (i - 1)]
      BY <2>2, <1>0, <1>1, <1>2
    <3> QED
      BY <2>2, <3>1, <1>0, <1>2
  <2> QED
    BY <2>1, <2>2
<1> QED
  BY <1>3, <1>4, <1>5

\* The types, and rows that are parsed.
ImportTypeOK == WorkbookTypeOK /\ RowsParsed

\* The tables are empty and no import is under way at first.
LEMMA WorkbookTypeInitial == WorkbookInit => ImportTypeOK
<1>1. NoHolding \in Stored
  BY NoHoldingParsed
<1> QED
  BY <1>1 DEF WorkbookInit, ImportTypeOK, WorkbookTypeOK, RowsParsed, Idle, Importing

\* The sequences of the next-state relation are sheets.
LEMMA SheetTypes ==
    /\ \A sheet \in Sheets : sheet \in Seq(Content \cup {Nil})
    /\ \A cells \in HoldingSheets : cells \in Seq(Cell)
    /\ <<>> \in Seq(Content \cup {Nil}) /\ <<>> \in Seq(Cell)
<1>1. MaxSheet \in Nat
  BY WorkbookAssumption
<1>2. \A sheet \in Sheets : sheet \in Seq(Content \cup {Nil})
  BY <1>1, SeqOfIsSeq DEF Sheets
<1>3. \A cells \in HoldingSheets : cells \in Seq(Cell)
  BY <1>1, SeqOfIsSeq DEF HoldingSheets
<1> QED
  BY <1>2, <1>3

\* Every step of the importer keeps the types.
LEMMA WorkbookTypeStep == ImportTypeOK /\ [WorkbookNext]_workbookVars => ImportTypeOK'
<1> SUFFICES ASSUME ImportTypeOK, [WorkbookNext]_workbookVars
             PROVE  ImportTypeOK'
  OBVIOUS
<1> USE DEF ImportTypeOK
<1>0. ledger \in Seq(LedgerRow) /\ holdings \in [Holding -> Stored] /\ imp \in {Idle} \cup Importing /\ uses \in [imports : Nat, changes : Nat]
  BY DEF WorkbookTypeOK
<1>1. ASSUME NEW sheet \in Seq(Content \cup {Nil}), NEW cells \in Seq(Cell), ImportBegin(sheet, cells)
      PROVE  ImportTypeOK'
  <2>1. imp' \in Importing /\ imp'.rows = ParsedHoldings(cells)
    BY <1>1, ImportBeginFields
  <2>2. RowsParsed'
    BY <2>1, ParsedHoldingsType DEF RowsParsed
  <2>3. ledger' = ledger /\ holdings' = holdings /\ uses' \in [imports : Nat, changes : Nat]
    <3>1. ledger' = ledger /\ holdings' = holdings /\ uses' = [uses EXCEPT !.imports = uses.imports + 1]
      BY <1>1 DEF ImportBegin
    <3> QED
      BY <1>0, <3>1
  <2> QED
    BY <1>0, <2>1, <2>2, <2>3 DEF WorkbookTypeOK
<1>2. ASSUME imp \in Importing, imp' \in Importing, imp'.rows = imp.rows, UNCHANGED <<ledger, holdings, uses>>
      PROVE  ImportTypeOK'
  BY <1>0, <1>2 DEF WorkbookTypeOK, RowsParsed
<1>3. CASE ApplyTransaction
  BY <1>2, <1>3, ApplyTransactionFields DEF ApplyTransaction
<1>4. CASE SkipRow
  BY <1>2, <1>4, SkipRowFields, MoreRowsType DEF SkipRow
<1>5. CASE AddRow
  BY <1>2, <1>5, AddRowFields, MoreRowsType DEF AddRow
<1>6. CASE UpdateRow
  BY <1>2, <1>6, UpdateRowFields, MoreRowsType DEF UpdateRow
<1>7. ASSUME imp' = Idle, ledger' \in Seq(LedgerRow), holdings' \in [Holding -> Stored], uses' \in [imports : Nat, changes : Nat]
      PROVE  ImportTypeOK'
  BY <1>7 DEF WorkbookTypeOK, RowsParsed, Idle, Importing
<1>8. CASE ImportCommit
  <2>1. imp \in Importing
    BY <1>0, <1>8, ImportingStep DEF ImportCommit, AllApplied
  <2>2. imp.ledger \in Seq(LedgerRow) /\ imp.session \in [Holding -> Stored]
    BY <2>1 DEF Importing, Ledgers, HoldingTables
  <2> QED
    BY <1>0, <1>7, <1>8, <2>2 DEF ImportCommit
<1>9. CASE ImportFails
  BY <1>0, <1>7, <1>9 DEF ImportFails
<1>10. UserMayAct => imp = Idle /\ imp' = Idle /\ uses' \in [imports : Nat, changes : Nat]
  BY <1>0 DEF UserMayAct
<1>11. ASSUME NEW c \in Content, AddTransaction(c)
       PROVE  ImportTypeOK'
  <2>1. [content |-> c, named |-> TRUE, ref |-> Nil] \in LedgerRow
    BY DEF LedgerRow
  <2>2. ledger' \in Seq(LedgerRow)
    BY <2>1, <1>0, <1>11 DEF AddTransaction
  <2> QED
    BY <1>0, <1>7, <1>10, <1>11, <2>2 DEF AddTransaction
<1>12. ASSUME NEW i, NEW c \in Content, EditTransaction(i, c)
       PROVE  ImportTypeOK'
  <2>1. [ledger[i] EXCEPT !.content = c] \in LedgerRow
    <3>1. ledger[i] \in LedgerRow
      BY <1>0, <1>12 DEF EditTransaction
    <3> QED
      BY <3>1 DEF LedgerRow
  <2>2. ledger' \in Seq(LedgerRow)
    BY <2>1, <1>0, <1>12 DEF EditTransaction
  <2> QED
    BY <1>0, <1>7, <1>10, <1>12, <2>2 DEF EditTransaction
<1>13. ASSUME NEW i, ClearCategory(i)
       PROVE  ImportTypeOK'
  <2>1. [ledger[i] EXCEPT !.named = FALSE] \in LedgerRow
    <3>1. ledger[i] \in LedgerRow
      BY <1>0, <1>13 DEF ClearCategory
    <3> QED
      BY <3>1 DEF LedgerRow
  <2>2. ledger' \in Seq(LedgerRow)
    BY <2>1, <1>0, <1>13 DEF ClearCategory
  <2> QED
    BY <1>0, <1>7, <1>10, <1>13, <2>2 DEF ClearCategory
<1>14. ASSUME NEW i, RemoveTransaction(i)
       PROVE  ImportTypeOK'
  BY <1>0, <1>7, <1>10, <1>14, RemoveAtFields DEF RemoveTransaction
<1>15. ASSUME NEW x \in Holding, DeleteHolding(x)
       PROVE  ImportTypeOK'
  BY <1>0, <1>7, <1>10, <1>15, NoHoldingParsed DEF DeleteHolding
<1>16. ASSUME NEW x \in Holding, NEW h \in Parsed, WriteHolding(x, h.key, h.value)
       PROVE  ImportTypeOK'
  <2>1. h \in Stored /\ holdings[x] \in Stored
    BY <1>0, UserRowType
  <2>2. [key |-> h.key, value |-> h.value, ref |-> holdings[x].ref] \in Stored
    BY <2>1 DEF Stored
  <2>3. holdings' \in [Holding -> Stored]
    BY <2>2, <1>0, <1>16 DEF WriteHolding
  <2> QED
    BY <1>0, <1>7, <1>10, <1>16, <2>3 DEF WriteHolding
<1>17. CASE UNCHANGED workbookVars
  BY <1>0, <1>17 DEF workbookVars, WorkbookTypeOK, RowsParsed
<1>18. ASSUME NEW sheet \in Sheets, ImportBegin(sheet, <<>>)
       PROVE  ImportTypeOK'
  BY <1>1, <1>18, SheetTypes
<1>19. ASSUME NEW cells \in HoldingSheets, ImportBegin(<<>>, cells)
       PROVE  ImportTypeOK'
  BY <1>1, <1>19, SheetTypes
<1> QED
  BY <1>3, <1>4, <1>5, <1>6, <1>8, <1>9, <1>11, <1>12, <1>13, <1>14, <1>15, <1>16, <1>17, <1>18, <1>19 DEF WorkbookNext

\* The type invariant of the workbook importer, for every workbook: what the
\* parsers yield, the session's tables and the two dictionaries of an import.
THEOREM WorkbookTypeCorrect == WorkbookSpec => []WorkbookTypeOK
<1>1. ImportTypeOK => WorkbookTypeOK
  BY DEF ImportTypeOK
<1> QED
  BY <1>1, WorkbookTypeInitial, WorkbookTypeStep, PTL DEF WorkbookSpec

---------------------------------------------------------------------------
\* ImportedOnce for a table of transactions.
OneOfEach(t) == \A i, j \in DOMAIN t : i # j /\ t[i].ref = t[j].ref => t[i].ref = Nil

\* The inductive invariant of ImportedOnce: the table and an import's session.
OnceInv == OneOfEach(ledger) /\ (imp \in Importing => OneOfEach(imp.ledger))

\* A row with a reference that no row has goes behind the others.
LEMMA OneOfEachAppends ==
    ASSUME NEW t \in Seq(LedgerRow), OneOfEach(t), NEW r \in LedgerRow, r.ref = Nil \/ \A i \in DOMAIN t : t[i].ref # r.ref
    PROVE  OneOfEach(Append(t, r))
<1> DEFINE u == Append(t, r)
<1>1. DOMAIN u = 1 .. Len(t) + 1 /\ DOMAIN t = 1 .. Len(t) /\ Len(t) \in Nat
  OBVIOUS
<1>2. \A i \in 1 .. Len(t) : u[i] = t[i]
  OBVIOUS
<1>3. u[Len(t) + 1] = r
  OBVIOUS
<1> HIDE DEF u
<1>4. ASSUME NEW i \in 1 .. Len(t) + 1, NEW j \in 1 .. Len(t) + 1, i # j, u[i].ref = u[j].ref
      PROVE  u[i].ref = Nil
  <2>1. CASE i = Len(t) + 1
    <3>1. j \in DOMAIN t
      BY <2>1, <1>1, <1>4
    <3> QED
      BY <2>1, <3>1, <1>1, <1>2, <1>3, <1>4
  <2>2. CASE j = Len(t) + 1
    <3>1. i \in DOMAIN t
      BY <2>2, <1>1, <1>4
    <3> QED
      BY <2>2, <3>1, <1>1, <1>2, <1>3, <1>4
  <2>3. CASE i # Len(t) + 1 /\ j # Len(t) + 1
    <3>1. i \in DOMAIN t /\ j \in DOMAIN t
      BY <2>3, <1>1
    <3> QED
      BY <3>1, <1>1, <1>2, <1>4 DEF OneOfEach
  <2> QED
    BY <2>1, <2>2, <2>3
<1> QED
  BY <1>1, <1>4 DEF OneOfEach, u

\* A removed row leaves the others.
LEMMA OneOfEachRemoves ==
    ASSUME NEW t \in Seq(LedgerRow), OneOfEach(t), NEW i \in DOMAIN t
    PROVE  OneOfEach(RemoveAt(t, i))
<1> DEFINE u == RemoveAt(t, i)
           Place(k) == IF k < i THEN k ELSE k + 1
<1>1. u \in Seq(LedgerRow) /\ Len(u) = Len(t) - 1
  BY RemoveAtFields
<1>2. \A k \in 1 .. Len(t) - 1 : u[k] = t[Place(k)] /\ Place(k) \in DOMAIN t
  <2>1. i \in 1 .. Len(t) /\ Len(t) \in Nat /\ DOMAIN t = 1 .. Len(t)
    OBVIOUS
  <2>2. \A k \in 1 .. Len(t) - 1 : u[k] = IF k < i THEN t[k] ELSE t[k + 1]
    BY RemoveAtFields
  <2> HIDE DEF u
  <2> QED
    BY <2>1, <2>2
<1>3. DOMAIN u = 1 .. Len(t) - 1
  BY <1>1
<1>4. \A j, k \in 1 .. Len(t) - 1 : j # k => Place(j) # Place(k)
  OBVIOUS
<1> HIDE DEF u, Place
<1>5. OneOfEach(u)
  BY <1>2, <1>3, <1>4 DEF OneOfEach
<1> QED
  BY <1>5 DEF u

\* There is no transaction at first.
LEMMA OnceInitial == WorkbookInit => OnceInv
  BY DEF WorkbookInit, OnceInv, OneOfEach, Idle, Importing

\* Every step of the importer and of a member keeps OnceInv.
LEMMA OnceStep == ImportTypeOK /\ OnceInv /\ [WorkbookNext]_workbookVars => OnceInv'
<1> SUFFICES ASSUME ImportTypeOK, OnceInv, [WorkbookNext]_workbookVars
             PROVE  OnceInv'
  OBVIOUS
<1>0. ledger \in Seq(LedgerRow) /\ imp \in {Idle} \cup Importing /\ WorkbookTypeOK /\ RowsParsed /\ Idle \notin Importing
  BY DEF ImportTypeOK, WorkbookTypeOK, Idle, Importing
<1>1. ASSUME NEW sheet \in Seq(Content \cup {Nil}), NEW cells \in Seq(Cell), ImportBegin(sheet, cells)
      PROVE  OnceInv'
  <2>1. imp' \in Importing /\ imp'.ledger = ledger /\ ledger' = ledger
    BY <1>0, <1>1, ImportBeginFields DEF ImportBegin
  <2> QED
    BY <2>1 DEF OnceInv
<1>2. ASSUME imp \in Importing, imp'.ledger = imp.ledger, ledger' = ledger
      PROVE  OnceInv'
  BY <1>2 DEF OnceInv
<1>3. CASE ApplyTransaction
  <2> DEFINE row == imp.sheet[imp.line]
  <2>1. /\ imp \in Importing /\ imp' \in Importing /\ ledger' = ledger
        /\ imp'.ledger = imp.ledger \/ (~ AlreadyThere(imp.ledger, row) /\ imp'.ledger = Append(imp.ledger, TransactionOf(row)))
    BY <1>0, <1>3, ApplyTransactionFields DEF ApplyTransaction
  <2> HIDE DEF row
  <2>2. CASE imp'.ledger = imp.ledger
    BY <1>2, <2>1, <2>2
  <2>3. CASE ~ AlreadyThere(imp.ledger, row) /\ imp'.ledger = Append(imp.ledger, TransactionOf(row))
    <3>1. imp.ledger \in Seq(LedgerRow) /\ Append(imp.ledger, TransactionOf(row)) \in Seq(LedgerRow)
      BY <2>1, <2>3 DEF Importing, Ledgers
    <3>2. TransactionOf(row) \in LedgerRow
      <4>1. Append(imp.ledger, TransactionOf(row))[Len(imp.ledger) + 1] = TransactionOf(row)
        BY <3>1
      <4>2. Len(imp.ledger) + 1 \in DOMAIN Append(imp.ledger, TransactionOf(row))
        BY <3>1
      <4> QED
        BY <3>1, <4>1, <4>2
    <3>3. \A i \in DOMAIN imp.ledger : imp.ledger[i].ref # TransactionOf(row).ref
      BY <2>3 DEF AlreadyThere, TransactionOf
    <3>4. OneOfEach(imp.ledger)
      BY <2>1 DEF OnceInv
    <3>5. OneOfEach(Append(imp.ledger, TransactionOf(row)))
      BY <3>1, <3>2, <3>3, <3>4, OneOfEachAppends
    <3> QED
      BY <2>1, <2>3, <3>5 DEF OnceInv
  <2> QED
    BY <2>1, <2>2, <2>3
<1>4. CASE SkipRow
  BY <1>0, <1>2, <1>4, SkipRowFields, MoreRowsType DEF SkipRow
<1>5. CASE AddRow
  BY <1>0, <1>2, <1>5, AddRowFields, MoreRowsType DEF AddRow
<1>6. CASE UpdateRow
  BY <1>0, <1>2, <1>6, UpdateRowFields, MoreRowsType DEF UpdateRow
<1>7. ASSUME imp' = Idle, OneOfEach(ledger')
      PROVE  OnceInv'
  BY <1>0, <1>7 DEF OnceInv, Idle, Importing
<1>8. CASE ImportCommit
  <2>1. imp \in Importing
    BY <1>0, <1>8, ImportingStep DEF ImportCommit, AllApplied
  <2> QED
    BY <1>7, <1>8, <2>1 DEF ImportCommit, OnceInv
<1>9. CASE ImportFails
  BY <1>7, <1>9 DEF ImportFails, OnceInv
<1>10. UserMayAct => imp' = Idle
  BY DEF UserMayAct
<1>11. ASSUME NEW c \in Content, AddTransaction(c)
       PROVE  OnceInv'
  <2> DEFINE r == [content |-> c, named |-> TRUE, ref |-> Nil]
  <2>1. r \in LedgerRow /\ r.ref = Nil
    BY DEF LedgerRow
  <2>2. ledger' = Append(ledger, r)
    BY <1>11 DEF AddTransaction
  <2> HIDE DEF r
  <2>3. OneOfEach(ledger')
    BY <2>1, <2>2, <1>0, OneOfEachAppends DEF OnceInv
  <2> QED
    BY <2>3, <1>7, <1>10, <1>11 DEF AddTransaction
<1>12. ASSUME DOMAIN ledger' = DOMAIN ledger, \A k \in DOMAIN ledger : ledger'[k].ref = ledger[k].ref, imp' = Idle
       PROVE  OnceInv'
  <2>1. OneOfEach(ledger')
    BY <1>12 DEF OnceInv, OneOfEach
  <2> QED
    BY <2>1, <1>7, <1>12
<1>13. ASSUME NEW i, NEW c \in Content, EditTransaction(i, c)
       PROVE  OnceInv'
  <2>1. [ledger[i] EXCEPT !.content = c].ref = ledger[i].ref
    BY <1>0, <1>13 DEF LedgerRow, EditTransaction
  <2>2. ledger' = [ledger EXCEPT ![i] = [ledger[i] EXCEPT !.content = c]] /\ imp' = Idle
    BY <1>10, <1>13 DEF EditTransaction
  <2> QED
    BY <1>0, <2>1, <2>2, <1>12
<1>14. ASSUME NEW i, ClearCategory(i)
       PROVE  OnceInv'
  <2>1. [ledger[i] EXCEPT !.named = FALSE].ref = ledger[i].ref
    BY <1>0, <1>14 DEF LedgerRow, ClearCategory
  <2>2. ledger' = [ledger EXCEPT ![i] = [ledger[i] EXCEPT !.named = FALSE]] /\ imp' = Idle
    BY <1>10, <1>14 DEF ClearCategory
  <2> QED
    BY <1>0, <2>1, <2>2, <1>12
<1>15. ASSUME NEW i, RemoveTransaction(i)
       PROVE  OnceInv'
  BY <1>0, <1>7, <1>10, <1>15, OneOfEachRemoves DEF RemoveTransaction, OnceInv
<1>16. ASSUME NEW x \in Holding, DeleteHolding(x) \/ \E h \in Parsed : WriteHolding(x, h.key, h.value)
       PROVE  OnceInv'
  BY <1>7, <1>10, <1>16 DEF DeleteHolding, WriteHolding, OnceInv
<1>17. CASE UNCHANGED workbookVars
  BY <1>17 DEF workbookVars, OnceInv
<1>18. ASSUME NEW sheet \in Sheets, ImportBegin(sheet, <<>>)
       PROVE  OnceInv'
  BY <1>1, <1>18, SheetTypes
<1>19. ASSUME NEW cells \in HoldingSheets, ImportBegin(<<>>, cells)
       PROVE  OnceInv'
  BY <1>1, <1>19, SheetTypes
<1> QED
  BY <1>3, <1>4, <1>5, <1>6, <1>8, <1>9, <1>11, <1>13, <1>14, <1>15, <1>16, <1>17, <1>18, <1>19 DEF WorkbookNext

\* ImportedOnce, for every sequence of workbooks and edits: no two transactions
\* get one source_ref, whatever members edited, moved out of a category or
\* deleted between the imports (_apply_transactions).
THEOREM AlwaysImportedOnce == WorkbookSpec => []ImportedOnce
<1>1. ImportTypeOK /\ OnceInv => ImportedOnce
  BY DEF OnceInv, OneOfEach, ImportedOnce
<1> QED
  BY <1>1, WorkbookTypeInitial, WorkbookTypeStep, OnceInitial, OnceStep, PTL DEF WorkbookSpec

---------------------------------------------------------------------------
\* Some row before the current one has the reference f.
Applied(f) == \E k \in 1 .. imp.row - 1 : imp.rows[k] # NoHolding /\ imp.rows[k].ref = f

\* HoldingsFollowSheet for row i of the sheet, when the rows up to n are done.
Overtaken(i, j) ==
    \/ imp.rows[j].key = imp.rows[i].key
    \/ \E x \in Holding : holdings[x].ref = imp.rows[j].ref /\ holdings[x].key = imp.rows[i].key

\* The holding x is as the row h says.
IsHolding(x, h) == imp.session[x] # NoHolding /\ imp.session[x].key = h.key /\ imp.session[x].value = h.value

\* Row i is left out, has its holding, or was overtaken.
Follows(i, n) ==
    \/ imp.rows[i] = NoHolding
    \/ \E x \in Holding : IsHolding(x, imp.rows[i])
    \/ \E j \in i + 1 .. n : Overtaken(i, j)

\* The two dictionaries and the session of an import under way.
KeptHeld == \A x \in Held(holdings) : imp.session[x] # NoHolding
KeysOfSession == \A p \in imp.byKey : imp.session[p[2]] # NoHolding /\ imp.session[p[2]].key = p[1]
RefsOfHoldings == \A p \in imp.byRef : (p[2] \in Held(holdings) /\ holdings[p[2]].ref = p[1]) \/ Applied(p[1])
KeyUntilApplied == \A x \in Held(holdings) : imp.session[x].key = holdings[x].key \/ Applied(holdings[x].ref)
RowsFollow == \A i \in 1 .. imp.row - 1 : Follows(i, imp.row - 1)

\* The inductive invariant of HoldingsFollowSheet.
FollowInv ==
    imp \in Importing =>
        /\ imp.row <= Len(imp.rows) + 1
        /\ KeptHeld /\ KeysOfSession /\ RefsOfHoldings /\ KeyUntilApplied /\ RowsFollow

\* The reference of the row at hand is new: it holds the row's number.
LEMMA RefIsNew ==
    ASSUME ImportTypeOK, MoreRows, SheetRow # NoHolding
    PROVE  ~ Applied(SheetRow.ref)
<1>1. imp \in Importing /\ imp.row \in DOMAIN imp.rows /\ RowParsed(SheetRow, imp.row)
  BY MoreRowsType, SheetRowFields DEF ImportTypeOK
<1>2. imp.row \in Nat /\ imp.rows \in Seq(Stored)
  BY <1>1 DEF Importing, Count, HoldingRows
<1>3. SUFFICES ASSUME NEW k \in 1 .. imp.row - 1, imp.rows[k] # NoHolding, imp.rows[k].ref = SheetRow.ref
               PROVE  FALSE
  BY DEF Applied
<1>4. k \in DOMAIN imp.rows /\ k # imp.row
  BY <1>1, <1>2
<1>5. RowParsed(imp.rows[k], k)
  BY <1>1, <1>4 DEF ImportTypeOK, RowsParsed
<1>6. PICK s \in SheetKind : SheetRow.ref = <<s, imp.row>>
  BY <1>1 DEF RowParsed
<1>7. PICK t \in SheetKind : imp.rows[k].ref = <<t, k>>
  BY <1>3, <1>5 DEF RowParsed
<1> QED
  BY <1>3, <1>4, <1>6, <1>7

\* What any row leaves: the rows before stay applied, it is applied itself.
LEMMA AppliedGrows ==
    ASSUME imp \in Importing, imp'.rows = imp.rows, imp'.row = imp.row + 1
    PROVE  /\ \A f : Applied(f) => Applied(f)'
           /\ SheetRow # NoHolding => \A f : f = SheetRow.ref => Applied(f)'
<1>1. imp.row \in Nat \ {0}
  BY DEF Importing, Count
<1>2. imp.row \in 1 .. imp'.row - 1 /\ \A k \in 1 .. imp.row - 1 : k \in 1 .. imp'.row - 1
  BY <1>1
<1> QED
  BY <1>2 DEF Applied, SheetRow

\* The rows that followed still do, unless the row at hand took their holding.
LEMMA FollowsGrows ==
    ASSUME imp \in Importing, imp'.rows = imp.rows, imp'.row = imp.row + 1, holdings' = holdings,
           NEW i \in 1 .. imp.row - 1, Follows(i, imp.row - 1),
           \A x \in Holding : IsHolding(x, imp.rows[i]) => IsHolding(x, imp.rows[i])' \/ Overtaken(i, imp.row)
    PROVE  Follows(i, imp.row - 1)'
<1>1. imp.row \in Nat \ {0}
  BY DEF Importing, Count
<1>2. imp'.row - 1 = imp.row /\ imp.row \in i + 1 .. imp.row /\ \A j \in i + 1 .. imp.row - 1 : j \in i + 1 .. imp.row
  BY <1>1
<1>3. \A j : Overtaken(i, j)' <=> Overtaken(i, j)
  BY DEF Overtaken
<1>4. CASE imp.rows[i] = NoHolding
  BY <1>4 DEF Follows
<1>5. CASE \E x \in Holding : IsHolding(x, imp.rows[i])
  BY <1>5, <1>2, <1>3 DEF Follows
<1>6. CASE \E j \in i + 1 .. imp.row - 1 : Overtaken(i, j)
  BY <1>6, <1>2, <1>3 DEF Follows
<1> QED
  BY <1>4, <1>5, <1>6 DEF Follows

\* An import that begins has applied no row.
LEMMA ImportBeginFollows ==
    ASSUME WorkbookTypeOK, NEW sheet \in Seq(Content \cup {Nil}), NEW cells \in Seq(Cell), ImportBegin(sheet, cells)
    PROVE  FollowInv'
<1>1. /\ imp' \in Importing /\ imp'.row = 1 /\ imp'.session = holdings /\ holdings' = holdings
      /\ imp'.byRef = {<<holdings[x].ref, x>> : x \in {y \in Held(holdings) : holdings[y].ref # Nil}}
      /\ imp'.byKey = {<<holdings[x].key, x>> : x \in Held(holdings)}
  BY ImportBeginFields DEF ImportBegin
<1>2. \A x \in Held(holdings) : holdings[x] # NoHolding
  BY DEF Held
<1>3. KeptHeld' /\ KeyUntilApplied'
  BY <1>1, <1>2 DEF KeptHeld, KeyUntilApplied
<1>4. KeysOfSession'
  BY <1>1, <1>2 DEF KeysOfSession
<1>5. RefsOfHoldings'
  BY <1>1 DEF RefsOfHoldings
<1>6. RowsFollow'
  BY <1>1 DEF RowsFollow
<1>7. imp'.row <= Len(imp'.rows) + 1
  BY <1>1 DEF Importing, HoldingRows
<1> QED
  BY <1>3, <1>4, <1>5, <1>6, <1>7 DEF FollowInv

\* A row that is left out has nothing to follow.
LEMMA SkipRowFollows ==
    ASSUME ImportTypeOK, FollowInv, SkipRow
    PROVE  FollowInv'
<1>1. imp \in Importing /\ imp.row \in DOMAIN imp.rows /\ SheetRow = NoHolding
  BY MoreRowsType DEF SkipRow, ImportTypeOK
<1>2. /\ imp'.row = imp.row + 1 /\ imp'.rows = imp.rows /\ imp'.session = imp.session
      /\ imp'.byRef = imp.byRef /\ imp'.byKey = imp.byKey /\ holdings' = holdings
  BY SkipRowFields DEF SkipRow, ImportTypeOK
<1>3. \A f : Applied(f) => Applied(f)'
  BY <1>1, <1>2, AppliedGrows
<1>4. KeptHeld' /\ KeysOfSession'
  BY <1>1, <1>2 DEF FollowInv, KeptHeld, KeysOfSession
<1>5. RefsOfHoldings' /\ KeyUntilApplied'
  BY <1>1, <1>2, <1>3 DEF FollowInv, RefsOfHoldings, KeyUntilApplied
<1>6. imp.row \in Nat \ {0} /\ imp.rows \in Seq(Stored)
  BY <1>1 DEF Importing, Count, HoldingRows
<1>7. RowsFollow'
  <2> SUFFICES ASSUME NEW i \in 1 .. imp'.row - 1
               PROVE  Follows(i, imp.row - 1)'
    BY DEF RowsFollow
  <2>1. CASE i = imp.row
    BY <2>1, <1>1, <1>2 DEF Follows, SheetRow
  <2>2. CASE i # imp.row
    <3>1. i \in 1 .. imp.row - 1
      BY <2>2, <1>2, <1>6
    <3>2. Follows(i, imp.row - 1)
      BY <3>1, <1>1 DEF FollowInv, RowsFollow
    <3>3. \A x \in Holding : IsHolding(x, imp.rows[i]) => IsHolding(x, imp.rows[i])'
      BY <1>2 DEF IsHolding
    <3> QED
      BY <3>1, <3>2, <3>3, <1>1, <1>2, FollowsGrows
  <2> QED
    BY <2>1, <2>2
<1>8. imp'.row <= Len(imp'.rows) + 1
  BY <1>1, <1>2, <1>6
<1> QED
  BY <1>4, <1>5, <1>7, <1>8 DEF FollowInv

\* A row that went to the holding x, new or known: what is left to show is
\* about x alone.
LEMMA RowWritten ==
    ASSUME ImportTypeOK, FollowInv, MoreRows, SheetRow # NoHolding, NEW x \in Holding,
           imp' \in Importing, imp'.row = imp.row + 1, imp'.rows = imp.rows, holdings' = holdings,
           imp'.session = [imp.session EXCEPT ![x] = SheetRow],
           imp'.byRef = Put(imp.byRef, SheetRow.ref, x),
           \A k, y : <<k, y>> \in imp'.byKey => (k = SheetRow.key /\ y = x) \/ (y # x /\ <<k, y>> \in imp.byKey),
           x \in Held(holdings) => SheetRow.key = imp.session[x].key \/ SheetRow.ref = holdings[x].ref,
           \A i \in 1 .. imp.row - 1 : IsHolding(x, imp.rows[i]) => Overtaken(i, imp.row)
    PROVE  FollowInv'
<1>1. imp \in Importing /\ imp.row \in DOMAIN imp.rows
  BY MoreRowsType DEF ImportTypeOK
<1>2. imp.row \in Nat \ {0} /\ imp.rows \in Seq(Stored) /\ imp.session \in [Holding -> Stored] /\ imp.byRef \in SUBSET (RefOfRow \X Holding)
      /\ imp'.byKey \in SUBSET ((KeyOf \cup {Nil}) \X Holding) /\ imp'.byRef \in SUBSET (RefOfRow \X Holding)
  BY <1>1 DEF Importing, Count, HoldingRows, HoldingTables, RefTables, KeyTables
<1>3. imp'.session[x] = SheetRow /\ \A y \in Holding : y # x => imp'.session[y] = imp.session[y]
  BY <1>2
<1>4. (\A f : Applied(f) => Applied(f)') /\ (\A f : f = SheetRow.ref => Applied(f)')
  BY <1>1, AppliedGrows
<1>5. KeptHeld'
  <2> SUFFICES ASSUME NEW y \in Held(holdings)
               PROVE  imp'.session[y] # NoHolding
    BY DEF KeptHeld
  <2> QED
    BY <1>1, <1>3 DEF Held, FollowInv, KeptHeld
<1>6. KeysOfSession'
  <2> SUFFICES ASSUME NEW p \in imp'.byKey
               PROVE  imp'.session[p[2]] # NoHolding /\ imp'.session[p[2]].key = p[1]
    BY DEF KeysOfSession
  <2>1. p = <<p[1], p[2]>> /\ p[2] \in Holding
    BY <1>2
  <2>2. CASE p[1] = SheetRow.key /\ p[2] = x
    BY <2>2, <1>3
  <2>3. CASE p[2] # x /\ p \in imp.byKey
    BY <2>1, <2>3, <1>1, <1>3 DEF FollowInv, KeysOfSession
  <2> QED
    BY <2>1, <2>2, <2>3
<1>7. RefsOfHoldings'
  <2> SUFFICES ASSUME NEW p \in imp'.byRef
               PROVE  (p[2] \in Held(holdings) /\ holdings[p[2]].ref = p[1]) \/ Applied(p[1])'
    BY DEF RefsOfHoldings
  <2>1. p \in imp.byRef \/ p = <<SheetRow.ref, x>>
    BY DEF Put
  <2> QED
    BY <2>1, <1>1, <1>4 DEF FollowInv, RefsOfHoldings
<1>8. KeyUntilApplied'
  <2> SUFFICES ASSUME NEW y \in Held(holdings)
               PROVE  imp'.session[y].key = holdings[y].key \/ Applied(holdings[y].ref)'
    BY DEF KeyUntilApplied
  <2>1. y \in Holding /\ (imp.session[y].key = holdings[y].key \/ Applied(holdings[y].ref))
    BY <1>1 DEF Held, FollowInv, KeyUntilApplied
  <2>2. CASE y # x
    BY <2>1, <2>2, <1>3, <1>4
  <2>3. CASE y = x
    BY <2>1, <2>3, <1>3, <1>4
  <2> QED
    BY <2>2, <2>3
<1>9. RowsFollow'
  <2> SUFFICES ASSUME NEW i \in 1 .. imp'.row - 1
               PROVE  Follows(i, imp.row - 1)'
    BY DEF RowsFollow
  <2>1. CASE i = imp.row
    <3>1. IsHolding(x, imp.rows[i])'
      BY <2>1, <1>3 DEF IsHolding, SheetRow
    <3> QED
      BY <3>1 DEF Follows
  <2>2. CASE i # imp.row
    <3>1. i \in 1 .. imp.row - 1
      BY <2>2, <1>2
    <3>2. Follows(i, imp.row - 1)
      BY <3>1, <1>1 DEF FollowInv, RowsFollow
    <3>3. \A y \in Holding : IsHolding(y, imp.rows[i]) => IsHolding(y, imp.rows[i])' \/ Overtaken(i, imp.row)
      BY <3>1, <1>3 DEF IsHolding
    <3> QED
      BY <3>1, <3>2, <3>3, <1>1, FollowsGrows
  <2> QED
    BY <2>1, <2>2
<1>10. imp'.row <= Len(imp'.rows) + 1
  BY <1>1, <1>2
<1> QED
  BY <1>5, <1>6, <1>7, <1>8, <1>9, <1>10 DEF FollowInv

\* A row of no known reference and no known key becomes a holding.
LEMMA AddRowFollows ==
    ASSUME ImportTypeOK, FollowInv, AddRow
    PROVE  FollowInv'
<1>1. MoreRows /\ SheetRow # NoHolding /\ holdings' = holdings /\ imp \in Importing
  BY MoreRowsType DEF AddRow, ImportTypeOK
<1>2. /\ Fresh \in Holding /\ imp.session[Fresh] = NoHolding
      /\ imp' \in Importing /\ imp'.row = imp.row + 1 /\ imp'.rows = imp.rows
      /\ imp'.session = [imp.session EXCEPT ![Fresh] = SheetRow]
      /\ imp'.byRef = Put(imp.byRef, SheetRow.ref, Fresh) /\ imp'.byKey = Put(imp.byKey, SheetRow.key, Fresh)
  BY AddRowFields DEF ImportTypeOK
<1>3. Fresh \notin Held(holdings)
  BY <1>1, <1>2 DEF FollowInv, KeptHeld
<1>4. ASSUME NEW k, NEW y, <<k, y>> \in imp'.byKey
      PROVE  (k = SheetRow.key /\ y = Fresh) \/ (y # Fresh /\ <<k, y>> \in imp.byKey)
  <2>1. <<k, y>> \in imp.byKey => y # Fresh
    BY <1>1, <1>2 DEF FollowInv, KeysOfSession
  <2>2. <<k, y>> \in imp.byKey \/ <<k, y>> = <<SheetRow.key, Fresh>>
    BY <1>2, <1>4 DEF Put
  <2> QED
    BY <2>1, <2>2
<1>5. \A i : ~ IsHolding(Fresh, imp.rows[i])
  BY <1>2 DEF IsHolding
<1> QED
  BY <1>1, <1>2, <1>3, <1>4, <1>5, RowWritten

\* A row goes to the holding with its reference, else to the one with its key.
LEMMA UpdateRowFollows ==
    ASSUME ImportTypeOK, FollowInv, UpdateRow
    PROVE  FollowInv'
<1>1. MoreRows /\ SheetRow # NoHolding /\ holdings' = holdings /\ imp \in Importing
  BY MoreRowsType DEF UpdateRow, ImportTypeOK
<1>2. imp' \in Importing /\ imp'.row = imp.row + 1 /\ imp'.rows = imp.rows
  BY UpdateRowFields DEF ImportTypeOK
<1>3. PICK x \in Match :
          /\ x \in Holding
          /\ imp'.session = [imp.session EXCEPT ![x] = SheetRow]
          /\ imp'.byRef = Put(imp.byRef, SheetRow.ref, x)
          /\ imp'.byKey = KeysAfter(x)
  BY UpdateRowFields DEF ImportTypeOK
<1>4. <<SheetRow.ref, x>> \in imp.byRef \/ <<SheetRow.key, x>> \in imp.byKey
  BY DEF Match, Lookup
\* By reference: the holding had it when the import began.
<1>5. ASSUME <<SheetRow.ref, x>> \in imp.byRef
      PROVE  x \in Held(holdings) /\ holdings[x].ref = SheetRow.ref /\ imp.session[x].key = holdings[x].key
  <2>1. x \in Held(holdings) /\ holdings[x].ref = SheetRow.ref
    BY <1>1, <1>5, RefIsNew DEF FollowInv, RefsOfHoldings
  <2>2. imp.session[x].key = holdings[x].key
    BY <1>1, <2>1, RefIsNew DEF FollowInv, KeyUntilApplied
  <2> QED
    BY <2>1, <2>2
<1>6. ASSUME <<SheetRow.key, x>> \in imp.byKey
      PROVE  imp.session[x].key = SheetRow.key
  BY <1>1, <1>6 DEF FollowInv, KeysOfSession
<1>7. \/ x \in Held(holdings) /\ holdings[x].ref = SheetRow.ref /\ imp.session[x].key = holdings[x].key
      \/ imp.session[x].key = SheetRow.key
  BY <1>4, <1>5, <1>6
<1>8. ASSUME NEW i \in 1 .. imp.row - 1, IsHolding(x, imp.rows[i])
      PROVE  Overtaken(i, imp.row)
  BY <1>3, <1>7, <1>8 DEF IsHolding, Overtaken, SheetRow
<1>9. ASSUME NEW k, NEW y, <<k, y>> \in imp'.byKey
      PROVE  (k = SheetRow.key /\ y = x) \/ (y # x /\ <<k, y>> \in imp.byKey)
  <2>1. <<k, x>> \in imp.byKey => imp.session[x].key = k
    BY <1>1 DEF FollowInv, KeysOfSession
  <2>2. CASE imp.session[x].key = SheetRow.key
    <3>1. <<k, y>> = <<SheetRow.key, x>> \/ (k # SheetRow.key /\ <<k, y>> \in imp.byKey)
      BY <2>2, <1>3, <1>9 DEF KeysAfter, Put
    <3> QED
      BY <2>1, <2>2, <3>1
  <2>3. CASE imp.session[x].key # SheetRow.key
    <3>1. <<k, y>> = <<SheetRow.key, x>> \/ (<<k, y>> \in imp.byKey /\ <<k, y>> # <<imp.session[x].key, x>>)
      BY <2>3, <1>3, <1>9 DEF KeysAfter, Put
    <3> QED
      BY <2>1, <3>1
  <2> QED
    BY <2>2, <2>3
<1> QED
  BY <1>1, <1>2, <1>3, <1>7, <1>8, <1>9, RowWritten

\* No import is under way at first.
LEMMA FollowInitial == WorkbookInit => FollowInv
  BY DEF WorkbookInit, FollowInv, Idle, Importing

\* Every step of the importer and of a member keeps FollowInv.
LEMMA FollowStep == ImportTypeOK /\ FollowInv /\ [WorkbookNext]_workbookVars => FollowInv'
<1> SUFFICES ASSUME ImportTypeOK, FollowInv, [WorkbookNext]_workbookVars
             PROVE  FollowInv'
  OBVIOUS
<1>0. WorkbookTypeOK /\ Idle \notin Importing
  BY DEF ImportTypeOK, Idle, Importing
<1>1. ASSUME imp' = Idle
      PROVE  FollowInv'
  BY <1>0, <1>1 DEF FollowInv, Idle, Importing
<1>2. CASE ApplyTransaction
  <2>1. /\ imp \in Importing /\ imp'.rows = imp.rows /\ imp'.row = imp.row /\ imp'.session = imp.session
        /\ imp'.byRef = imp.byRef /\ imp'.byKey = imp.byKey /\ holdings' = holdings
    BY <1>0, <1>2, ApplyTransactionFields DEF ApplyTransaction
  <2>2. \A f : Applied(f)' <=> Applied(f)
    BY <2>1 DEF Applied
  <2>3. \A i, n : Follows(i, n) => Follows(i, n)'
    BY <2>1 DEF Follows, IsHolding, Overtaken
  <2>4. KeptHeld' /\ KeysOfSession'
    BY <2>1 DEF FollowInv, KeptHeld, KeysOfSession
  <2>5. RefsOfHoldings' /\ KeyUntilApplied'
    BY <2>1, <2>2 DEF FollowInv, RefsOfHoldings, KeyUntilApplied
  <2>6. RowsFollow'
    BY <2>1, <2>3 DEF FollowInv, RowsFollow
  <2> QED
    BY <2>1, <2>4, <2>5, <2>6 DEF FollowInv
<1>3. CASE SkipRow
  BY <1>3, SkipRowFollows
<1>4. CASE AddRow
  BY <1>4, AddRowFollows
<1>5. CASE UpdateRow
  BY <1>5, UpdateRowFollows
<1>6. CASE ImportCommit \/ ImportFails
  BY <1>1, <1>6 DEF ImportCommit, ImportFails
<1>7. CASE UserMayAct
  BY <1>1, <1>7 DEF UserMayAct
<1>8. ASSUME NEW sheet \in Sheets, ImportBegin(sheet, <<>>)
      PROVE  FollowInv'
  BY <1>0, <1>8, SheetTypes, ImportBeginFollows
<1>9. ASSUME NEW cells \in HoldingSheets, ImportBegin(<<>>, cells)
      PROVE  FollowInv'
  BY <1>0, <1>9, SheetTypes, ImportBeginFollows
<1>10. CASE UNCHANGED workbookVars
  <2>1. imp' = imp /\ holdings' = holdings
    BY <1>10 DEF workbookVars
  <2> QED
    BY <2>1 DEF FollowInv, KeptHeld, KeysOfSession, RefsOfHoldings, KeyUntilApplied, RowsFollow, Follows, IsHolding, Overtaken, Applied
<1>11. UserMayAct \/ ~ (\/ \E c \in Content : AddTransaction(c)
                        \/ \E i \in 1 .. MaxTx : ClearCategory(i) \/ RemoveTransaction(i) \/ \E c \in Content : EditTransaction(i, c)
                        \/ \E x \in Holding : DeleteHolding(x) \/ \E h \in Parsed : WriteHolding(x, h.key, h.value))
  BY DEF AddTransaction, ClearCategory, RemoveTransaction, EditTransaction, DeleteHolding, WriteHolding
<1> QED
  BY <1>2, <1>3, <1>4, <1>5, <1>6, <1>7, <1>8, <1>9, <1>10, <1>11 DEF WorkbookNext

\* HoldingsFollowSheet, for every workbook and every table of holdings: after
\* an import each row of the sheets has its holding, unless a later row took it
\* over by its key or its row number (_apply_holdings).
THEOREM HoldingsAlwaysFollowSheet == WorkbookSpec => HoldingsFollowSheet
<1>1. ImportTypeOK /\ FollowInv => [ImportCommit =>
          \A i \in DOMAIN imp.rows :
              imp.rows[i] = NoHolding
              \/ (\E x \in Holding : holdings'[x].key = imp.rows[i].key /\ holdings'[x].value = imp.rows[i].value)
              \/ \E j \in i + 1 .. Len(imp.rows) :
                    \/ imp.rows[j].key = imp.rows[i].key
                    \/ \E x \in Holding : holdings[x].ref = imp.rows[j].ref /\ holdings[x].key = imp.rows[i].key]_workbookVars
  <2> SUFFICES ASSUME ImportTypeOK, FollowInv, ImportCommit, NEW i \in DOMAIN imp.rows
               PROVE  imp.rows[i] = NoHolding
                      \/ (\E x \in Holding : holdings'[x].key = imp.rows[i].key /\ holdings'[x].value = imp.rows[i].value)
                      \/ \E j \in i + 1 .. Len(imp.rows) :
                            \/ imp.rows[j].key = imp.rows[i].key
                            \/ \E x \in Holding : holdings[x].ref = imp.rows[j].ref /\ holdings[x].key = imp.rows[i].key
    OBVIOUS
  <2>1. imp \in Importing
    BY ImportingStep DEF ImportTypeOK, WorkbookTypeOK, ImportCommit, AllApplied
  <2>2. imp.row \in Nat /\ imp.rows \in Seq(Stored)
    BY <2>1 DEF Importing, Count, HoldingRows
  <2>3. imp.row - 1 = Len(imp.rows) /\ i \in 1 .. imp.row - 1
    BY <2>1, <2>2 DEF FollowInv, ImportCommit, AllApplied
  <2>4. Follows(i, Len(imp.rows)) /\ holdings' = imp.session
    BY <2>1, <2>3 DEF FollowInv, RowsFollow, ImportCommit
  <2> QED
    BY <2>4 DEF Follows, IsHolding, Overtaken
<1> QED
  BY <1>1, WorkbookTypeInitial, WorkbookTypeStep, FollowInitial, FollowStep, PTL DEF WorkbookSpec, HoldingsFollowSheet

---------------------------------------------------------------------------
(* TossImport: reading the lines of a screenshot                           *)

\* Reading, review and applies, without fairness.
TossSpec == TossInit /\ [][TossNext]_tossVars

\* What a line is as a date header, and the lines a row was read from.
LineKind == {"no", "date", "invalid"}
Fields == [date : Nat, item : Nat, time : Nat, amount : Nat, balance : Nat]

\* RowsStayTogether for one row, with the end of the row before it.
Together(r, above, ls) ==
    /\ r.date > 0 /\ r.balance <= Len(ls) /\ r.date < r.balance /\ above < r.balance
    /\ ls[r.date] = "date"
    /\ \A i \in r.date + 1 .. r.balance : ls[i] = "no"
    /\ \A i \in {r.item, r.time, r.amount} : i > r.date /\ i > above /\ i <= r.balance

\* The line of the balance of the row before.
Above(rows, k) == IF k > 1 THEN rows[k - 1].balance ELSE 0

\* RowsStayTogether for a list of rows.
AllTogether(rows, ls) == \A k \in DOMAIN rows : Together(rows[k], Above(rows, k), ls)

\* A field of the row being put together: not read yet, or read below the
\* date and below the last complete row.
ReadBelow(f, p, above, ls) == f # 0 => f > p.date /\ f > above /\ f <= Len(ls)

\* The row being put together: no line since its date is a header.
Assembling(p, above, ls) ==
    /\ p.balance = 0
    /\ p.date # 0 => /\ p.date <= Len(ls) /\ ls[p.date] = "date"
                     /\ \A i \in p.date + 1 .. Len(ls) : ls[i] = "no"
    /\ \A f \in {p.item, p.time, p.amount} : ReadBelow(f, p, above, ls)

\* The line the last complete row ended with.
LastBalance(rows) == Above(rows, Len(rows) + 1)

\* The inductive invariant of reading: complete rows and the row under way.
ReadingInv ==
    /\ lines \in Seq(LineKind) /\ parsed \in Seq(Fields) /\ pending \in Fields
    /\ AllTogether(parsed, lines)
    /\ Assembling(pending, LastBalance(parsed), lines)

\* A row stays together when another line is read.
LEMMA TogetherGrows ==
    ASSUME NEW ls \in Seq(LineKind), NEW h \in LineKind, NEW r \in Fields, NEW above \in Nat,
           Together(r, above, ls)
    PROVE  Together(r, above, Append(ls, h))
<1>1. Len(Append(ls, h)) = Len(ls) + 1 /\ \A i \in 1 .. Len(ls) : Append(ls, h)[i] = ls[i]
  OBVIOUS
<1>2. r.date \in 1 .. Len(ls) /\ \A i \in r.date + 1 .. r.balance : i \in 1 .. Len(ls)
  BY DEF Together, Fields
<1> QED
  BY <1>1, <1>2 DEF Together, Fields

\* Every row has a line above it, or 0.
LEMMA AboveIsNat ==
    ASSUME NEW rows \in Seq(Fields), NEW k \in 1 .. Len(rows) + 1
    PROVE  Above(rows, k) \in Nat
<1>1. CASE k > 1
  <2>1. k - 1 \in 1 .. Len(rows)
    BY <1>1
  <2>2. rows[k - 1] \in Fields
    BY <2>1
  <2> QED
    BY <1>1, <2>2 DEF Above, Fields
<1> QED
  BY <1>1 DEF Above

\* All rows stay together when another line is read.
LEMMA AllTogetherGrows ==
    ASSUME NEW ls \in Seq(LineKind), NEW h \in LineKind, NEW rows \in Seq(Fields), AllTogether(rows, ls)
    PROVE  AllTogether(rows, Append(ls, h))
<1> SUFFICES ASSUME NEW k \in DOMAIN rows
             PROVE  Together(rows[k], Above(rows, k), Append(ls, h))
  BY DEF AllTogether
<1>1. rows[k] \in Fields /\ k \in 1 .. Len(rows) + 1
  OBVIOUS
<1> QED
  BY <1>1, TogetherGrows, AboveIsNat DEF AllTogether

\* A complete row goes behind the others.
LEMMA AllTogetherAppends ==
    ASSUME NEW ls, NEW rows \in Seq(Fields), NEW r \in Fields,
           AllTogether(rows, ls), Together(r, LastBalance(rows), ls)
    PROVE  AllTogether(Append(rows, r), ls) /\ LastBalance(Append(rows, r)) = r.balance
<1> DEFINE more == Append(rows, r)
<1>1. more \in Seq(Fields) /\ Len(more) = Len(rows) + 1 /\ DOMAIN more = 1 .. Len(rows) + 1
  OBVIOUS
<1>2. \A k \in 1 .. Len(rows) : more[k] = rows[k]
  OBVIOUS
<1>3. more[Len(rows) + 1] = r
  OBVIOUS
<1> HIDE DEF more
<1>4. ASSUME NEW k \in 1 .. Len(rows) + 1
      PROVE  Above(more, k) = Above(rows, k)
  BY <1>1, <1>2 DEF Above
<1>5. LastBalance(more) = r.balance
  BY <1>1, <1>3 DEF LastBalance, Above
<1>6. AllTogether(more, ls)
  <2> SUFFICES ASSUME NEW k \in 1 .. Len(rows) + 1
               PROVE  Together(more[k], Above(more, k), ls)
    BY <1>1 DEF AllTogether
  <2>1. CASE k = Len(rows) + 1
    BY <2>1, <1>3, <1>4 DEF LastBalance
  <2>2. CASE k # Len(rows) + 1
    <3>1. k \in DOMAIN rows /\ more[k] = rows[k]
      BY <2>2, <1>2
    <3> QED
      BY <3>1, <1>4 DEF AllTogether
  <2> QED
    BY <2>1, <2>2
<1> QED
  BY <1>5, <1>6 DEF more

\* A line that is no header leaves the row under way in its day.
LEMMA AssemblingGrows ==
    ASSUME NEW ls \in Seq(LineKind), NEW p \in Fields, NEW above \in Nat, Assembling(p, above, ls)
    PROVE  Assembling(p, above, Append(ls, "no"))
<1>1. Len(Append(ls, "no")) = Len(ls) + 1 /\ \A i \in 1 .. Len(ls) : Append(ls, "no")[i] = ls[i]
  BY DEF LineKind
<1>2. Append(ls, "no")[Len(ls) + 1] = "no"
  BY DEF LineKind
<1> QED
  BY <1>1, <1>2 DEF Assembling, ReadBelow, Fields

\* Reading starts with no line, no row and no field.
LEMMA ReadingInitial == TossInit => ReadingInv
  BY DEF TossInit, ReadingInv, AllTogether, Assembling, NoFields, Fields, LastBalance, Above, ReadBelow, LineKind

\* A complete row under way becomes a row of the list.
LEMMA FlushedTogether ==
    ASSUME NEW ls \in Seq(LineKind), NEW p \in Fields, NEW above \in Nat, NEW q \in Fields,
           Assembling(p, above, ls), above <= Len(ls), q.date = p.date, q.balance = Len(ls) + 1, Complete(q),
           \A f \in {q.item, q.time, q.amount} : f = Len(ls) + 1 \/ f \in {p.item, p.time, p.amount}
    PROVE  Together(q, above, Append(ls, "no"))
<1>1. Len(Append(ls, "no")) = Len(ls) + 1 /\ \A i \in 1 .. Len(ls) : Append(ls, "no")[i] = ls[i]
  BY DEF LineKind
<1>2. Append(ls, "no")[Len(ls) + 1] = "no"
  BY DEF LineKind
<1>3. /\ Len(ls) \in Nat /\ p.date = q.date /\ p.date \in 1 .. Len(ls) /\ ls[p.date] = "date"
      /\ \A i \in p.date + 1 .. Len(ls) : ls[i] = "no"
  BY DEF Assembling, Complete, Fields
<1>4. ASSUME NEW i \in q.date + 1 .. q.balance
      PROVE  Append(ls, "no")[i] = "no"
  <2>1. CASE i = Len(ls) + 1
    BY <2>1, <1>2
  <2>2. CASE i # Len(ls) + 1
    <3>1. i \in p.date + 1 .. Len(ls) /\ i \in 1 .. Len(ls)
      BY <2>2, <1>3
    <3> QED
      BY <3>1, <1>1, <1>3
  <2> QED
    BY <2>1, <2>2
<1>5. ASSUME NEW f \in {q.item, q.time, q.amount}
      PROVE  f > q.date /\ f > above /\ f <= q.balance
  <2>1. CASE f = Len(ls) + 1
    BY <2>1, <1>3
  <2>2. CASE f \in {p.item, p.time, p.amount}
    <3>1. f # 0
      BY DEF Complete
    <3>2. f \in Nat /\ ReadBelow(f, p, above, ls)
      BY <2>2 DEF Assembling, Fields
    <3> QED
      BY <3>1, <3>2, <1>3 DEF ReadBelow
  <2> QED
    BY <2>1, <2>2
<1> QED
  BY <1>1, <1>3, <1>4, <1>5 DEF Together

\* The row after a complete one, or after one that was left out, starts empty
\* below the last complete row.
LEMMA StartsEmpty ==
    ASSUME NEW ls \in Seq(LineKind), NEW p \in Fields, NEW above, NEW other, Assembling(p, above, ls)
    PROVE  /\ [NoFields EXCEPT !.date = p.date] \in Fields
           /\ Assembling([NoFields EXCEPT !.date = p.date], other, ls)
  BY DEF Assembling, NoFields, Fields, ReadBelow

\* The row with the time, or the item, of the line.
LEMMA WithTimeKeeps ==
    ASSUME NEW line \in Line, pending \in Fields, lines \in Seq(LineKind)
    PROVE  /\ WithTime(pending, line) \in Fields
           /\ WithTime(pending, line).date = pending.date
           /\ WithTime(pending, line).balance = pending.balance
           /\ WithTime(pending, line).amount = pending.amount
           /\ WithTime(pending, line).time \in {pending.time, At}
           /\ WithTime(pending, line).item \in {pending.item, At}
<1> DEFINE it == IF line.text /\ pending.item = 0 THEN At ELSE pending.item
           p == [pending EXCEPT !.time = At, !.item = it]
<1>1. At \in Nat /\ it \in Nat /\ it \in {pending.item, At}
  BY DEF At, Fields
<1>2. WithTime(pending, line) \in {p, pending}
  BY DEF WithTime
<1> HIDE DEF it
<1>3. /\ p \in Fields /\ p.date = pending.date /\ p.balance = pending.balance /\ p.amount = pending.amount
      /\ p.time = At /\ p.item = it
  BY <1>1 DEF Fields
<1> QED
  BY <1>1, <1>2, <1>3

\* The fields a line adds are below everything read before.
LEMMA AssemblingTakes ==
    ASSUME NEW ls \in Seq(LineKind), NEW p \in Fields, NEW above \in Nat, NEW q \in Fields,
           Assembling(p, above, ls), above <= Len(ls), q.date = p.date, q.balance = 0,
           \A f \in {q.item, q.time, q.amount} : f = Len(ls) + 1 \/ f \in {p.item, p.time, p.amount}
    PROVE  Assembling(q, above, Append(ls, "no"))
<1>1. Len(Append(ls, "no")) = Len(ls) + 1 /\ \A i \in 1 .. Len(ls) : Append(ls, "no")[i] = ls[i]
  BY DEF LineKind
<1>2. Append(ls, "no")[Len(ls) + 1] = "no"
  BY DEF LineKind
<1>3. \A f \in {p.item, p.time, p.amount} : ReadBelow(f, p, above, Append(ls, "no"))
  BY <1>1 DEF Assembling, ReadBelow, Fields
<1>4. ReadBelow(Len(ls) + 1, q, above, Append(ls, "no"))
  BY <1>1 DEF Assembling, ReadBelow, Fields
<1>5. \A f \in {q.item, q.time, q.amount} : ReadBelow(f, q, above, Append(ls, "no"))
  BY <1>3, <1>4 DEF ReadBelow
<1>6. q.date # 0 => /\ q.date <= Len(ls) + 1 /\ Append(ls, "no")[q.date] = "date"
                    /\ \A i \in q.date + 1 .. Len(ls) + 1 : Append(ls, "no")[i] = "no"
  <2> SUFFICES ASSUME q.date # 0
               PROVE  /\ q.date <= Len(ls) + 1 /\ Append(ls, "no")[q.date] = "date"
                      /\ \A i \in q.date + 1 .. Len(ls) + 1 : Append(ls, "no")[i] = "no"
    OBVIOUS
  <2>1. /\ Len(ls) \in Nat /\ p.date = q.date /\ p.date \in 1 .. Len(ls) /\ ls[p.date] = "date"
        /\ \A i \in p.date + 1 .. Len(ls) : ls[i] = "no"
    BY DEF Assembling, Fields
  <2>2. ASSUME NEW i \in q.date + 1 .. Len(ls) + 1
        PROVE  Append(ls, "no")[i] = "no"
    <3>1. CASE i = Len(ls) + 1
      BY <3>1, <1>2
    <3>2. CASE i # Len(ls) + 1
      <4>1. i \in p.date + 1 .. Len(ls) /\ i \in 1 .. Len(ls)
        BY <3>2, <2>1
      <4> QED
        BY <4>1, <1>1, <2>1
    <3> QED
      BY <3>1, <3>2
  <2> QED
    BY <1>1, <2>1, <2>2
<1> QED
  BY <1>1, <1>5, <1>6 DEF Assembling

\* The last complete row was read from the lines.
LEMMA LastBalanceInLines ==
    ASSUME ReadingInv
    PROVE  LastBalance(parsed) \in Nat /\ LastBalance(parsed) <= Len(lines)
<1>1. LastBalance(parsed) \in Nat
  BY AboveIsNat DEF LastBalance, ReadingInv
<1>2. CASE Len(parsed) = 0
  BY <1>2 DEF LastBalance, Above, ReadingInv
<1>3. CASE Len(parsed) # 0
  <2>1. Len(parsed) \in DOMAIN parsed /\ LastBalance(parsed) = parsed[Len(parsed)].balance
    BY <1>3 DEF LastBalance, Above, ReadingInv
  <2> QED
    BY <1>1, <2>1 DEF ReadingInv, AllTogether, Together
<1> QED
  BY <1>1, <1>2, <1>3

\* What a flush of the row q does, for a line that is no header.
LEMMA FlushKeeps ==
    ASSUME ReadingInv, NEW q \in Fields, FlushPending(q), q.date = pending.date, q.balance = Len(lines) + 1,
           \A f \in {q.item, q.time, q.amount} : f = Len(lines) + 1 \/ f \in {pending.item, pending.time, pending.amount},
           lines' = Append(lines, "no"), pending' = [NoFields EXCEPT !.date = pending.date]
    PROVE  ReadingInv'
<1> DEFINE ls == Append(lines, "no")
<1>1. lines \in Seq(LineKind) /\ parsed \in Seq(Fields) /\ pending \in Fields /\ ls \in Seq(LineKind)
  BY DEF ReadingInv, LineKind
<1>2. LastBalance(parsed) \in Nat /\ LastBalance(parsed) <= Len(lines)
  BY LastBalanceInLines
<1>3. AllTogether(parsed, ls)
  BY <1>1, AllTogetherGrows DEF ReadingInv, LineKind
<1>4. Assembling(pending, LastBalance(parsed), ls)
  BY <1>1, <1>2, AssemblingGrows DEF ReadingInv
<1>5. parsed' \in Seq(Fields) /\ AllTogether(parsed', ls)
  <2>1. CASE Complete(q)
    <3>1. Together(q, LastBalance(parsed), ls)
      BY <2>1, <1>1, <1>2, FlushedTogether DEF ReadingInv
    <3> QED
      BY <2>1, <3>1, <1>1, <1>3, AllTogetherAppends DEF FlushPending
  <2>2. CASE ~ Complete(q)
    BY <2>2, <1>1, <1>3 DEF FlushPending
  <2> QED
    BY <2>1, <2>2
<1>6. pending' \in Fields /\ Assembling(pending', LastBalance(parsed'), ls)
  BY <1>1, <1>4, StartsEmpty
<1> QED
  BY <1>1, <1>5, <1>6 DEF ReadingInv

\* A header, valid or not, ends the row under way.
LEMMA FeedHeaderReads ==
    ASSUME ReadingInv, NEW line \in Header, FeedHeader(line)
    PROVE  ReadingInv'
<1> DEFINE ls == Append(lines, line.header)
<1>1. line.header \in {"date", "invalid"}
  BY DEF Header
<1>2. lines \in Seq(LineKind) /\ parsed \in Seq(Fields) /\ pending \in Fields /\ ls \in Seq(LineKind) /\ Len(ls) = Len(lines) + 1
      /\ ls[Len(lines) + 1] = line.header
  BY <1>1 DEF ReadingInv, LineKind
<1>3. lines' = ls /\ parsed' = parsed
  BY DEF FeedHeader, Feeds, FlushPending, Complete, ReadingInv, Assembling
<1>4. AllTogether(parsed, ls)
  BY <1>1, <1>2, AllTogetherGrows DEF ReadingInv, LineKind
<1>5. pending' \in Fields /\ Assembling(pending', LastBalance(parsed), ls)
  <2>1. CASE line.header = "date"
    <3>1. pending' = [NoFields EXCEPT !.date = Len(lines) + 1]
      BY <2>1 DEF FeedHeader, At
    <3>2. /\ pending' \in Fields /\ pending'.date = Len(lines) + 1
          /\ pending'.item = 0 /\ pending'.time = 0 /\ pending'.amount = 0 /\ pending'.balance = 0
      BY <3>1, <1>2 DEF NoFields, Fields
    <3>3. \A i \in Len(lines) + 2 .. Len(ls) : FALSE
      BY <1>2
    <3>4. Len(lines) \in Nat
      BY <1>2
    <3> HIDE DEF ls
    <3> QED
      BY <2>1, <3>2, <3>3, <3>4, <1>2 DEF Assembling, ReadBelow
  <2>2. CASE line.header # "date"
    <3>1. pending' = NoFields
      BY <2>2 DEF FeedHeader, NoFields
    <3> QED
      BY <3>1 DEF NoFields, Fields, Assembling, ReadBelow
  <2> QED
    BY <2>1, <2>2
<1> QED
  BY <1>2, <1>3, <1>4, <1>5 DEF ReadingInv

\* A line with an amount adds its fields and may complete the row.
LEMMA FeedAmountReads ==
    ASSUME ReadingInv, NEW line \in Line, FeedAmount(line)
    PROVE  ReadingInv'
<1> DEFINE p == WithTime(pending, line)
           it == IF p.item = 0 /\ line.text THEN At ELSE p.item
           full == [p EXCEPT !.item = it, !.amount = At, !.balance = IF line.unsigned THEN At ELSE p.balance]
<1>1. lines \in Seq(LineKind) /\ parsed \in Seq(Fields) /\ pending \in Fields
  BY DEF ReadingInv
<1>2. LastBalance(parsed) \in Nat /\ LastBalance(parsed) <= Len(lines)
  BY LastBalanceInLines
<1>3. lines' = Append(lines, "no")
  BY DEF FeedAmount, Feeds
<1>4. At = Len(lines) + 1 /\ At \in Nat
  BY <1>1 DEF At
<1>5. /\ p \in Fields /\ p.date = pending.date /\ p.balance = 0
      /\ p.time \in {pending.time, At} /\ p.item \in {pending.item, At}
  BY <1>1, WithTimeKeeps DEF ReadingInv, Assembling
<1>6. IF line.unsigned
      THEN FlushPending(full) /\ pending' = [NoFields EXCEPT !.date = pending.date]
      ELSE UNCHANGED <<parsed, excluded>> /\ pending' = full
  BY DEF FeedAmount
<1> HIDE DEF p
<1>7. /\ full \in Fields /\ full.date = p.date /\ full.time = p.time /\ full.amount = At
      /\ full.item \in {p.item, At} /\ full.balance = IF line.unsigned THEN At ELSE 0
  BY <1>4, <1>5 DEF Fields
<1> HIDE DEF full
<1>8. \A f \in {full.item, full.time, full.amount} : f = Len(lines) + 1 \/ f \in {pending.item, pending.time, pending.amount}
  BY <1>4, <1>5, <1>7
<1>9. CASE line.unsigned
  BY <1>9, <1>3, <1>4, <1>5, <1>6, <1>7, <1>8, FlushKeeps
<1>10. CASE ~ line.unsigned
  <2>1. Assembling(full, LastBalance(parsed), Append(lines, "no"))
    BY <1>10, <1>1, <1>2, <1>5, <1>7, <1>8, AssemblingTakes DEF ReadingInv
  <2>2. AllTogether(parsed, Append(lines, "no"))
    BY <1>1, AllTogetherGrows DEF ReadingInv, LineKind
  <2>3. Append(lines, "no") \in Seq(LineKind)
    BY <1>1 DEF LineKind
  <2> QED
    BY <1>10, <1>1, <1>3, <1>6, <1>7, <2>1, <2>2, <2>3 DEF ReadingInv
<1> QED
  BY <1>9, <1>10

\* A line with a balance alone completes the row or drops it.
LEMMA FeedBalanceReads ==
    ASSUME ReadingInv, NEW line \in Line, FeedBalance(line)
    PROVE  ReadingInv'
<1> DEFINE full == [pending EXCEPT !.balance = At]
<1>1. lines \in Seq(LineKind) /\ pending \in Fields /\ At = Len(lines) + 1 /\ At \in Nat
  BY DEF ReadingInv, At
<1>2. /\ full \in Fields /\ full.date = pending.date /\ full.item = pending.item /\ full.time = pending.time
      /\ full.amount = pending.amount /\ full.balance = At
  BY <1>1 DEF Fields
<1>3. lines' = Append(lines, "no") /\ FlushPending(full) /\ pending' = [NoFields EXCEPT !.date = pending.date]
  BY DEF FeedBalance, Feeds
<1> HIDE DEF full
<1> QED
  BY <1>1, <1>2, <1>3, FlushKeeps

\* A line of text is the item or the time of the row.
LEMMA FeedTextReads ==
    ASSUME ReadingInv, NEW line \in Line, FeedText(line)
    PROVE  ReadingInv'
<1> DEFINE p == WithTime(pending, line)
<1>1. lines \in Seq(LineKind) /\ parsed \in Seq(Fields) /\ pending \in Fields /\ At = Len(lines) + 1 /\ At \in Nat
  BY DEF ReadingInv, At
<1>2. LastBalance(parsed) \in Nat /\ LastBalance(parsed) <= Len(lines)
  BY LastBalanceInLines
<1>3. /\ p \in Fields /\ p.date = pending.date /\ p.balance = 0 /\ p.amount = pending.amount
      /\ p.time \in {pending.time, At} /\ p.item \in {pending.item, At}
  BY <1>1, WithTimeKeeps DEF ReadingInv, Assembling
<1>4. lines' = Append(lines, "no") /\ parsed' = parsed /\ pending' \in {p, [p EXCEPT !.item = At]}
  BY DEF FeedText, Feeds
<1> HIDE DEF p
<1>5. /\ pending' \in Fields /\ pending'.date = pending.date /\ pending'.balance = 0 /\ pending'.amount = pending.amount
      /\ pending'.time \in {pending.time, At} /\ pending'.item \in {pending.item, At}
  BY <1>1, <1>3, <1>4 DEF Fields
<1>6. Assembling(pending', LastBalance(parsed), Append(lines, "no"))
  BY <1>1, <1>2, <1>5, AssemblingTakes DEF ReadingInv
<1>7. AllTogether(parsed, Append(lines, "no"))
  BY <1>1, AllTogetherGrows DEF ReadingInv, LineKind
<1>8. Append(lines, "no") \in Seq(LineKind)
  BY <1>1 DEF LineKind
<1> QED
  BY <1>1, <1>4, <1>5, <1>6, <1>7, <1>8 DEF ReadingInv

\* Every step of the import keeps ReadingInv.
LEMMA ReadingStep == ReadingInv /\ [TossNext]_tossVars => ReadingInv'
<1> SUFFICES ASSUME ReadingInv, [TossNext]_tossVars
             PROVE  ReadingInv'
  OBVIOUS
<1>1. ASSUME NEW line \in Header, FeedHeader(line)
      PROVE  ReadingInv'
  BY <1>1, FeedHeaderReads
<1>2. ASSUME NEW line \in Line, FeedAmount(line) \/ FeedBalance(line) \/ FeedText(line)
      PROVE  ReadingInv'
  BY <1>2, FeedAmountReads, FeedBalanceReads, FeedTextReads
<1>3. ASSUME UNCHANGED <<lines, pending, parsed>>
      PROVE  ReadingInv'
  BY <1>3 DEF ReadingInv
<1>4. CASE \E images \in SeqOf(SeqOf(Shown, MaxShown), MaxImage) : Preview(images)
  BY <1>4, <1>3 DEF Preview
<1>5. CASE \E r \in preview : Toggle(r)
  BY <1>5, <1>3 DEF Toggle
<1>6. CASE \E q \in Reviewer : ApplyReads(q) \/ ApplyCommits(q)
  BY <1>6, <1>3 DEF ApplyReads, ApplyCommits
<1>7. CASE UNCHANGED tossVars
  BY <1>7, <1>3 DEF tossVars
<1> QED
  BY <1>1, <1>2, <1>4, <1>5, <1>6, <1>7 DEF TossNext

\* RowsStayTogether, for any number and order of lines: every row the parser
\* puts together has the last date header above it, no header between its
\* fields, and no line of the row before (parse_toss_ocr_text).
THEOREM RowsAlwaysStayTogether == TossSpec => []RowsStayTogether
<1>1. ReadingInv => RowsStayTogether
  <2> SUFFICES ASSUME ReadingInv, NEW k \in DOMAIN parsed, Together(parsed[k], Above(parsed, k), lines)
               PROVE  LET r == parsed[k]
                          above == IF k > 1 THEN parsed[k - 1].balance ELSE 0
                          Between(i) == i > r.date /\ i > above /\ i <= r.balance
                      IN  /\ lines[r.date] = "date"
                          /\ \A i \in r.date + 1 .. r.balance : lines[i] = "no"
                          /\ Between(r.item) /\ Between(r.time) /\ Between(r.amount)
    BY DEF ReadingInv, AllTogether, RowsStayTogether
  <2> QED
    BY DEF Together, Above
<1> QED
  BY <1>1, ReadingInitial, ReadingStep, PTL DEF TossSpec

---------------------------------------------------------------------------
(* TossImport: review and apply                                            *)

\* Rows of the review, requests that apply it and transactions entered from it.
ShownRow == [image : Nat, row : Nat, content : Shown, ref : Shown \X Nat \X Nat, included : BOOLEAN]
Applying == [step : {"commit", "done"}, asked : SUBSET ShownRow, rows : SUBSET ShownRow]
EnteredRow == [ref : Shown \X Nat \X Nat, image : Nat, row : Nat, by : Reviewer]

\* The type of the review, its requests and its transactions.
ReviewType ==
    /\ preview \subseteq ShownRow
    /\ apply \in [Reviewer -> {NotApplying} \cup Applying]
    /\ entered \subseteq EnteredRow

\* x is a row of the review, as it is shown now.
IsShown(x) == \E r \in preview : r.image = x.image /\ r.row = x.row /\ r.ref = x.ref

\* Of the review: a place has one reference and a reference one place.
OneRefEach ==
    \A r, s \in preview : (r.image = s.image /\ r.row = s.row) <=> r.ref = s.ref

\* Of a request: its rows and what it asked for are of the review; what it
\* asked for is in the ledger or about to be.
AppliesReview(q) ==
    apply[q].step \in {"commit", "done"} =>
        /\ \A r \in apply[q].asked : IsShown(r)
        /\ apply[q].rows \subseteq apply[q].asked
        /\ \A r \in apply[q].asked : Known(r.ref) \/ (apply[q].step = "commit" /\ r \in apply[q].rows)

\* Of the ledger: rows of the review, one for a reference.
EntersReview ==
    /\ \A e \in entered : IsShown(e)
    /\ \A e, f \in entered : e.ref = f.ref => e = f

\* The inductive invariant of the review.
ReviewInv ==
    /\ ReviewType
    /\ OneRefEach
    /\ \A q \in Reviewer : AppliesReview(q)
    /\ EntersReview

\* A row of the review has the place it was read at in its reference.
LEMMA ShownRowOf ==
    ASSUME NEW images \in SeqOf(SeqOf(Shown, MaxShown), MaxImage), NEW m \in DOMAIN images, NEW i \in DOMAIN images[m]
    PROVE  /\ TossRow(images, m, i) \in ShownRow
           /\ TossRow(images, m, i).image = m /\ TossRow(images, m, i).row = i
           /\ TossRow(images, m, i).ref = <<images[m][i], m, i>>
<1>1. images \in Seq(SeqOf(Shown, MaxShown))
  BY SeqOfIsSeq, TossAssumption
<1>2. images[m] \in SeqOf(Shown, MaxShown) /\ m \in Nat
  BY <1>1
<1>3. images[m] \in Seq(Shown)
  BY <1>2, SeqOfIsSeq, TossAssumption
<1>4. images[m][i] \in Shown /\ i \in Nat
  BY <1>3
<1>5. Repeated(images, m, i) \in BOOLEAN
  BY DEF Repeated
<1> QED
  BY <1>2, <1>4, <1>5, SMT DEF TossRow, RefOf, ShownRow

\* There is no review, no request and no transaction at first.
LEMMA ReviewInitial == TossInit => ReviewInv
  BY DEF TossInit, ReviewInv, ReviewType, OneRefEach, AppliesReview, EntersReview, NotApplying, IsShown

\* While there is no review nothing was asked for and nothing entered.
LEMMA NothingReviewed ==
    ASSUME ReviewInv, preview = {}
    PROVE  entered = {} /\ \A q \in Reviewer : apply[q].step \in {"commit", "done"} => apply[q].asked = {}
  BY DEF ReviewInv, AppliesReview, EntersReview, IsShown

\* A preview gives each place its reference.
LEMMA PreviewKeepsReview ==
    ASSUME ReviewInv, NEW images \in SeqOf(SeqOf(Shown, MaxShown), MaxImage), Preview(images)
    PROVE  ReviewInv'
<1>1. entered = {} /\ \A q \in Reviewer : apply[q].step \in {"commit", "done"} => apply[q].asked = {}
  BY NothingReviewed DEF Preview
<1>2. ASSUME NEW r \in preview'
      PROVE  \E m \in DOMAIN images : \E i \in DOMAIN images[m] : r = TossRow(images, m, i)
  BY <1>2 DEF Preview
<1>3. preview' \subseteq ShownRow
  BY <1>2, ShownRowOf
<1>4. OneRefEach'
  <2> SUFFICES ASSUME NEW r \in preview', NEW s \in preview'
               PROVE  (r.image = s.image /\ r.row = s.row) <=> r.ref = s.ref
    BY DEF OneRefEach
  <2>1. PICK m \in DOMAIN images : \E i \in DOMAIN images[m] : r = TossRow(images, m, i)
    BY <1>2
  <2>2. PICK i \in DOMAIN images[m] : r = TossRow(images, m, i)
    BY <2>1
  <2>3. PICK k \in DOMAIN images : \E j \in DOMAIN images[k] : s = TossRow(images, k, j)
    BY <1>2
  <2>4. PICK j \in DOMAIN images[k] : s = TossRow(images, k, j)
    BY <2>3
  <2>5. r.image = m /\ r.row = i /\ r.ref = <<images[m][i], m, i>>
    BY <2>2, ShownRowOf
  <2>6. s.image = k /\ s.row = j /\ s.ref = <<images[k][j], k, j>>
    BY <2>4, ShownRowOf
  <2> QED
    BY <2>5, <2>6
<1>5. UNCHANGED <<apply, entered>>
  BY DEF Preview
<1>6. ASSUME NEW q \in Reviewer
      PROVE  AppliesReview(q)'
  <2>1. AppliesReview(q)
    BY DEF ReviewInv
  <2> QED
    BY <2>1, <1>1, <1>5 DEF AppliesReview
<1> QED
  BY <1>1, <1>3, <1>4, <1>5, <1>6 DEF ReviewInv, ReviewType, EntersReview

\* Including or excluding a row leaves its place and its reference.
LEMMA ToggleKeepsReview ==
    ASSUME ReviewInv, NEW r \in preview, Toggle(r)
    PROVE  ReviewInv'
<1> DEFINE t == [r EXCEPT !.included = ~ r.included]
<1>1. r \in ShownRow
  BY DEF ReviewInv, ReviewType
<1>2. t \in ShownRow /\ t.image = r.image /\ t.row = r.row /\ t.ref = r.ref
  BY <1>1 DEF ShownRow
<1>3. preview' = (preview \ {r}) \cup {t} /\ UNCHANGED <<apply, entered>>
  BY DEF Toggle
<1> HIDE DEF t
<1>4. ASSUME NEW s \in preview'
      PROVE  \E o \in preview : o.image = s.image /\ o.row = s.row /\ o.ref = s.ref
  BY <1>2, <1>3, <1>4
<1>5. ASSUME NEW x, IsShown(x)
      PROVE  IsShown(x)'
  BY <1>2, <1>3, <1>5 DEF IsShown
<1>6. OneRefEach'
  BY <1>4 DEF ReviewInv, OneRefEach
<1>7. ASSUME NEW q \in Reviewer
      PROVE  AppliesReview(q)'
  <2>1. AppliesReview(q)
    BY DEF ReviewInv
  <2>2. \A ref : Known(ref)' <=> Known(ref)
    BY <1>3 DEF Known
  <2>3. \A x : IsShown(x) => IsShown(x)'
    BY <1>5
  <2> QED
    BY <2>1, <2>2, <2>3, <1>3 DEF AppliesReview
<1>8. EntersReview'
  <2>1. \A e \in entered : IsShown(e)'
    BY <1>5 DEF ReviewInv, EntersReview
  <2> QED
    BY <2>1, <1>3 DEF ReviewInv, EntersReview
<1>9. ReviewType'
  BY <1>2, <1>3 DEF ReviewInv, ReviewType
<1> QED
  BY <1>6, <1>7, <1>8, <1>9 DEF ReviewInv

\* A request that read the ledger writes, or has found, what it was asked for.
LEMMA ApplyReadsKeepsReview ==
    ASSUME ReviewInv, NEW q \in Reviewer, ApplyReads(q)
    PROVE  ReviewInv'
<1> DEFINE asked == {r \in preview : r.included}
           news == {r \in preview : r.included /\ ~ Known(r.ref)}
           rows == {r \in news : \A s \in news : s.ref = r.ref => <<r.image, r.row>> = <<s.image, s.row>> \/ r.row < s.row \/ r.image < s.image}
           a == [step |-> "commit", asked |-> asked, rows |-> rows]
<1>1. apply' = [apply EXCEPT ![q] = a] /\ UNCHANGED <<preview, entered>>
  BY DEF ApplyReads
<1>2. preview \subseteq ShownRow /\ apply \in [Reviewer -> {NotApplying} \cup Applying]
  BY DEF ReviewInv, ReviewType
<1>3. asked \subseteq ShownRow /\ rows \subseteq asked /\ rows \subseteq ShownRow
  BY <1>2
<1>4. \A r \in asked : Known(r.ref) \/ r \in rows
  <2> SUFFICES ASSUME NEW r \in asked, ~ Known(r.ref)
               PROVE  r \in rows
    OBVIOUS
  <2>1. \A s \in news : s.ref = r.ref => r.image = s.image /\ r.row = s.row
    BY DEF ReviewInv, OneRefEach
  <2> QED
    BY <2>1
<1>5. \A r \in asked : IsShown(r)
  BY DEF IsShown
<1> HIDE DEF asked, rows
<1>6. a \in Applying /\ a.step = "commit" /\ a.asked = asked /\ a.rows = rows
  BY <1>3 DEF Applying
<1> HIDE DEF a
<1>7. \A x : (Known(x)' <=> Known(x)) /\ (IsShown(x)' <=> IsShown(x))
  BY <1>1 DEF Known, IsShown
<1>8. ASSUME NEW p \in Reviewer
      PROVE  AppliesReview(p)'
  <2>1. CASE p = q
    <3>1. apply'[p] = a
      BY <2>1, <1>1, <1>2
    <3> QED
      BY <3>1, <1>3, <1>4, <1>5, <1>6, <1>7 DEF AppliesReview
  <2>2. CASE p # q
    <3>1. apply'[p] = apply[p] /\ AppliesReview(p)
      BY <2>2, <1>1, <1>2 DEF ReviewInv
    <3> QED
      BY <3>1, <1>7 DEF AppliesReview
  <2> QED
    BY <2>1, <2>2
<1>9. ReviewType'
  BY <1>1, <1>2, <1>6 DEF ReviewInv, ReviewType
<1>10. OneRefEach' /\ EntersReview'
  BY <1>1, <1>7 DEF ReviewInv, OneRefEach, EntersReview
<1> QED
  BY <1>8, <1>9, <1>10 DEF ReviewInv

\* A commit enters rows of the review once, or loses to one that did.
LEMMA ApplyCommitsKeepsReview ==
    ASSUME ReviewInv, NEW q \in Reviewer, ApplyCommits(q)
    PROVE  ReviewInv'
<1>1. apply \in [Reviewer -> {NotApplying} \cup Applying] /\ apply[q].step = "commit" /\ preview' = preview
  BY DEF ApplyCommits, ReviewInv, ReviewType
<1>2. apply[q] \in Applying
  BY <1>1 DEF NotApplying
<1>3. CASE \E r \in apply[q].rows : Known(r.ref)
  <2>1. apply' = [apply EXCEPT ![q] = NotApplying] /\ entered' = entered
    BY <1>3 DEF ApplyCommits
  <2>2. \A x : (Known(x)' <=> Known(x)) /\ (IsShown(x)' <=> IsShown(x))
    BY <2>1, <1>1 DEF Known, IsShown
  <2>3. ASSUME NEW p \in Reviewer
        PROVE  AppliesReview(p)'
    <3>1. CASE p = q
      BY <3>1, <2>1, <1>1 DEF AppliesReview, NotApplying
    <3>2. CASE p # q
      <4>1. apply'[p] = apply[p] /\ AppliesReview(p)
        BY <3>2, <2>1, <1>1 DEF ReviewInv
      <4> QED
        BY <4>1, <2>2 DEF AppliesReview
    <3> QED
      BY <3>1, <3>2
  <2>4. ReviewType' /\ OneRefEach' /\ EntersReview'
    BY <2>1, <2>2, <1>1 DEF ReviewInv, ReviewType, OneRefEach, EntersReview
  <2> QED
    BY <2>3, <2>4 DEF ReviewInv
<1>4. CASE ~ \E r \in apply[q].rows : Known(r.ref)
  <2> DEFINE Row(r) == [ref |-> r.ref, image |-> r.image, row |-> r.row, by |-> q]
             new == {Row(r) : r \in apply[q].rows}
             a == [apply[q] EXCEPT !.step = "done"]
  <2>1. entered' = entered \cup new /\ apply' = [apply EXCEPT ![q] = a]
    BY <1>4 DEF ApplyCommits
  <2>2. a \in Applying /\ a.step = "done" /\ a.asked = apply[q].asked /\ a.rows = apply[q].rows
    BY <1>2 DEF Applying
  <2> HIDE DEF a
  <2>3. apply[q].rows \subseteq ShownRow /\ apply[q].rows \subseteq apply[q].asked /\ AppliesReview(q)
    BY <1>1, <1>2 DEF ReviewInv, AppliesReview, Applying
  <2>4. ASSUME NEW r \in apply[q].rows
        PROVE  /\ Row(r) \in EnteredRow /\ IsShown(Row(r)) /\ Row(r) \in new
               /\ Row(r).ref = r.ref /\ Row(r).image = r.image /\ Row(r).row = r.row
    <3>1. Row(r).ref = r.ref /\ Row(r).image = r.image /\ Row(r).row = r.row /\ Row(r) \in new
      OBVIOUS
    <3>2. IsShown(r) /\ r \in ShownRow
      BY <2>3, <1>1 DEF AppliesReview
    <3>3. Row(r) \in EnteredRow
      BY <3>2 DEF ShownRow, EnteredRow
    <3> HIDE DEF Row
    <3> QED
      BY <3>1, <3>2, <3>3 DEF IsShown
  <2>5. \A x : (IsShown(x)' <=> IsShown(x)) /\ (Known(x) => Known(x)')
    BY <2>1, <1>1 DEF Known, IsShown
  <2>6. \A r \in apply[q].rows : Known(r.ref)'
    BY <2>1, <2>4 DEF Known
  <2>7. ASSUME NEW e \in entered', NEW f \in entered', e.ref = f.ref
        PROVE  e = f
    <3>1. CASE e \in entered /\ f \in entered
      BY <3>1, <2>7 DEF ReviewInv, EntersReview
    <3>2. ASSUME NEW r \in apply[q].rows, NEW g \in entered, r.ref = g.ref
          PROVE  FALSE
      BY <3>2, <1>4 DEF Known
    <3>3. CASE e \in new /\ f \in new
      <4>1. PICK r \in apply[q].rows : e = Row(r)
        BY <3>3
      <4>2. PICK s \in apply[q].rows : f = Row(s)
        BY <3>3
      <4>3. r.ref = s.ref
        BY <4>1, <4>2, <2>7, <2>4
      <4>4. IsShown(r) /\ IsShown(s)
        BY <2>3, <1>1 DEF AppliesReview
      <4>5. r.image = s.image /\ r.row = s.row
        BY <4>3, <4>4 DEF IsShown, ReviewInv, OneRefEach
      <4> QED
        BY <4>1, <4>2, <4>3, <4>5
    <3>4. \A x \in new : \E r \in apply[q].rows : x = Row(r) /\ x.ref = r.ref
      BY <2>4
    <3> HIDE DEF new
    <3> QED
      BY <3>1, <3>2, <3>3, <3>4, <2>1, <2>7
  <2>8. EntersReview'
    <3>1. \A e \in entered' : IsShown(e)'
      BY <2>1, <2>4, <2>5 DEF ReviewInv, EntersReview
    <3> QED
      BY <3>1, <2>7 DEF EntersReview
  <2>9. ASSUME NEW p \in Reviewer
        PROVE  AppliesReview(p)'
    <3>1. CASE p = q
      <4>1. apply'[p] = a
        BY <3>1, <2>1, <1>1
      <4> QED
        BY <4>1, <2>2, <2>3, <2>5, <2>6, <1>1 DEF AppliesReview
    <3>2. CASE p # q
      <4>1. apply'[p] = apply[p] /\ AppliesReview(p)
        BY <3>2, <2>1, <1>1 DEF ReviewInv
      <4> QED
        BY <4>1, <2>5 DEF AppliesReview
    <3> QED
      BY <3>1, <3>2
  <2>10. ReviewType'
    <3>1. entered' \subseteq EnteredRow
      BY <2>1, <2>4 DEF ReviewInv, ReviewType
    <3> QED
      BY <3>1, <2>1, <2>2, <1>1 DEF ReviewInv, ReviewType
  <2>11. OneRefEach'
    BY <1>1 DEF ReviewInv, OneRefEach
  <2> QED
    BY <2>8, <2>9, <2>10, <2>11 DEF ReviewInv
<1> QED
  BY <1>3, <1>4

\* Every step of the import keeps ReviewInv.
LEMMA ReviewStep == ReviewInv /\ [TossNext]_tossVars => ReviewInv'
<1> SUFFICES ASSUME ReviewInv, [TossNext]_tossVars
             PROVE  ReviewInv'
  OBVIOUS
<1>1. ASSUME UNCHANGED <<preview, apply, entered>>
      PROVE  ReviewInv'
  <2>1. \A x : (IsShown(x)' <=> IsShown(x)) /\ (Known(x)' <=> Known(x))
    BY <1>1 DEF IsShown, Known
  <2>2. \A q \in Reviewer : AppliesReview(q)'
    BY <1>1, <2>1 DEF ReviewInv, AppliesReview
  <2> QED
    BY <1>1, <2>1, <2>2 DEF ReviewInv, ReviewType, OneRefEach, EntersReview
<1>2. CASE \E line \in Header : FeedHeader(line)
  BY <1>2, <1>1 DEF FeedHeader, Feeds
<1>3. CASE \E line \in Line : FeedAmount(line) \/ FeedBalance(line) \/ FeedText(line)
  BY <1>3, <1>1 DEF FeedAmount, FeedBalance, FeedText, Feeds
<1>4. CASE \E images \in SeqOf(SeqOf(Shown, MaxShown), MaxImage) : Preview(images)
  BY <1>4, PreviewKeepsReview
<1>5. CASE \E r \in preview : Toggle(r)
  BY <1>5, ToggleKeepsReview
<1>6. CASE \E q \in Reviewer : ApplyReads(q) \/ ApplyCommits(q)
  BY <1>6, ApplyReadsKeepsReview, ApplyCommitsKeepsReview
<1>7. CASE UNCHANGED tossVars
  BY <1>7, <1>1 DEF tossVars
<1> QED
  BY <1>2, <1>3, <1>4, <1>5, <1>6, <1>7 DEF TossNext

\* IncludedIsEntered, for any number of reviewers that apply at once and any
\* screenshots: what a finished apply was asked to include is in the ledger,
\* from its own place in the screenshots and once (apply_toss_screenshots).
THEOREM IncludedIsAlwaysEntered == TossSpec => []IncludedIsEntered
<1>1. ReviewInv => IncludedIsEntered
  <2> SUFFICES ASSUME ReviewInv, NEW q \in Reviewer, apply[q].step = "done", NEW r \in apply[q].asked
               PROVE  Cardinality({e \in entered : e.image = r.image /\ e.row = r.row}) = 1
    BY DEF IncludedIsEntered
  <2>1. AppliesReview(q) /\ IsShown(r) /\ Known(r.ref)
    BY DEF ReviewInv, AppliesReview
  <2>2. PICK e \in entered : e.ref = r.ref
    BY <2>1 DEF Known
  <2>3. IsShown(e) /\ \A f \in entered : IsShown(f)
    BY DEF ReviewInv, EntersReview
  <2>4. e.image = r.image /\ e.row = r.row
    BY <2>1, <2>2, <2>3 DEF IsShown, ReviewInv, OneRefEach
  <2>5. ASSUME NEW f \in entered, f.image = r.image, f.row = r.row
        PROVE  f = e
    <3>1. f.ref = e.ref
      BY <2>3, <2>4, <2>5 DEF IsShown, ReviewInv, OneRefEach
    <3> QED
      BY <3>1 DEF ReviewInv, EntersReview
  <2>6. {f \in entered : f.image = r.image /\ f.row = r.row} = {e}
    BY <2>4, <2>5
  <2> QED
    BY <2>6, FS_Singleton
<1> QED
  BY <1>1, ReviewInitial, ReviewStep, PTL DEF TossSpec
===========================================================================
