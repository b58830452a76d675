--------------------------- MODULE LedgerTransfer ---------------------------
(***************************************************************************)
(* Migration packages (services/migration_package.py): a household's       *)
(* ledger is exported, the package travels, and another household's ledger *)
(* is replaced by it in one database transaction while its members go on   *)
(* entering transactions.                                                  *)
(*                                                                         *)
(* The deletion sees the rows committed before it; what commits later      *)
(* stays and meets the package's rows at the unique indexes.               *)
(***************************************************************************)
EXTENDS Integers, Sequences, FiniteSets, FiniteSetsExt, Ranks

CONSTANTS SourceDay,   \* days, naturals
          MaxSource,   \* bound: transactions of the source
          SourceRefs,  \* source_refs that clients gave
          Category,    \* category names
          Others,      \* the category of rows that have none
          Account,     \* what identifies a holding besides its owner
          OwnerName,   \* owner names as written
          Person,      \* members of the target
          OwnerKey,    \* OwnerKey[name]: the name without case and blanks
          MaxNewcomer, \* bound: rows entered while a package is applied
          OrderStep,
          Nobody

ASSUME TransferAssumption ==
    /\ SourceDay \subseteq Nat /\ MaxSource \in Nat /\ MaxNewcomer \in Nat /\ OrderStep \in Nat \ {0}
    /\ DOMAIN OwnerKey = OwnerName
    /\ Nobody \notin SourceRefs \cup Category \cup Person

VARIABLES source,    \* [rows, holdings] of the exporting household
          package,   \* the exported file
          home,      \* [rows, holdings] of the target household
          named,     \* display names of the target's members
          transfer   \* the apply under way

transferVars == <<source, package, home, named, transfer>>

NoPackage == [rows |-> <<>>, holdings |-> {}, intact |-> FALSE]
NoTransfer == [step |-> "none", deleted |-> {}]

\* By day, by key, then by i and j: creation, or place in the package.
Sooner(a, b, i, j) ==
    \/ a.day < b.day
    \/ a.day = b.day /\ a.key < b.key
    \/ a.day = b.day /\ a.key = b.key /\ i < j

InOrder(rows) == Sorted(rows, {p \in rows \X rows : Sooner(p[1], p[2], p[1].id, p[2].id)})

SourceRow(id) == [id : {id}, day : SourceDay, key : {OrderStep, 2 * OrderStep}, cat : Category \cup {Nobody}, ref : SourceRefs \cup {Nobody}]

\* The holdings of the source are not linked to members; their names differ.
TransferInit ==
    /\ \E n \in 0 .. MaxSource :
          \E f \in {g \in [1 .. n -> UNION {SourceRow(i) : i \in 1 .. n}] : \A i \in 1 .. n : g[i].id = i} :
             /\ \A i, j \in 1 .. n : i # j /\ f[i].ref = f[j].ref => f[i].ref = Nobody
             /\ \E hs \in SUBSET [account : Account, name : OwnerName] : source = [rows |-> {f[i] : i \in 1 .. n}, holdings |-> hs]
    /\ package = NoPackage
    /\ home = [rows |-> {[id |-> -1, day |-> CHOOSE d \in SourceDay : TRUE, key |-> OrderStep, cat |-> Nobody, ref |-> Nobody]}, holdings |-> {}]
    /\ named \in [Person -> OwnerName]
    /\ transfer = NoTransfer

---------------------------------------------------------------------------
(* Export                                                                  *)

\* A row without a reference gets one from its id, one without a category the
\* category Others.
Exported(row) ==
    [day |-> row.day, key |-> row.key, cat |-> IF row.cat = Nobody THEN Others ELSE row.cat,
     ref |-> IF row.ref = Nobody THEN <<"migration", row.id>> ELSE <<"client", row.ref>>]

\* export_package
ExportPackage ==
    LET rows == InOrder(source.rows)
    IN  /\ package = NoPackage
        /\ package' = [rows |-> [i \in DOMAIN rows |-> Exported(rows[i])], holdings |-> source.holdings, intact |-> TRUE]
        /\ UNCHANGED <<source, home, named, transfer>>

\* The file is damaged on its way.
Damage ==
    /\ package.intact /\ transfer.step = "none"
    /\ package' = [package EXCEPT !.intact = FALSE, !.rows = <<>>]
    /\ UNCHANGED <<source, home, named, transfer>>

---------------------------------------------------------------------------
(* Apply                                                                   *)

\* _build_owner_lookup: a name that one member has.
LinkedTo(name) ==
    LET people == {p \in Person : OwnerKey[named[p]] = OwnerKey[name]}
    IN  IF Cardinality(people) = 1 THEN CHOOSE p \in people : TRUE ELSE Nobody

Indexed(rows) == {[row |-> rows[i], index |-> i] : i \in DOMAIN rows}

MutantPrepared(rows) == Sorted(Indexed(rows), {p \in Indexed(rows) \X Indexed(rows) : Sooner(p[1].row, p[2].row, p[2].index, p[1].index)})

\* Sorted by day, key and place in the package.
Prepared(rows) == Sorted(Indexed(rows), {p \in Indexed(rows) \X Indexed(rows) : Sooner(p[1].row, p[2].row, p[1].index, p[2].index)})

\* Holdings of one identity as the preparation sees it are skipped.
PreparedHoldings(hs) == {[account |-> h.account, name |-> h.name, user |-> LinkedTo(h.name)] : h \in hs}

\* uq_holding_identity: the member if there is one, the name otherwise.
Identity(h) == <<h.account, IF h.user = Nobody THEN <<"name", h.name>> ELSE <<"user", h.user>>>>

\* load_package checks size and digest; run_transfer then deletes all it sees.
TransferDeletes ==
    /\ package.intact /\ transfer.step = "none"
    /\ transfer' = [step |-> "deleted", deleted |-> home.rows]
    /\ UNCHANGED <<source, package, home, named>>

\* load_package refuses; a dry run reports.  Neither changes anything.
RefuseOrDryRun == package # NoPackage /\ transfer.step = "none" /\ UNCHANGED transferVars

Staying == home.rows \ transfer.deleted

LastKey(rows, day) == Max({r.key : r \in {x \in rows : x.day = day}} \cup {0})

\* The rows as they are written: numbered behind what the day has.
Placed ==
    LET rows == Prepared(package.rows)
    IN  {[id |-> MaxNewcomer + i, day |-> rows[i].row.day, cat |-> rows[i].row.cat, ref |-> rows[i].row.ref,
          key |-> LastKey(Staying, rows[i].row.day) + OrderStep * Cardinality({j \in 1 .. i : rows[j].row.day = rows[i].row.day})] : i \in DOMAIN rows}

Collides ==
    \/ \E r \in Staying, p \in Placed : r.ref = p.ref
    \/ \E g, h \in PreparedHoldings(package.holdings) : g # h /\ Identity(g) = Identity(h)

TransferCommits ==
    /\ transfer.step = "deleted" /\ ~ Collides
    /\ home' = [rows |-> Staying \cup Placed, holdings |-> PreparedHoldings(package.holdings)]
    /\ transfer' = [transfer EXCEPT !.step = "done"]
    /\ UNCHANGED <<source, package, named>>

\* An IntegrityError or a lost lease rolls everything back.
TransferFails ==
    /\ transfer.step = "deleted"
    /\ transfer' = NoTransfer
    /\ UNCHANGED <<source, package, home, named>>

\* A member enters a transaction; its category may be one that is being deleted.
MemberEnters(day, ref) ==
    LET id == Cardinality(home.rows)
    IN  /\ id <= MaxNewcomer /\ transfer.step # "done"
        /\ \A r \in home.rows : r.ref # <<"client", ref>>
        /\ home' = [home EXCEPT !.rows = @ \cup {[id |-> id, day |-> day, key |-> LastKey(home.rows, day) + OrderStep, cat |-> Nobody,
                                                  ref |-> IF ref = Nobody THEN Nobody ELSE <<"client", ref>>]}]
        /\ UNCHANGED <<source, package, named, transfer>>

TransferNext ==
    \/ ExportPackage \/ Damage \/ TransferDeletes \/ RefuseOrDryRun \/ TransferCommits \/ TransferFails
    \/ \E day \in SourceDay, ref \in SourceRefs \cup {Nobody} : MemberEnters(day, ref)

---------------------------------------------------------------------------
(* Properties                                                              *)

\* What a member sees of a transaction, besides its place.
Face(row) == <<row.day, row.cat, row.ref>>

\* An applied package shows the exported transactions in the order the source
\* shows them, each once, behind the rows entered meanwhile, none of which is
\* lost; its holdings are the exported ones.
AppliedIsExported ==
    [][transfer.step = "deleted" /\ transfer'.step = "done" =>
          LET new == InOrder(home'.rows \ home.rows)
              old == InOrder(source.rows)
          IN  /\ [i \in DOMAIN new |-> Face(new[i])] = [i \in DOMAIN old |-> Face(Exported(old[i]))]
              /\ \A r \in home.rows \ transfer.deleted : r \in home'.rows /\ \A i \in DOMAIN new : new[i].day = r.day => r.key < new[i].key
              /\ {[account |-> h.account, name |-> h.name] : h \in home'.holdings} = source.holdings]_transferVars
===========================================================================
