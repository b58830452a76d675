----------------------------- MODULE TossImport -----------------------------
(***************************************************************************)
(* Import of bank screenshots: the lines read by the OCR are put together  *)
(* to rows (services/toss_screenshot_importer.py), rows of all images are  *)
(* shown for review, and the reviewed rows become transactions             *)
(* (api/routes/imports.py).                                                *)
(*                                                                         *)
(* A line is a date header, or some of: text, a time, a signed amount, an  *)
(* unsigned amount.  A field of a row is the number of the line it is from.*)
(***************************************************************************)
EXTENDS Integers, Sequences, FiniteSets, SequencesExt

CONSTANTS MaxLine,    \* bound: lines of an image
          Shown,      \* contents of rows
          MaxImage,   \* bound: images of a preview
          MaxShown,   \* bound: rows of an image
          Reviewer    \* requests that apply

ASSUME TossAssumption == MaxLine \in Nat /\ MaxImage \in Nat /\ MaxShown \in Nat

VARIABLES lines,      \* of every line fed to the parser, whether it is a header
          pending,    \* the row being put together
          parsed,     \* complete rows
          excluded,   \* number of candidates left out
          preview,    \* the rows under review
          apply,      \* the apply requests
          entered     \* transactions made from rows

tossVars == <<lines, pending, parsed, excluded, preview, apply, entered>>

NoFields == [date |-> 0, item |-> 0, time |-> 0, amount |-> 0, balance |-> 0]
NotApplying == [step |-> "rest"]

TossInit ==
    /\ lines = <<>> /\ parsed = <<>> /\ excluded = 0
    /\ pending = NoFields
    /\ preview = {}
    /\ apply = [q \in Reviewer |-> NotApplying]
    /\ entered = {}

---------------------------------------------------------------------------
(* Reading an image                                                        *)

Line == [header : {"no"}, text : BOOLEAN, time : BOOLEAN, signed : BOOLEAN, unsigned : BOOLEAN]
Header == [header : {"date", "invalid"}]

\* _flush_pending
Started(p) == p.item # 0 \/ p.time # 0 \/ p.amount # 0
Complete(p) == p.date # 0 /\ p.item # 0 /\ p.time # 0 /\ p.amount # 0 /\ p.balance # 0

FlushPending(p) ==
    /\ parsed' = IF Complete(p) THEN Append(parsed, p) ELSE parsed
    /\ excluded' = IF Started(p) /\ ~ Complete(p) THEN excluded + 1 ELSE excluded

At == Len(lines) + 1
Feeds(line) ==
    /\ At <= MaxLine
    /\ lines' = Append(lines, line.header)
    /\ UNCHANGED <<preview, apply, entered>>

MutantKeepsRow(line) ==
    /\ Feeds(line)
    /\ line.header # "no"
    /\ FlushPending(pending)
    /\ pending' = [pending EXCEPT !.date = IF line.header = "date" THEN At ELSE 0]

\* A header ends the row; an impossible date leaves the following rows without.
FeedHeader(line) ==
    /\ Feeds(line)
    /\ line.header # "no"
    /\ FlushPending(pending)
    /\ pending' = [NoFields EXCEPT !.date = IF line.header = "date" THEN At ELSE 0]

\* The time, and the text before it, when the row has none yet.
WithTime(p, line) ==
    IF line.time /\ p.time = 0
    THEN [p EXCEPT !.time = At, !.item = IF line.text /\ @ = 0 THEN At ELSE @]
    ELSE p

\* A signed amount, with the balance when it is on the same line.
FeedAmount(line) ==
    LET p == WithTime(pending, line)
        full == [p EXCEPT !.item = IF @ = 0 /\ line.text THEN At ELSE @, !.amount = At, !.balance = IF line.unsigned THEN At ELSE @]
    IN  /\ Feeds(line)
        /\ line.header = "no" /\ line.signed
        /\ IF line.unsigned
           THEN FlushPending(full) /\ pending' = [NoFields EXCEPT !.date = pending.date]
           ELSE UNCHANGED <<parsed, excluded>> /\ pending' = full

\* An unsigned amount alone is the balance of a row that has its amount.
OnlyUnsigned(line) == line.unsigned /\ ~ line.text /\ ~ line.time

FeedBalance(line) ==
    /\ Feeds(line)
    /\ line.header = "no" /\ ~ line.signed
    /\ OnlyUnsigned(line) /\ pending.amount # 0 /\ pending.balance = 0
    /\ FlushPending([pending EXCEPT !.balance = At])
    /\ pending' = [NoFields EXCEPT !.date = pending.date]

\* Any other line may give the time or the item.
FeedText(line) ==
    LET p == WithTime(pending, line)
    IN  /\ Feeds(line)
        /\ line.header = "no" /\ ~ line.signed
        /\ ~ (OnlyUnsigned(line) /\ pending.amount # 0 /\ pending.balance = 0)
        /\ pending' = IF line.time \/ OnlyUnsigned(line) \/ p.item # 0 \/ ~ line.text THEN p ELSE [p EXCEPT !.item = At]
        /\ UNCHANGED <<parsed, excluded>>

---------------------------------------------------------------------------
(* Review and apply                                                        *)

MutantRef(content, image, i) == <<content, image>>

\* _toss_source_ref_from_parsed_row
RefOf(content, image, i) == <<content, image, i>>

\* _mark_duplicate_groups: rows of one content, in one image or in several.
Repeated(images, m, i) == \E k \in DOMAIN images : \E j \in DOMAIN images[k] : images[k][j] = images[m][i] /\ <<k, j>> # <<m, i>>

\* _to_toss_row_schema; duplicate candidates are not included.
TossRow(images, m, i) ==
    [image |-> m, row |-> i, content |-> images[m][i], ref |-> RefOf(images[m][i], m, i), included |-> ~ Repeated(images, m, i)]

\* preview_toss_screenshots
Preview(images) ==
    /\ preview = {}
    /\ preview' = UNION {{TossRow(images, m, i) : i \in DOMAIN images[m]} : m \in DOMAIN images}
    /\ UNCHANGED <<lines, pending, parsed, excluded, apply, entered>>

\* The reviewer takes a duplicate in after all, or leaves a row out.
Toggle(r) ==
    /\ preview' = (preview \ {r}) \cup {[r EXCEPT !.included = ~ @]}
    /\ UNCHANGED <<lines, pending, parsed, excluded, apply, entered>>

Known(ref) == \E e \in entered : e.ref = ref

\* apply_toss_screenshots: rows whose source_ref is known, or came before in
\* the request, are skipped.
ApplyReads(q) ==
    LET news == {r \in preview : r.included /\ ~ Known(r.ref)}
    IN  /\ apply[q] = NotApplying /\ preview # {}
        /\ apply' = [apply EXCEPT ![q] = [step |-> "commit", asked |-> {r \in preview : r.included},
                        rows |-> {r \in news : \A s \in news : s.ref = r.ref => <<r.image, r.row>> = <<s.image, s.row>> \/ r.row < s.row \/ r.image < s.image}]]
        /\ UNCHANGED <<lines, pending, parsed, excluded, preview, entered>>

\* One commit: a source_ref entered meanwhile refuses the whole request (409).
ApplyCommits(q) ==
    /\ apply[q].step = "commit"
    /\ IF \E r \in apply[q].rows : Known(r.ref)
       THEN apply' = [apply EXCEPT ![q] = NotApplying] /\ UNCHANGED entered
       ELSE /\ entered' = entered \cup {[ref |-> r.ref, image |-> r.image, row |-> r.row, by |-> q] : r \in apply[q].rows}
            /\ apply' = [apply EXCEPT ![q].step = "done"]
    /\ UNCHANGED <<lines, pending, parsed, excluded, preview>>

TossNext ==
    \/ \E line \in Header : FeedHeader(line)
    \/ \E line \in Line : FeedAmount(line) \/ FeedBalance(line) \/ FeedText(line)
    \/ \E images \in SeqOf(SeqOf(Shown, MaxShown), MaxImage) : Preview(images)
    \/ \E r \in preview : Toggle(r)
    \/ \E q \in Reviewer : ApplyReads(q) \/ ApplyCommits(q)

---------------------------------------------------------------------------
(* Properties                                                              *)

\* A row's date is the last header above it, and its other fields are from
\* lines below that header and below the row before it.
RowsStayTogether ==
    \A k \in DOMAIN parsed :
        LET r == parsed[k]
            above == IF k > 1 THEN parsed[k - 1].balance ELSE 0
            Between(i) == i > r.date /\ i > above /\ i <= r.balance
        IN  /\ lines[r.date] = "date"
            /\ \A i \in r.date + 1 .. r.balance : lines[i] = "no"
            /\ Between(r.item) /\ Between(r.time) /\ Between(r.amount)

\* A request that was answered with success has all its included rows in the
\* ledger, each exactly once, also when two requests apply the same review.
IncludedIsEntered ==
    \A q \in Reviewer : apply[q].step = "done" =>
        \A r \in apply[q].asked : Cardinality({e \in entered : e.image = r.image /\ e.row = r.row}) = 1
===========================================================================
