------------------------------ MODULE StockJournal ------------------------------
(***************************************************************************)
(* The stock ledger beside the bags: the journal of inventory transactions, *)
(* the dozens on hand of a warehouse, a model and a part, which only the   *)
(* adjustments change, cycle counts that compare a count with them, and    *)
(* the supplementary material requests that write to the journal.          *)
(*                                                                         *)
(* Every use case reads and checks, and then writes in a transaction that  *)
(* looks at nothing again.                                                 *)
(***************************************************************************)
EXTENDS MasterData

CONSTANTS
    Orders,       \* production orders, ids among Ids
    Amounts,      \* dozens a request may name: integers, some below zero
    Reasons,      \* reasons of an adjustment
    ReportLimits, \* how many rows a report may read: in the code 5000 of what
                  \* is on hand, and 500 cycle counts
    MaxJournal,   \* bound: rows of the journal
    MaxCounts,    \* bound: cycle counts
    MaxDocuments, \* bound: supplementary requests
    MaxActions    \* bound: actions of a cycle count

ASSUME JournalConstants ==
    /\ Orders \subseteq Ids
    /\ Amounts \subseteq Int
    /\ "LOSS" \in Reasons /\ None \notin Reasons
    /\ ReportLimits \subseteq Nat
    /\ MaxJournal \in Nat /\ MaxCounts \in Nat /\ MaxDocuments \in Nat /\ MaxActions \in Nat

VARIABLES
    inProduction, \* the orders with status IN_PRODUCTION
    onHand,       \* onHand[w, item]: inventory_bags.dozens_on_hand, None without a row
    journal,      \* inventory_transactions, in the order they were written
    supplement,   \* supplementary_material_requests with their lines
    numbers,      \* the current value of the number sequence SUP_REQUEST
    cycleCount,   \* inventory_investigations of type INVENTORY_VARIANCE
    raced         \* history: the documents that were written after another
                  \* request had changed the status that was checked

stockVars == <<inProduction, onHand, journal, supplement, numbers, cycleCount, raced>>

-----------------------------------------------------------------------------
(* Items, journal rows, documents.                                         *)

\* A transaction may be about a model as a whole, without a part.
Item == [model : Ids, part : Ids \union {None}]
PartItem == [model : Ids, part : Ids]

Warehouse(w) == <<"WAREHOUSE", w>>
ProductionOrder(o) == <<"PRODUCTION_ORDER", o>>
Site == ({"WAREHOUSE", "PRODUCTION_ORDER"} \X Ids) \union {None}

\* note: what the reference or the notes of the row say of where it comes from,
\* the reason of an adjustment or the line of a supplementary request.
Entry == [type : {"RECEIVING", "RELEASE", "ADJUSTMENT", "SUPPLEMENTARY_RELEASE"},
          item : Item, from : Site, to : Site, dozens : Int,
          note : Reasons \union (Nat \X Nat) \union {None}]

Line == [item : PartItem, warehouse : Ids, requested : Int,
         approved : Int \union {None}, transferred : Int \union {None}]
NewLine == [item : PartItem, warehouse : Ids, requested : Int, approved : {None}, transferred : {None}]
Supplement == [number : Nat, order : Orders, lines : Seq(Line),
               status : {"PENDING_APPROVAL", "APPROVED", "REJECTED", "CANCELLED", "TRANSFERRED"}]

CycleCount == [warehouse : Ids, item : PartItem, system : Int, actual : Int,
               status : {"OPEN", "CLOSED"}, actions : Nat, closed : Nat]

StockCall ==
           [op : {"journal", "adjust"}, entries : Seq(Entry), refs : SUBSET (Tables \X Ids)]
    \union [op : {"open"}, warehouse : Ids, item : PartItem, system : Int, actual : Int, refs : {{}}]
    \union [op : {"act", "close"}, doc : Nat, seen : {"OPEN"}, refs : {{}}]
    \union [op : {"request"}, order : Orders, lines : Seq(Line), number : Nat \union {None}, refs : {{}}]
    \union [op : {"approve", "reject", "cancel", "transfer"}, doc : Nat,
            seen : {"PENDING_APPROVAL", "APPROVED"}, refs : {{}}]

StockTypeOK ==
    /\ inProduction \subseteq Orders
    /\ onHand \in [Ids \X PartItem -> Int \union {None}]
    /\ journal \in Seq(Entry)
    /\ supplement \in Seq(Supplement)
    /\ numbers \in Nat
    /\ cycleCount \in Seq(CycleCount)
    /\ raced \subseteq ({"supplement", "count"} \X Nat)

NoStock == [k \in Ids \X PartItem |-> None]

PartOfModel(item) ==
    /\ Exists("model_parts", item.part)
    /\ table["model_parts"][item.part].owner = item.model

\* assertModel and assertPart: the model is active, a part that is given its own.
ItemIsActive(item) ==
    /\ Active("models", item.model)
    /\ item.part # None => PartOfModel(item)

ModelRef(item) == <<"models", item.model>>
WarehouseRef(w) == <<"warehouses", w>>

-----------------------------------------------------------------------------
(* Journal transactions: validated, then written.                          *)

\* The rows of the journal that the requests are about to write: a bound.
Pending == MapThenSumSet(LAMBDA q : Len(call[q].entries),
                         {q \in Requests : At(q, "journal") \/ At(q, "adjust")})

Posting(r, op, entries, refs) ==
    /\ Len(journal) + Pending + Len(entries) <= MaxJournal
    /\ Begin(r, [op |-> op, entries |-> entries, refs |-> refs])
    /\ UNCHANGED <<masterVars, stockVars>>

\* RECEIVE and OPENING_BALANCE.
FromReceive(item, w, n) ==
    [type |-> "RECEIVING", item |-> item, from |-> None, to |-> Warehouse(w), dozens |-> n, note |-> None]
Receive(r, item, w, n) ==
    /\ n > 0
    /\ ItemIsActive(item) /\ Active("warehouses", w)
    /\ Posting(r, "journal", <<FromReceive(item, w, n)>>, {ModelRef(item), WarehouseRef(w)})

FromIssue(item, w, o, n) ==
    [type |-> "RELEASE", item |-> item, from |-> Warehouse(w), to |-> ProductionOrder(o), dozens |-> n, note |-> None]
Issue(r, item, w, o, n) ==
    /\ n > 0
    /\ ItemIsActive(item) /\ Active("warehouses", w) /\ o \in Orders
    /\ Posting(r, "journal", <<FromIssue(item, w, o, n)>>, {ModelRef(item), WarehouseRef(w)})

\* Both rows name both warehouses.
FromTransfer(item, w, v, n) ==
    LET out == [type |-> "RELEASE", item |-> item, from |-> Warehouse(w), to |-> Warehouse(v),
                dozens |-> n, note |-> None]
    IN  <<out, [out EXCEPT !.type = "RECEIVING"]>>
Transfer(r, item, w, v, n) ==
    /\ n > 0 /\ w # v
    /\ ItemIsActive(item) /\ Active("warehouses", w) /\ Active("warehouses", v)
    /\ Posting(r, "journal", FromTransfer(item, w, v, n), {ModelRef(item), WarehouseRef(w), WarehouseRef(v)})

FromAdjust(item, w, n, note) ==
    [type |-> "ADJUSTMENT", item |-> item, from |-> None, to |-> Warehouse(w), dozens |-> n, note |-> note]

\* This adjustment is a row of the journal and leaves what is on hand alone.
Adjust(r, item, w, n) ==
    /\ n # 0
    /\ ItemIsActive(item) /\ Active("warehouses", w)
    /\ Posting(r, "journal", <<FromAdjust(item, w, n, None)>>, {ModelRef(item), WarehouseRef(w)})

\* validateSignByReason.
SignFits(reason, n) == n # 0 /\ (reason \in {"DAMAGE", "LOSS"} => n < 0)

ApplyAdjustment(r, item, w, reason, n) ==
    /\ SignFits(reason, n)
    /\ item.part # None
    /\ ItemIsActive(item) /\ Active("warehouses", w)
    /\ Posting(r, "adjust", <<FromAdjust(item, w, n, reason)>>, {ModelRef(item), WarehouseRef(w)})

WriteTransaction(r) ==
    /\ At(r, "journal")
    /\ journal' = journal \o call[r].entries
    /\ Finish(r)
    /\ UNCHANGED <<masterVars, overtaken, inProduction, onHand, supplement, numbers, cycleCount, raced>>

\* upsertOnHandInTx: the database adds, so that nothing is lost; nothing keeps
\* the result from being below zero.
UpsertForgetsFirst(old, n) == IF old = None THEN 0 ELSE old + n
UpsertOnHand(old, n) == IF old = None THEN n ELSE old + n

WriteAdjustment(r) ==
    /\ At(r, "adjust")
    /\ LET e == call[r].entries[1]
       IN  /\ onHand' = [onHand EXCEPT ![<<e.to[2], e.item>>] = UpsertOnHand(@, e.dozens)]
           /\ journal' = Append(journal, e)
    /\ Finish(r)
    /\ UNCHANGED <<masterVars, overtaken, inProduction, supplement, numbers, cycleCount, raced>>

-----------------------------------------------------------------------------
(* Cycle counts.                                                           *)

CountedNothing(old) == old
Counted(old) == IF old = None THEN 0 ELSE old

\* A count that agrees with the ledger leaves no trace.
OpenCycleCount(r, w, item, actual) ==
    LET system == Counted(onHand[<<w, item>>])
    IN  /\ actual # system
        /\ Begin(r, [op |-> "open", warehouse |-> w, item |-> item, system |-> system,
                     actual |-> actual, refs |-> {}])
        /\ UNCHANGED <<masterVars, stockVars>>

\* The foreign keys look whether the warehouse, the model and the part exist.
CreateCycleCount(r) ==
    /\ At(r, "open")
    /\ Len(cycleCount) < MaxCounts
    /\ LET c == call[r]
       IN  cycleCount' = IF /\ Exists("warehouses", c.warehouse) /\ Exists("models", c.item.model)
                            /\ Exists("model_parts", c.item.part)
                           THEN Append(cycleCount, [warehouse |-> c.warehouse, item |-> c.item,
                                  system |-> c.system, actual |-> c.actual,
                                  status |-> "OPEN", actions |-> 0, closed |-> 0])
                           ELSE cycleCount
    /\ Finish(r)
    /\ UNCHANGED <<masterVars, overtaken, inProduction, onHand, journal, supplement, numbers, raced>>

CountCheck(r, op, d) ==
    /\ d \in DOMAIN cycleCount
    /\ cycleCount[d].status # "CLOSED"
    /\ Begin(r, [op |-> op, doc |-> d, seen |-> cycleCount[d].status, refs |-> {}])
    /\ UNCHANGED <<masterVars, stockVars>>

AddAction(r, d) ==
    /\ d \in DOMAIN cycleCount => cycleCount[d].actions < MaxActions
    /\ CountCheck(r, "act", d)
CloseCycleCount(r, d) == CountCheck(r, "close", d)

\* Whether the status that request r checked has been changed since.
Stale(doc, status, seen) == IF status = seen THEN raced ELSE raced \union {doc}

WriteAction(r) ==
    /\ At(r, "act")
    /\ LET d == call[r].doc
       IN  /\ cycleCount' = [cycleCount EXCEPT ![d].actions = @ + 1]
           /\ raced' = Stale(<<"count", d>>, cycleCount[d].status, call[r].seen)
    /\ Finish(r)
    /\ UNCHANGED <<masterVars, overtaken, inProduction, onHand, journal, supplement, numbers>>

WriteClosure(r) ==
    /\ At(r, "close")
    /\ LET d == call[r].doc
       IN  /\ cycleCount' = [cycleCount EXCEPT ![d].status = "CLOSED", ![d].closed = @ + 1]
           /\ raced' = Stale(<<"count", d>>, cycleCount[d].status, call[r].seen)
    /\ Finish(r)
    /\ UNCHANGED <<masterVars, overtaken, inProduction, onHand, journal, supplement, numbers>>

-----------------------------------------------------------------------------
(* Supplementary material requests.                                        *)

\* The order is in production when it is read; its number and the request come
\* later.  Nobody asks whether a line names a part of the order, or for more
\* than nothing.
RequestSupplement(r, o, lines) ==
    /\ o \in inProduction
    /\ lines # <<>>
    /\ Begin(r, [op |-> "request", order |-> o, lines |-> lines, number |-> None, refs |-> {}])
    /\ UNCHANGED <<masterVars, stockVars>>

\* DocumentNumberingService: the database increments.
NextNumber(r) ==
    /\ At(r, "request") /\ call[r].number = None
    /\ numbers < 2 * MaxDocuments
    /\ numbers' = numbers + 1
    /\ call' = [call EXCEPT ![r].number = numbers + 1]
    /\ UNCHANGED <<masterVars, overtaken, inProduction, onHand, journal, supplement, cycleCount, raced>>

\* Fails, and its number is lost, when a foreign key of a line does not hold.
CreateSupplement(r) ==
    /\ At(r, "request") /\ call[r].number # None
    /\ Len(supplement) < MaxDocuments
    /\ LET c == call[r]
       IN  supplement' =
             IF \A l \in ToSet(c.lines) : Exists("warehouses", l.warehouse) /\ Exists("model_parts", l.item.part)
               THEN Append(supplement, [number |-> c.number, order |-> c.order, lines |-> c.lines,
                                        status |-> "PENDING_APPROVAL"])
               ELSE supplement
    /\ Finish(r)
    /\ UNCHANGED <<masterVars, overtaken, inProduction, onHand, journal, numbers, cycleCount, raced>>

SupplementCheck(r, op, d, statuses) ==
    /\ d \in DOMAIN supplement
    /\ supplement[d].status \in statuses
    /\ Begin(r, [op |-> op, doc |-> d, seen |-> supplement[d].status, refs |-> {}])
    /\ UNCHANGED <<masterVars, stockVars>>

ApproveSupplement(r, d) == SupplementCheck(r, "approve", d, {"PENDING_APPROVAL"})
RejectSupplement(r, d) == SupplementCheck(r, "reject", d, {"PENDING_APPROVAL", "APPROVED"})
CancelSupplement(r, d) == SupplementCheck(r, "cancel", d, {"PENDING_APPROVAL", "APPROVED"})
TransferUnapproved(r, d) == SupplementCheck(r, "transfer", d, {"PENDING_APPROVAL", "APPROVED"})
TransferSupplement(r, d) == SupplementCheck(r, "transfer", d, {"APPROVED"})

Approved(line) == [line EXCEPT !.approved = line.requested]

\* The writes set the status whatever it is by now.
WriteApproval(r) ==
    /\ At(r, "approve")
    /\ LET d == call[r].doc
       IN  /\ supplement' = [supplement EXCEPT ![d].status = "APPROVED",
                               ![d].lines = [l \in DOMAIN @ |-> Approved(@[l])]]
           /\ raced' = Stale(<<"supplement", d>>, supplement[d].status, call[r].seen)
    /\ Finish(r)
    /\ UNCHANGED <<masterVars, overtaken, inProduction, onHand, journal, numbers, cycleCount>>

WriteRejection(r) ==
    /\ At(r, "reject") \/ At(r, "cancel")
    /\ LET d == call[r].doc
           status == IF At(r, "reject") THEN "REJECTED" ELSE "CANCELLED"
       IN  /\ supplement' = [supplement EXCEPT ![d].status = status]
           /\ raced' = Stale(<<"supplement", d>>, supplement[d].status, call[r].seen)
    /\ Finish(r)
    /\ UNCHANGED <<masterVars, overtaken, inProduction, onHand, journal, numbers, cycleCount>>

\* One transaction: a row of the journal for every line, and what was transferred.
ApprovedOf(line) == IF line.approved = None THEN line.requested ELSE line.approved
Transferred(line) == [line EXCEPT !.transferred = ApprovedOf(line)]

LineEntry(d, l) ==
    LET line == supplement[d].lines[l]
    IN  [type |-> "SUPPLEMENTARY_RELEASE", item |-> line.item, from |-> Warehouse(line.warehouse),
         to |-> ProductionOrder(supplement[d].order), dozens |-> ApprovedOf(line), note |-> <<d, l>>]

WriteTransfer(r) ==
    /\ At(r, "transfer")
    /\ LET d == call[r].doc
           lines == supplement[d].lines
       IN  /\ Len(journal) + Len(lines) <= MaxJournal
           /\ journal' = journal \o [l \in DOMAIN lines |-> LineEntry(d, l)]
           /\ supplement' = [supplement EXCEPT ![d].status = "TRANSFERRED",
                               ![d].lines = [l \in DOMAIN @ |-> Transferred(@[l])]]
           /\ raced' = Stale(<<"supplement", d>>, supplement[d].status, call[r].seen)
    /\ Finish(r)
    /\ UNCHANGED <<masterVars, overtaken, inProduction, onHand, numbers, cycleCount>>

\* The order moves on to quality control, or is closed: OrderLifecycle.
OrderLeavesProduction(o) ==
    /\ o \in inProduction
    /\ inProduction' = inProduction \ {o}
    /\ UNCHANGED <<masterVars, call, overtaken, onHand, journal, supplement, numbers, cycleCount, raced>>

-----------------------------------------------------------------------------
(* The reports, as they read the tables: in an order, and no more rows than *)
(* a limit that is not reported.                                           *)

FirstRows(rows, order, limit) == {x \in rows : Cardinality({y \in rows : <<y, x>> \in order}) < limit}

KeysBefore(j, k) ==
    \/ j[1] < k[1]
    \/ j[1] = k[1] /\ j[2].model < k[2].model
    \/ j[1] = k[1] /\ j[2].model = k[2].model /\ j[2].part < k[2].part

Keys == Ids \X PartItem
KeyOrder == {p \in Keys \X Keys : KeysBefore(p[1], p[2])}

HeldAt(keys) == {k \in keys : onHand[k] # None}
Read(keys, limit) == FirstRows(HeldAt(keys), KeyOrder, limit)
TotalOf(read) == SumFunctionOnSet(onHand, read)

KeysOfWarehouse(w) == {k \in Keys : k[1] = w}
KeysOfModel(m) == {k \in Keys : k[2].model = m}

WarehouseSummary(w, limit) ==
    LET read == Read(KeysOfWarehouse(w), limit)
    IN  [total |-> TotalOf(read), skus |-> Cardinality(read)]

ModelSummary(m, limit) ==
    LET read == Read(KeysOfModel(m), limit)
    IN  [total |-> TotalOf(read), skus |-> Cardinality(read), warehouses |-> Cardinality({k[1] : k \in read})]

\* Of one warehouse, or of all of them.
StockPosition(w, limit) ==
    LET read == Read(IF w = None THEN Keys ELSE KeysOfWarehouse(w), limit)
    IN  [positions |-> read, total |-> TotalOf(read)]

\* Within the two dates, here all of the journal.
TransactionVolume ==
    LET volumes == [t \in {e.type : e \in ToSet(journal)} |->
                      Cardinality({i \in DOMAIN journal : journal[i].type = t})]
    IN  [volumes |-> volumes, total |-> SumFunctionOnSet(volumes, DOMAIN volumes)]

\* The latest first.  Both rows of a transfer belong to both warehouses.
WarehouseTransactions(w) ==
    SelectSeq(Reverse(journal), LAMBDA e : Warehouse(w) \in {e.from, e.to})

\* The latest cycle counts come first, of one status or of both.
LatestFirst == {p \in (DOMAIN cycleCount) \X (DOMAIN cycleCount) : p[1] > p[2]}
CountsOf(status) == {d \in DOMAIN cycleCount : status # None => cycleCount[d].status = status}

VarianceSummary(status, limit) ==
    LET read == FirstRows(CountsOf(status), LatestFirst, limit)
        count(s) == Cardinality({d \in read : cycleCount[d].status = s})
    IN  [total |-> Cardinality(read), open |-> count("OPEN"), closed |-> count("CLOSED")]

SupplementaryDashboard ==
    [total |-> Len(supplement),
     by_status |-> [s \in {x.status : x \in ToSet(supplement)} |->
                      Cardinality({d \in DOMAIN supplement : supplement[d].status = s})]]

-----------------------------------------------------------------------------
(* Properties.                                                             *)

EntriesOf(d, l) == {i \in DOMAIN journal : journal[i].type = "SUPPLEMENTARY_RELEASE" /\ journal[i].note = <<d, l>>}

AppliedTo(k) == {i \in DOMAIN journal : /\ journal[i].type = "ADJUSTMENT" /\ journal[i].note \in Reasons
                                        /\ journal[i].to = Warehouse(k[1]) /\ journal[i].item = k[2]}

Moved(type, item, w, v) == {i \in DOMAIN journal : /\ journal[i].type = type /\ journal[i].item = item
                                                   /\ journal[i].from = Warehouse(w) /\ journal[i].to = Warehouse(v)}

SumOf(rows) == SumFunctionOnSet([i \in DOMAIN journal |-> journal[i].dozens], rows)

\* What is on hand is the sum of the adjustments that were applied, whatever
\* ran at the same time, and none went missing from the journal.
OnHandExplained ==
    \A k \in Ids \X PartItem :
        IF AppliedTo(k) = {} THEN onHand[k] = None
        ELSE onHand[k] = SumOf(AppliedTo(k))

\* What leaves a warehouse for another one arrives there.
TransfersComplete ==
    \A w, v \in Ids, item \in {e.item : e \in ToSet(journal)} :
        SumOf(Moved("RELEASE", item, w, v)) = SumOf(Moved("RECEIVING", item, w, v))

\* A line says that it was transferred when the journal has its row, with the
\* approved dozens; and there is one row of a TRANSFERRED request and none of
\* another, unless requests raced to change its status.
SupplementsJournaled ==
    \A d \in DOMAIN supplement : \A l \in DOMAIN supplement[d].lines :
        LET line == supplement[d].lines[l]
            rows == EntriesOf(d, l)
        IN  /\ (line.transferred # None) <=> (rows # {})
            /\ \A i \in rows : journal[i].dozens = line.approved /\ line.approved = line.transferred
            /\ <<"supplement", d>> \notin raced =>
                 Cardinality(rows) = IF supplement[d].status = "TRANSFERRED" THEN 1 ELSE 0

\* A report shows as many rows as there are, or as it may read: one with fewer
\* rows than its limit has left none out.
ShowsAll(read, rows, limit) ==
    /\ read \subseteq rows
    /\ Cardinality(read) = IF Cardinality(rows) <= limit THEN Cardinality(rows) ELSE limit

\* The position and the summary of a warehouse are cut at the same row.  The
\* totals of all warehouses, and of all models, are that of the position of all
\* stock as long as no more rows are held than it may read.
StockReportsAgree(limit) ==
    LET all == StockPosition(None, limit)
    IN  /\ ShowsAll(all.positions, HeldAt(Keys), limit)
        /\ \A w \in Ids :
              LET position == StockPosition(w, limit)
              IN  /\ ShowsAll(position.positions, HeldAt(KeysOfWarehouse(w)), limit)
                  /\ WarehouseSummary(w, limit)
                       = [total |-> position.total, skus |-> Cardinality(position.positions)]
        /\ Cardinality(HeldAt(Keys)) <= limit =>
              /\ all.total = SumFunctionOnSet([w \in Ids |-> WarehouseSummary(w, limit).total], Ids)
              /\ all.total = SumFunctionOnSet([m \in Ids |-> ModelSummary(m, limit).total], Ids)

\* The summary of all cycle counts is that of the open and of the closed ones, up
\* to the limit; beyond it, it may show fewer of either than theirs.
CountReportsAgree(limit) ==
    LET all == VarianceSummary(None, limit)
        open == VarianceSummary("OPEN", limit)
        closed == VarianceSummary("CLOSED", limit)
    IN  /\ all.total = all.open + all.closed
        /\ all.open <= open.total /\ all.closed <= closed.total
        /\ Len(cycleCount) <= limit =>
              all.total = Len(cycleCount) /\ all.open = open.total /\ all.closed = closed.total

\* The reports agree with one another and with what they report on.  Those that
\* the database counts have no limit.
ReportsAgree ==
    /\ \A limit \in ReportLimits : StockReportsAgree(limit) /\ CountReportsAgree(limit)
    /\ TransactionVolume.total = Len(journal)
    /\ SupplementaryDashboard.total =
         SumFunctionOnSet(SupplementaryDashboard.by_status, DOMAIN SupplementaryDashboard.by_status)

\* The journal explains the dozens on hand, the transfers and the supplementary
\* requests.
JournalExplainsStock == OnHandExplained /\ TransfersComplete /\ SupplementsJournaled

\* The steps of BR-Sup03.
SupplementEdges ==
    {<<"PENDING_APPROVAL", "APPROVED">>, <<"PENDING_APPROVAL", "REJECTED">>, <<"PENDING_APPROVAL", "CANCELLED">>,
     <<"APPROVED", "REJECTED">>, <<"APPROVED", "CANCELLED">>, <<"APPROVED", "TRANSFERRED">>}

\* A supplementary request takes a step of its workflow and a closed cycle count
\* stays as it is, unless requests raced for the document; and no two requests
\* get one number.
WorkflowStep ==
    /\ \A d \in DOMAIN supplement :
          supplement'[d].status # supplement[d].status /\ <<"supplement", d>> \notin raced' =>
            <<supplement[d].status, supplement'[d].status>> \in SupplementEdges
    /\ \A d \in DOMAIN cycleCount :
          cycleCount[d].status = "CLOSED" /\ cycleCount'[d] # cycleCount[d] => <<"count", d>> \in raced'
    /\ \A r, q \in {s \in Requests : At(s, "request") /\ call[s].number # None} :
          /\ call[r].number = call[q].number => r = q
          /\ \A d \in DOMAIN supplement : call[r].number # supplement[d].number
=============================================================================
