------------------------------- MODULE BackOffice -------------------------------
(***************************************************************************)
(* The services beside the production floor, together: the tables of       *)
(* master data, the places of the warehouses and the stock ledger, whose   *)
(* use cases check rows of one table before they write to another.         *)
(*                                                                         *)
(* Tables that no use case reads together are independent of each other.   *)
(* An execution is therefore about one scope: the tables, and the use      *)
(* cases, that do belong together.                                         *)
(***************************************************************************)
EXTENDS StockJournal, WarehouseLocations

CONSTANTS
    Scopes,      \* the scopes
    Items,       \* the items a stock transaction may be about
    LineLists,   \* the lines a supplementary request may have
    CountedAt,   \* bound: the warehouses that are counted
    CountedDozens \* bound: what they are counted to have

\* The rows created before have their id for a code.
ASSUME OfficeConstants ==
    /\ 1 \in Ids /\ Ids \subseteq Codes
    /\ Items \subseteq Item
    /\ LineLists \subseteq Seq(NewLine)
    /\ CountedAt \subseteq Ids /\ CountedDozens \subseteq Int

\* None is none of the rows, requests, dozens, places and statuses that it stands
\* beside.
ASSUME NoneIsNothing ==
    None \notin Row \union MasterCall \union StockCall \union LocationCall
                \union Int \union ({"WAREHOUSE", "PRODUCTION_ORDER"} \X Ids)
                \union {"OPEN", "CLOSED"}

VARIABLE
    scope  \* what the execution is about

vars == <<masterVars, call, overtaken, stockVars, location, scope>>

Empty == [i \in Ids |-> None]
Rows(ids, owner) == [i \in Ids |-> IF i \in ids THEN [code |-> i, owner |-> owner, active |-> TRUE] ELSE None]

\* What was created before.
Created ==
    CASE scope \in {"stock", "counts", "supplements"} ->
           {<<"warehouses", Rows(Ids, None)>>, <<"customers", Rows({1}, None)>>,
            <<"models", Rows({1}, 1)>>, <<"model_parts", Rows({1}, 1)>>}
      [] scope = "locations" -> {<<"warehouses", Rows(Ids, None)>>}
      [] scope = "models"    -> {<<"customers", Rows(Ids, None)>>}
      [] scope \in {"parts", "colors", "sizes"} ->
           {<<"customers", Rows({1}, None)>>, <<"models", Rows(Ids, 1)>>}
      [] OTHER -> {}

Init ==
    /\ scope \in Scopes
    /\ table = [t \in Tables |-> IF \E c \in Created : c[1] = t
                                   THEN (CHOOSE c \in Created : c[1] = t)[2] ELSE Empty]
    /\ assigned = [t \in {"colors", "sizes"} |-> {}]
    /\ call = [r \in Requests |-> None]
    /\ overtaken = {}
    /\ inProduction = Orders
    /\ onHand = NoStock
    /\ journal = <<>> /\ supplement = <<>> /\ cycleCount = <<>>
    /\ numbers = 0
    /\ raced = {}
    /\ location = {}

-----------------------------------------------------------------------------

TableRequest(r) ==
    \/ scope = "customers" /\ CustomerRequest(r)
    \/ scope = "suppliers" /\ SupplierRequest(r)
    \/ scope = "warehouses" /\ WarehouseRequest(r)
    \/ scope = "production_lines" /\ ProductionLineRequest(r)
    \/ scope = "working_shifts" /\ WorkingShiftRequest(r)
    \/ scope = "departments" /\ DepartmentRequest(r)
    \/ scope = "models" /\ ModelRequest(r)
    \/ scope = "models" /\ \E i \in Ids : DeactivateCustomer(r, i) \/ ReactivateCustomer(r, i)
    \/ scope = "parts" /\ PartRequest(r)
    \/ scope = "colors" /\ ColorRequest(r)
    \/ scope = "sizes" /\ SizeRequest(r)
    \/ /\ scope = "stock"
       /\ \E i \in Ids : \/ DeactivateWarehouse(r, i) \/ ReactivateWarehouse(r, i)
                         \/ DeactivateModel(r, i) \/ ReactivateModel(r, i)

TransactionRequest(r) ==
    /\ scope = "stock"
    /\ \E item \in Items, w \in Ids, n \in Amounts :
          \/ Receive(r, item, w, n)
          \/ \E o \in Orders : Issue(r, item, w, o, n)
          \/ \E v \in Ids : Transfer(r, item, w, v, n)
          \/ Adjust(r, item, w, n)
          \/ \E reason \in Reasons : ApplyAdjustment(r, item, w, reason, n)

CountRequest(r) ==
    /\ scope = "counts"
    /\ \/ \E item \in Items \intersect PartItem, w \in CountedAt :
            \/ \E n \in CountedDozens : OpenCycleCount(r, w, item, n)
            \/ \E n \in Amounts : ApplyAdjustment(r, item, w, "LOSS", n)
       \/ \E d \in 1 .. MaxCounts : AddAction(r, d) \/ CloseCycleCount(r, d)

SupplementRequest(r) ==
    /\ scope = "supplements"
    /\ \/ \E o \in Orders, lines \in LineLists : RequestSupplement(r, o, lines)
       \/ NextNumber(r)
       \/ \E d \in 1 .. MaxDocuments :
            ApproveSupplement(r, d) \/ RejectSupplement(r, d) \/ CancelSupplement(r, d) \/ TransferSupplement(r, d)

StockWrite(r) ==
    \/ WriteTransaction(r) \/ WriteAdjustment(r)
    \/ CreateCycleCount(r) \/ WriteAction(r) \/ WriteClosure(r)
    \/ CreateSupplement(r) \/ WriteApproval(r) \/ WriteRejection(r) \/ WriteTransfer(r)

LocationRequest(r) ==
    /\ scope = "locations"
    /\ \E w \in Ids, p \in Place : CreateLocation(r, w, p)

Next ==
    \/ \E r \in Requests : /\ TableRequest(r) \/ MasterWrite(r)
                           /\ UNCHANGED <<stockVars, location, scope>>
    \/ \E r \in Requests : /\ TransactionRequest(r) \/ CountRequest(r) \/ SupplementRequest(r) \/ StockWrite(r)
                           /\ UNCHANGED <<location, scope>>
    \/ \E o \in Orders : scope = "supplements" /\ OrderLeavesProduction(o) /\ UNCHANGED <<location, scope>>
    \/ \E r \in Requests : (LocationRequest(r) \/ InsertLocation(r)) /\ UNCHANGED <<stockVars, scope>>
    \/ \E l \in location, on \in BOOLEAN : UpdateLocationStatus(l, on) /\ UNCHANGED <<stockVars, scope>>

Spec == Init /\ [][Next]_vars

-----------------------------------------------------------------------------
(* Properties.                                                             *)

\* The tables hold rows, the requests what they have read; no two rows of a
\* table have the same code.
TypeOK ==
    /\ MasterTypeOK /\ StockTypeOK /\ LocationTypeOK
    /\ \A t \in Tables : \A i, j \in RowsOf(t) :
          i # j => ~ HasCode(t, i, table[t][j].code, table[t][j].owner)
    /\ call \in [Requests -> MasterCall \union StockCall \union LocationCall \union {None}]
    /\ overtaken \subseteq Requests
    /\ scope \in Scopes

\* Whoever turns all pages of a listing sees all of it; the hierarchy of a
\* warehouse and the reports, which are read at once and up to a limit, miss
\* nothing below it; and the reports agree.
ReadsComplete == PagesComplete /\ HierarchyComplete /\ ReportsAgree

\* Documents take the steps of their workflow, unless requests raced for them.
DocumentsFollowWorkflow == [][WorkflowStep]_vars
=============================================================================
