------------------------------- MODULE MasterData -------------------------------
(***************************************************************************)
(* Customers, suppliers, warehouses, production lines, departments,        *)
(* working shifts, colours, sizes, garment models with their parts and the *)
(* colours and sizes assigned to them: tables of rows with a unique code,  *)
(* that are deactivated rather than deleted.  Every use case reads and     *)
(* checks, then writes; only the unique and foreign keys look again.       *)
(*                                                                         *)
(* The use cases of the tables are the same up to the table, so that each  *)
(* is an instance of one of the operations below.                          *)
(***************************************************************************)
EXTENDS Integers, Sequences, FiniteSets, SequencesExt

CONSTANTS
    Ids,        \* the ids a row may get, in every table: numbers
    Codes,      \* the codes a row may have: numbers in the order of the codes
    PageLimits, \* the limits a listing may be asked for
    Requests,   \* concurrent requests
    None        \* no row, no owner, an idle request, a field not given

ASSUME MasterConstants ==
    /\ Ids \subseteq Nat /\ IsFiniteSet(Ids)
    /\ Codes \subseteq Nat
    /\ PageLimits \subseteq Nat \ {0}
    /\ None \notin Ids \union Codes

VARIABLES
    table,     \* table[t][i]: the row of t with id i, None without one
    assigned,  \* assigned[t]: the pairs of a model and a row of t, "colors" or "sizes"
    call,      \* call[r]: what request r has read and has still to do
    overtaken  \* history: the requests that referred to a row which was
               \* deactivated after they had checked it

masterVars == <<table, assigned>>

-----------------------------------------------------------------------------
(* Rows.                                                                   *)

Tables == {"customers", "suppliers", "warehouses", "production_lines", "departments",
           "working_shifts", "models", "model_parts", "colors", "sizes"}

\* Their rows have no is_active and are deleted.
Deletable == {"model_parts", "colors", "sizes"}

\* owner is the customer of a model, the model of a part, the parent of a
\* department; none of these is ever deleted.  The code of a model or of a part
\* is unique within its owner only.
CodeWithinOwner == {"models", "model_parts"}

Row == [code : Codes, owner : Ids \union {None}, active : BOOLEAN]

MasterTypeOK ==
    /\ table \in [Tables -> [Ids -> Row \union {None}]]
    /\ assigned \in [{"colors", "sizes"} -> SUBSET (Ids \X Ids)]

RowsOf(t) == {i \in Ids : table[t][i] # None}
Exists(t, i) == i \in Ids /\ table[t][i] # None
ActiveUnchecked(t, i) == Exists(t, i)
Active(t, i) == Exists(t, i) /\ table[t][i].active

\* findByCode, findByCustomerAndCode, findByModelAndCode; also the unique key.
HasCode(t, i, c, o) ==
    /\ table[t][i].code = c
    /\ t \in CodeWithinOwner => table[t][i].owner = o
Taken(t, c, o) == \E i \in RowsOf(t) : HasCode(t, i, c, o)

\* The active children of a department.
ActiveChildren(i) == {j \in RowsOf("departments") : /\ table["departments"][j].owner = i
                                                    /\ table["departments"][j].active}

-----------------------------------------------------------------------------
(* Calls.                                                                  *)

At(r, op) == call[r] # None /\ call[r].op = op
Begin(r, c) ==
    /\ call[r] = None
    /\ call' = [call EXCEPT ![r] = c]
    /\ overtaken' = overtaken \ {r}
Finish(r) == call' = [call EXCEPT ![r] = None]

MasterCall ==
           [op : {"create"}, table : Tables, code : Codes, owner : Ids \union {None},
            refs : SUBSET (Tables \X Ids)]
    \union [op : {"update"}, table : Tables, id : Ids, code : Codes \union {None},
            owner : Ids \union {None}, refs : SUBSET (Tables \X Ids)]
    \union [op : {"deactivate", "reactivate", "delete"}, table : Tables, id : Ids,
            refs : SUBSET (Tables \X Ids)]
    \union [op : {"assign", "remove"}, table : {"colors", "sizes"}, model : Ids, id : Ids,
            refs : SUBSET (Tables \X Ids)]

-----------------------------------------------------------------------------
(* The operations of a table: check, then write.                           *)

\* refs: the rows that were checked to be active.  An id is left for the row;
\* the concurrent creations of a table are counted (bound: Ids).
CreateCheck(r, t, c, o, refs) ==
    /\ ~ Taken(t, c, o)
    /\ Cardinality(RowsOf(t)) + Cardinality({q \in Requests : At(q, "create")}) < Cardinality(Ids)
    /\ Begin(r, [op |-> "create", table |-> t, code |-> c, owner |-> o, refs |-> refs])
    /\ UNCHANGED masterVars

CreateWrite(r) ==
    /\ At(r, "create")
    /\ LET c == call[r]
           i == CHOOSE j \in Ids : ~ Exists(c.table, j)
       IN  IF ~ Taken(c.table, c.code, c.owner)
             THEN table' = [table EXCEPT ![c.table][i] =
                              [code |-> c.code, owner |-> c.owner, active |-> TRUE]]
             ELSE UNCHANGED table
    /\ Finish(r)
    /\ UNCHANGED <<assigned, overtaken>>

\* A code that is given and differs from the one that was read must be free.
UpdateCheck(r, t, i, c, o) ==
    /\ Exists(t, i)
    /\ c \notin {None, table[t][i].code} => ~ Taken(t, c, table[t][i].owner)
    /\ Begin(r, [op |-> "update", table |-> t, id |-> i, code |-> c, owner |-> o, refs |-> {}])
    /\ UNCHANGED masterVars

\* Only the fields that are given are written.  The write fails when the row
\* or its new owner has been deleted, or the code has been taken.
UpdateWrite(r) ==
    /\ At(r, "update")
    /\ LET c == call[r]
           row == table[c.table][c.id]
           owner == IF c.owner = None THEN row.owner ELSE c.owner
       IN  IF /\ Exists(c.table, c.id)
              /\ c.code \notin {None, row.code} => ~ Taken(c.table, c.code, row.owner)
             THEN table' = [table EXCEPT ![c.table][c.id].code = IF c.code = None THEN @ ELSE c.code,
                                         ![c.table][c.id].owner = owner]
             ELSE UNCHANGED table
    /\ Finish(r)
    /\ UNCHANGED <<assigned, overtaken>>

DeactivateCheck(r, t, i) ==
    /\ Active(t, i)
    /\ Begin(r, [op |-> "deactivate", table |-> t, id |-> i, refs |-> {}])
    /\ UNCHANGED masterVars

\* The requests that have checked the row and have not written yet.
Referring(t, i) == {q \in Requests : call[q] # None /\ <<t, i>> \in call[q].refs}

DeactivateWrite(r) ==
    /\ At(r, "deactivate")
    /\ table' = [table EXCEPT ![call[r].table][call[r].id].active = FALSE]
    /\ overtaken' = overtaken \union Referring(call[r].table, call[r].id)
    /\ Finish(r)
    /\ UNCHANGED assigned

ReactivateCheck(r, t, i) ==
    /\ Exists(t, i)
    /\ ~ Active(t, i)
    /\ Begin(r, [op |-> "reactivate", table |-> t, id |-> i, refs |-> {}])
    /\ UNCHANGED masterVars

ReactivateWrite(r) ==
    /\ At(r, "reactivate")
    /\ table' = [table EXCEPT ![call[r].table][call[r].id].active = TRUE]
    /\ Finish(r)
    /\ UNCHANGED <<assigned, overtaken>>

DeleteCheck(r, t, i) ==
    /\ Exists(t, i)
    /\ Begin(r, [op |-> "delete", table |-> t, id |-> i, refs |-> {}])
    /\ UNCHANGED masterVars

\* Fails when a foreign key refers to the row, or it is gone.
DeleteWrite(r) ==
    /\ At(r, "delete")
    /\ LET c == call[r]
       IN  IF c.table \in {"colors", "sizes"} /\ (\E m \in Ids : <<m, c.id>> \in assigned[c.table])
             THEN UNCHANGED table
             ELSE table' = [table EXCEPT ![c.table][c.id] = None]
    /\ Finish(r)
    /\ UNCHANGED <<assigned, overtaken>>

AssignCheck(r, t, m, i) ==
    /\ Exists("models", m)
    /\ Exists(t, i)
    /\ <<m, i>> \notin assigned[t]
    /\ Begin(r, [op |-> "assign", table |-> t, model |-> m, id |-> i, refs |-> {}])
    /\ UNCHANGED masterVars

AssignWrite(r) ==
    /\ At(r, "assign")
    /\ LET c == call[r]
       IN  assigned' = IF Exists(c.table, c.id)
                         THEN [assigned EXCEPT ![c.table] = @ \union {<<c.model, c.id>>}]
                         ELSE assigned
    /\ Finish(r)
    /\ UNCHANGED <<table, overtaken>>

RemoveCheck(r, t, m, i) ==
    /\ <<m, i>> \in assigned[t]
    /\ Begin(r, [op |-> "remove", table |-> t, model |-> m, id |-> i, refs |-> {}])
    /\ UNCHANGED masterVars

RemoveWrite(r) ==
    /\ At(r, "remove")
    /\ assigned' = [assigned EXCEPT ![call[r].table] = @ \ {<<call[r].model, call[r].id>>}]
    /\ Finish(r)
    /\ UNCHANGED <<table, overtaken>>

MasterWrite(r) ==
    \/ CreateWrite(r) \/ UpdateWrite(r) \/ DeleteWrite(r)
    \/ DeactivateWrite(r) \/ ReactivateWrite(r)
    \/ AssignWrite(r) \/ RemoveWrite(r)

-----------------------------------------------------------------------------
(* The use cases.                                                          *)

CreateCustomer(r, c) == CreateCheck(r, "customers", c, None, {})
UpdateCustomer(r, i, c) == UpdateCheck(r, "customers", i, c, None)
DeactivateCustomer(r, i) == DeactivateCheck(r, "customers", i)
ReactivateCustomer(r, i) == ReactivateCheck(r, "customers", i)

CreateSupplier(r, c) == CreateCheck(r, "suppliers", c, None, {})
UpdateSupplier(r, i, c) == UpdateCheck(r, "suppliers", i, c, None)
DeactivateSupplier(r, i) == DeactivateCheck(r, "suppliers", i)
ReactivateSupplier(r, i) == ReactivateCheck(r, "suppliers", i)

\* The type of a warehouse is refused when it differs, so it is never changed.
CreateWarehouse(r, c) == CreateCheck(r, "warehouses", c, None, {})
UpdateWarehouse(r, i, c) == UpdateCheck(r, "warehouses", i, c, None)
DeactivateWarehouse(r, i) == DeactivateCheck(r, "warehouses", i)
ReactivateWarehouse(r, i) == ReactivateCheck(r, "warehouses", i)

CreateProductionLine(r, c) == CreateCheck(r, "production_lines", c, None, {})
UpdateProductionLine(r, i, c) == UpdateCheck(r, "production_lines", i, c, None)
DeactivateProductionLine(r, i) == DeactivateCheck(r, "production_lines", i)
ReactivateProductionLine(r, i) == ReactivateCheck(r, "production_lines", i)

CreateWorkingShift(r, c) == CreateCheck(r, "working_shifts", c, None, {})
UpdateWorkingShift(r, i, c) == UpdateCheck(r, "working_shifts", i, c, None)
DeactivateWorkingShift(r, i) == DeactivateCheck(r, "working_shifts", i)
ReactivateWorkingShift(r, i) == ReactivateCheck(r, "working_shifts", i)

\* The parent must exist; nobody asks whether it is active, or below the child.
CreateDepartment(r, c, parent) ==
    /\ parent # None => Exists("departments", parent)
    /\ CreateCheck(r, "departments", c, parent, {})
UpdateDepartment(r, i, c, parent) ==
    /\ parent # None => parent # i /\ Exists("departments", parent)
    /\ UpdateCheck(r, "departments", i, c, parent)
DeactivateDepartment(r, i) ==
    /\ ActiveChildren(i) = {}
    /\ DeactivateCheck(r, "departments", i)
ReactivateDepartment(r, i) == ReactivateCheck(r, "departments", i)

CreateModel(r, c, customer) ==
    /\ Active("customers", customer)
    /\ CreateCheck(r, "models", c, customer, {<<"customers", customer>>})
UpdateModel(r, i, c) == UpdateCheck(r, "models", i, c, None)
DeactivateModel(r, i) == DeactivateCheck(r, "models", i)
ReactivateModel(r, i) == ReactivateCheck(r, "models", i)

AddPart(r, m, c) == Exists("models", m) /\ CreateCheck(r, "model_parts", c, m, {})
UpdatePart(r, m, i, c) ==
    /\ Exists("model_parts", i)
    /\ table["model_parts"][i].owner = m
    /\ UpdateCheck(r, "model_parts", i, c, None)
RemovePart(r, m, i) ==
    /\ Exists("model_parts", i)
    /\ table["model_parts"][i].owner = m
    /\ DeleteCheck(r, "model_parts", i)

CreateColor(r, c) == CreateCheck(r, "colors", c, None, {})
UpdateColor(r, i, c) == UpdateCheck(r, "colors", i, c, None)
DeleteColor(r, i) == DeleteCheck(r, "colors", i)
AssignColor(r, m, i) == AssignCheck(r, "colors", m, i)
RemoveColor(r, m, i) == RemoveCheck(r, "colors", m, i)

CreateSize(r, c) == CreateCheck(r, "sizes", c, None, {})
UpdateSize(r, i, c) == UpdateCheck(r, "sizes", i, c, None)
DeleteSize(r, i) == DeleteCheck(r, "sizes", i)
AssignSize(r, m, i) == AssignCheck(r, "sizes", m, i)
RemoveSize(r, m, i) == RemoveCheck(r, "sizes", m, i)

-----------------------------------------------------------------------------
(* The requests of a table, and those of the tables that depend on another. *)

Given == Codes \union {None}

CustomerRequest(r) ==
    \/ \E c \in Codes : CreateCustomer(r, c)
    \/ \E i \in Ids : (\E c \in Given : UpdateCustomer(r, i, c)) \/ DeactivateCustomer(r, i) \/ ReactivateCustomer(r, i)
SupplierRequest(r) ==
    \/ \E c \in Codes : CreateSupplier(r, c)
    \/ \E i \in Ids : (\E c \in Given : UpdateSupplier(r, i, c)) \/ DeactivateSupplier(r, i) \/ ReactivateSupplier(r, i)
WarehouseRequest(r) ==
    \/ \E c \in Codes : CreateWarehouse(r, c)
    \/ \E i \in Ids : (\E c \in Given : UpdateWarehouse(r, i, c)) \/ DeactivateWarehouse(r, i) \/ ReactivateWarehouse(r, i)
ProductionLineRequest(r) ==
    \/ \E c \in Codes : CreateProductionLine(r, c)
    \/ \E i \in Ids : (\E c \in Given : UpdateProductionLine(r, i, c)) \/ DeactivateProductionLine(r, i) \/ ReactivateProductionLine(r, i)
WorkingShiftRequest(r) ==
    \/ \E c \in Codes : CreateWorkingShift(r, c)
    \/ \E i \in Ids : (\E c \in Given : UpdateWorkingShift(r, i, c)) \/ DeactivateWorkingShift(r, i) \/ ReactivateWorkingShift(r, i)
DepartmentRequest(r) ==
    \/ \E c \in Codes, parent \in Ids \union {None} : CreateDepartment(r, c, parent)
    \/ \E i \in Ids, c \in Given, parent \in Ids \union {None} : UpdateDepartment(r, i, c, parent)
    \/ \E i \in Ids : DeactivateDepartment(r, i) \/ ReactivateDepartment(r, i)
ModelRequest(r) ==
    \/ \E c \in Codes, customer \in Ids : CreateModel(r, c, customer)
    \/ \E i \in Ids : (\E c \in Given : UpdateModel(r, i, c)) \/ DeactivateModel(r, i) \/ ReactivateModel(r, i)
PartRequest(r) ==
    \E m \in Ids :
        \/ \E c \in Codes : AddPart(r, m, c)
        \/ \E i \in Ids : (\E c \in Given : UpdatePart(r, m, i, c)) \/ RemovePart(r, m, i)
ColorRequest(r) ==
    \/ \E c \in Codes : CreateColor(r, c)
    \/ \E i \in Ids : (\E c \in Given : UpdateColor(r, i, c)) \/ DeleteColor(r, i)
    \/ \E m, i \in Ids : AssignColor(r, m, i) \/ RemoveColor(r, m, i)
SizeRequest(r) ==
    \/ \E c \in Codes : CreateSize(r, c)
    \/ \E i \in Ids : (\E c \in Given : UpdateSize(r, i, c)) \/ DeleteSize(r, i)
    \/ \E m, i \in Ids : AssignSize(r, m, i) \/ RemoveSize(r, m, i)

-----------------------------------------------------------------------------
(* The listings: the rows that are active, inactive, or all of them (on is *)
(* not given), in the order of their code, cut into pages.  Sizes are      *)
(* listed by sort_order, which is no key: their pages are not modelled.    *)

Listed(t, on) == {i \in RowsOf(t) : on = None \/ table[t][i].active = on}

ByCode(t, i, j) == table[t][i].code < table[t][j].code
ByOwnerAndCode(t, i, j) ==
    \/ table[t][i].owner < table[t][j].owner
    \/ table[t][i].owner = table[t][j].owner /\ ByCode(t, i, j)

SkippedWholePages(page, limit) == page * limit
Skipped(page, limit) == (page - 1) * limit

\* The row at a place has as many rows before it.
SortedByCode(t, on) ==
    [i \in Listed(t, on) |-> Cardinality({j \in Listed(t, on) : ByCode(t, j, i)})]
SortedByOwnerAndCode(t, on) ==
    [i \in Listed(t, on) |-> Cardinality({j \in Listed(t, on) : ByOwnerAndCode(t, j, i)})]

PageOf(place, page, limit) ==
    {i \in DOMAIN place : place[i] \in Skipped(page, limit) .. Skipped(page, limit) + limit - 1}

CustomersPage(on, page, limit) == PageOf(SortedByCode("customers", on), page, limit)
SuppliersPage(on, page, limit) == PageOf(SortedByCode("suppliers", on), page, limit)
WarehousesPage(on, page, limit) == PageOf(SortedByCode("warehouses", on), page, limit)
ProductionLinesPage(on, page, limit) == PageOf(SortedByCode("production_lines", on), page, limit)
WorkingShiftsPage(on, page, limit) == PageOf(SortedByCode("working_shifts", on), page, limit)
DepartmentsPage(on, page, limit) == PageOf(SortedByCode("departments", on), page, limit)
ColorsPage(page, limit) == PageOf(SortedByCode("colors", None), page, limit)
ModelsPage(on, page, limit) == PageOf(SortedByOwnerAndCode("models", on), page, limit)

ListPage(t, on, page, limit) ==
    CASE t = "customers"        -> CustomersPage(on, page, limit)
      [] t = "suppliers"        -> SuppliersPage(on, page, limit)
      [] t = "warehouses"       -> WarehousesPage(on, page, limit)
      [] t = "production_lines" -> ProductionLinesPage(on, page, limit)
      [] t = "working_shifts"   -> WorkingShiftsPage(on, page, limit)
      [] t = "departments"      -> DepartmentsPage(on, page, limit)
      [] t = "models"           -> ModelsPage(on, page, limit)
      [] t = "colors"           -> ColorsPage(page, limit)

\* buildPaginationMeta.
TotalPages(total, limit) == IF total = 0 THEN 1 ELSE (total + limit - 1) \div limit
HasNext(page, total, limit) == page < TotalPages(total, limit)

-----------------------------------------------------------------------------
(* Properties.                                                             *)

\* Somebody who turns the pages of a listing while hasNext says so, and nothing
\* changes in the meantime, sees every row exactly once, and no page that is
\* longer than asked for.
LastPage(total, limit) ==
    CHOOSE p \in 1 .. total + 1 : ~ HasNext(p, total, limit) /\ \A q \in 1 .. p - 1 : HasNext(q, total, limit)

PagesComplete ==
    \A t \in {u \in Tables \ {"sizes", "model_parts"} : RowsOf(u) # {}}, limit \in PageLimits :
    \A on \in IF t = "colors" THEN {None} ELSE {TRUE, FALSE, None} :
        LET turned == 1 .. LastPage(Cardinality(Listed(t, on)), limit)
        IN  /\ \A i \in Listed(t, on) : Cardinality({p \in turned : i \in ListPage(t, on, p, limit)}) = 1
            /\ \A p \in turned : /\ ListPage(t, on, p, limit) \subseteq Listed(t, on)
                                  /\ Cardinality(ListPage(t, on, p, limit)) <= limit

\* A request that goes on because a row was active goes on with an active row,
\* unless the row was deactivated after the request had checked it: the write
\* does not look again.
CheckedRowsActive ==
    \A r \in Requests \ overtaken : call[r] # None =>
        \A ref \in call[r].refs : table[ref[1]][ref[2]].active
=============================================================================
