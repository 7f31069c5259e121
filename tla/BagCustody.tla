----------------------------- MODULE BagCustody -----------------------------
(***************************************************************************)
(* Physical bags, their reservations and their movements, as the inventory *)
(* module of the server handles them (src/src/modules/inventory/services). *)
(*                                                                         *)
(* A request runs one service method.  The method is a sequence of         *)
(* database statements separated by awaits; other requests run between two *)
(* of them, so each action below is the code between two awaits that matter*)
(* to another request.  A $transaction is one action.  A request that a    *)
(* check rejects throws before it writes anything: it changes no state and *)
(* is not a step.                                                          *)
(***************************************************************************)
EXTENDS Integers, FiniteSets, FiniteSetsExt

CONSTANTS
    Bags,              \* physical_bags rows
    Orders,            \* production_orders rows that may reserve a bag
    Warehouses,        \* warehouses rows
    ActiveWarehouses,  \* those with is_active = true
    Dozens,            \* Dozens[b]: current_dozens of bag b, which no code changes
    Amounts,           \* the reserved_dozens a client may ask for
    Requests,          \* concurrent requests to the inventory services
    MayFail,           \* the requests that may die between two statements
    None               \* NULL, and the idle state of a request

ASSUME BagConstants ==
    /\ ActiveWarehouses \subseteq Warehouses
    /\ Dozens \in [Bags -> Nat]
    /\ Amounts \subseteq Nat
    /\ None \notin Warehouses \union Orders
    /\ IsFiniteSet(Orders)
    /\ IsFiniteSet(Requests)

VARIABLES
    bag,   \* bag[b]: status, current_warehouse_id, current_order_id
    resv,  \* resv[<<b, o>>]: the row of physical_bag_reservations for (bag, order)
    call   \* call[r]: what request r has read and has still to do

bagVars == <<bag, resv, call>>

-----------------------------------------------------------------------------
(* Rows and calls.                                                         *)

BagStatus == {"RECEIVED", "AVAILABLE", "RESERVED", "RELEASED", "IN_WIP", "RETURNED"}

Bag == [status : BagStatus, wh : Warehouses \union {None}, order : Orders \union {None}]

\* "none": the table holds no row for this bag and order.
Reservation == [status : {"none", "ACTIVE", "RELEASED", "CANCELLED"}, dozens : Nat]

NoReservation == [status |-> "none", dozens |-> 0]

ReserveCall == [op : {"reserve"}, next : {"create", "mark"},
                bag : Bags, order : Orders, dozens : Amounts]

CloseCall == [op : {"release", "cancel", "expire"}, next : {"close", "sum", "free"},
              bag : Bags, order : Orders]

MoveCall ==      [op : {"transfer"}, next : {"commit"}, bag : Bags, to : ActiveWarehouses]
          \union [op : {"assign"}, next : {"commit"}, bag : Bags, to : Orders]
          \union [op : {"return"}, next : {"commit"}, bag : Bags, to : Warehouses]

InventoryCall == ReserveCall \union CloseCall \union MoveCall \union {None}

\* A request that has been answered leaves nothing behind.
ASSUME AnsweredIsNoCall == None \notin ReserveCall \union CloseCall \union MoveCall

BagTypeOK ==
    /\ bag \in [Bags -> Bag]
    /\ resv \in [Bags \X Orders -> Reservation]
    /\ call \in [Requests -> InventoryCall]

Idle(r) == call[r] = None

At(r, ops, step) == call[r] # None /\ call[r].op \in ops /\ call[r].next = step

Continue(r, step) == call' = [call EXCEPT ![r].next = step]

Finish(r) == call' = [call EXCEPT ![r] = None]

-----------------------------------------------------------------------------
(* Queries and single-row writes of the repositories.                      *)

Active(b) == {o \in Orders : resv[<<b, o>>].status = "ACTIVE"}

\* sumActiveReservedDozens
ActiveDozens(b) == SumFunctionOnSet([o \in Orders |-> resv[<<b, o>>].dozens], Active(b))

SetBagStatus(b, s) == bag' = [bag EXCEPT ![b].status = s]

SetBagLocation(b, w, o, s) == bag' = [bag EXCEPT ![b] = [status |-> s, wh |-> w, order |-> o]]

\* The unique key (bag_id, order_id): false makes the insert fail.
KeyIsFreeAlways(b, o) == TRUE
KeyIsFree(b, o) == resv[<<b, o>>].status = "none"

-----------------------------------------------------------------------------
(* reserve: check, insert the reservation, mark the bag.  The lookup of an *)
(* existing row and the sum are two reads taken as one: a row, once there, *)
(* is never deleted, so a row that appears between them fails the insert.  *)

FitsIgnoringOthers(b, d) == d <= Dozens[b]
Fits(b, d) == d <= Dozens[b] - ActiveDozens(b)

\* The status of the bag is not looked at.
ReserveCheck(r, b, o, d) ==
    /\ Idle(r)
    /\ d > 0
    /\ KeyIsFree(b, o)
    /\ Fits(b, d)
    /\ call' = [call EXCEPT ![r] = [op |-> "reserve", next |-> "create",
                                   bag |-> b, order |-> o, dozens |-> d]]
    /\ UNCHANGED <<bag, resv>>

ReserveCreate(r) ==
    /\ At(r, {"reserve"}, "create")
    /\ LET c == call[r]
       IN  IF KeyIsFree(c.bag, c.order)
             THEN /\ resv' = [resv EXCEPT ![<<c.bag, c.order>>] =
                                         [status |-> "ACTIVE", dozens |-> c.dozens]]
                  /\ Continue(r, "mark")
             ELSE Finish(r) /\ UNCHANGED resv
    /\ UNCHANGED bag

ReserveMark(r) ==
    /\ At(r, {"reserve"}, "mark")
    /\ SetBagStatus(call[r].bag, "RESERVED")
    /\ Finish(r)
    /\ UNCHANGED resv

-----------------------------------------------------------------------------
(* release, cancel and expire: check that the row is ACTIVE, close it, and *)
(* (not expire) give the bag back when nothing is reserved any more.       *)

ClosedStatus(op) == IF op = "release" THEN "RELEASED" ELSE "CANCELLED"

AssertActive(b, o) == resv[<<b, o>>].status = "ACTIVE"

CloseCheck(r, op, b, o) ==
    /\ Idle(r)
    /\ AssertActive(b, o)
    /\ call' = [call EXCEPT ![r] = [op |-> op, next |-> "close", bag |-> b, order |-> o]]
    /\ UNCHANGED <<bag, resv>>

\* updateStatus writes whatever the status of the row is by now.
CloseWrite(r) ==
    /\ At(r, {"release", "cancel"}, "close")
    /\ resv' = [resv EXCEPT ![<<call[r].bag, call[r].order>>].status = ClosedStatus(call[r].op)]
    /\ Continue(r, "sum")
    /\ UNCHANGED bag

NothingActiveUnchecked(c) == TRUE
NothingActive(c) == Active(c.bag) = {}

\* The sum of the ACTIVE dozens, all positive, is zero when no row is ACTIVE.
CloseSum(r) ==
    /\ At(r, {"release", "cancel"}, "sum")
    /\ IF NothingActive(call[r]) THEN Continue(r, "free") ELSE Finish(r)
    /\ UNCHANGED <<bag, resv>>

CloseFree(r) ==
    /\ At(r, {"release", "cancel"}, "free")
    /\ SetBagStatus(call[r].bag, "RECEIVED")
    /\ Finish(r)
    /\ UNCHANGED resv

\* The bag keeps its status: nothing gives it back.
ExpireWrite(r) ==
    /\ At(r, {"expire"}, "close")
    /\ resv' = [resv EXCEPT ![<<call[r].bag, call[r].order>>].status = ClosedStatus(call[r].op)]
    /\ Finish(r)
    /\ UNCHANGED bag

-----------------------------------------------------------------------------
(* Movements: read the bag and validate, then one transaction that writes  *)
(* the movement row (a log, not modelled) and the bag from what was read.  *)

Move(r, op, b, to) ==
    /\ Idle(r)
    /\ call' = [call EXCEPT ![r] = [op |-> op, next |-> "commit", bag |-> b, to |-> to]]
    /\ UNCHANGED <<bag, resv>>

InWarehouse(b) == bag[b].wh # None

TransferCheckAnywhere(r, b, w) ==
    /\ InWarehouse(b)
    /\ bag[b].wh # w
    /\ bag[b].status \in {"AVAILABLE", "RECEIVED", "RESERVED"}
    /\ Move(r, "transfer", b, w)
TransferCheck(r, b, w) ==
    /\ InWarehouse(b)
    /\ bag[b].wh # w
    /\ bag[b].status \in {"AVAILABLE", "RECEIVED", "RESERVED"}
    /\ w \in ActiveWarehouses
    /\ Move(r, "transfer", b, w)

TransferCommit(r) ==
    /\ At(r, {"transfer"}, "commit")
    /\ SetBagLocation(call[r].bag, call[r].to, None, "AVAILABLE")
    /\ Finish(r)
    /\ UNCHANGED resv

AssignCheck(r, b, o) ==
    /\ InWarehouse(b)
    /\ bag[b].status = "AVAILABLE"
    /\ Move(r, "assign", b, o)

AssignCommit(r) ==
    /\ At(r, {"assign"}, "commit")
    /\ SetBagLocation(call[r].bag, None, call[r].to, "IN_WIP")
    /\ Finish(r)
    /\ UNCHANGED resv

\* The destination warehouse is not looked at.
ReturnCheck(r, b, w) ==
    /\ bag[b].order # None
    /\ bag[b].status = "IN_WIP"
    /\ Move(r, "return", b, w)

ReturnCommitKeepingOrder(r) ==
    /\ At(r, {"return"}, "commit")
    /\ SetBagLocation(call[r].bag, call[r].to, bag[call[r].bag].order, "RETURNED")
    /\ Finish(r)
    /\ UNCHANGED resv
ReturnCommit(r) ==
    /\ At(r, {"return"}, "commit")
    /\ SetBagLocation(call[r].bag, call[r].to, None, "RETURNED")
    /\ Finish(r)
    /\ UNCHANGED resv

-----------------------------------------------------------------------------
\* The server stops, or the connection is lost, between two statements.
Fail(r) ==
    /\ r \in MayFail
    /\ ~Idle(r)
    /\ Finish(r)
    /\ UNCHANGED <<bag, resv>>

\* A received bag is in a warehouse; receiving is not part of the server.
BagInit ==
    /\ \E w \in [Bags -> Warehouses] :
          bag = [b \in Bags |-> [status |-> "RECEIVED", wh |-> w[b], order |-> None]]
    /\ resv = [k \in Bags \X Orders |-> NoReservation]
    /\ call = [r \in Requests |-> None]

BagStep(r) ==
    \/ \E b \in Bags, o \in Orders, d \in Amounts : ReserveCheck(r, b, o, d)
    \/ ReserveCreate(r)
    \/ ReserveMark(r)
    \/ \E op \in {"release", "cancel", "expire"}, b \in Bags, o \in Orders :
           CloseCheck(r, op, b, o)
    \/ CloseWrite(r)
    \/ CloseSum(r)
    \/ CloseFree(r)
    \/ ExpireWrite(r)
    \/ \E b \in Bags, w \in Warehouses : TransferCheck(r, b, w)
    \/ TransferCommit(r)
    \/ \E b \in Bags, o \in Orders : AssignCheck(r, b, o)
    \/ AssignCommit(r)
    \/ \E b \in Bags, w \in Warehouses : ReturnCheck(r, b, w)
    \/ ReturnCommit(r)
    \/ Fail(r)

BagNext == \E r \in Requests : BagStep(r)

BagSpec == BagInit /\ [][BagNext]_bagVars

-----------------------------------------------------------------------------
(* Properties.                                                             *)

\* A bag is in one place: in a warehouse or with an order, and a status that
\* names a place names the right one.  RECEIVED and RESERVED name none, since
\* the reservation service writes them without looking where the bag is.
\* Movements write from stale reads; the three columns still agree.
OneCustodian ==
    \A b \in Bags :
        /\ (bag[b].wh = None) # (bag[b].order = None)
        /\ bag[b].status \in {"AVAILABLE", "RETURNED"} => bag[b].wh # None
        /\ bag[b].status \in {"IN_WIP", "RELEASED"} => bag[b].order # None

\* A reservation that was closed stays closed, and its dozens are never
\* rewritten, whatever requests were validated against it while it was ACTIVE.
ClosedForGood ==
    [][\A k \in Bags \X Orders :
          /\ resv[k].status # "none" => /\ resv'[k].status # "none"
                                        /\ resv'[k].dozens = resv[k].dozens
          /\ resv[k].status \in {"RELEASED", "CANCELLED"} => resv'[k].status # "ACTIVE"]_bagVars

Admitted(b) == {r \in Requests : At(r, {"reserve"}, "create") /\ call[r].bag = b}

\* How far the unlocked check of validateCreate can be wrong: a bag is never
\* reserved for more than its dozens times the number of concurrent requests,
\* the requests that passed the check and have not inserted yet included.  For
\* one request at a time this is the rule itself: never more than the bag holds.
OverReservationBounded ==
    \A b \in Bags :
        ActiveDozens(b) + SumFunctionOnSet([r \in Admitted(b) |-> call[r].dozens], Admitted(b))
            <= Cardinality(Requests) * Dozens[b]

\* What validateCreate is for: a bag is not reserved for more than it holds.
NoOverReservation == \A b \in Bags : ActiveDozens(b) <= Dozens[b]

\* Between requests, a bag that is reserved is not offered as RECEIVED, so
\* the bag is only given back when its last reservation is closed.
ReservedBagNotGivenBack ==
    (\A r \in Requests : Idle(r)) =>
        \A b \in Bags : Active(b) # {} => bag[b].status # "RECEIVED"

=============================================================================
