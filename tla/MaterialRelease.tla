--------------------------- MODULE MaterialRelease ---------------------------
(***************************************************************************)
(* Release of reserved bags to a production order (the production module's *)
(* create-release-group and start-production-order), on the bags and the   *)
(* reservations of BagCustody, whose services run concurrently.            *)
(*                                                                         *)
(* The release is one $transaction under READ COMMITTED.  Its statements   *)
(* do not all see the same state, so it is four actions: read the largest  *)
(* group number, insert the group under the unique key (order_id,          *)
(* group_number), write and count, commit.  Nothing is visible before the  *)
(* commit.  The CMO line is updated after it, with an optimistic lock.     *)
(***************************************************************************)
EXTENDS BagCustody

CONSTANTS
    Parts,         \* model_parts rows
    PartOf,        \* PartOf[b]: part_id of bag b
    OrderParts,    \* OrderParts[o]: parts with a production_order_parts row
    Stocked,       \* <<w, p>>: the inventory_bags rows, which no release adds to
    CmoOrders,     \* the orders with a cmo_line_id, all of one CMO line
    RetryLimit,    \* CMO_RETRY_LIMIT
    Releasers,     \* concurrent requests to the production use cases
    Serial         \* TRUE: a request runs only when no other is in flight

ASSUME ReleaseConstants ==
    /\ PartOf \in [Bags -> Parts]
    /\ OrderParts \in [Orders -> SUBSET Parts]
    /\ Stocked \subseteq Warehouses \X Parts
    /\ CmoOrders \subseteq Orders
    /\ RetryLimit \in Nat \ {0}
    /\ Serial \in BOOLEAN
    /\ Releasers \intersect Requests = {}
    /\ None \notin Bags
    /\ IsFiniteSet(Bags)
    /\ IsFiniteSet(Stocked)
    /\ IsFiniteSet(Releasers)

VARIABLES
    ostatus,  \* ostatus[o]: production_orders.status
    part,     \* part[<<o, p>>]: production_order_parts.status
    groups,   \* groups[o]: the group_numbers of the committed release_groups
    lines,    \* lines[<<b, o>>]: the release_group_lines of bag b for order o
    onHand,   \* onHand[<<w, p>>]: inventory_bags.dozens_on_hand, which may go below zero
    cmo,      \* the customer_manufacturing_order_lines row
    lost,     \* history: dozens released whose CMO update was given up
    rel       \* rel[g]: what production request g has read and has still to do

releaseVars == <<ostatus, part, groups, lines, onHand, cmo, lost, rel>>

vars == <<bagVars, releaseVars>>

-----------------------------------------------------------------------------
(* Rows and calls.                                                         *)

Line == [group : Nat \ {0}, wh : Warehouses]

\* A release: the bags of its lines, the warehouse read for each (None before),
\* the lines still to validate and the one half validated, and what each later
\* step of the handler reads.
ReleaseCall == [op : {"release"}, next : {"check", "insert", "count", "commit", "cmo", "cas"},
                order : Orders, bags : SUBSET Bags, from : [Bags -> Warehouses \union {None}],
                todo : SUBSET Bags, line : Bags \union {None}, number : Nat,
                full : SUBSET Parts, version : Nat, attempt : Nat]

StartCall == [op : {"start"}, next : {"start"}, order : Orders]

ProductionCall == ReleaseCall \union StartCall \union {None}

\* A request that has been dealt with leaves nothing behind.
ASSUME IdleIsNoCall == None \notin ReleaseCall \union StartCall

ReleaseRowsOK ==
    /\ ostatus \in [Orders -> {"PLANNED", "IN_PRODUCTION"}]
    /\ part \in [Orders \X Parts -> {"PENDING", "RELEASED"}]
    /\ groups \in [Orders -> SUBSET (Nat \ {0})]
    /\ lines \in [Bags \X Orders -> SUBSET Line]
    /\ rel \in [Releasers -> ProductionCall]

CountersOK ==
    /\ onHand \in [Stocked -> Int]
    /\ cmo \in [released : Nat, version : Nat]
    /\ lost \in Nat

TypeOK == BagTypeOK /\ ReleaseRowsOK /\ CountersOK

IdleRel(g) == rel[g] = None

AtRel(g, step) == rel[g] # None /\ rel[g].next = step

FinishRel(g) == rel' = [rel EXCEPT ![g] = None]

BagsOf(g) == rel[g].bags

\* The dozens of a release are those of its reservations, which never change.
DozensOf(B, o) == SumFunctionOnSet([b \in Bags |-> resv[<<b, o>>].dozens], B)

-----------------------------------------------------------------------------
(* Validation: the order, then each line with reads of its own.            *)

ReleaseOpen(g, o, B) ==
    /\ IdleRel(g)
    /\ B # {}
    /\ ostatus[o] = "PLANNED"
    /\ rel' = [rel EXCEPT ![g] =
                 [op |-> "release", next |-> "check", order |-> o, bags |-> B, from |-> [b \in Bags |-> None],
                  todo |-> B, line |-> None, number |-> 0, full |-> {}, version |-> 0,
                  attempt |-> 0]]
    /\ UNCHANGED <<bagVars, ostatus, part, groups, lines, onHand, cmo, lost>>

BagReleasableAnywhere(b) == bag[b].status = "RESERVED"
BagReleasable(b) == bag[b].status = "RESERVED" /\ bag[b].wh # None

\* The client names the source warehouse; the line is valid if it is the one read.
ReleaseReadBag(g, b) ==
    /\ AtRel(g, "check")
    /\ rel[g].line = None
    /\ b \in rel[g].todo
    /\ IF BagReleasable(b)
         THEN rel' = [rel EXCEPT ![g].line = b, ![g].from[b] = bag[b].wh]
         ELSE FinishRel(g)
    /\ UNCHANGED <<bagVars, ostatus, part, groups, lines, onHand, cmo, lost>>

ReservationReleasable(b, o) == AssertActive(b, o) /\ PartOf[b] \in OrderParts[o]

ReleaseReadReservation(g) ==
    /\ AtRel(g, "check")
    /\ rel[g].line # None
    /\ IF ReservationReleasable(rel[g].line, rel[g].order)
         THEN rel' = [rel EXCEPT ![g].line = None, ![g].todo = @ \ {rel[g].line}]
         ELSE FinishRel(g)
    /\ UNCHANGED <<bagVars, ostatus, part, groups, lines, onHand, cmo, lost>>

-----------------------------------------------------------------------------
(* The transaction.                                                        *)

\* The transactions that have inserted a group and not committed it.
Holding(o) == {g \in Releasers : /\ AtRel(g, "count") \/ AtRel(g, "commit")
                                 /\ rel[g].order = o}

After(numbers) == IF numbers = {} THEN 1 ELSE Max(numbers) + 1

\* The aggregate sees the committed groups only.
NextNumberSeeingUncommitted(o) == After(groups[o] \union {rel[g].number : g \in Holding(o)})
NextNumberNotIncremented(o) == IF groups[o] = {} THEN 0 ELSE Max(groups[o])
NextNumber(o) == After(groups[o])

ReleaseReadMax(g) ==
    /\ AtRel(g, "check")
    /\ rel[g].line = None
    /\ rel[g].todo = {}
    /\ rel' = [rel EXCEPT ![g].next = "insert", ![g].number = NextNumber(rel[g].order)]
    /\ UNCHANGED <<bagVars, ostatus, part, groups, lines, onHand, cmo, lost>>

GroupKeyTaken(g) == rel[g].number \in groups[rel[g].order]

GroupKeyNeverHeld(g) == FALSE
GroupKeyHeld(g) == \E h \in Holding(rel[g].order) : rel[h].number = rel[g].number

\* An insert of a key that another transaction has inserted waits for it; a
\* key that is committed makes it fail, and the transaction roll back.
ReleaseInsertGroup(g) ==
    /\ AtRel(g, "insert")
    /\ ~GroupKeyHeld(g)
    /\ IF GroupKeyTaken(g) THEN FinishRel(g)
                           ELSE rel' = [rel EXCEPT ![g].next = "count"]
    /\ UNCHANGED <<bagVars, ostatus, part, groups, lines, onHand, cmo, lost>>

\* The parts of the lines with no ACTIVE reservation left in this order; the
\* transaction sees its own updates and what others have committed.
FullParts(o, B) ==
    {p \in {PartOf[b] : b \in B} :
        \A b \in Bags \ B : PartOf[b] = p => resv[<<b, o>>].status # "ACTIVE"}

ReleaseCount(g) ==
    /\ AtRel(g, "count")
    /\ rel' = [rel EXCEPT ![g].next = "commit", ![g].full = FullParts(rel[g].order, BagsOf(g))]
    /\ UNCHANGED <<bagVars, ostatus, part, groups, lines, onHand, cmo, lost>>

\* updateMany decrements the row of the bag's warehouse and part if there is
\* one, and has no guard.
TakenFromStockAnywhere(g, k) ==
    DozensOf({b \in BagsOf(g) : PartOf[b] = k[2]}, rel[g].order)
TakenFromStock(g, k) ==
    DozensOf({b \in BagsOf(g) : rel[g].from[b] = k[1] /\ PartOf[b] = k[2]}, rel[g].order)

ReleaseCommit(g) ==
    /\ AtRel(g, "commit")
    /\ LET c == rel[g]
           o == c.order
           B == BagsOf(g)
       IN  /\ resv' = [k \in Bags \X Orders |->
                         IF k[1] \in B /\ k[2] = o THEN [resv[k] EXCEPT !.status = "RELEASED"]
                                                   ELSE resv[k]]
           /\ bag' = [b \in Bags |->
                        IF b \in B THEN [status |-> "RELEASED", wh |-> None, order |-> o]
                                   ELSE bag[b]]
           /\ lines' = [k \in Bags \X Orders |->
                          IF k[1] \in B /\ k[2] = o
                            THEN lines[k] \union {[group |-> c.number, wh |-> c.from[k[1]]]}
                            ELSE lines[k]]
           /\ groups' = [groups EXCEPT ![o] = @ \union {c.number}]
           /\ onHand' = [k \in Stocked |-> onHand[k] - TakenFromStock(g, k)]
           /\ part' = [k \in Orders \X Parts |->
                         IF k[1] = o /\ k[2] \in c.full THEN "RELEASED" ELSE part[k]]
           /\ IF o \in CmoOrders THEN rel' = [rel EXCEPT ![g].next = "cmo"] ELSE FinishRel(g)
    /\ UNCHANGED <<call, ostatus, cmo, lost>>

-----------------------------------------------------------------------------
(* incrementCmoLine: read the version, update under it, retry.             *)

CmoRead(g) ==
    /\ AtRel(g, "cmo")
    /\ rel' = [rel EXCEPT ![g].next = "cas", ![g].version = cmo.version]
    /\ UNCHANGED <<bagVars, ostatus, part, groups, lines, onHand, cmo, lost>>

\* The request ends without its dozens on the CMO line; the release stays.
GiveUp(g) ==
    /\ lost' = lost + DozensOf(BagsOf(g), rel[g].order)
    /\ FinishRel(g)
    /\ UNCHANGED cmo

CmoCasRetriesAfterSuccess(g) ==
    /\ cmo' = [released |-> cmo.released + DozensOf(BagsOf(g), rel[g].order),
               version |-> cmo.version + 1]
    /\ IF rel[g].attempt + 1 < RetryLimit
         THEN rel' = [rel EXCEPT ![g].next = "cmo", ![g].attempt = @ + 1]
         ELSE FinishRel(g)
    /\ UNCHANGED lost
CmoUpdate(g) ==
    /\ cmo' = [released |-> cmo.released + DozensOf(BagsOf(g), rel[g].order),
               version |-> cmo.version + 1]
    /\ FinishRel(g)
    /\ UNCHANGED lost

CmoCas(g) ==
    /\ AtRel(g, "cas")
    /\ IF rel[g].version = cmo.version THEN CmoUpdate(g)
       ELSE IF rel[g].attempt + 1 < RetryLimit
              THEN /\ rel' = [rel EXCEPT ![g].next = "cmo", ![g].attempt = @ + 1]
                   /\ UNCHANGED <<cmo, lost>>
              ELSE GiveUp(g)
    /\ UNCHANGED <<bagVars, ostatus, part, groups, lines, onHand>>

-----------------------------------------------------------------------------
(* start-production-order, as far as releases see it.                      *)

AllPartsReleasedUnchecked(o) == TRUE
AllPartsReleased(o) == \A p \in OrderParts[o] : part[<<o, p>>] = "RELEASED"

StartCheck(g, o) ==
    /\ IdleRel(g)
    /\ ostatus[o] = "PLANNED"
    /\ AllPartsReleased(o)
    /\ rel' = [rel EXCEPT ![g] = [op |-> "start", next |-> "start", order |-> o]]
    /\ UNCHANGED <<bagVars, ostatus, part, groups, lines, onHand, cmo, lost>>

StartCommit(g) ==
    /\ AtRel(g, "start")
    /\ ostatus' = [ostatus EXCEPT ![rel[g].order] = "IN_PRODUCTION"]
    /\ FinishRel(g)
    /\ UNCHANGED <<bagVars, part, groups, lines, onHand, cmo, lost>>

-----------------------------------------------------------------------------
\* The server stops in the middle of a request: an open transaction rolls
\* back, and after the commit the CMO line is never updated.
FailRelease(g) ==
    /\ g \in MayFail
    /\ ~IdleRel(g)
    /\ IF AtRel(g, "cmo") \/ AtRel(g, "cas")
         THEN GiveUp(g)
         ELSE FinishRel(g) /\ UNCHANGED <<cmo, lost>>
    /\ UNCHANGED <<bagVars, ostatus, part, groups, lines, onHand>>

\* The ledger starts out agreeing with where the bags are.
Init ==
    /\ BagInit
    /\ ostatus = [o \in Orders |-> "PLANNED"]
    /\ part = [k \in Orders \X Parts |-> "PENDING"]
    /\ groups = [o \in Orders |-> {}]
    /\ lines = [k \in Bags \X Orders |-> {}]
    /\ onHand = [k \in Stocked |->
                   SumFunctionOnSet(Dozens, {b \in Bags : bag[b].wh = k[1] /\ PartOf[b] = k[2]})]
    /\ cmo = [released |-> 0, version |-> 0]
    /\ lost = 0
    /\ rel = [g \in Releasers |-> None]

ReleaseNext(g) ==
    \/ \E o \in Orders, B \in SUBSET Bags : ReleaseOpen(g, o, B)
    \/ \E b \in Bags : ReleaseReadBag(g, b)
    \/ ReleaseReadReservation(g)
    \/ ReleaseReadMax(g)
    \/ ReleaseInsertGroup(g)
    \/ ReleaseCount(g)
    \/ ReleaseCommit(g)
    \/ CmoRead(g)
    \/ CmoCas(g)
    \/ \E o \in Orders : StartCheck(g, o)
    \/ StartCommit(g)
    \/ FailRelease(g)

\* Nobody else's request is in flight, when requests are serial.
Alone(q) ==
    Serial => /\ \A r \in Requests \ {q} : Idle(r)
              /\ \A g \in Releasers \ {q} : IdleRel(g)

Next ==
    \/ \E r \in Requests : Alone(r) /\ BagStep(r) /\ UNCHANGED releaseVars
    \/ \E g \in Releasers : Alone(g) /\ ReleaseNext(g)

Spec == Init /\ [][Next]_vars

-----------------------------------------------------------------------------
(* Properties.                                                             *)

\* BR-R07: once every reservation of a part in an order has been taken by a
\* release group, the part is RELEASED, so the order is not left unable to
\* start.  Two groups of one order that each release the part's last bag but
\* the other's would both count an ACTIVE reservation and leave the part
\* PENDING; the unique group number keeps them from overlapping.
PartsFollowReleases ==
    \A o \in Orders : \A p \in OrderParts[o] :
        LET reserved == {b \in Bags : PartOf[b] = p /\ resv[<<b, o>>].status # "none"}
        IN  reserved # {} /\ (\A b \in reserved : lines[<<b, o>>] # {}) => part[<<o, p>>] = "RELEASED"

\* A released bag's reservation is used up: no request, whatever it read
\* before the release, makes it ACTIVE (and so releasable) again.
ReleaseUsesReservation ==
    \A k \in Bags \X Orders : lines[k] # {} => resv[k].status \in {"RELEASED", "CANCELLED"}

\* BR-R06: the groups of an order are numbered 1, 2, 3, ... without a gap or
\* a repetition, although every request computes its number from a read.
GroupNumbersGapFree ==
    \A o \in Orders : groups[o] = 1 .. Cardinality(groups[o])

\* BR-O03: an order in production has had every one of its parts released.
StartedFullyReleased ==
    \A o \in Orders :
        ostatus[o] = "IN_PRODUCTION" => \A p \in OrderParts[o] : part[<<o, p>>] = "RELEASED"

\* The dozens that release groups of these orders took out of bags.
ReleasedTo(O) ==
    SumFunctionOnSet([k \in Bags \X Orders |-> Cardinality(lines[k]) * resv[k].dozens], Bags \X O)

Pending == {g \in Releasers : AtRel(g, "cmo") \/ AtRel(g, "cas")}

\* The CMO line never counts a release twice or drops one silently: what it
\* shows, what running requests will add and what was given up after the
\* last retry make up exactly what the lines of the line's orders released.
CmoAccounted ==
    cmo.released + lost
        + SumFunctionOnSet([g \in Pending |-> DozensOf(BagsOf(g), rel[g].order)], Pending)
      = ReleasedTo(CmoOrders)

\* Material leaves a bag once: after any sequence of reservations, closures,
\* movements and releases of which each ran alone, at most one release group
\* took its dozens from a bag, although a bag may be reserved for two orders,
\* reserved again after its release, given back and moved.
ReleasedOnce ==
    \A b \in Bags : SumFunctionOnSet([o \in Orders |-> Cardinality(lines[<<b, o>>])], Orders) <= 1

\* The ledger loses what the release groups took, once and from one warehouse
\* each, wherever the bags were moved to while they were reserved.
StockAccounted ==
    Stocked = Warehouses \X Parts =>
        SumFunctionOnSet(onHand, Stocked) + ReleasedTo(Orders) = SumFunctionOnSet(Dozens, Bags)

\* BR-1: no warehouse has a negative balance of a part.
StockNeverNegative == \A k \in Stocked : onHand[k] >= 0

=============================================================================
