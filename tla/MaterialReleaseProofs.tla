------------------------ MODULE MaterialReleaseProofs ------------------------
(***************************************************************************)
(* Theorems about MaterialRelease, for any number of bags, orders, parts   *)
(* and concurrent requests, overlapping or not.                            *)
(***************************************************************************)
EXTENDS MaterialRelease, BagCustodyProofs

-----------------------------------------------------------------------------
(* The inductive invariant.  The unique key (order_id, group_number) is    *)
(* what serializes the releases of one order: every request in the middle  *)
(* of its transaction holds the number after the last committed one, so no *)
(* two requests of an order can be there, and what the count of BR-R07     *)
(* found is still true at the commit.                                      *)

Last(o) == Cardinality(groups[o])

GroupsFinite == \A o \in Orders : IsFiniteSet(groups[o])

\* No number a request has read is beyond the next one, and one it holds is it.
NumbersRead ==
    \A g \in Releasers :
        /\ AtRel(g, "insert") => rel[g].number \in 1 .. Last(rel[g].order) + 1
        /\ AtRel(g, "count") \/ AtRel(g, "commit") => rel[g].number = Last(rel[g].order) + 1

OneHolder == \A o \in Orders : \A g, h \in Holding(o) : g = h

\* Of a part that a request will not mark RELEASED, a reserved bag of the
\* order remains that no group has released.
BagLeft(o, p, B) ==
    \E b \in Bags \ B : PartOf[b] = p /\ resv[<<b, o>>].status # "none" /\ lines[<<b, o>>] = {}

CountStillTrue ==
    \A g \in Releasers : AtRel(g, "commit") =>
        \A b \in BagsOf(g) : PartOf[b] \notin rel[g].full => BagLeft(rel[g].order, PartOf[b], BagsOf(g))

\* The warehouse of every validated line has been read.
WarehousesRead ==
    \A g \in Releasers : rel[g] \in ReleaseCall \ {None} =>
        /\ rel[g].next = "check" \/ rel[g].todo = {}
        /\ rel[g].line # None => rel[g].from[rel[g].line] \in Warehouses
        /\ \A b \in BagsOf(g) \ rel[g].todo : rel[g].from[b] \in Warehouses

RowsOK == BagTypeOK /\ ReleaseRowsOK /\ cmo.version \in Nat

IInv ==
    /\ RowsOK
    /\ ReleaseUsesReservation
    /\ GroupsFinite
    /\ GroupNumbersGapFree
    /\ NumbersRead
    /\ OneHolder
    /\ CountStillTrue
    /\ WarehousesRead
    /\ PartsFollowReleases

-----------------------------------------------------------------------------
(* What a step may touch.                                                  *)

LEMMA StepKinds ==
  ASSUME [Next]_vars
  PROVE  \/ [BagNext]_bagVars /\ UNCHANGED releaseVars
         \/ \E g \in Releasers : ReleaseNext(g)
  BY DEF Next, BagNext, vars, bagVars

\* A production request touches its own call, and rows only when it commits.
LEMMA OwnCallOnly ==
  ASSUME RowsOK, NEW g \in Releasers, ReleaseNext(g)
  PROVE  /\ \A h \in Releasers \ {g} : rel'[h] = rel[h]
         /\ \/ ReleaseCommit(g)
            \/ UNCHANGED <<bagVars, part, groups, lines>>
  BY DEF RowsOK, ReleaseRowsOK, ReleaseNext, ReleaseOpen, ReleaseReadBag, ReleaseReadReservation,
         ReleaseReadMax, ReleaseInsertGroup, ReleaseCount, ReleaseCommit, CmoRead, CmoCas, CmoUpdate,
         GiveUp, StartCheck, StartCommit, FailRelease, FinishRel

\* A release is the only call with the steps of one.
LEMMA ReleaseSteps ==
  ASSUME ReleaseRowsOK, NEW g \in Releasers,
         NEW step \in {"check", "insert", "count", "commit", "cmo", "cas"}, AtRel(g, step)
  PROVE  rel[g] \in ReleaseCall
  BY DEF ReleaseRowsOK, AtRel, ProductionCall, ReleaseCall, StartCall

\* The next number is the one after the last.
LEMMA NextNumberIs ==
  ASSUME GroupsFinite, GroupNumbersGapFree, NEW o \in Orders
  PROVE  Last(o) \in Nat /\ NextNumber(o) = Last(o) + 1
  <1>1. Last(o) \in Nat
    BY FS_CardinalityType DEF Last, GroupsFinite
  <1>2. groups[o] = 1 .. Last(o)
    BY DEF GroupNumbersGapFree, Last
  <1>3. CASE Last(o) = 0
    BY <1>1, <1>2, <1>3 DEF NextNumber, After
  <1>4. CASE Last(o) # 0
    <2>1. Last(o) \in groups[o] /\ \A m \in groups[o] : Last(o) >= m
      BY <1>1, <1>2, <1>4
    <2>2. Max(groups[o]) \in groups[o] /\ \A m \in groups[o] : Max(groups[o]) >= m
      BY <2>1 DEF Max
    <2>3. Max(groups[o]) = Last(o)
      BY <1>1, <1>2, <2>1, <2>2
    <2>4. groups[o] # {}
      BY <2>1
    <2>5. NextNumber(o) = Max(groups[o]) + 1
      BY <2>4 DEF NextNumber, After
    <2> QED BY <1>1, <2>3, <2>5
  <1> QED BY <1>1, <1>3, <1>4

LEMMA RelTypeStep ==
  ASSUME RowsOK, GroupsFinite, GroupNumbersGapFree, NEW g \in Releasers, ReleaseNext(g)
  PROVE  rel' \in [Releasers -> ProductionCall]
  <1> DEFINE New == rel'[g]
  <1>0. rel \in [Releasers -> ProductionCall]
    BY DEF RowsOK, ReleaseRowsOK
  <1>f. FinishRel(g) => rel' \in [Releasers -> ProductionCall]
    BY <1>0 DEF FinishRel, ProductionCall
  <1>c. ASSUME NEW c \in ReleaseCall \union StartCall, rel' = [rel EXCEPT ![g] = c]
        PROVE  rel' \in [Releasers -> ProductionCall]
    BY <1>0, <1>c DEF ProductionCall
  <1>1. ASSUME NEW o \in Orders, NEW B \in SUBSET Bags, ReleaseOpen(g, o, B)
        PROVE  rel' \in [Releasers -> ProductionCall]
    <2> DEFINE c == [op |-> "release", next |-> "check", order |-> o, bags |-> B,
                     from |-> [b \in Bags |-> None], todo |-> B, line |-> None, number |-> 0,
                     full |-> {}, version |-> 0, attempt |-> 0]
    <2>1. c \in ReleaseCall
      BY DEF ReleaseCall
    <2>2. rel' = [rel EXCEPT ![g] = c]
      BY <1>1 DEF ReleaseOpen
    <2> QED BY <2>1, <2>2, <1>c
  <1>2. ASSUME NEW b \in Bags, ReleaseReadBag(g, b), ~FinishRel(g)
        PROVE  rel' \in [Releasers -> ProductionCall]
    <2>1. rel[g] \in ReleaseCall
      BY <1>2, ReleaseSteps DEF ReleaseReadBag, RowsOK
    <2>2. bag[b].wh \in Warehouses \union {None}
      BY DEF RowsOK, BagTypeOK, Bag
    <2>3. [[rel[g] EXCEPT !.line = b] EXCEPT !.from[b] = bag[b].wh] \in ReleaseCall
      BY <2>1, <2>2 DEF ReleaseCall
    <2>4. rel' = [rel EXCEPT ![g] = [[rel[g] EXCEPT !.line = b] EXCEPT !.from[b] = bag[b].wh]]
      BY <1>2, <1>0 DEF ReleaseReadBag
    <2> QED BY <2>3, <2>4, <1>c
  <1>3. ASSUME ReleaseReadReservation(g), ~FinishRel(g)
        PROVE  rel' \in [Releasers -> ProductionCall]
    <2>1. rel[g] \in ReleaseCall
      BY <1>3, ReleaseSteps DEF ReleaseReadReservation, RowsOK
    <2>2. [rel[g] EXCEPT !.line = None, !.todo = @ \ {rel[g].line}] \in ReleaseCall
      BY <2>1 DEF ReleaseCall
    <2>3. rel' = [rel EXCEPT ![g] = [rel[g] EXCEPT !.line = None, !.todo = @ \ {rel[g].line}]]
      BY <1>3, <1>0 DEF ReleaseReadReservation
    <2> QED BY <2>2, <2>3, <1>c
  <1>4. ASSUME ReleaseReadMax(g) PROVE rel' \in [Releasers -> ProductionCall]
    <2>1. rel[g] \in ReleaseCall
      BY <1>4, ReleaseSteps DEF ReleaseReadMax, RowsOK
    <2>2. NextNumber(rel[g].order) \in Nat
      BY <2>1, NextNumberIs DEF ReleaseCall
    <2>3. [rel[g] EXCEPT !.next = "insert", !.number = NextNumber(rel[g].order)] \in ReleaseCall
      BY <2>1, <2>2 DEF ReleaseCall
    <2>4. rel' = [rel EXCEPT ![g] = [rel[g] EXCEPT !.next = "insert",
                                                   !.number = NextNumber(rel[g].order)]]
      BY <1>4, <1>0 DEF ReleaseReadMax
    <2> QED BY <2>3, <2>4, <1>c
  <1>5. ASSUME ReleaseInsertGroup(g), ~FinishRel(g)
        PROVE  rel' \in [Releasers -> ProductionCall]
    <2>1. rel[g] \in ReleaseCall
      BY <1>5, ReleaseSteps DEF ReleaseInsertGroup, RowsOK
    <2>2. [rel[g] EXCEPT !.next = "count"] \in ReleaseCall
      BY <2>1 DEF ReleaseCall
    <2>3. rel' = [rel EXCEPT ![g] = [rel[g] EXCEPT !.next = "count"]]
      BY <1>5, <1>0 DEF ReleaseInsertGroup
    <2> QED BY <2>2, <2>3, <1>c
  <1>6. ASSUME ReleaseCount(g) PROVE rel' \in [Releasers -> ProductionCall]
    <2>1. rel[g] \in ReleaseCall
      BY <1>6, ReleaseSteps DEF ReleaseCount, RowsOK
    <2>2. FullParts(rel[g].order, BagsOf(g)) \subseteq Parts
      BY <2>1, ReleaseConstants DEF FullParts, BagsOf, ReleaseCall, ReleaseConstants
    <2>3. [rel[g] EXCEPT !.next = "commit", !.full = FullParts(rel[g].order, BagsOf(g))]
             \in ReleaseCall
      BY <2>1, <2>2 DEF ReleaseCall
    <2>4. rel' = [rel EXCEPT ![g] = [rel[g] EXCEPT !.next = "commit",
                                        !.full = FullParts(rel[g].order, BagsOf(g))]]
      BY <1>6, <1>0 DEF ReleaseCount
    <2> QED BY <2>3, <2>4, <1>c
  <1>7. ASSUME ReleaseCommit(g), ~FinishRel(g) PROVE rel' \in [Releasers -> ProductionCall]
    <2>1. rel[g] \in ReleaseCall
      BY <1>7, ReleaseSteps DEF ReleaseCommit, RowsOK
    <2>2. [rel[g] EXCEPT !.next = "cmo"] \in ReleaseCall
      BY <2>1 DEF ReleaseCall
    <2>3. rel' = [rel EXCEPT ![g] = [rel[g] EXCEPT !.next = "cmo"]]
      BY <1>7, <1>0 DEF ReleaseCommit
    <2> QED BY <2>2, <2>3, <1>c
  <1>8. ASSUME CmoRead(g) PROVE rel' \in [Releasers -> ProductionCall]
    <2>1. rel[g] \in ReleaseCall
      BY <1>8, ReleaseSteps DEF CmoRead, RowsOK
    <2>2. [rel[g] EXCEPT !.next = "cas", !.version = cmo.version] \in ReleaseCall
      BY <2>1 DEF ReleaseCall, RowsOK
    <2>3. rel' = [rel EXCEPT ![g] = [rel[g] EXCEPT !.next = "cas", !.version = cmo.version]]
      BY <1>8, <1>0 DEF CmoRead
    <2> QED BY <2>2, <2>3, <1>c
  <1>9. ASSUME CmoCas(g), ~FinishRel(g) PROVE rel' \in [Releasers -> ProductionCall]
    <2>1. rel[g] \in ReleaseCall
      BY <1>9, ReleaseSteps DEF CmoCas, RowsOK
    <2>2. rel[g].attempt + 1 \in Nat
      BY <2>1 DEF ReleaseCall
    <2>3. [rel[g] EXCEPT !.next = "cmo", !.attempt = rel[g].attempt + 1] \in ReleaseCall
      BY <2>1, <2>2 DEF ReleaseCall
    <2>4. rel' = [rel EXCEPT ![g] = [rel[g] EXCEPT !.next = "cmo", !.attempt = rel[g].attempt + 1]]
      BY <1>9, <1>0 DEF CmoCas, CmoUpdate, GiveUp
    <2> QED BY <2>3, <2>4, <1>c
  <1>10. ASSUME NEW o \in Orders, StartCheck(g, o) PROVE rel' \in [Releasers -> ProductionCall]
    <2>1. [op |-> "start", next |-> "start", order |-> o] \in StartCall
      BY DEF StartCall
    <2> QED BY <1>10, <2>1, <1>c DEF StartCheck
  <1>11. ASSUME StartCommit(g) \/ FailRelease(g) PROVE FinishRel(g)
    BY <1>11 DEF StartCommit, FailRelease, GiveUp
  <1> QED
    BY <1>f, <1>1, <1>2, <1>3, <1>4, <1>5, <1>6, <1>7, <1>8, <1>9, <1>10, <1>11 DEF ReleaseNext

LEMMA RowsStep ==
  ASSUME IInv, [Next]_vars
  PROVE  RowsOK'
  <1> USE DEF IInv
  <1>1. CASE [BagNext]_bagVars /\ UNCHANGED releaseVars
    <2>1. BagTypeOK'
      BY <1>1, BagTypeStep DEF RowsOK
    <2> QED BY <1>1, <2>1 DEF RowsOK, ReleaseRowsOK, releaseVars
  <1>2. ASSUME NEW g \in Releasers, ReleaseNext(g) PROVE RowsOK'
    <2>1. rel' \in [Releasers -> ProductionCall]
      BY <1>2, RelTypeStep
    <2>2. ostatus' \in [Orders -> {"PLANNED", "IN_PRODUCTION"}]
      BY <1>2
      DEF RowsOK, ReleaseRowsOK, ReleaseNext, ReleaseOpen, ReleaseReadBag, ReleaseReadReservation,
          ReleaseReadMax, ReleaseInsertGroup, ReleaseCount, ReleaseCommit, CmoRead, CmoCas,
          StartCheck, StartCommit, FailRelease
    <2>3. cmo'.version \in Nat
      <3>1. UNCHANGED cmo \/ CmoUpdate(g)
        BY <1>2
        DEF ReleaseNext, ReleaseOpen, ReleaseReadBag, ReleaseReadReservation, ReleaseReadMax,
            ReleaseInsertGroup, ReleaseCount, ReleaseCommit, CmoRead, CmoCas, GiveUp,
            StartCheck, StartCommit, FailRelease
      <3>2. CmoUpdate(g) => cmo'.version = cmo.version + 1
        BY DEF CmoUpdate
      <3> QED BY <3>1, <3>2 DEF RowsOK
    <2>4. CASE UNCHANGED <<bagVars, part, groups, lines>>
      BY <2>1, <2>2, <2>3, <2>4 DEF RowsOK, ReleaseRowsOK, BagTypeOK, bagVars
    <2>5. CASE ReleaseCommit(g)
      <3>1. rel[g] \in ReleaseCall
        BY <2>5, ReleaseSteps DEF ReleaseCommit, RowsOK
      <3> DEFINE c == rel[g]
                 o == rel[g].order
                 B == rel[g].bags
      <3>2. o \in Orders /\ B \in SUBSET Bags /\ c.full \in SUBSET Parts
        BY <3>1 DEF ReleaseCall
      <3>3. c.number \in Nat \ {0}
        <4>1. c.number = Last(o) + 1
          BY <2>5 DEF ReleaseCommit, NumbersRead
        <4> QED BY <4>1, <3>2, NextNumberIs
      <3>4. \A b \in B : c.from[b] \in Warehouses
        BY <2>5, <3>1 DEF ReleaseCommit, AtRel, WarehousesRead, BagsOf
      <3>5. bag' \in [Bags -> Bag]
        <4>1. [status |-> "RELEASED", wh |-> None, order |-> o] \in Bag
          BY <3>2 DEF Bag, BagStatus
        <4>2. bag' = [b \in Bags |-> IF b \in B THEN [status |-> "RELEASED", wh |-> None, order |-> o]
                                                ELSE bag[b]]
          BY <2>5 DEF ReleaseCommit, BagsOf
        <4> QED BY <4>1, <4>2 DEF RowsOK, BagTypeOK
      <3>6. resv' \in [Bags \X Orders -> Reservation]
        <4>1. \A k \in Bags \X Orders : [resv[k] EXCEPT !.status = "RELEASED"] \in Reservation
          BY DEF RowsOK, BagTypeOK, Reservation
        <4>2. resv' = [k \in Bags \X Orders |->
                         IF k[1] \in B /\ k[2] = o THEN [resv[k] EXCEPT !.status = "RELEASED"]
                                                   ELSE resv[k]]
          BY <2>5 DEF ReleaseCommit, BagsOf
        <4> QED BY <4>1, <4>2 DEF RowsOK, BagTypeOK
      <3>7. lines' \in [Bags \X Orders -> SUBSET Line]
        <4>1. \A b \in B : [group |-> c.number, wh |-> c.from[b]] \in Line
          BY <3>3, <3>4 DEF Line
        <4>2. lines' = [k \in Bags \X Orders |->
                          IF k[1] \in B /\ k[2] = o
                            THEN lines[k] \union {[group |-> c.number, wh |-> c.from[k[1]]]}
                            ELSE lines[k]]
          BY <2>5 DEF ReleaseCommit, BagsOf
        <4>3. ASSUME NEW k \in Bags \X Orders PROVE lines'[k] \in SUBSET Line
          <5>1. lines[k] \in SUBSET Line
            BY DEF RowsOK, ReleaseRowsOK
          <5>2. CASE k[1] \in B /\ k[2] = o
            BY <4>1, <4>2, <5>1, <5>2
          <5>3. CASE ~(k[1] \in B /\ k[2] = o)
            BY <4>2, <5>1, <5>3
          <5> QED BY <5>2, <5>3
        <4> HIDE DEF c, o, B
        <4> QED BY <4>2, <4>3
      <3>8. groups' \in [Orders -> SUBSET (Nat \ {0})]
        BY <2>5, <3>2, <3>3 DEF ReleaseCommit, RowsOK, ReleaseRowsOK
      <3>9. part' \in [Orders \X Parts -> {"PENDING", "RELEASED"}]
        BY <2>5 DEF ReleaseCommit, RowsOK, ReleaseRowsOK
      <3>10. call' = call
        BY <2>5 DEF ReleaseCommit
      <3> QED
        BY <2>1, <2>2, <2>3, <3>5, <3>6, <3>7, <3>8, <3>9, <3>10
        DEF RowsOK, ReleaseRowsOK, BagTypeOK
    <2> QED BY <1>2, <2>4, <2>5, OwnCallOnly
  <1> QED BY <1>1, <1>2, StepKinds

-----------------------------------------------------------------------------
(* Reservations and lines.                                                 *)

\* What a commit does to the row of a bag and an order.
LEMMA CommitRows ==
  ASSUME IInv, NEW g \in Releasers, ReleaseCommit(g), NEW b \in Bags, NEW o \in Orders
  PROVE  /\ b \in BagsOf(g) /\ o = rel[g].order =>
               resv'[<<b, o>>].status = "RELEASED" /\ lines'[<<b, o>>] # {}
         /\ ~(b \in BagsOf(g) /\ o = rel[g].order) =>
               resv'[<<b, o>>] = resv[<<b, o>>] /\ lines'[<<b, o>>] = lines[<<b, o>>]
  <1> DEFINE k == <<b, o>>
  <1>1. k \in Bags \X Orders /\ k[1] = b /\ k[2] = o
    OBVIOUS
  <1>2. resv'[k] = IF b \in BagsOf(g) /\ o = rel[g].order
                     THEN [resv[k] EXCEPT !.status = "RELEASED"] ELSE resv[k]
    BY <1>1 DEF ReleaseCommit
  <1>3. lines'[k] = IF b \in BagsOf(g) /\ o = rel[g].order
                      THEN lines[k] \union {[group |-> rel[g].number, wh |-> rel[g].from[b]]}
                      ELSE lines[k]
    BY <1>1 DEF ReleaseCommit
  <1>4. resv[k] \in Reservation
    BY <1>1 DEF IInv, RowsOK, BagTypeOK
  <1>5. [resv[k] EXCEPT !.status = "RELEASED"].status = "RELEASED"
    BY <1>4 DEF Reservation
  <1> HIDE DEF k
  <1> QED BY <1>2, <1>3, <1>5 DEF k

\* No step takes a reservation away, or reopens one that is closed.
LEMMA ReservationKept ==
  ASSUME IInv, [Next]_vars, NEW k \in Bags \X Orders
  PROVE  /\ resv[k].status # "none" => resv'[k].status # "none"
         /\ resv[k].status \in {"RELEASED", "CANCELLED"} =>
               resv'[k].status \in {"RELEASED", "CANCELLED"}
  <1>1. CASE [BagNext]_bagVars
    <2>1. resv'[k] \in Reservation
      BY <1>1, BagTypeStep DEF IInv, RowsOK, BagTypeOK
    <2> QED BY <1>1, <2>1, ClosedForGoodStep DEF IInv, RowsOK, Reservation
  <1>2. ASSUME NEW g \in Releasers, ReleaseCommit(g)
        PROVE  /\ resv[k].status # "none" => resv'[k].status # "none"
               /\ resv[k].status \in {"RELEASED", "CANCELLED"} =>
                     resv'[k].status \in {"RELEASED", "CANCELLED"}
    <2>1. PICK b \in Bags, o \in Orders : k = <<b, o>>
      OBVIOUS
    <2> QED BY <1>2, <2>1, CommitRows
  <1>3. CASE UNCHANGED bagVars
    BY <1>3 DEF bagVars
  <1> QED BY <1>1, <1>2, <1>3, StepKinds, OwnCallOnly DEF IInv

LEMMA UseStep == ASSUME IInv, [Next]_vars PROVE ReleaseUsesReservation'
  <1> SUFFICES ASSUME NEW b \in Bags, NEW o \in Orders, lines'[<<b, o>>] # {}
               PROVE  resv'[<<b, o>>].status \in {"RELEASED", "CANCELLED"}
    BY DEF ReleaseUsesReservation
  <1>1. CASE lines'[<<b, o>>] = lines[<<b, o>>]
    <2>1. resv[<<b, o>>].status \in {"RELEASED", "CANCELLED"}
      BY <1>1 DEF IInv, ReleaseUsesReservation
    <2> QED BY <2>1, ReservationKept
  <1>2. ASSUME NEW g \in Releasers, ReleaseCommit(g)
        PROVE  \/ lines'[<<b, o>>] = lines[<<b, o>>]
               \/ resv'[<<b, o>>].status = "RELEASED"
    BY <1>2, CommitRows
  <1> QED BY <1>1, <1>2, StepKinds, OwnCallOnly DEF IInv, releaseVars

-----------------------------------------------------------------------------
(* Group numbers.                                                          *)

\* The request in the middle of the transaction of an order is the only one
\* and holds the next number; a commit makes it the last.
LEMMA CommitNumber ==
  ASSUME IInv, NEW g \in Releasers, ReleaseCommit(g)
  PROVE  \E o \in Orders :
            /\ o = rel[g].order
            /\ Last(o) \in Nat
            /\ groups' = [groups EXCEPT ![o] = 1 .. Last(o) + 1]
            /\ groups'[o] = 1 .. Last(o) + 1
            /\ IsFiniteSet(groups'[o]) /\ Cardinality(groups'[o]) = Last(o) + 1
  <1>1. rel[g] \in ReleaseCall
    BY ReleaseSteps DEF ReleaseCommit, IInv, RowsOK
  <1>2. PICK o \in Orders : o = rel[g].order
    BY <1>1 DEF ReleaseCall
  <1>3. Last(o) \in Nat /\ groups[o] = 1 .. Last(o)
    BY <1>2, NextNumberIs DEF IInv, GroupNumbersGapFree, Last
  <1>4. rel[g].number = Last(o) + 1
    BY <1>2 DEF ReleaseCommit, IInv, NumbersRead
  <1>5. groups[o] \union {rel[g].number} = 1 .. Last(o) + 1
    BY <1>3, <1>4
  <1>6. groups' = [groups EXCEPT ![o] = 1 .. Last(o) + 1]
    BY <1>2, <1>5 DEF ReleaseCommit
  <1>7. groups'[o] = 1 .. Last(o) + 1
    BY <1>2, <1>6 DEF IInv, RowsOK, ReleaseRowsOK
  <1>8. IsFiniteSet(groups'[o]) /\ Cardinality(groups'[o]) = Last(o) + 1
    BY <1>3, <1>7, FS_Interval
  <1> QED BY <1>2, <1>3, <1>6, <1>7, <1>8

LEMMA GroupsStep == ASSUME IInv, [Next]_vars PROVE GroupsFinite' /\ GroupNumbersGapFree'
  <1>1. CASE UNCHANGED groups
    BY <1>1 DEF IInv, GroupsFinite, GroupNumbersGapFree
  <1>2. ASSUME NEW g \in Releasers, ReleaseCommit(g) PROVE GroupsFinite' /\ GroupNumbersGapFree'
    <2> SUFFICES ASSUME NEW o \in Orders
                 PROVE  IsFiniteSet(groups'[o]) /\ groups'[o] = 1 .. Cardinality(groups'[o])
      BY DEF GroupsFinite, GroupNumbersGapFree
    <2>1. CASE o = rel[g].order
      BY <1>2, <2>1, CommitNumber
    <2>2. CASE o # rel[g].order
      <3>1. groups'[o] = groups[o]
        BY <1>2, <2>2 DEF ReleaseCommit, IInv, RowsOK, ReleaseRowsOK
      <3> QED BY <3>1 DEF IInv, GroupsFinite, GroupNumbersGapFree
    <2> QED BY <2>1, <2>2
  <1> QED BY <1>1, <1>2, StepKinds, OwnCallOnly DEF IInv, releaseVars

\* An unfinished release of the next state, and what it was before.
LEMMA ReleaseBefore ==
  ASSUME IInv, NEW g \in Releasers, ReleaseNext(g), NEW h \in Releasers
  PROVE  /\ h # g => rel'[h] = rel[h]
         /\ AtRel(g, "insert")' => ReleaseReadMax(g)
         /\ AtRel(g, "count")' => ReleaseInsertGroup(g)
         /\ AtRel(g, "commit")' => ReleaseCount(g)
  <1> DEFINE InTransaction == AtRel(g, "insert")' \/ AtRel(g, "count")' \/ AtRel(g, "commit")'
  <1>0. rel \in [Releasers -> ProductionCall]
    BY DEF IInv, RowsOK, ReleaseRowsOK
  <1>1. h # g => rel'[h] = rel[h]
    BY OwnCallOnly DEF IInv
  <1>2. FinishRel(g) => ~InTransaction
    BY <1>0 DEF FinishRel, AtRel
  <1>3. ASSUME NEW o \in Orders, NEW B \in SUBSET Bags, ReleaseOpen(g, o, B) PROVE ~InTransaction
    BY <1>0, <1>3 DEF ReleaseOpen, AtRel
  <1>4. ASSUME NEW b \in Bags, ReleaseReadBag(g, b) PROVE ~InTransaction
    <2>1. CASE ~FinishRel(g)
      <3>1. rel[g] \in ReleaseCall /\ rel[g].next = "check"
        BY <1>4, ReleaseSteps DEF ReleaseReadBag, IInv, RowsOK, AtRel
      <3>2. rel' = [rel EXCEPT ![g] = [[rel[g] EXCEPT !.line = b] EXCEPT !.from[b] = bag[b].wh]]
        BY <1>4, <1>0, <2>1 DEF ReleaseReadBag
      <3>3. rel'[g].next = "check"
        BY <1>0, <3>1, <3>2 DEF ReleaseCall
      <3> QED BY <3>3 DEF AtRel
    <2> QED BY <1>2, <2>1
  <1>5. ASSUME ReleaseReadReservation(g) PROVE ~InTransaction
    <2>1. CASE ~FinishRel(g)
      <3>1. rel[g] \in ReleaseCall /\ rel[g].next = "check"
        BY <1>5, ReleaseSteps DEF ReleaseReadReservation, IInv, RowsOK, AtRel
      <3>2. rel' = [rel EXCEPT ![g] = [rel[g] EXCEPT !.line = None, !.todo = @ \ {rel[g].line}]]
        BY <1>5, <1>0, <2>1 DEF ReleaseReadReservation
      <3>3. rel'[g].next = "check"
        BY <1>0, <3>1, <3>2 DEF ReleaseCall
      <3> QED BY <3>3 DEF AtRel
    <2> QED BY <1>2, <2>1
  <1>6. ReleaseReadMax(g) => rel'[g].next = "insert"
    <2> SUFFICES ASSUME ReleaseReadMax(g) PROVE rel'[g].next = "insert"
      OBVIOUS
    <2>1. rel[g] \in ReleaseCall
      BY ReleaseSteps DEF ReleaseReadMax, IInv, RowsOK
    <2> QED BY <1>0, <2>1 DEF ReleaseReadMax, ReleaseCall
  <1>7. ReleaseInsertGroup(g) => FinishRel(g) \/ rel'[g].next = "count"
    <2> SUFFICES ASSUME ReleaseInsertGroup(g), ~FinishRel(g) PROVE rel'[g].next = "count"
      OBVIOUS
    <2>1. rel[g] \in ReleaseCall
      BY ReleaseSteps DEF ReleaseInsertGroup, IInv, RowsOK
    <2> QED BY <1>0, <2>1 DEF ReleaseInsertGroup, ReleaseCall
  <1>8. ReleaseCount(g) => rel'[g].next = "commit"
    <2> SUFFICES ASSUME ReleaseCount(g) PROVE rel'[g].next = "commit"
      OBVIOUS
    <2>1. rel[g] \in ReleaseCall
      BY ReleaseSteps DEF ReleaseCount, IInv, RowsOK
    <2> QED BY <1>0, <2>1 DEF ReleaseCount, ReleaseCall
  <1>9. ASSUME ReleaseCommit(g) \/ CmoRead(g) \/ CmoCas(g) PROVE ~InTransaction
    <2>1. rel[g] \in ReleaseCall
      BY <1>9, ReleaseSteps DEF ReleaseCommit, CmoRead, CmoCas, IInv, RowsOK
    <2>2. FinishRel(g) \/ rel'[g].next \in {"cmo", "cas"}
      BY <1>0, <1>9, <2>1 DEF ReleaseCommit, CmoRead, CmoCas, CmoUpdate, GiveUp, ReleaseCall
    <2> QED BY <1>2, <2>2 DEF AtRel
  <1>10. ASSUME NEW o \in Orders, StartCheck(g, o) PROVE ~InTransaction
    BY <1>0, <1>10 DEF StartCheck, AtRel
  <1>11. StartCommit(g) \/ FailRelease(g) => FinishRel(g)
    BY DEF StartCommit, FailRelease, GiveUp
  <1>12. CASE ReleaseReadMax(g)
    BY <1>1, <1>6, <1>12 DEF AtRel
  <1>13. CASE ReleaseInsertGroup(g)
    BY <1>1, <1>2, <1>7, <1>13 DEF AtRel
  <1>14. CASE ReleaseCount(g)
    BY <1>1, <1>8, <1>14 DEF AtRel
  <1>15. ASSUME ~ReleaseReadMax(g), ~ReleaseInsertGroup(g), ~ReleaseCount(g) PROVE ~InTransaction
    BY <1>2, <1>3, <1>4, <1>5, <1>9, <1>10, <1>11, <1>15 DEF ReleaseNext
  <1> QED BY <1>1, <1>12, <1>13, <1>14, <1>15

\* What the steps of the transaction keep of the call and add to it.
LEMMA TransactionCall ==
  ASSUME IInv, NEW g \in Releasers,
         \/ ReleaseReadMax(g)
         \/ ReleaseInsertGroup(g) /\ AtRel(g, "count")'
         \/ ReleaseCount(g)
  PROVE  /\ rel[g].order \in Orders
         /\ rel'[g].order = rel[g].order
         /\ rel'[g].bags = rel[g].bags
         /\ ReleaseReadMax(g) => rel'[g].number = NextNumber(rel[g].order)
         /\ ~ReleaseReadMax(g) => rel'[g].number = rel[g].number
         /\ ReleaseCount(g) => rel'[g].full = FullParts(rel[g].order, BagsOf(g))
         /\ UNCHANGED <<bagVars, lines, groups>>
  <1>0. rel \in [Releasers -> ProductionCall]
    BY DEF IInv, RowsOK, ReleaseRowsOK
  <1>1. rel[g] \in ReleaseCall
    BY ReleaseSteps DEF ReleaseReadMax, ReleaseInsertGroup, ReleaseCount, IInv, RowsOK
  <1>2. rel[g].order \in Orders
    BY <1>1 DEF ReleaseCall
  <1>3. CASE ReleaseReadMax(g)
    BY <1>0, <1>1, <1>2, <1>3 DEF ReleaseReadMax, ReleaseCount, AtRel, ReleaseCall
  <1>4. CASE ReleaseInsertGroup(g) /\ AtRel(g, "count")'
    <2>1. ~FinishRel(g)
      BY <1>0, <1>4 DEF FinishRel, AtRel
    <2>2. rel' = [rel EXCEPT ![g] = [rel[g] EXCEPT !.next = "count"]]
      BY <1>0, <1>4, <2>1 DEF ReleaseInsertGroup
    <2>3. rel[g].next = "insert"
      BY <1>4 DEF ReleaseInsertGroup, AtRel
    <2> QED BY <1>0, <1>1, <1>2, <1>4, <2>2, <2>3
            DEF ReleaseInsertGroup, ReleaseReadMax, ReleaseCount, AtRel, ReleaseCall
  <1>5. CASE ReleaseCount(g)
    BY <1>0, <1>1, <1>2, <1>5 DEF ReleaseCount, ReleaseReadMax, AtRel, ReleaseCall
  <1> QED BY <1>3, <1>4, <1>5

LEMMA NumbersStep == ASSUME IInv, [Next]_vars PROVE NumbersRead'
  <1>1. CASE UNCHANGED releaseVars
    BY <1>1 DEF releaseVars, IInv, NumbersRead, AtRel, Last
  <1>2. ASSUME NEW g \in Releasers, ReleaseNext(g), NEW h \in Releasers
        PROVE  /\ AtRel(h, "insert")' => rel'[h].number \in 1 .. Cardinality(groups'[rel'[h].order]) + 1
               /\ AtRel(h, "count")' \/ AtRel(h, "commit")' =>
                     rel'[h].number = Cardinality(groups'[rel'[h].order]) + 1
    <2>1. CASE h # g /\ UNCHANGED groups
      <3>1. rel'[h] = rel[h]
        BY <1>2, <2>1, OwnCallOnly DEF IInv
      <3> QED BY <2>1, <3>1 DEF IInv, NumbersRead, AtRel, Last
    <2>2. CASE h # g /\ ReleaseCommit(g)
      <3>1. rel'[h] = rel[h]
        BY <1>2, <2>2, OwnCallOnly DEF IInv
      <3>2. PICK o \in Orders :
              /\ o = rel[g].order
              /\ Last(o) \in Nat
              /\ groups' = [groups EXCEPT ![o] = 1 .. Last(o) + 1]
              /\ Cardinality(groups'[o]) = Last(o) + 1
        BY <2>2, CommitNumber
      <3>3. CASE rel[h].order = o
        <4>1. ~AtRel(h, "count") /\ ~AtRel(h, "commit")
          BY <2>2, <3>2, <3>3 DEF IInv, OneHolder, Holding, ReleaseCommit
        <4>2. AtRel(h, "insert") => rel[h].number \in 1 .. Last(o) + 1
          BY <3>3 DEF IInv, NumbersRead
        <4> QED BY <3>1, <3>2, <3>3, <4>1, <4>2 DEF AtRel
      <3>4. CASE rel[h].order # o /\ (AtRel(h, "insert") \/ AtRel(h, "count") \/ AtRel(h, "commit"))
        <4>1. rel[h].order \in Orders
          BY <3>4, ReleaseSteps DEF IInv, RowsOK, ReleaseCall
        <4>2. groups'[rel[h].order] = groups[rel[h].order]
          BY <3>2, <3>4, <4>1 DEF IInv, RowsOK, ReleaseRowsOK
        <4> QED BY <3>1, <4>2 DEF IInv, NumbersRead, AtRel, Last
      <3> QED BY <3>1, <3>3, <3>4 DEF AtRel
    <2>3. CASE h = g /\ AtRel(g, "insert")'
      <3>1. ReleaseReadMax(g)
        BY <1>2, <2>3, ReleaseBefore
      <3>2. rel'[g].number = Last(rel[g].order) + 1 /\ Last(rel[g].order) \in Nat
        BY <3>1, TransactionCall, NextNumberIs DEF IInv
      <3>3. rel'[g].order = rel[g].order /\ groups' = groups
        BY <3>1, TransactionCall
      <3>4. rel'[g].next = "insert"
        BY <2>3 DEF AtRel
      <3> QED BY <2>3, <3>2, <3>3, <3>4 DEF AtRel, Last
    <2>4. CASE h = g /\ AtRel(g, "count")'
      <3>1. ReleaseInsertGroup(g)
        BY <1>2, <2>4, ReleaseBefore
      <3>2. /\ rel[g].order \in Orders /\ rel'[g].order = rel[g].order
            /\ rel'[g].number = rel[g].number /\ groups' = groups
        BY <2>4, <3>1, TransactionCall DEF ReleaseReadMax, ReleaseInsertGroup, AtRel
      <3>3. rel[g].number \in 1 .. Last(rel[g].order) + 1
        BY <3>1 DEF ReleaseInsertGroup, IInv, NumbersRead
      <3>4. ~FinishRel(g)
        BY <2>4 DEF FinishRel, AtRel, IInv, RowsOK, ReleaseRowsOK
      <3>5. rel[g].number \notin groups[rel[g].order]
        BY <3>1, <3>4 DEF ReleaseInsertGroup, GroupKeyTaken
      <3>6. /\ Last(rel[g].order) \in Nat
            /\ groups[rel[g].order] = 1 .. Last(rel[g].order)
        BY <3>2, NextNumberIs DEF IInv, GroupNumbersGapFree, Last
      <3>7. rel[g].number = Last(rel[g].order) + 1
        BY <3>3, <3>5, <3>6
      <3>8. rel'[g].next = "count"
        BY <2>4 DEF AtRel
      <3> QED BY <2>4, <3>2, <3>7, <3>8 DEF AtRel, Last
    <2>5. CASE h = g /\ AtRel(g, "commit")'
      <3>1. ReleaseCount(g)
        BY <1>2, <2>5, ReleaseBefore
      <3>2. /\ rel'[g].order = rel[g].order /\ rel'[g].number = rel[g].number /\ groups' = groups
        BY <3>1, TransactionCall DEF ReleaseReadMax, ReleaseCount, AtRel
      <3>3. rel[g].number = Last(rel[g].order) + 1
        BY <3>1 DEF ReleaseCount, IInv, NumbersRead
      <3>4. rel'[g].next = "commit"
        BY <2>5 DEF AtRel
      <3> QED BY <2>5, <3>2, <3>3, <3>4 DEF AtRel, Last
    <2> QED BY <1>2, <2>1, <2>2, <2>3, <2>4, <2>5, OwnCallOnly DEF IInv
  <1>3. CASE \E g \in Releasers : ReleaseNext(g)
    BY <1>2, <1>3 DEF NumbersRead, Last
  <1> QED BY <1>1, <1>3, StepKinds

LEMMA HolderStep == ASSUME IInv, [Next]_vars PROVE OneHolder'
  <1>1. CASE UNCHANGED releaseVars
    BY <1>1 DEF releaseVars, IInv, OneHolder, Holding, AtRel
  <1>2. ASSUME NEW g \in Releasers, ReleaseNext(g) PROVE OneHolder'
    <2>1. \A o \in Orders : Holding(o)' \ {g} = Holding(o) \ {g}
      BY <1>2, OwnCallOnly DEF IInv, Holding, AtRel
    <2>2. ASSUME NEW o \in Orders, g \in Holding(o)', NEW h \in Holding(o) \ {g} PROVE FALSE
      <3>1. CASE AtRel(g, "count")'
        <4>1. ReleaseInsertGroup(g)
          BY <1>2, <3>1, ReleaseBefore
        <4>2. rel[g].order = o
          BY <2>2, <3>1, <4>1, TransactionCall DEF Holding
        <4>3. AtRel(g, "count")' /\ rel'[g].number = rel[g].number /\ groups' = groups
          BY <3>1, <4>1, TransactionCall DEF ReleaseReadMax, ReleaseInsertGroup, AtRel
        <4>4. rel'[g].number = Last(o) + 1
          <5>1. NumbersRead'
            BY <1>2, NumbersStep DEF Next, vars
          <5>2. rel'[g].order = o
            BY <2>2 DEF Holding
          <5> QED BY <3>1, <4>3, <5>1, <5>2 DEF NumbersRead, Last
        <4>5. rel[h].number = Last(o) + 1
          BY <2>2 DEF Holding, IInv, NumbersRead
        <4>6. ~GroupKeyHeld(g)
          BY <4>1 DEF ReleaseInsertGroup
        <4> QED BY <2>2, <4>2, <4>3, <4>4, <4>5, <4>6 DEF GroupKeyHeld
      <3>2. CASE AtRel(g, "commit")'
        <4>1. ReleaseCount(g)
          BY <1>2, <3>2, ReleaseBefore
        <4>2. rel[g].order = o
          BY <2>2, <4>1, TransactionCall DEF Holding
        <4>3. g \in Holding(o)
          BY <4>1, <4>2 DEF ReleaseCount, Holding
        <4> QED BY <2>2, <4>3 DEF IInv, OneHolder
      <3> QED BY <2>2, <3>1, <3>2 DEF Holding
    <2>3. ASSUME NEW o \in Orders, NEW h \in Holding(o)', NEW i \in Holding(o)' PROVE h = i
      <3>1. CASE h = g \/ i = g
        BY <2>1, <2>2, <2>3, <3>1
      <3>2. CASE h # g /\ i # g
        BY <2>1, <2>3, <3>2 DEF IInv, OneHolder
      <3> QED BY <3>1, <3>2
    <2> QED BY <2>3 DEF OneHolder
  <1> QED BY <1>1, <1>2, StepKinds

-----------------------------------------------------------------------------
(* What a request has read and counted.                                    *)

\* An unreleased bag of an order in the hands of nobody else keeps its
\* reservation, and stays unreleased.
LEMMA BagLeftKept ==
  ASSUME IInv, [Next]_vars, NEW o \in Orders, NEW p, NEW B,
         \A g \in Releasers : ReleaseCommit(g) => rel[g].order # o,
         BagLeft(o, p, B)
  PROVE  \E b \in Bags \ B : PartOf[b] = p /\ resv'[<<b, o>>].status # "none" /\ lines'[<<b, o>>] = {}
  <1>1. PICK b \in Bags \ B : PartOf[b] = p /\ resv[<<b, o>>].status # "none" /\ lines[<<b, o>>] = {}
    BY DEF BagLeft
  <1>2. resv'[<<b, o>>].status # "none"
    BY <1>1, ReservationKept
  <1>3. lines'[<<b, o>>] = {}
    <2>1. ASSUME NEW g \in Releasers, ReleaseCommit(g) PROVE lines'[<<b, o>>] = lines[<<b, o>>]
      BY <2>1, CommitRows
    <2> QED BY <1>1, <2>1, StepKinds, OwnCallOnly DEF IInv, releaseVars
  <1> QED BY <1>1, <1>2, <1>3

LEMMA CountStep == ASSUME IInv, [Next]_vars PROVE CountStillTrue'
  <1> SUFFICES ASSUME NEW h \in Releasers, AtRel(h, "commit")',
                      NEW b \in rel'[h].bags, PartOf[b] \notin rel'[h].full
               PROVE  \E c \in Bags \ rel'[h].bags :
                         PartOf[c] = PartOf[b] /\ resv'[<<c, rel'[h].order>>].status # "none"
                           /\ lines'[<<c, rel'[h].order>>] = {}
    BY DEF CountStillTrue, BagsOf, BagLeft
  <1> DEFINE Kept == \E c \in Bags \ rel'[h].bags :
                        /\ PartOf[c] = PartOf[b]
                        /\ resv'[<<c, rel'[h].order>>].status # "none"
                        /\ lines'[<<c, rel'[h].order>>] = {}
             o == rel'[h].order
             B == rel'[h].bags
  <1>k. rel'[h] \in ReleaseCall
    <2>1. ReleaseRowsOK'
      BY RowsStep DEF RowsOK
    <2> QED BY <2>1 DEF ReleaseRowsOK, ProductionCall, ReleaseCall, StartCall, AtRel
  <1>o. o \in Orders /\ b \in Bags
    BY <1>k DEF ReleaseCall
  <1>1. ASSUME rel'[h] = rel[h], \A g \in Releasers : ReleaseCommit(g) => rel[g].order # rel[h].order
        PROVE  Kept
    <2>1. BagLeft(rel[h].order, PartOf[b], rel[h].bags)
      BY <1>1 DEF IInv, CountStillTrue, AtRel, BagsOf
    <2>2. PICK q \in Orders, D \in SUBSET Bags : q = rel[h].order /\ D = rel[h].bags
      BY <1>1, <1>o, <1>k DEF ReleaseCall
    <2>3. BagLeft(q, PartOf[b], D) /\ \A g \in Releasers : ReleaseCommit(g) => rel[g].order # q
      BY <1>1, <2>1, <2>2
    <2>4. \E c \in Bags \ D : /\ PartOf[c] = PartOf[b]
                             /\ resv'[<<c, q>>].status # "none"
                             /\ lines'[<<c, q>>] = {}
      BY <2>3, BagLeftKept
    <2> QED BY <1>1, <2>2, <2>4
  <1>2. CASE [BagNext]_bagVars /\ UNCHANGED releaseVars
    <2>1. ASSUME NEW g \in Releasers, ReleaseCommit(g) PROVE FALSE
      <3>1. rel[g].next = "commit" /\ rel[g] # None
        BY <2>1 DEF ReleaseCommit, AtRel
      <3>2. rel'[g] = None \/ rel'[g].next = "cmo"
        <4>1. rel \in [Releasers -> ProductionCall] /\ rel[g] \in ReleaseCall
          BY <2>1, ReleaseSteps DEF ReleaseCommit, IInv, RowsOK, ReleaseRowsOK
        <4> QED BY <2>1, <4>1 DEF ReleaseCommit, FinishRel, ReleaseCall
      <3> QED BY <1>2, <3>1, <3>2 DEF releaseVars
    <2> QED BY <1>1, <1>2, <2>1 DEF releaseVars
  <1>3. ASSUME NEW g \in Releasers, ReleaseNext(g), h # g
        PROVE  Kept
    <2>1. rel'[h] = rel[h]
      BY <1>3, OwnCallOnly DEF IInv
    <2>2. ASSUME NEW i \in Releasers, ReleaseCommit(i) PROVE rel[i].order # rel[h].order
      <3>1. i # h
        BY <2>1, <2>2, <1>k DEF ReleaseCommit, FinishRel, AtRel, IInv, RowsOK, ReleaseRowsOK, ReleaseCall
      <3>2. AtRel(i, "commit") /\ AtRel(h, "commit")
        BY <2>1, <2>2 DEF ReleaseCommit, AtRel
      <3> QED BY <1>o, <2>1, <3>1, <3>2 DEF IInv, OneHolder, Holding
    <2> QED BY <1>1, <2>1, <2>2
  <1>4. ASSUME ReleaseNext(h) PROVE Kept
    <2>1. ReleaseCount(h)
      BY <1>4, ReleaseBefore
    <2>2. /\ rel'[h].order = rel[h].order /\ rel'[h].bags = BagsOf(h)
          /\ rel'[h].full = FullParts(o, B)
          /\ bagVars' = bagVars /\ lines' = lines
      BY <2>1, TransactionCall DEF BagsOf
    <2>3. PICK c \in Bags \ B : PartOf[c] = PartOf[b] /\ resv[<<c, o>>].status = "ACTIVE"
      BY <2>2 DEF FullParts
    <2>4. lines[<<c, o>>] = {}
      BY <1>o, <2>3 DEF IInv, ReleaseUsesReservation
    <2> QED BY <2>2, <2>3, <2>4 DEF BagLeft, bagVars
  <1> QED BY <1>2, <1>3, <1>4, StepKinds

LEMMA WarehousesStep == ASSUME IInv, [Next]_vars PROVE WarehousesRead'
  <1> DEFINE Read(c) == /\ c.next = "check" \/ c.todo = {}
                        /\ c.line # None => c.from[c.line] \in Warehouses
                        /\ \A b \in c.bags \ c.todo : c.from[b] \in Warehouses
  <1>0. rel \in [Releasers -> ProductionCall]
    BY DEF IInv, RowsOK, ReleaseRowsOK
  <1>1. \A g \in Releasers : rel[g] \in ReleaseCall \ {None} => Read(rel[g])
    BY DEF IInv, WarehousesRead, BagsOf
  <1>2. CASE UNCHANGED releaseVars
    BY <1>1, <1>2 DEF WarehousesRead, BagsOf, releaseVars
  <1>3. ASSUME NEW g \in Releasers, ReleaseNext(g), rel'[g] \in ReleaseCall \ {None} PROVE Read(rel'[g])
    <2>f. ~FinishRel(g)
      BY <1>0, <1>3 DEF FinishRel
    <2>1. ASSUME NEW o \in Orders, NEW B \in SUBSET Bags, ReleaseOpen(g, o, B) PROVE Read(rel'[g])
      BY <1>0, <2>1 DEF ReleaseOpen
    <2>2. ASSUME NEW b \in Bags, ReleaseReadBag(g, b) PROVE Read(rel'[g])
      <3>1. rel[g] \in ReleaseCall /\ Read(rel[g]) /\ rel[g].next = "check"
        BY <1>1, <2>2, ReleaseSteps DEF ReleaseReadBag, IInv, RowsOK, AtRel
      <3>2. rel'[g] = [[rel[g] EXCEPT !.line = b] EXCEPT !.from[b] = bag[b].wh]
        BY <1>0, <2>2, <2>f DEF ReleaseReadBag
      <3>3. bag[b].wh \in Warehouses
        BY <2>2, <2>f DEF ReleaseReadBag, BagReleasable, IInv, RowsOK, BagTypeOK, Bag
      <3>4. /\ rel'[g].next = "check" /\ rel'[g].line = b /\ rel'[g].bags = rel[g].bags
            /\ rel'[g].todo = rel[g].todo
            /\ rel'[g].from = [rel[g].from EXCEPT ![b] = bag[b].wh]
            /\ rel[g].from \in [Bags -> Warehouses \union {None}]
            /\ rel[g].bags \subseteq Bags
        BY <3>1, <3>2 DEF ReleaseCall
      <3> QED BY <3>1, <3>3, <3>4
    <2>3. ASSUME ReleaseReadReservation(g) PROVE Read(rel'[g])
      <3>1. rel[g] \in ReleaseCall /\ Read(rel[g]) /\ rel[g].next = "check" /\ rel[g].line # None
        BY <1>1, <2>3, ReleaseSteps DEF ReleaseReadReservation, IInv, RowsOK, AtRel
      <3>2. rel'[g] = [rel[g] EXCEPT !.line = None, !.todo = @ \ {rel[g].line}]
        BY <1>0, <2>3, <2>f DEF ReleaseReadReservation
      <3>3. /\ rel'[g].next = "check" /\ rel'[g].line = None /\ rel'[g].bags = rel[g].bags
            /\ rel'[g].todo = rel[g].todo \ {rel[g].line} /\ rel'[g].from = rel[g].from
        BY <3>1, <3>2 DEF ReleaseCall
      <3> QED BY <3>1, <3>3
    <2>4. ASSUME ReleaseReadMax(g) \/ ReleaseInsertGroup(g) \/ ReleaseCount(g) \/ ReleaseCommit(g)
                   \/ CmoRead(g) \/ CmoCas(g)
          PROVE  Read(rel'[g])
      <3>1. rel[g] \in ReleaseCall /\ Read(rel[g]) /\ rel[g].todo = {}
        BY <1>1, <2>4, ReleaseSteps
        DEF ReleaseReadMax, ReleaseInsertGroup, ReleaseCount, ReleaseCommit, CmoRead, CmoCas,
            IInv, RowsOK, AtRel
      <3>2. /\ rel'[g].todo = rel[g].todo /\ rel'[g].line = rel[g].line
            /\ rel'[g].bags = rel[g].bags /\ rel'[g].from = rel[g].from
        BY <1>0, <2>4, <2>f, <3>1
        DEF ReleaseReadMax, ReleaseInsertGroup, ReleaseCount, ReleaseCommit, CmoRead, CmoCas,
            CmoUpdate, GiveUp, ReleaseCall
      <3> QED BY <3>1, <3>2
    <2>5. ASSUME NEW o \in Orders, StartCheck(g, o) PROVE FALSE
      BY <1>0, <1>3, <2>5 DEF StartCheck, ReleaseCall
    <2> QED BY <1>3, <2>f, <2>1, <2>2, <2>3, <2>4, <2>5 DEF ReleaseNext, StartCommit, FailRelease, GiveUp
  <1>4. ASSUME NEW g \in Releasers, ReleaseNext(g) PROVE WarehousesRead'
    <2>1. \A h \in Releasers \ {g} : rel'[h] = rel[h]
      BY <1>4, OwnCallOnly DEF IInv
    <2>2. \A h \in Releasers : rel'[h] \in ReleaseCall \ {None} => Read(rel'[h])
      BY <1>1, <1>3, <1>4, <2>1
    <2> QED BY <2>2 DEF WarehousesRead, BagsOf
  <1> QED BY <1>2, <1>4, StepKinds

-----------------------------------------------------------------------------
(* BR-R07.                                                                 *)

LEMMA PartsStep == ASSUME IInv, [Next]_vars PROVE PartsFollowReleases'
  <1> SUFFICES ASSUME NEW o \in Orders, NEW p \in OrderParts[o],
                      NEW a \in Bags, PartOf[a] = p, resv'[<<a, o>>].status # "none",
                      \A b \in Bags : PartOf[b] = p /\ resv'[<<b, o>>].status # "none"
                                        => lines'[<<b, o>>] # {}
               PROVE  part'[<<o, p>>] = "RELEASED"
    BY DEF PartsFollowReleases
  <1>0. p \in Parts
    BY ReleaseConstants
  <1>1. ASSUME \A b \in Bags : PartOf[b] = p => lines'[<<b, o>>] = lines[<<b, o>>]
        PROVE  part[<<o, p>>] = "RELEASED"
    <2>1. resv[<<a, o>>].status # "none"
      <3>1. lines[<<a, o>>] # {}
        BY <1>1
      <3> QED BY <3>1 DEF IInv, ReleaseUsesReservation
    <2>2. ASSUME NEW b \in Bags, PartOf[b] = p, resv[<<b, o>>].status # "none"
          PROVE  lines[<<b, o>>] # {}
      <3>1. resv'[<<b, o>>].status # "none"
        BY <2>2, ReservationKept
      <3> QED BY <1>1, <2>2, <3>1
    <2> QED BY <2>1, <2>2 DEF IInv, PartsFollowReleases
  <1>2. ASSUME NEW g \in Releasers, ReleaseCommit(g), rel[g].order = o
        PROVE  part'[<<o, p>>] = "RELEASED"
    <2>1. part'[<<o, p>>] = IF p \in rel[g].full THEN "RELEASED" ELSE part[<<o, p>>]
      <3> DEFINE k == <<o, p>>
      <3>1. k \in Orders \X Parts /\ k[1] = o /\ k[2] = p
        BY <1>0
      <3>2. part'[k] = IF k[1] = rel[g].order /\ k[2] \in rel[g].full THEN "RELEASED" ELSE part[k]
        BY <1>2, <3>1 DEF ReleaseCommit
      <3> QED BY <1>2, <3>1, <3>2
    <2>2. CASE p \in rel[g].full
      BY <2>1, <2>2
    <2>3. ASSUME p \notin rel[g].full, NEW b \in BagsOf(g), PartOf[b] = p PROVE FALSE
      <3>1. BagLeft(o, p, BagsOf(g))
        BY <1>2, <2>3 DEF IInv, CountStillTrue, ReleaseCommit
      <3>2. PICK c \in Bags \ BagsOf(g) :
               PartOf[c] = p /\ resv[<<c, o>>].status # "none" /\ lines[<<c, o>>] = {}
        BY <3>1 DEF BagLeft
      <3>3. resv'[<<c, o>>] = resv[<<c, o>>] /\ lines'[<<c, o>>] = lines[<<c, o>>]
        BY <1>2, <3>2, CommitRows
      <3> QED BY <3>2, <3>3
    <2>4. CASE \A b \in BagsOf(g) : PartOf[b] # p
      <3>1. \A b \in Bags : PartOf[b] = p => lines'[<<b, o>>] = lines[<<b, o>>]
        BY <1>2, <2>4, CommitRows
      <3> QED BY <1>1, <2>1, <3>1
    <2> QED BY <2>2, <2>3, <2>4
  <1>3. ASSUME NEW g \in Releasers, ReleaseCommit(g), rel[g].order # o
        PROVE  part'[<<o, p>>] = "RELEASED"
    <2>1. part'[<<o, p>>] = part[<<o, p>>]
      <3> DEFINE k == <<o, p>>
      <3>1. k \in Orders \X Parts /\ k[1] = o
        BY <1>0
      <3>2. part'[k] = IF k[1] = rel[g].order /\ k[2] \in rel[g].full THEN "RELEASED" ELSE part[k]
        BY <1>3, <3>1 DEF ReleaseCommit
      <3> QED BY <1>3, <3>1, <3>2
    <2>2. \A b \in Bags : lines'[<<b, o>>] = lines[<<b, o>>]
      BY <1>3, CommitRows
    <2> QED BY <1>1, <2>1, <2>2
  <1>4. CASE UNCHANGED <<part, lines>>
    BY <1>1, <1>4
  <1> QED BY <1>2, <1>3, <1>4, StepKinds, OwnCallOnly DEF IInv, releaseVars

-----------------------------------------------------------------------------
(* The theorems.                                                           *)

LEMMA InitIInv == Init => IInv
  <1> SUFFICES ASSUME Init PROVE IInv
    OBVIOUS
  <1> USE DEF Init
  <1>1. BagTypeOK
    BY BagTypeInit
  <1>2. ReleaseRowsOK /\ cmo.version \in Nat
    BY DEF ReleaseRowsOK, ProductionCall
  <1>3. \A o \in Orders : IsFiniteSet(groups[o]) /\ groups[o] = 1 .. Cardinality(groups[o])
    BY FS_EmptySet
  <1>4. \A g \in Releasers : rel[g] = None
    OBVIOUS
  <1>5. NumbersRead /\ OneHolder /\ CountStillTrue /\ WarehousesRead
    BY <1>4 DEF NumbersRead, OneHolder, Holding, CountStillTrue, WarehousesRead, AtRel
  <1>6. ReleaseUsesReservation
    BY DEF ReleaseUsesReservation
  <1>7. PartsFollowReleases
    BY DEF PartsFollowReleases, BagInit, NoReservation
  <1> QED BY <1>1, <1>2, <1>3, <1>5, <1>6, <1>7 DEF IInv, RowsOK, GroupsFinite, GroupNumbersGapFree

LEMMA StepIInv == IInv /\ [Next]_vars => IInv'
  BY RowsStep, UseStep, GroupsStep, NumbersStep, HolderStep, CountStep, WarehousesStep, PartsStep
  DEF IInv

\* The invariant holds in every reachable state.
THEOREM ReleaseInvariant == Spec => []IInv
  BY StepIInv, InitIInv, PTL DEF Spec

\* BR-R07 for any number of orders, parts, bags and concurrent requests: once
\* release groups have taken every bag reserved of a part, the part is RELEASED.
THEOREM PartsFollowReleasesCorrect == Spec => []PartsFollowReleases
  <1>1. IInv => PartsFollowReleases
    BY DEF IInv
  <1> QED BY <1>1, ReleaseInvariant, PTL

\* The reservation of a released bag is never ACTIVE again, whichever closes,
\* releases and reservations ran at the same time.
THEOREM ReleaseUsesReservationCorrect == Spec => []ReleaseUsesReservation
  <1>1. IInv => ReleaseUsesReservation
    BY DEF IInv
  <1> QED BY <1>1, ReleaseInvariant, PTL

\* BR-R06: the group numbers of an order are 1 to the number of its groups.
THEOREM GroupNumbersGapFreeCorrect == Spec => []GroupNumbersGapFree
  <1>1. IInv => GroupNumbersGapFree
    BY DEF IInv
  <1> QED BY <1>1, ReleaseInvariant, PTL

-----------------------------------------------------------------------------
(* The start of production.                                                *)

\* A start in flight has found the parts RELEASED, and a part stays RELEASED.
StartsChecked ==
    \A g \in Releasers : AtRel(g, "start") =>
        rel[g].order \in Orders /\ AllPartsReleased(rel[g].order)

LEMMA PartKept ==
  ASSUME IInv, [Next]_vars, NEW o \in Orders, AllPartsReleased(o)
  PROVE  \A p \in OrderParts[o] : part'[<<o, p>>] = "RELEASED"
  <1> SUFFICES ASSUME NEW p \in OrderParts[o] PROVE part'[<<o, p>>] = "RELEASED"
    OBVIOUS
  <1> DEFINE k == <<o, p>>
  <1>1. k \in Orders \X Parts
    BY ReleaseConstants
  <1>2. part[k] = "RELEASED"
    BY DEF AllPartsReleased
  <1>3. ASSUME NEW g \in Releasers, ReleaseCommit(g) PROVE part'[k] = "RELEASED"
    <2> HIDE DEF k
    <2>1. part'[k] = IF k[1] = rel[g].order /\ k[2] \in rel[g].full THEN "RELEASED" ELSE part[k]
      BY <1>1, <1>3 DEF ReleaseCommit
    <2> QED BY <1>2, <2>1
  <1> QED BY <1>2, <1>3, StepKinds, OwnCallOnly DEF IInv, releaseVars

LEMMA StartStep ==
  ASSUME IInv, StartedFullyReleased, StartsChecked, [Next]_vars
  PROVE  StartedFullyReleased' /\ StartsChecked'
  <1>1. CASE UNCHANGED <<ostatus, part, rel>>
    BY <1>1 DEF StartedFullyReleased, StartsChecked, AllPartsReleased, AtRel
  <1>2. ASSUME NEW g \in Releasers, ReleaseNext(g) PROVE StartedFullyReleased' /\ StartsChecked'
    <2>0. rel \in [Releasers -> ProductionCall] /\ ostatus \in [Orders -> {"PLANNED", "IN_PRODUCTION"}]
      BY DEF IInv, RowsOK, ReleaseRowsOK
    <2>1. \A h \in Releasers \ {g} : rel'[h] = rel[h]
      BY <1>2, OwnCallOnly DEF IInv
    <2>2. UNCHANGED ostatus \/ (StartCommit(g) /\ ostatus' = [ostatus EXCEPT ![rel[g].order] = "IN_PRODUCTION"])
      BY <1>2
      DEF ReleaseNext, ReleaseOpen, ReleaseReadBag, ReleaseReadReservation, ReleaseReadMax,
          ReleaseInsertGroup, ReleaseCount, ReleaseCommit, CmoRead, CmoCas, StartCheck,
          StartCommit, FailRelease
    <2>3. ASSUME NEW o \in Orders, ostatus'[o] = "IN_PRODUCTION" PROVE AllPartsReleased(o)
      <3>1. CASE ostatus[o] = "IN_PRODUCTION"
        BY <3>1 DEF StartedFullyReleased, AllPartsReleased
      <3>2. CASE ostatus[o] # "IN_PRODUCTION"
        <4>1. StartCommit(g) /\ rel[g].order = o
          BY <2>0, <2>2, <2>3, <3>2
        <4> QED BY <4>1 DEF StartCommit, StartsChecked
      <3> QED BY <3>1, <3>2
    <2>4. StartedFullyReleased'
      BY <2>3, PartKept DEF StartedFullyReleased
    <2>5. ASSUME AtRel(g, "start")'
          PROVE  \E o \in Orders : rel'[g].order = o /\ AllPartsReleased(o)
      <3>1. rel'[g] \in StartCall \ {None}
        <4>1. rel'[g] \in ProductionCall /\ rel'[g] # None /\ rel'[g].next = "start"
          BY <1>2, <2>5, RowsStep DEF RowsOK, ReleaseRowsOK, AtRel, Next, vars
        <4> QED BY <4>1 DEF ProductionCall, ReleaseCall
      <3>2. PICK o \in Orders : StartCheck(g, o)
        <4>1. ~FinishRel(g)
          BY <2>0, <3>1 DEF FinishRel
        <4>2. ASSUME NEW step \in {"check", "insert", "count", "commit", "cmo", "cas"}, AtRel(g, step),
                     ~StartCommit(g), ~FailRelease(g),
                     \A o \in Orders, B \in SUBSET Bags : ~ReleaseOpen(g, o, B),
                     \A o \in Orders : ~StartCheck(g, o)
              PROVE  rel'[g].next # "start"
          <5>1. rel[g] \in ReleaseCall
            BY <4>2, ReleaseSteps DEF IInv, RowsOK
          <5>2. ASSUME NEW b \in Bags, ReleaseReadBag(g, b) PROVE rel'[g].op = "release"
            <6>1. rel'[g] = [[rel[g] EXCEPT !.line = b] EXCEPT !.from[b] = bag[b].wh]
              BY <2>0, <4>1, <5>2 DEF ReleaseReadBag
            <6> QED BY <5>1, <6>1 DEF ReleaseCall
          <5>3. ASSUME ReleaseReadReservation(g) \/ ReleaseReadMax(g) \/ ReleaseInsertGroup(g)
                         \/ ReleaseCount(g) \/ ReleaseCommit(g) \/ CmoRead(g) \/ CmoCas(g)
                PROVE  rel'[g].op = "release"
            BY <2>0, <4>1, <5>1, <5>3
            DEF ReleaseReadReservation, ReleaseReadMax, ReleaseInsertGroup, ReleaseCount,
                ReleaseCommit, CmoRead, CmoCas, CmoUpdate, GiveUp, ReleaseCall
          <5>4. rel'[g].op = "release"
            BY <1>2, <4>2, <5>2, <5>3 DEF ReleaseNext
          <5> QED BY <3>1, <5>4 DEF StartCall
        <4>3. \A o \in Orders, B \in SUBSET Bags : ~ReleaseOpen(g, o, B)
          BY <2>0, <3>1 DEF ReleaseOpen, StartCall
        <4>4. ~StartCommit(g) /\ ~FailRelease(g)
          BY <4>1 DEF StartCommit, FailRelease, GiveUp
        <4>5. \/ \E o \in Orders : StartCheck(g, o)
              \/ \E step \in {"check", "insert", "count", "commit", "cmo", "cas"} : AtRel(g, step)
          BY <1>2, <4>3, <4>4
          DEF ReleaseNext, ReleaseReadBag, ReleaseReadReservation, ReleaseReadMax,
              ReleaseInsertGroup, ReleaseCount, ReleaseCommit, CmoRead, CmoCas
        <4> QED BY <2>5, <4>2, <4>3, <4>4, <4>5 DEF AtRel
      <3> QED BY <2>0, <3>2 DEF StartCheck, AllPartsReleased
    <2>6. StartsChecked'
      <3> SUFFICES ASSUME NEW h \in Releasers, AtRel(h, "start")'
                   PROVE  /\ rel'[h].order \in Orders
                          /\ \A p \in OrderParts[rel'[h].order] : part'[<<rel'[h].order, p>>] = "RELEASED"
        BY DEF StartsChecked, AllPartsReleased
      <3>1. PICK o \in Orders : rel'[h].order = o /\ AllPartsReleased(o)
        <4>1. CASE h = g
          BY <2>5, <4>1
        <4>2. CASE h # g
          BY <2>1, <4>2 DEF StartsChecked, AtRel
        <4> QED BY <4>1, <4>2
      <3> QED BY <1>2, <3>1, PartKept DEF Next, vars
    <2> QED BY <2>4, <2>6
  <1> QED BY <1>1, <1>2, StepKinds DEF releaseVars

\* BR-O03: an order in production has had every one of its parts released,
\* whatever ran between the check of a start and its write.
THEOREM StartedFullyReleasedCorrect == Spec => []StartedFullyReleased
  <1>1. Init => StartedFullyReleased /\ StartsChecked
    BY DEF Init, StartedFullyReleased, StartsChecked, AtRel
  <1>2. IInv /\ StartedFullyReleased /\ StartsChecked /\ [Next]_vars
          => StartedFullyReleased' /\ StartsChecked'
    BY StartStep
  <1> QED BY <1>1, <1>2, ReleaseInvariant, PTL DEF Spec

-----------------------------------------------------------------------------
(* What a release leaves of the guarantees of the inventory module.        *)

\* With releases running next to the inventory requests, a bag is still in
\* exactly one place, the one its status names.
THEOREM ReleaseKeepsCustody == Spec => []OneCustodian
  <1>1. Init => OneCustodian
    <2> SUFFICES ASSUME Init PROVE OneCustodian
      OBVIOUS
    <2>1. PICK w \in [Bags -> Warehouses] :
              bag = [b \in Bags |-> [status |-> "RECEIVED", wh |-> w[b], order |-> None]]
      BY DEF Init, BagInit
    <2> QED BY <2>1, BagConstants DEF OneCustodian, BagConstants
  <1>2. ASSUME IInv, OneCustodian, [Next]_vars PROVE OneCustodian'
    <2>1. CASE [BagNext]_bagVars
      BY <1>2, <2>1, OneCustodianStep DEF IInv, RowsOK
    <2>2. ASSUME NEW g \in Releasers, ReleaseCommit(g) PROVE OneCustodian'
      <3>1. rel[g] \in ReleaseCall
        BY <1>2, <2>2, ReleaseSteps DEF ReleaseCommit, IInv, RowsOK
      <3>2. rel[g].order \in Orders /\ rel[g].order # None
        BY <3>1, BagConstants DEF ReleaseCall, BagConstants
      <3>3. ASSUME NEW b \in Bags
            PROVE  \/ bag'[b] = bag[b]
                   \/ bag'[b] = [status |-> "RELEASED", wh |-> None, order |-> rel[g].order]
        BY <2>2 DEF ReleaseCommit
      <3> QED BY <1>2, <3>2, <3>3 DEF OneCustodian
    <2>3. CASE UNCHANGED bagVars
      BY <1>2, <2>3 DEF OneCustodian, bagVars
    <2> QED BY <1>2, <2>1, <2>2, <2>3, StepKinds, OwnCallOnly DEF IInv
  <1> QED BY <1>1, <1>2, ReleaseInvariant, PTL DEF Spec

\* A closed reservation stays closed and keeps its dozens when releases close
\* reservations too.
THEOREM ReleaseKeepsClosed == Spec => ClosedForGood
  <1> DEFINE Kept == \A k \in Bags \X Orders :
               /\ resv[k].status # "none" => /\ resv'[k].status # "none"
                                             /\ resv'[k].dozens = resv[k].dozens
               /\ resv[k].status \in {"RELEASED", "CANCELLED"} => resv'[k].status # "ACTIVE"
  <1>1. ASSUME IInv, [Next]_vars PROVE [Kept]_bagVars
    <2>1. CASE [BagNext]_bagVars
      BY <1>1, <2>1, ClosedForGoodStep DEF IInv, RowsOK
    <2>2. ASSUME NEW g \in Releasers, ReleaseCommit(g) PROVE Kept
      <3> SUFFICES ASSUME NEW k \in Bags \X Orders
                   PROVE  /\ resv[k].status # "none" => /\ resv'[k].status # "none"
                                                        /\ resv'[k].dozens = resv[k].dozens
                          /\ resv[k].status \in {"RELEASED", "CANCELLED"} => resv'[k].status # "ACTIVE"
        OBVIOUS
      <3>1. resv[k] \in Reservation
        BY <1>1 DEF IInv, RowsOK, BagTypeOK
      <3>2. resv'[k] \in {resv[k], [resv[k] EXCEPT !.status = "RELEASED"]}
        BY <2>2 DEF ReleaseCommit
      <3> QED BY <3>1, <3>2 DEF Reservation
    <2> QED BY <1>1, <2>1, <2>2, StepKinds, OwnCallOnly DEF IInv
  <1> HIDE DEF Kept
  <1> QED BY <1>1, ReleaseInvariant, PTL DEF Spec, ClosedForGood, Kept

-----------------------------------------------------------------------------
(* Accounts.  A commit takes from the ledger and adds to the lines what    *)
(* its reservations say, and leaves the same to be told to the CMO line;   *)
(* the reservations it used keep their dozens.                             *)

LinesOfGroups ==
    \A k \in Bags \X Orders : IsFiniteSet(lines[k]) /\ \A l \in lines[k] : l.group \in groups[k[2]]

PendingTaken ==
    \A g \in Pending : \A b \in BagsOf(g) : resv[<<b, rel[g].order>>].status # "none"

Accounts == CountersOK /\ LinesOfGroups /\ PendingTaken

\* What the bags of an order hold for it, in the rows t of the reservations.
HeldFor(t, o) == [b \in Bags |-> t[<<b, o>>].dozens]

LEMMA DozensOfType ==
  ASSUME BagTypeOK, NEW B \in SUBSET Bags, NEW o \in Orders
  PROVE  /\ DozensOf(B, o) = SumFunctionOnSet(HeldFor(resv, o), B)
         /\ DozensOf(B, o) \in Nat /\ IsFiniteSet(B)
         /\ \A b \in Bags : HeldFor(resv, o)[b] = resv[<<b, o>>].dozens /\ HeldFor(resv, o)[b] \in Nat
  <1>1. IsFiniteSet(B)
    BY ReleaseConstants, FS_Subset
  <1>2. \A b \in Bags : HeldFor(resv, o)[b] = resv[<<b, o>>].dozens /\ HeldFor(resv, o)[b] \in Nat
    BY DEF HeldFor, BagTypeOK, Reservation
  <1>3. DozensOf(B, o) = SumFunctionOnSet(HeldFor(resv, o), B)
    BY DEF DozensOf, HeldFor
  <1>4. SumFunctionOnSet(HeldFor(resv, o), B) \in Nat
    BY <1>1, <1>2, SumNat
  <1> QED BY <1>1, <1>2, <1>3, <1>4

\* Bags whose reservations keep their dozens count for the same.
LEMMA DozensOfKept ==
  ASSUME NEW B \in SUBSET Bags, NEW o,
         \A b \in B : resv'[<<b, o>>].dozens = resv[<<b, o>>].dozens
  PROVE  DozensOf(B, o)' = DozensOf(B, o)
  <1>1. IsFiniteSet(B)
    BY ReleaseConstants, FS_Subset
  <1>2. \A b \in B : HeldFor(resv, o)[b] = HeldFor(resv', o)[b]
    BY DEF HeldFor
  <1>3. SumFunctionOnSet(HeldFor(resv, o), B) = SumFunctionOnSet(HeldFor(resv', o), B)
    BY <1>1, <1>2, SumAgrees
  <1> QED BY <1>3 DEF DozensOf, HeldFor

\* The table e over bags and orders is d in the rows B of the column o, and 0 elsewhere.
IsColumn(e, d, B, o, O) ==
    \A k \in Bags \X O : e[k] = IF k[1] \in B /\ k[2] = o THEN d[k[1]] ELSE 0

LEMMA ColumnSum ==
  ASSUME NEW d \in [Bags -> Int], NEW B \in SUBSET Bags, NEW O, IsFiniteSet(O), NEW o, NEW e,
         IsColumn(e, d, B, o, O)
  PROVE  SumFunctionOnSet(e, Bags \X O) = IF o \in O THEN SumFunctionOnSet(d, B) ELSE 0
  <1>0. IsFiniteSet(Bags \X O) /\ IsFiniteSet(B)
    BY ReleaseConstants, FS_Product, FS_Subset
  <1>1. CASE o \notin O
    <2>1. \A k \in Bags \X O : e[k] = 0
      BY <1>1 DEF IsColumn
    <2> QED BY <1>0, <1>1, <2>1, SumOfZeros
  <1>2. CASE o \in O
    <2> DEFINE place == [b \in B |-> <<b, o>>]
               row == [k \in Bags \X O |-> SumFunctionOnSet(d, {b \in B : place[b] = k})]
    <2>1. \A b \in B : d[b] \in Int /\ place[b] \in Bags \X O
      BY <1>2
    <2>2. SumFunctionOnSet(d, B) = SumFunctionOnSet(row, Bags \X O)
      <3> HIDE DEF place
      <3> QED BY <1>0, <2>1, SumByPlace
    <2>3. ASSUME NEW k \in Bags \X O PROVE row[k] = e[k]
      <3>1. CASE k[1] \in B /\ k[2] = o
        <4>1. {b \in B : place[b] = k} = {k[1]}
          BY <3>1
        <4>2. d[k[1]] \in Int
          BY <3>1
        <4>3. SumFunctionOnSet(d, {k[1]}) = d[k[1]]
          BY ONLY <4>2, SumOfOne
        <4> HIDE DEF place
        <4> QED BY <3>1, <4>1, <4>3 DEF IsColumn
      <3>2. CASE ~(k[1] \in B /\ k[2] = o)
        <4>1. {b \in B : place[b] = k} = {}
          BY <3>2
        <4> QED BY <3>2, <4>1, SumEmpty DEF IsColumn
      <3> QED BY <3>1, <3>2
    <2> HIDE DEF row
    <2>4. SumFunctionOnSet(row, Bags \X O) = SumFunctionOnSet(e, Bags \X O)
      BY <1>0, <2>3, SumAgrees
    <2> QED BY <1>2, <2>2, <2>4
  <1> QED BY <1>1, <1>2

\* The dozens of the lines of a bag and an order.
Taken(n, t) == [k \in Bags \X Orders |-> Cardinality(n[k]) * t[k].dozens]

LEMMA TakenType ==
  ASSUME BagTypeOK, LinesOfGroups, NEW k \in Bags \X Orders
  PROVE  Taken(lines, resv)[k] \in Nat /\ Cardinality(lines[k]) \in Nat /\ resv[k].dozens \in Nat
  <1>1. Cardinality(lines[k]) \in Nat
    BY FS_CardinalityType DEF LinesOfGroups
  <1>2. resv[k].dozens \in Nat
    BY DEF BagTypeOK, Reservation
  <1> QED BY <1>1, <1>2 DEF Taken

\* A commit releases the dozens of its bags, in lines that nobody wrote before.
LEMMA CommitReleases ==
  ASSUME IInv, LinesOfGroups, NEW g \in Releasers, ReleaseCommit(g), NEW O \in SUBSET Orders
  PROVE  \E o \in Orders :
            /\ o = rel[g].order
            /\ ReleasedTo(O)' = ReleasedTo(O) + IF o \in O THEN DozensOf(BagsOf(g), o) ELSE 0
            /\ ReleasedTo(O) \in Int
  <1>1. rel[g] \in ReleaseCall
    BY ReleaseSteps DEF ReleaseCommit, IInv, RowsOK
  <1>2. PICK o \in Orders, B \in SUBSET Bags : o = rel[g].order /\ B = BagsOf(g)
    BY <1>1 DEF ReleaseCall, BagsOf
  <1>3. IsFiniteSet(Orders) /\ IsFiniteSet(O) /\ IsFiniteSet(Bags \X O) /\ Bags \X O \subseteq Bags \X Orders
    BY BagConstants, ReleaseConstants, FS_Product, FS_Subset
  <1>4. BagTypeOK
    BY DEF IInv, RowsOK
  <1>5. rel[g].number \notin groups[o]
    <2>1. rel[g].number = Last(o) + 1
      BY <1>2 DEF ReleaseCommit, IInv, NumbersRead
    <2>2. Last(o) \in Nat /\ groups[o] = 1 .. Last(o)
      BY <1>2, NextNumberIs DEF IInv, GroupNumbersGapFree, Last
    <2> QED BY <2>1, <2>2
  <1> DEFINE d == HeldFor(resv, o)
             e == [k \in Bags \X Orders |-> IF k[1] \in B /\ k[2] = o THEN d[k[1]] ELSE 0]
             old == Taken(lines, resv)
             new == Taken(lines', resv')
  <1>6. d \in [Bags -> Int] /\ \A b \in Bags : d[b] = resv[<<b, o>>].dozens
    BY <1>4 DEF HeldFor, BagTypeOK, Reservation
  <1>7. ASSUME NEW k \in Bags \X Orders PROVE old[k] \in Int /\ e[k] \in Int /\ new[k] = old[k] + e[k]
    <2>1. PICK b \in Bags, q \in Orders : k = <<b, q>>
      OBVIOUS
    <2>2. PICK n \in Nat, m \in Nat : n = Cardinality(lines[k]) /\ m = resv[k].dozens /\ old[k] = n * m
      BY <1>4, TakenType DEF Taken
    <2>3. CASE b \in B /\ q = o
      <3> DEFINE l == [group |-> rel[g].number, wh |-> rel[g].from[b]]
      <3>1. lines'[k] = lines[k] \union {l} /\ resv'[k] = [resv[k] EXCEPT !.status = "RELEASED"]
        BY <1>2, <2>1, <2>3 DEF ReleaseCommit
      <3>2. l \notin lines[k] /\ IsFiniteSet(lines[k])
        <4>1. \A x \in lines[k] : x.group \in groups[o]
          BY <2>1, <2>3 DEF LinesOfGroups
        <4> QED BY <1>5, <4>1 DEF LinesOfGroups
      <3>3. Cardinality(lines'[k]) = n + 1
        <4> HIDE DEF l
        <4> QED BY <2>2, <3>1, <3>2, FS_AddElement
      <3>4. resv'[k].dozens = m
        <4>1. resv[k] \in Reservation
          BY <1>4 DEF BagTypeOK
        <4> QED BY <2>2, <3>1, <4>1 DEF Reservation
      <3>5. e[k] = m
        BY <1>6, <2>1, <2>2, <2>3
      <3>6. new[k] = (n + 1) * m
        BY <3>3, <3>4 DEF Taken
      <3>7. (n + 1) * m = n * m + m /\ n * m \in Int
        OBVIOUS
      <3> QED BY <2>2, <3>5, <3>6, <3>7
    <2>4. CASE ~(b \in B /\ q = o)
      <3>1. lines'[k] = lines[k] /\ resv'[k] = resv[k]
        BY <1>2, <2>1, <2>4, CommitRows
      <3>2. e[k] = 0
        BY <2>1, <2>4
      <3>3. new[k] = n * m /\ n * m \in Int
        BY <2>2, <3>1 DEF Taken
      <3> QED BY <2>2, <3>2, <3>3
    <2> QED BY <2>3, <2>4
  <1>8. /\ ReleasedTo(O) = SumFunctionOnSet(old, Bags \X O)
        /\ ReleasedTo(O)' = SumFunctionOnSet(new, Bags \X O)
    BY DEF ReleasedTo, Taken
  <1> HIDE DEF d, e, old, new
  <1>10. SumFunctionOnSet(e, Bags \X O) = IF o \in O THEN SumFunctionOnSet(d, B) ELSE 0
    <2>1. PICK f, h : f = d /\ h = e
      OBVIOUS
    <2>2. IsColumn(h, f, B, o, O)
      <3>1. h = [k \in Bags \X Orders |-> IF k[1] \in B /\ k[2] = o THEN f[k[1]] ELSE 0]
        BY <2>1 DEF e
      <3> QED BY <1>3, <3>1 DEF IsColumn
    <2>3. f \in [Bags -> Int]
      BY <1>6, <2>1
    <2>4. IsFiniteSet(O) /\ B \in SUBSET Bags
      BY <1>3
    <2>5. SumFunctionOnSet(h, Bags \X O) = IF o \in O THEN SumFunctionOnSet(f, B) ELSE 0
      BY ONLY <2>2, <2>3, <2>4, ColumnSum, Z3
    <2> QED BY <2>1, <2>5
  <1>11. SumFunctionOnSet(new, Bags \X O) = SumFunctionOnSet(old, Bags \X O) + SumFunctionOnSet(e, Bags \X O)
    <2>1. \A k \in Bags \X O : old[k] \in Int /\ e[k] \in Int /\ new[k] = old[k] + e[k]
      BY <1>3, <1>7
    <2> QED BY ONLY <1>3, <2>1, SumOfSums
  <1>12. SumFunctionOnSet(old, Bags \X O) \in Int
    <2>1. \A k \in Bags \X O : old[k] \in Int
      BY <1>3, <1>7
    <2> QED BY ONLY <1>3, <2>1, SumInt
  <1>13. DozensOf(BagsOf(g), o) = SumFunctionOnSet(d, B)
    BY <1>2 DEF DozensOf, HeldFor, d
  <1> QED BY <1>2, <1>8, <1>10, <1>11, <1>12, <1>13

\* The lines are the only dozens that have been released: a request of the
\* inventory service changes none of them.
LEMMA DozensKept ==
  ASSUME IInv, [Next]_vars, NEW k \in Bags \X Orders
  PROVE  resv[k].status # "none" => resv'[k].status # "none" /\ resv'[k].dozens = resv[k].dozens
  <1>1. CASE [BagNext]_bagVars
    BY <1>1, ClosedForGoodStep DEF IInv, RowsOK
  <1>2. ASSUME NEW g \in Releasers, ReleaseCommit(g)
        PROVE  resv[k].status # "none" => resv'[k].status # "none" /\ resv'[k].dozens = resv[k].dozens
    <2>1. resv[k] \in Reservation
      BY DEF IInv, RowsOK, BagTypeOK
    <2>2. resv'[k] \in {resv[k], [resv[k] EXCEPT !.status = "RELEASED"]}
      BY <1>2 DEF ReleaseCommit
    <2> QED BY <2>1, <2>2 DEF Reservation
  <1>3. CASE UNCHANGED bagVars
    BY <1>3 DEF bagVars
  <1> QED BY <1>1, <1>2, <1>3, StepKinds, OwnCallOnly DEF IInv

LEMMA ReleasedOnlyByCommit ==
  ASSUME IInv, LinesOfGroups, [Next]_vars, UNCHANGED lines, NEW O \in SUBSET Orders
  PROVE  ReleasedTo(O)' = ReleasedTo(O)
  <1>1. IsFiniteSet(Bags \X O) /\ Bags \X O \subseteq Bags \X Orders
    BY BagConstants, ReleaseConstants, FS_Product, FS_Subset
  <1>2. BagTypeOK'
    BY StepIInv DEF IInv, RowsOK
  <1> DEFINE old == Taken(lines, resv)
             new == Taken(lines', resv')
  <1>3. ASSUME NEW k \in Bags \X Orders PROVE old[k] = new[k]
    <2>1. CASE lines[k] = {}
      <3>1. resv[k].dozens \in Nat /\ resv'[k].dozens \in Nat
        BY <1>2 DEF IInv, RowsOK, BagTypeOK, Reservation
      <3>2. Cardinality(lines[k]) = 0
        BY <2>1, FS_EmptySet
      <3> QED BY <3>1, <3>2 DEF Taken
    <2>2. CASE lines[k] # {}
      <3>1. resv[k].status # "none"
        BY <2>2 DEF IInv, ReleaseUsesReservation
      <3>2. resv'[k].dozens = resv[k].dozens
        BY <3>1, DozensKept
      <3> QED BY <3>2 DEF Taken
    <2> QED BY <2>1, <2>2
  <1>4. ReleasedTo(O) = SumFunctionOnSet(old, Bags \X O) /\ ReleasedTo(O)' = SumFunctionOnSet(new, Bags \X O)
    BY DEF ReleasedTo, Taken
  <1> HIDE DEF old, new
  <1>5. SumFunctionOnSet(old, Bags \X O) = SumFunctionOnSet(new, Bags \X O)
    BY <1>1, <1>3, SumAgrees
  <1> QED BY <1>4, <1>5

\* A commit takes its dozens from the ledger, each from one row.
LEMMA CommitStock ==
  ASSUME IInv, CountersOK, NEW g \in Releasers, ReleaseCommit(g)
  PROVE  /\ onHand' \in [Stocked -> Int]
         /\ Stocked = Warehouses \X Parts =>
              SumFunctionOnSet(onHand, Stocked) = SumFunctionOnSet(onHand', Stocked) + DozensOf(BagsOf(g), rel[g].order)
  <1>1. rel[g] \in ReleaseCall
    BY ReleaseSteps DEF ReleaseCommit, IInv, RowsOK
  <1>2. PICK o \in Orders, B \in SUBSET Bags : o = rel[g].order /\ B = BagsOf(g)
    BY <1>1 DEF ReleaseCall, BagsOf
  <1>3. BagTypeOK
    BY DEF IInv, RowsOK
  <1> DEFINE from == rel[g].from
             d == HeldFor(resv, o)
             place == [b \in B |-> <<from[b], PartOf[b]>>]
             taken == [k \in Stocked |-> SumFunctionOnSet(d, {b \in B : from[b] = k[1] /\ PartOf[b] = k[2]})]
  <1>4. \A k \in Stocked : TakenFromStock(g, k) = taken[k]
    BY <1>2 DEF TakenFromStock, DozensOf, HeldFor
  <1>5. \A k \in Stocked : taken[k] \in Nat
    <2>1. ASSUME NEW A \in SUBSET Bags PROVE SumFunctionOnSet(d, A) \in Nat
      BY <1>3, DozensOfType
    <2> HIDE DEF d
    <2> QED BY <2>1
  <1>6. \A k \in Stocked : onHand[k] \in Int /\ onHand'[k] = onHand[k] - taken[k]
    BY <1>4 DEF ReleaseCommit, CountersOK
  <1>7. onHand' \in [Stocked -> Int]
    <2>1. onHand' = [k \in Stocked |-> onHand[k] - TakenFromStock(g, k)]
      BY DEF ReleaseCommit
    <2> HIDE DEF taken
    <2> QED BY <1>4, <1>5, <1>6, <2>1
  <1>8. IsFiniteSet(Stocked) /\ IsFiniteSet(B)
    BY ReleaseConstants, FS_Subset
  <1>9. ASSUME Stocked = Warehouses \X Parts
        PROVE  SumFunctionOnSet(d, B) = SumFunctionOnSet(taken, Stocked)
    <2>1. \A b \in B : from[b] \in Warehouses
      BY <1>1, <1>2 DEF IInv, WarehousesRead, ReleaseCommit, AtRel
    <2>2. \A b \in B : d[b] \in Int /\ place[b] \in Stocked
      <3>1. \A b \in B : PartOf[b] \in Parts
        BY ReleaseConstants
      <3>2. \A b \in B : d[b] \in Int
        BY <1>3 DEF HeldFor, BagTypeOK, Reservation
      <3> HIDE DEF d
      <3> QED BY <1>9, <2>1, <3>1, <3>2
    <2>3. \A k \in Stocked : {b \in B : place[b] = k} = {b \in B : from[b] = k[1] /\ PartOf[b] = k[2]}
      BY <1>9
    <2> DEFINE row == [k \in Stocked |-> SumFunctionOnSet(d, {b \in B : place[b] = k})]
    <2>4. SumFunctionOnSet(d, B) = SumFunctionOnSet(row, Stocked)
      <3>1. PICK f, at : f = d /\ at = place
        OBVIOUS
      <3>2. \A b \in B : f[b] \in Int /\ at[b] \in Stocked
        BY <2>2, <3>1
      <3>3. SumFunctionOnSet(f, B)
              = SumFunctionOnSet([k \in Stocked |-> SumFunctionOnSet(f, {b \in B : at[b] = k})], Stocked)
        BY ONLY <1>8, <3>2, SumByPlace
      <3> HIDE DEF d, place
      <3> QED BY <3>1, <3>3
    <2>5. \A k \in Stocked : row[k] = taken[k]
      <3> HIDE DEF d, place
      <3> QED BY <2>3
    <2> HIDE DEF row, taken
    <2>6. SumFunctionOnSet(row, Stocked) = SumFunctionOnSet(taken, Stocked)
      BY <1>8, <2>5, SumAgrees
    <2> QED BY <2>4, <2>6
  <1>10. DozensOf(BagsOf(g), rel[g].order) = SumFunctionOnSet(d, B)
    BY <1>2 DEF DozensOf, HeldFor
  <1> HIDE DEF taken, d
  <1>11. SumFunctionOnSet(onHand, Stocked) = SumFunctionOnSet(onHand', Stocked) + SumFunctionOnSet(taken, Stocked)
    <2>1. \A k \in Stocked : onHand'[k] \in Int /\ taken[k] \in Int /\ onHand[k] = onHand'[k] + taken[k]
      BY <1>5, <1>6, <1>7
    <2> QED BY <1>8, <2>1, SumOfSums
  <1> QED BY <1>7, <1>9, <1>10, <1>11

\* What a request with the call c has still to tell the CMO line.
Owes(c, t) ==
    IF c # None /\ c.next \in {"cmo", "cas"} THEN SumFunctionOnSet(HeldFor(t, c.order), c.bags) ELSE 0

Owed(calls, t) == [g \in Releasers |-> Owes(calls[g], t)]

LEMMA OwesType ==
  ASSUME NEW c \in ProductionCall, NEW t \in [Bags \X Orders -> Reservation]
  PROVE  Owes(c, t) \in Nat
  <1>1. CASE c # None /\ c.next \in {"cmo", "cas"}
    <2>1. c \in ReleaseCall
      BY <1>1 DEF ProductionCall, StartCall
    <2>2. c.bags \in SUBSET Bags /\ c.order \in Orders
      BY <2>1 DEF ReleaseCall
    <2>3. IsFiniteSet(c.bags) /\ \A b \in c.bags : HeldFor(t, c.order)[b] \in Nat
      BY <2>2, ReleaseConstants, FS_Subset DEF HeldFor, Reservation
    <2> QED BY <1>1, <2>3, SumNat DEF Owes
  <1> QED BY <1>1 DEF Owes

\* The sum of CmoAccounted is the sum over all requests.
LEMMA PendingAddsUp ==
  ASSUME NEW calls \in [Releasers -> ProductionCall], NEW t \in [Bags \X Orders -> Reservation],
         NEW A, A = {g \in Releasers : calls[g] # None /\ calls[g].next \in {"cmo", "cas"}}
  PROVE  /\ SumFunctionOnSet([g \in A |-> SumFunctionOnSet(HeldFor(t, calls[g].order), calls[g].bags)], A)
              = SumFunctionOnSet(Owed(calls, t), Releasers)
         /\ SumFunctionOnSet(Owed(calls, t), Releasers) \in Nat
  <1> DEFINE f == [g \in A |-> SumFunctionOnSet(HeldFor(t, calls[g].order), calls[g].bags)]
             h == Owed(calls, t)
  <1>1. IsFiniteSet(Releasers) /\ A \in SUBSET Releasers
    BY ReleaseConstants
  <1>2. (\A g \in A : f[g] = h[g]) /\ \A g \in Releasers \ A : h[g] = 0
    BY DEF Owed, Owes
  <1>3. \A g \in Releasers : h[g] \in Nat
    BY OwesType DEF Owed
  <1> HIDE DEF f, h
  <1>4. SumFunctionOnSet(f, A) = SumFunctionOnSet(h, Releasers)
    BY <1>1, <1>2, <1>3, SumOfSelected
  <1>5. SumFunctionOnSet(h, Releasers) \in Nat
    BY <1>1, <1>3, SumNat
  <1> QED BY <1>4, <1>5 DEF f, h

Owing == SumFunctionOnSet(Owed(rel, resv), Releasers)

LEMMA CmoAccountedIs ==
  /\ RowsOK => /\ CmoAccounted <=> cmo.released + lost + Owing = ReleasedTo(CmoOrders)
               /\ Owing \in Nat
  /\ RowsOK' => /\ CmoAccounted' <=> cmo'.released + lost' + Owing' = ReleasedTo(CmoOrders)'
                /\ Owing' \in Nat
  <1>1. ASSUME RowsOK
        PROVE  /\ CmoAccounted <=> cmo.released + lost + Owing = ReleasedTo(CmoOrders)
               /\ Owing \in Nat
    <2>1. Pending = {g \in Releasers : rel[g] # None /\ rel[g].next \in {"cmo", "cas"}}
      BY DEF Pending, AtRel
    <2>2. [g \in Pending |-> DozensOf(BagsOf(g), rel[g].order)]
            = [g \in Pending |-> SumFunctionOnSet(HeldFor(resv, rel[g].order), rel[g].bags)]
      BY DEF DozensOf, HeldFor, BagsOf
    <2>3. /\ SumFunctionOnSet([g \in Pending |-> SumFunctionOnSet(HeldFor(resv, rel[g].order), rel[g].bags)], Pending)
               = Owing
          /\ Owing \in Nat
      BY <1>1, <2>1, PendingAddsUp DEF RowsOK, BagTypeOK, ReleaseRowsOK, Owing
    <2> QED BY <2>2, <2>3 DEF CmoAccounted
  <1>2. ASSUME RowsOK'
        PROVE  /\ CmoAccounted' <=> cmo'.released + lost' + Owing' = ReleasedTo(CmoOrders)'
               /\ Owing' \in Nat
    <2>1. Pending' = {g \in Releasers : rel'[g] # None /\ rel'[g].next \in {"cmo", "cas"}}
      BY DEF Pending, AtRel
    <2>2. [g \in Pending |-> DozensOf(BagsOf(g), rel[g].order)]'
            = [g \in Pending' |-> SumFunctionOnSet(HeldFor(resv', rel'[g].order), rel'[g].bags)]
      BY DEF DozensOf, HeldFor, BagsOf
    <2>3. /\ SumFunctionOnSet([g \in Pending' |-> SumFunctionOnSet(HeldFor(resv', rel'[g].order), rel'[g].bags)],
                              Pending')
               = Owing'
          /\ Owing' \in Nat
      BY <1>2, <2>1, PendingAddsUp DEF RowsOK, BagTypeOK, ReleaseRowsOK, Owing
    <2> QED BY <2>2, <2>3 DEF CmoAccounted
  <1> QED BY <1>1, <1>2

\* A request that no one else's step touches still owes what it owed.
LEMMA OwesKept ==
  ASSUME IInv, PendingTaken, [Next]_vars, NEW h \in Releasers, rel'[h] = rel[h]
  PROVE  Owes(rel'[h], resv') = Owes(rel[h], resv)
  <1>1. CASE h \in Pending
    <2>1. rel[h] \in ReleaseCall
      BY <1>1, ReleaseSteps DEF Pending, IInv, RowsOK
    <2>2. PICK B \in SUBSET Bags, o \in Orders : B = rel[h].bags /\ o = rel[h].order
      BY <2>1 DEF ReleaseCall
    <2>3. \A b \in B : resv'[<<b, o>>].dozens = resv[<<b, o>>].dozens
      BY <1>1, <2>2, DozensKept DEF PendingTaken, BagsOf
    <2>4. DozensOf(B, o)' = DozensOf(B, o)
      BY <2>2, <2>3, DozensOfKept
    <2> QED BY <2>2, <2>4 DEF Owes, DozensOf, HeldFor
  <1>2. CASE h \notin Pending
    BY <1>2 DEF Pending, AtRel, Owes
  <1> QED BY <1>1, <1>2

\* What a production request can do to the CMO line: nothing; commit a release
\* it has then to tell of; try again; tell, or give up.
CmoQuiet(g) ==
    /\ g \notin Pending /\ ~(rel'[g] # None /\ rel'[g].next \in {"cmo", "cas"})
    /\ UNCHANGED <<cmo, lost>>
    /\ ReleaseCommit(g) => rel[g].order \notin CmoOrders

CmoDue(g) ==
    /\ g \notin Pending /\ ReleaseCommit(g)
    /\ rel'[g] = [rel[g] EXCEPT !.next = "cmo"]
    /\ UNCHANGED <<cmo, lost>>
    /\ rel[g].order \in CmoOrders

CmoRetry(g) ==
    /\ g \in Pending /\ ~ReleaseCommit(g)
    /\ rel'[g] \in ReleaseCall /\ rel'[g].next \in {"cmo", "cas"}
    /\ rel'[g].bags = rel[g].bags /\ rel'[g].order = rel[g].order
    /\ UNCHANGED <<cmo, lost>>

CmoTold(g) ==
    /\ g \in Pending /\ ~ReleaseCommit(g)
    /\ rel'[g] = None
    /\ \/ /\ cmo' = [released |-> cmo.released + DozensOf(BagsOf(g), rel[g].order),
                     version |-> cmo.version + 1]
          /\ UNCHANGED lost
       \/ /\ lost' = lost + DozensOf(BagsOf(g), rel[g].order)
          /\ UNCHANGED cmo

LEMMA CmoKinds ==
  ASSUME IInv, NEW g \in Releasers, ReleaseNext(g)
  PROVE  CmoQuiet(g) \/ CmoDue(g) \/ CmoRetry(g) \/ CmoTold(g)
  <1>0. rel \in [Releasers -> ProductionCall] /\ RowsOK
    BY DEF IInv, RowsOK, ReleaseRowsOK
  <1>f. FinishRel(g) => rel'[g] = None
    BY <1>0 DEF FinishRel
  <1>q. ASSUME NEW step \in {"check", "insert", "count", "commit", "start"}, AtRel(g, step)
        PROVE  g \notin Pending /\ (step # "commit" => ~ReleaseCommit(g))
    BY <1>q DEF Pending, AtRel, ReleaseCommit
  <1>1. ASSUME NEW o \in Orders, NEW B \in SUBSET Bags, ReleaseOpen(g, o, B) PROVE CmoQuiet(g)
    <2>1. rel'[g].next = "check" /\ rel[g] = None
      BY <1>0, <1>1 DEF ReleaseOpen, IdleRel
    <2> QED BY <1>1, <2>1 DEF ReleaseOpen, CmoQuiet, Pending, AtRel, ReleaseCommit
  <1>2. ASSUME NEW b \in Bags, ReleaseReadBag(g, b) PROVE CmoQuiet(g)
    <2>1. rel[g] \in ReleaseCall /\ AtRel(g, "check")
      BY <1>0, <1>2, ReleaseSteps DEF ReleaseReadBag, RowsOK
    <2>2. ASSUME ~FinishRel(g) PROVE rel'[g].next = "check"
      <3>1. rel'[g] = [[rel[g] EXCEPT !.line = b] EXCEPT !.from[b] = bag[b].wh]
        BY <1>0, <1>2, <2>2 DEF ReleaseReadBag
      <3> QED BY <2>1, <3>1 DEF ReleaseCall, AtRel
    <2> QED BY <1>2, <1>f, <1>q, <2>1, <2>2 DEF ReleaseReadBag, CmoQuiet
  <1>3. ASSUME ReleaseReadReservation(g) PROVE CmoQuiet(g)
    <2>1. rel[g] \in ReleaseCall /\ AtRel(g, "check")
      BY <1>0, <1>3, ReleaseSteps DEF ReleaseReadReservation, RowsOK
    <2>2. ASSUME ~FinishRel(g) PROVE rel'[g].next = "check"
      BY <1>0, <1>3, <2>1, <2>2 DEF ReleaseReadReservation, ReleaseCall, AtRel
    <2> QED BY <1>3, <1>f, <1>q, <2>1, <2>2 DEF ReleaseReadReservation, CmoQuiet
  <1>4. ASSUME ReleaseReadMax(g) PROVE CmoQuiet(g)
    <2>1. rel[g] \in ReleaseCall /\ AtRel(g, "check")
      BY <1>0, <1>4, ReleaseSteps DEF ReleaseReadMax, RowsOK
    <2>2. rel'[g].next = "insert"
      BY <1>0, <1>4, <2>1 DEF ReleaseReadMax, ReleaseCall
    <2> QED BY <1>4, <1>q, <2>1, <2>2 DEF ReleaseReadMax, CmoQuiet
  <1>5. ASSUME ReleaseInsertGroup(g) PROVE CmoQuiet(g)
    <2>1. rel[g] \in ReleaseCall /\ AtRel(g, "insert")
      BY <1>0, <1>5, ReleaseSteps DEF ReleaseInsertGroup, RowsOK
    <2>2. ASSUME ~FinishRel(g) PROVE rel'[g].next = "count"
      BY <1>0, <1>5, <2>1, <2>2 DEF ReleaseInsertGroup, ReleaseCall
    <2> QED BY <1>5, <1>f, <1>q, <2>1, <2>2 DEF ReleaseInsertGroup, CmoQuiet
  <1>6. ASSUME ReleaseCount(g) PROVE CmoQuiet(g)
    <2>1. rel[g] \in ReleaseCall /\ AtRel(g, "count")
      BY <1>0, <1>6, ReleaseSteps DEF ReleaseCount, RowsOK
    <2>2. rel'[g].next = "commit"
      BY <1>0, <1>6, <2>1 DEF ReleaseCount, ReleaseCall
    <2> QED BY <1>6, <1>q, <2>1, <2>2 DEF ReleaseCount, CmoQuiet
  <1>7. ASSUME ReleaseCommit(g) PROVE CmoQuiet(g) \/ CmoDue(g)
    <2>1. AtRel(g, "commit") /\ UNCHANGED <<cmo, lost>>
      BY <1>7 DEF ReleaseCommit
    <2>2. CASE rel[g].order \in CmoOrders
      <3>1. rel' = [rel EXCEPT ![g].next = "cmo"]
        BY <1>7, <2>2 DEF ReleaseCommit
      <3> QED BY <1>0, <1>7, <1>q, <2>1, <2>2, <3>1 DEF CmoDue
    <2>3. CASE rel[g].order \notin CmoOrders
      <3>1. FinishRel(g)
        BY <1>7, <2>3 DEF ReleaseCommit
      <3> QED BY <1>f, <1>q, <2>1, <2>3, <3>1 DEF CmoQuiet
    <2> QED BY <2>2, <2>3
  <1>8. ASSUME CmoRead(g) PROVE CmoRetry(g)
    <2>1. rel[g] \in ReleaseCall /\ AtRel(g, "cmo")
      BY <1>0, <1>8, ReleaseSteps DEF CmoRead, RowsOK
    <2>2. rel'[g] = [rel[g] EXCEPT !.next = "cas", !.version = cmo.version]
      BY <1>0, <1>8 DEF CmoRead
    <2>3. /\ rel'[g] \in ReleaseCall /\ rel'[g].next = "cas"
          /\ rel'[g].bags = rel[g].bags /\ rel'[g].order = rel[g].order
      BY <1>0, <2>1, <2>2 DEF ReleaseCall, RowsOK
    <2> QED BY <1>8, <2>1, <2>3 DEF CmoRead, CmoRetry, Pending, AtRel, ReleaseCommit
  <1>9. ASSUME CmoCas(g) PROVE CmoRetry(g) \/ CmoTold(g)
    <2>1. rel[g] \in ReleaseCall /\ AtRel(g, "cas")
      BY <1>0, <1>9, ReleaseSteps DEF CmoCas, RowsOK
    <2>2. CASE CmoUpdate(g) \/ GiveUp(g)
      <3>1. g \in Pending /\ ~ReleaseCommit(g)
        BY <2>1 DEF Pending, AtRel, ReleaseCommit
      <3>2. FinishRel(g)
        BY <2>2 DEF CmoUpdate, GiveUp
      <3> QED BY <1>f, <2>2, <3>1, <3>2 DEF CmoTold, CmoUpdate, GiveUp
    <2>3. CASE ~(CmoUpdate(g) \/ GiveUp(g))
      <3>1. /\ rel' = [rel EXCEPT ![g].next = "cmo", ![g].attempt = @ + 1]
            /\ UNCHANGED <<cmo, lost>>
        BY <1>9, <2>3 DEF CmoCas
      <3>2. rel'[g] = [rel[g] EXCEPT !.next = "cmo", !.attempt = rel[g].attempt + 1]
        BY <1>0, <3>1
      <3>3. /\ rel'[g] \in ReleaseCall /\ rel'[g].next = "cmo"
            /\ rel'[g].bags = rel[g].bags /\ rel'[g].order = rel[g].order
        <4>1. rel[g].attempt + 1 \in Nat
          BY <2>1 DEF ReleaseCall
        <4>2. [rel[g] EXCEPT !.next = "cmo", !.attempt = rel[g].attempt + 1] \in ReleaseCall
          BY <2>1, <4>1 DEF ReleaseCall
        <4> QED BY <2>1, <3>2, <4>2 DEF ReleaseCall
      <3>4. g \in Pending /\ ~ReleaseCommit(g)
        BY <2>1 DEF Pending, AtRel, ReleaseCommit
      <3> QED BY <3>1, <3>3, <3>4 DEF CmoRetry
    <2> QED BY <2>2, <2>3
  <1>10. ASSUME NEW o \in Orders, StartCheck(g, o) PROVE CmoQuiet(g)
    <2>1. rel'[g].next = "start" /\ rel[g] = None
      BY <1>0, <1>10 DEF StartCheck, IdleRel
    <2> QED BY <1>10, <2>1 DEF StartCheck, CmoQuiet, Pending, AtRel, ReleaseCommit
  <1>11. ASSUME StartCommit(g) PROVE CmoQuiet(g)
    BY <1>11, <1>f, <1>q DEF StartCommit, CmoQuiet
  <1>12. ASSUME FailRelease(g) PROVE CmoQuiet(g) \/ CmoDue(g) \/ CmoTold(g)
    <2>1. CASE g \in Pending
      <3>1. GiveUp(g)
        BY <1>12, <2>1 DEF FailRelease, Pending
      <3>2. AtRel(g, "commit") => ~(g \in Pending)
        BY DEF AtRel, Pending
      <3>3. ~ReleaseCommit(g)
        BY <2>1, <3>2 DEF ReleaseCommit
      <3> QED BY <1>f, <2>1, <3>1, <3>3 DEF GiveUp, CmoTold
    <2>2. CASE g \notin Pending
      <3>1. FinishRel(g) /\ UNCHANGED <<cmo, lost>>
        BY <1>12, <2>2 DEF FailRelease, Pending
      <3> QED BY <1>7, <1>f, <2>2, <3>1 DEF CmoQuiet
    <2> QED BY <2>1, <2>2
  <1> QED
    BY <1>1, <1>2, <1>3, <1>4, <1>5, <1>6, <1>7, <1>8, <1>9, <1>10, <1>11, <1>12 DEF ReleaseNext

\* What the accounts need of a step.
LEMMA AccountsStep ==
  ASSUME IInv, Accounts, [Next]_vars
  PROVE  Accounts'
  <1>0. RowsOK /\ RowsOK' /\ IInv'
    BY StepIInv DEF IInv
  <1>1. CASE UNCHANGED releaseVars
    <2>1. CountersOK' /\ LinesOfGroups'
      BY <1>1 DEF Accounts, CountersOK, LinesOfGroups, releaseVars
    <2>2. ASSUME NEW g \in Pending, NEW b \in BagsOf(g) PROVE resv'[<<b, rel[g].order>>].status # "none"
      <3>1. rel[g] \in ReleaseCall
        BY <1>0, ReleaseSteps DEF Pending, RowsOK
      <3>2. <<b, rel[g].order>> \in Bags \X Orders
        BY <3>1 DEF ReleaseCall, BagsOf
      <3> QED BY <3>2, DozensKept DEF Accounts, PendingTaken
    <2>3. PendingTaken'
      BY <1>1, <2>2 DEF PendingTaken, Pending, AtRel, BagsOf, releaseVars
    <2> QED BY <2>1, <2>3 DEF Accounts
  <1>2. ASSUME NEW g \in Releasers, ReleaseNext(g) PROVE Accounts'
    <2>1. \A h \in Releasers \ {g} : rel'[h] = rel[h]
      BY <1>0, <1>2, OwnCallOnly
    <2>2. CmoQuiet(g) \/ CmoDue(g) \/ CmoRetry(g) \/ CmoTold(g)
      BY <1>2, CmoKinds
    <2>3. ASSUME g \in Pending
          PROVE  DozensOf(BagsOf(g), rel[g].order) \in Nat
      <3>1. rel[g] \in ReleaseCall
        BY <1>0, <2>3, ReleaseSteps DEF Pending, RowsOK
      <3>2. PICK B \in SUBSET Bags, o \in Orders : B = BagsOf(g) /\ o = rel[g].order
        BY <3>1 DEF ReleaseCall, BagsOf
      <3>3. DozensOf(B, o) \in Nat
        BY <1>0, DozensOfType DEF RowsOK
      <3> QED BY <3>2, <3>3
    <2>4. cmo' \in [released : Nat, version : Nat] /\ lost' \in Nat
      <3>1. cmo \in [released : Nat, version : Nat] /\ lost \in Nat
        BY DEF Accounts, CountersOK
      <3> QED BY <2>2, <2>3, <3>1 DEF CmoQuiet, CmoDue, CmoRetry, CmoTold
    <2>5. onHand' \in [Stocked -> Int]
      <3>1. CASE ReleaseCommit(g)
        BY <3>1, CommitStock DEF Accounts
      <3>2. CASE ~ReleaseCommit(g)
        BY <1>2, <3>2
        DEF ReleaseNext, ReleaseOpen, ReleaseReadBag, ReleaseReadReservation, ReleaseReadMax,
            ReleaseInsertGroup, ReleaseCount, CmoRead, CmoCas, StartCheck, StartCommit, FailRelease,
            Accounts, CountersOK
      <3> QED BY <3>1, <3>2
    <2>6. LinesOfGroups'
      <3>1. CASE UNCHANGED <<groups, lines>>
        BY <3>1 DEF Accounts, LinesOfGroups
      <3>2. CASE ReleaseCommit(g)
        <4>1. rel[g] \in ReleaseCall
          BY <1>0, <3>2, ReleaseSteps DEF ReleaseCommit, RowsOK
        <4>2. rel[g].order \in Orders /\ groups \in [Orders -> SUBSET (Nat \ {0})]
          BY <1>0, <4>1 DEF ReleaseCall, RowsOK, ReleaseRowsOK
        <4>3. /\ \A o \in Orders : groups[o] \subseteq groups'[o]
              /\ rel[g].number \in groups'[rel[g].order]
          BY <3>2, <4>2 DEF ReleaseCommit
        <4>4. ASSUME NEW k \in Bags \X Orders
              PROVE  IsFiniteSet(lines'[k]) /\ \A l \in lines'[k] : l.group \in groups'[k[2]]
          <5>1. k[2] \in Orders /\ IsFiniteSet(lines[k]) /\ \A l \in lines[k] : l.group \in groups[k[2]]
            BY DEF Accounts, LinesOfGroups
          <5>2. CASE k[1] \in BagsOf(g) /\ k[2] = rel[g].order
            <6> DEFINE x == [group |-> rel[g].number, wh |-> rel[g].from[k[1]]]
            <6>1. lines'[k] = lines[k] \union {x}
              BY <3>2, <5>2 DEF ReleaseCommit
            <6>2. x.group \in groups'[k[2]]
              BY <4>3, <5>2
            <6> HIDE DEF x
            <6>3. IsFiniteSet(lines[k] \union {x})
              BY <5>1, FS_AddElement
            <6> QED BY <4>3, <5>1, <6>1, <6>2, <6>3
          <5>3. CASE ~(k[1] \in BagsOf(g) /\ k[2] = rel[g].order)
            <6>1. lines'[k] = lines[k]
              BY <3>2, <5>3 DEF ReleaseCommit
            <6> QED BY <4>3, <5>1, <6>1
          <5> QED BY <5>2, <5>3
        <4> QED BY <4>4 DEF LinesOfGroups
      <3> QED BY <1>0, <1>2, <3>1, <3>2, OwnCallOnly
    <2>7. PendingTaken'
      <3> SUFFICES ASSUME NEW h \in Releasers, rel'[h] # None /\ rel'[h].next \in {"cmo", "cas"},
                          NEW b \in rel'[h].bags
                   PROVE  resv'[<<b, rel'[h].order>>].status # "none"
        BY DEF PendingTaken, Pending, AtRel, BagsOf
      <3>0. rel'[h] \in ReleaseCall
        BY <1>0, IdleIsNoCall DEF RowsOK, ReleaseRowsOK, ProductionCall, StartCall
      <3>1. PICK o \in Orders, B \in SUBSET Bags : o = rel'[h].order /\ B = rel'[h].bags
        BY <3>0 DEF ReleaseCall
      <3>2. b \in Bags /\ <<b, o>> \in Bags \X Orders
        BY <3>1
      <3>3. CASE h \in Pending /\ rel'[h].bags = rel[h].bags /\ rel'[h].order = rel[h].order
        <4>1. resv[<<b, o>>].status # "none"
          BY <3>1, <3>3 DEF Accounts, PendingTaken, BagsOf
        <4> QED BY <3>1, <3>2, <4>1, DozensKept
      <3>4. CASE h = g /\ CmoDue(g)
        <4>1. rel[g] \in ReleaseCall
          BY <1>0, <3>4, ReleaseSteps DEF CmoDue, ReleaseCommit, RowsOK
        <4>2. rel'[g].bags = BagsOf(g) /\ rel'[g].order = rel[g].order
          BY <3>4, <4>1 DEF CmoDue, ReleaseCall, BagsOf
        <4>3. resv'[<<b, o>>].status = "RELEASED"
          BY <3>1, <3>2, <3>4, <4>2, CommitRows DEF CmoDue
        <4> QED BY <3>1, <4>3
      <3>5. CASE h # g
        BY <2>1, <3>3, <3>5 DEF Pending, AtRel
      <3>6. CASE h = g /\ ~CmoDue(g)
        BY <2>2, <3>3, <3>6 DEF CmoQuiet, CmoRetry, CmoTold
      <3> QED BY <3>4, <3>5, <3>6
    <2> QED BY <2>4, <2>5, <2>6, <2>7 DEF Accounts, CountersOK
  <1> QED BY <1>1, <1>2, StepKinds

\* Before the first request every total is zero but the ledger's, which has
\* each bag in the row of its warehouse and part.
LEMMA InitAccounts ==
  ASSUME Init
  PROVE  Accounts /\ CmoAccounted /\ StockAccounted
  <1>0. RowsOK /\ BagTypeOK
    BY InitIInv DEF IInv, RowsOK
  <1>1. PICK w \in [Bags -> Warehouses] :
            bag = [b \in Bags |-> [status |-> "RECEIVED", wh |-> w[b], order |-> None]]
    BY DEF Init, BagInit
  <1> DEFINE place == [b \in Bags |-> <<w[b], PartOf[b]>>]
             at == [k \in Stocked |-> {b \in Bags : bag[b].wh = k[1] /\ PartOf[b] = k[2]}]
  <1>2. IsFiniteSet(Bags) /\ IsFiniteSet(Stocked) /\ Dozens \in [Bags -> Nat]
    BY ReleaseConstants, BagConstants
  <1>3. onHand = [k \in Stocked |-> SumFunctionOnSet(Dozens, at[k])]
    BY DEF Init
  <1>4. onHand \in [Stocked -> Int]
    <2>1. ASSUME NEW k \in Stocked PROVE SumFunctionOnSet(Dozens, at[k]) \in Int
      <3>1. at[k] \subseteq Bags
        OBVIOUS
      <3>2. IsFiniteSet(at[k]) /\ \A b \in at[k] : Dozens[b] \in Int
        <4> HIDE DEF at
        <4> QED BY <1>2, <3>1, FS_Subset
      <3> HIDE DEF at
      <3> QED BY <3>2, SumInt
    <2> HIDE DEF at
    <2> QED BY <1>3, <2>1
  <1>5. CountersOK
    BY <1>4 DEF Init, CountersOK
  <1>6. LinesOfGroups
    BY FS_EmptySet DEF Init, LinesOfGroups
  <1>7. Pending = {}
    BY DEF Init, Pending, AtRel
  <1>8. ASSUME NEW O \in SUBSET Orders PROVE ReleasedTo(O) = 0
    <2> DEFINE t == [k \in Bags \X Orders |-> Cardinality(lines[k]) * resv[k].dozens]
    <2>1. IsFiniteSet(Bags \X O) /\ Bags \X O \subseteq Bags \X Orders
      BY BagConstants, ReleaseConstants, FS_Product, FS_Subset
    <2>2. \A k \in Bags \X O : t[k] = 0
      <3>1. \A k \in Bags \X O : lines[k] = {} /\ resv[k].dozens = 0
        BY <2>1 DEF Init, BagInit, NoReservation
      <3>2. \A k \in Bags \X O : Cardinality(lines[k]) = 0
        BY <3>1, FS_EmptySet
      <3> QED BY <2>1, <3>1, <3>2
    <2> HIDE DEF t
    <2>3. SumFunctionOnSet(t, Bags \X O) = 0
      BY <2>1, <2>2, SumOfZeros
    <2> QED BY <2>3 DEF ReleasedTo, t
  <1>9. CmoAccounted
    <2>1. SumFunctionOnSet([g \in Pending |-> DozensOf(BagsOf(g), rel[g].order)], {}) = 0
      BY SumEmpty
    <2>2. ReleasedTo(CmoOrders) = 0
      BY <1>8, ReleaseConstants
    <2> QED BY <1>7, <2>1, <2>2 DEF CmoAccounted, Init
  <1>10. ASSUME Stocked = Warehouses \X Parts
         PROVE  SumFunctionOnSet(onHand, Stocked) + ReleasedTo(Orders) = SumFunctionOnSet(Dozens, Bags)
    <2>1. \A b \in Bags : Dozens[b] \in Int /\ place[b] \in Stocked
      BY <1>2, <1>10, ReleaseConstants
    <2> DEFINE row == [k \in Stocked |-> SumFunctionOnSet(Dozens, {b \in Bags : place[b] = k})]
    <2>2. SumFunctionOnSet(Dozens, Bags) = SumFunctionOnSet(row, Stocked)
      <3> HIDE DEF place
      <3> QED BY ONLY <1>2, <2>1, SumByPlace DEF row
    <2>3. \A k \in Stocked : {b \in Bags : place[b] = k} = at[k]
      BY <1>1, <1>10
    <2>4. \A k \in Stocked : row[k] = onHand[k]
      <3> HIDE DEF place, at
      <3> QED BY <1>3, <2>3
    <2> HIDE DEF row
    <2>5. SumFunctionOnSet(row, Stocked) = SumFunctionOnSet(onHand, Stocked)
      BY <1>2, <2>4, SumAgrees
    <2>6. SumFunctionOnSet(onHand, Stocked) \in Int
      BY <1>2, <1>4, SumInt
    <2>7. ReleasedTo(Orders) = 0
      BY <1>8
    <2> QED BY <2>2, <2>5, <2>6, <2>7
  <1> QED BY <1>5, <1>6, <1>7, <1>9, <1>10 DEF Accounts, PendingTaken, StockAccounted

LEMMA CmoStep ==
  ASSUME IInv, Accounts, CmoAccounted, [Next]_vars
  PROVE  CmoAccounted'
  <1>0. RowsOK /\ RowsOK' /\ CountersOK /\ LinesOfGroups /\ PendingTaken /\ CmoOrders \in SUBSET Orders
    BY StepIInv, ReleaseConstants DEF IInv, Accounts
  <1>1. cmo.released + lost + Owing = ReleasedTo(CmoOrders) /\ Owing \in Nat
    BY <1>0, CmoAccountedIs
  <1>2. cmo.released \in Nat /\ lost \in Nat
    BY <1>0 DEF CountersOK
  <1> DEFINE old == Owed(rel, resv)
             new == Owed(rel', resv')
  <1>3. \A g \in Releasers : old[g] = Owes(rel[g], resv) /\ new[g] = Owes(rel'[g], resv')
    BY DEF Owed
  <1>4. \A g \in Releasers : old[g] \in Nat /\ new[g] \in Nat
    <2>1. /\ rel \in [Releasers -> ProductionCall] /\ resv \in [Bags \X Orders -> Reservation]
          /\ rel' \in [Releasers -> ProductionCall] /\ resv' \in [Bags \X Orders -> Reservation]
      BY <1>0 DEF RowsOK, ReleaseRowsOK, BagTypeOK
    <2>2. \A g \in Releasers : Owes(rel[g], resv) \in Nat /\ Owes(rel'[g], resv') \in Nat
      BY <2>1, OwesType
    <2> HIDE DEF old, new
    <2> QED BY <1>3, <2>2
  <1>5. Owing = SumFunctionOnSet(old, Releasers) /\ Owing' = SumFunctionOnSet(new, Releasers)
    BY DEF Owing
  <1>6. IsFiniteSet(Releasers)
    BY ReleaseConstants
  <1>7. CASE UNCHANGED releaseVars
    <2>1. \A g \in Releasers : old[g] = new[g]
      BY <1>0, <1>3, <1>7, OwesKept DEF releaseVars
    <2> HIDE DEF old, new
    <2>2. Owing' = Owing
      BY <1>5, <1>6, <2>1, SumAgrees
    <2>3. ReleasedTo(CmoOrders)' = ReleasedTo(CmoOrders)
      BY <1>0, <1>7, ReleasedOnlyByCommit DEF releaseVars
    <2> QED BY <1>0, <1>1, <1>7, <2>2, <2>3, CmoAccountedIs DEF releaseVars
  <1>8. ASSUME NEW g \in Releasers, ReleaseNext(g) PROVE CmoAccounted'
    <2>1. \A h \in Releasers \ {g} : rel'[h] = rel[h]
      BY <1>0, <1>8, OwnCallOnly
    <2>2. \A h \in Releasers \ {g} : old[h] = new[h]
      BY <1>0, <1>3, <2>1, OwesKept
    <2>3. Owing' = Owing - old[g] + new[g]
      <3> HIDE DEF old, new
      <3> QED BY <1>4, <1>5, <1>6, <2>2, SumChange
    <2> DEFINE D == DozensOf(BagsOf(g), rel[g].order)
    <2>4. ASSUME NEW step \in {"cmo", "cas", "commit"}, AtRel(g, step)
          PROVE  /\ D \in Nat /\ rel[g] \in ReleaseCall
                 /\ g \in Pending => old[g] = D
      <3>1. rel[g] \in ReleaseCall
        BY <1>0, <2>4, ReleaseSteps DEF RowsOK
      <3>2. PICK B \in SUBSET Bags, o \in Orders : B = BagsOf(g) /\ o = rel[g].order
        BY <3>1 DEF ReleaseCall, BagsOf
      <3>3. DozensOf(B, o) \in Nat /\ DozensOf(B, o) = SumFunctionOnSet(HeldFor(resv, o), B)
        BY <1>0, DozensOfType DEF RowsOK
      <3> QED BY <1>3, <3>1, <3>2, <3>3 DEF Owes, Pending, AtRel, BagsOf
    <2>5. g \notin Pending => old[g] = 0
      BY <1>3 DEF Owes, Pending, AtRel
    <2>6. UNCHANGED lines \/ ReleaseCommit(g)
      BY <1>0, <1>8, OwnCallOnly
    <2>7. CASE CmoQuiet(g)
      <3>1. new[g] = 0 /\ old[g] = 0
        BY <1>3, <2>5, <2>7 DEF Owes, CmoQuiet
      <3>2. ReleasedTo(CmoOrders)' = ReleasedTo(CmoOrders)
        BY <1>0, <2>6, <2>7, ReleasedOnlyByCommit, CommitReleases DEF CmoQuiet
      <3>3. Owing' = Owing
        BY <1>1, <2>3, <3>1
      <3> QED BY <1>0, <1>1, <2>7, <3>2, <3>3, CmoAccountedIs DEF CmoQuiet
    <2>8. CASE CmoDue(g)
      <3>1. AtRel(g, "commit") /\ ReleaseCommit(g)
        BY <2>8 DEF CmoDue, ReleaseCommit
      <3>2. D \in Nat /\ rel[g] \in ReleaseCall /\ old[g] = 0
        BY <2>4, <2>5, <2>8, <3>1 DEF CmoDue
      <3>3. ReleasedTo(CmoOrders)' = ReleasedTo(CmoOrders) + D
        BY <1>0, <2>8, <3>1, CommitReleases DEF CmoDue
      <3>4. new[g] = D
        <4>1. PICK B \in SUBSET Bags, o \in Orders : B = BagsOf(g) /\ o = rel[g].order
          BY <3>2 DEF ReleaseCall, BagsOf
        <4>2. /\ rel'[g] # None /\ rel'[g].next = "cmo"
              /\ rel'[g].bags = B /\ rel'[g].order = o
          BY <2>8, <3>2, <4>1, IdleIsNoCall DEF CmoDue, ReleaseCall, BagsOf
        <4>3. \A b \in B : resv'[<<b, o>>].dozens = resv[<<b, o>>].dozens
          <5>1. \A b \in B : resv[<<b, o>>] \in Reservation
            BY <1>0 DEF RowsOK, BagTypeOK
          <5>2. \A b \in B : resv'[<<b, o>>] \in {resv[<<b, o>>], [resv[<<b, o>>] EXCEPT !.status = "RELEASED"]}
            BY <3>1 DEF ReleaseCommit
          <5> QED BY <5>1, <5>2 DEF Reservation
        <4>4. DozensOf(B, o)' = DozensOf(B, o)
          BY <4>3, DozensOfKept
        <4>5. new[g] = SumFunctionOnSet(HeldFor(resv', o), B)
          BY <1>3, <4>2 DEF Owes
        <4> QED BY <4>1, <4>4, <4>5 DEF DozensOf, HeldFor
      <3>5. Owing' = Owing + D
        <4> HIDE DEF D
        <4> QED BY <1>1, <2>3, <3>2, <3>4
      <3>6. cmo'.released + lost' + Owing' = ReleasedTo(CmoOrders)'
        <4> HIDE DEF D
        <4> QED BY <1>1, <1>2, <2>8, <3>2, <3>3, <3>5 DEF CmoDue
      <3> QED BY <1>0, <3>6, CmoAccountedIs
    <2>9. CASE CmoRetry(g) \/ CmoTold(g)
      <3>1. ~ReleaseCommit(g) /\ g \in Pending
        BY <2>9 DEF CmoRetry, CmoTold
      <3>2. ReleasedTo(CmoOrders)' = ReleasedTo(CmoOrders)
        BY <1>0, <2>6, <3>1, ReleasedOnlyByCommit
      <3>3. D \in Nat /\ rel[g] \in ReleaseCall /\ old[g] = D
        BY <2>4, <3>1 DEF Pending
      <3>4. CASE CmoTold(g)
        <4>1. new[g] = 0
          BY <1>3, <3>4 DEF CmoTold, Owes
        <4>2. Owing' = Owing - D
          <5> HIDE DEF D
          <5> QED BY <1>1, <2>3, <3>3, <4>1
        <4>3. cmo'.released + lost' = cmo.released + lost + D
          BY <1>2, <3>3, <3>4 DEF CmoTold
        <4>4. cmo'.released \in Nat /\ lost' \in Nat
          BY <1>2, <3>3, <3>4 DEF CmoTold
        <4>5. cmo'.released + lost' + Owing' = ReleasedTo(CmoOrders)'
          <5> HIDE DEF D
          <5> QED BY <1>1, <1>2, <3>2, <3>3, <4>2, <4>3, <4>4
        <4> QED BY <1>0, <4>5, CmoAccountedIs
      <3>5. CASE CmoRetry(g)
        <4>1. PICK B \in SUBSET Bags, o \in Orders : B = BagsOf(g) /\ o = rel[g].order
          BY <3>3 DEF ReleaseCall, BagsOf
        <4>2. \A b \in B : resv'[<<b, o>>].dozens = resv[<<b, o>>].dozens
          BY <1>0, <3>1, <4>1, DozensKept DEF PendingTaken
        <4>3. DozensOf(B, o)' = DozensOf(B, o)
          BY <4>2, DozensOfKept
        <4>4. new[g] = SumFunctionOnSet(HeldFor(resv', o), B)
          BY <1>3, <3>5, <4>1, IdleIsNoCall DEF Owes, CmoRetry, BagsOf
        <4>5. new[g] = old[g]
          BY <3>3, <4>1, <4>3, <4>4 DEF DozensOf, HeldFor
        <4>6. Owing' = Owing
          <5> HIDE DEF D
          <5> QED BY <1>1, <2>3, <3>3, <4>5
        <4> QED BY <1>0, <1>1, <3>2, <3>5, <4>6, CmoAccountedIs DEF CmoRetry
      <3> QED BY <2>9, <3>4, <3>5
    <2> QED BY <1>8, <2>7, <2>8, <2>9, CmoKinds
  <1> QED BY <1>7, <1>8, StepKinds

LEMMA StockStep ==
  ASSUME IInv, Accounts, StockAccounted, [Next]_vars
  PROVE  StockAccounted'
  <1> SUFFICES ASSUME Stocked = Warehouses \X Parts
               PROVE  SumFunctionOnSet(onHand', Stocked) + ReleasedTo(Orders)' = SumFunctionOnSet(Dozens, Bags)
    BY DEF StockAccounted
  <1>1. LinesOfGroups /\ CountersOK
    BY DEF Accounts
  <1>2. SumFunctionOnSet(onHand, Stocked) + ReleasedTo(Orders) = SumFunctionOnSet(Dozens, Bags)
    BY DEF StockAccounted
  <1>3. CASE UNCHANGED <<lines, onHand>>
    <2>1. ReleasedTo(Orders)' = ReleasedTo(Orders)
      BY <1>1, <1>3, ReleasedOnlyByCommit
    <2> QED BY <1>2, <1>3, <2>1
  <1>4. ASSUME NEW g \in Releasers, ReleaseCommit(g)
        PROVE  SumFunctionOnSet(onHand', Stocked) + ReleasedTo(Orders)' = SumFunctionOnSet(Dozens, Bags)
    <2> DEFINE D == DozensOf(BagsOf(g), rel[g].order)
               O == SumFunctionOnSet(onHand, Stocked)
               N == SumFunctionOnSet(onHand', Stocked)
    <2>1. ReleasedTo(Orders)' = ReleasedTo(Orders) + D /\ ReleasedTo(Orders) \in Int
      BY <1>1, <1>4, CommitReleases
    <2>2. O = N + D
      BY <1>1, <1>4, CommitStock
    <2>3. D \in Nat
      <3>1. rel[g] \in ReleaseCall
        BY <1>4, ReleaseSteps DEF ReleaseCommit, IInv, RowsOK
      <3>2. PICK B \in SUBSET Bags, o \in Orders : B = BagsOf(g) /\ o = rel[g].order
        BY <3>1 DEF ReleaseCall, BagsOf
      <3>3. DozensOf(B, o) \in Nat
        BY DozensOfType DEF IInv, RowsOK
      <3> QED BY <3>2, <3>3
    <2>4. N \in Int
      <3>1. onHand' \in [Stocked -> Int] /\ IsFiniteSet(Stocked)
        BY <1>1, <1>4, CommitStock, ReleaseConstants
      <3> QED BY <3>1, SumInt
    <2> HIDE DEF D, O, N
    <2>5. O + ReleasedTo(Orders) = SumFunctionOnSet(Dozens, Bags)
      BY <1>2 DEF O
    <2>6. N + ReleasedTo(Orders)' = SumFunctionOnSet(Dozens, Bags)
      BY <2>1, <2>2, <2>3, <2>4, <2>5
    <2> QED BY <2>6 DEF N
  <1>5. ASSUME NEW g \in Releasers, ReleaseNext(g), ~ReleaseCommit(g) PROVE UNCHANGED <<lines, onHand>>
    BY <1>5
    DEF ReleaseNext, ReleaseOpen, ReleaseReadBag, ReleaseReadReservation, ReleaseReadMax,
        ReleaseInsertGroup, ReleaseCount, CmoRead, CmoCas, StartCheck, StartCommit, FailRelease
  <1> QED BY <1>3, <1>4, <1>5, StepKinds DEF releaseVars

\* Every state the release reaches is typed: the ledger rows stay integers and
\* the CMO line's counters natural, next to any inventory request.
THEOREM ReleaseTypeCorrect == Spec => []TypeOK
  <1>1. IInv /\ Accounts => TypeOK
    BY DEF IInv, RowsOK, Accounts, TypeOK
  <1>2. Init => Accounts
    BY InitAccounts
  <1>3. IInv /\ Accounts /\ [Next]_vars => Accounts'
    BY AccountsStep
  <1> QED BY <1>1, <1>2, <1>3, ReleaseInvariant, PTL DEF Spec

\* The CMO line counts every release of its orders exactly once, or the request
\* that committed it gave it up: retries, stale versions and stops in between
\* neither add a release twice nor drop one silently.
THEOREM CmoAccountedCorrect == Spec => []CmoAccounted
  <1>1. Init => Accounts /\ CmoAccounted
    BY InitAccounts
  <1>2. IInv /\ Accounts /\ CmoAccounted /\ [Next]_vars => Accounts' /\ CmoAccounted'
    BY AccountsStep, CmoStep
  <1> QED BY <1>1, <1>2, ReleaseInvariant, PTL DEF Spec

\* When every warehouse and part has a ledger row, the ledger and what was
\* released always make up what the bags hold.
THEOREM StockAccountedCorrect == Spec => []StockAccounted
  <1>1. Init => Accounts /\ StockAccounted
    BY InitAccounts
  <1>2. IInv /\ Accounts /\ StockAccounted /\ [Next]_vars => Accounts' /\ StockAccounted'
    BY AccountsStep, StockStep
  <1> QED BY <1>1, <1>2, ReleaseInvariant, PTL DEF Spec

-----------------------------------------------------------------------------
(* Requests that run alone.  What the code breaks when requests overlap it *)
(* keeps when each finds every other request answered: the checks it made  *)
(* still hold when it writes.                                              *)

LEMMA AloneKinds ==
  ASSUME Serial, [Next]_vars
  PROVE  \/ UNCHANGED vars
         \/ \E r \in Requests : /\ BagStep(r) /\ UNCHANGED releaseVars
                                /\ OthersIdle(r) /\ \A g \in Releasers : IdleRel(g)
         \/ \E g \in Releasers : /\ ReleaseNext(g)
                                 /\ \A r \in Requests : Idle(r)
                                 /\ \A h \in Releasers \ {g} : IdleRel(h)
  <1>1. \A r \in Requests : r \notin Releasers
    BY ReleaseConstants
  <1>2. ASSUME NEW r \in Requests, Alone(r) PROVE OthersIdle(r) /\ \A g \in Releasers : IdleRel(g)
    BY <1>1, <1>2 DEF Alone, OthersIdle
  <1>3. ASSUME NEW g \in Releasers, Alone(g)
        PROVE  (\A r \in Requests : Idle(r)) /\ \A h \in Releasers \ {g} : IdleRel(h)
    BY <1>1, <1>3 DEF Alone
  <1> QED BY <1>2, <1>3 DEF Next

\* A production request reserves nothing.
LEMMA ReleaseHolds ==
  ASSUME IInv, NEW g \in Releasers, ReleaseNext(g)
  PROVE  /\ UNCHANGED call
         /\ \A k \in Bags \X Orders :
               /\ resv'[k].dozens = resv[k].dozens
               /\ resv'[k].status = "ACTIVE" => resv[k].status = "ACTIVE"
  <1>1. CASE ReleaseCommit(g)
    <2>1. UNCHANGED call
      BY <1>1 DEF ReleaseCommit
    <2>2. ASSUME NEW k \in Bags \X Orders
          PROVE  /\ resv'[k].dozens = resv[k].dozens
                 /\ resv'[k].status = "ACTIVE" => resv[k].status = "ACTIVE"
      <3>1. resv[k] \in Reservation
        BY DEF IInv, RowsOK, BagTypeOK
      <3>2. resv'[k] \in {resv[k], [resv[k] EXCEPT !.status = "RELEASED"]}
        BY <1>1 DEF ReleaseCommit
      <3> QED BY <3>1, <3>2 DEF Reservation
    <2> QED BY <2>1, <2>2
  <1>2. CASE UNCHANGED bagVars
    BY <1>2 DEF bagVars
  <1> QED BY <1>1, <1>2, OwnCallOnly DEF IInv

\* When requests run alone, the rule of validateCreate holds: a bag is never
\* reserved for more than it holds.
THEOREM NoOverReservationCorrect ==
  ASSUME Serial
  PROVE  Spec => []NoOverReservation
  <1>1. Init => NothingOver
    <2> SUFFICES ASSUME Init, NEW b \in Bags PROVE Held(b) + Claimed(b) <= Dozens[b]
      BY DEF NothingOver
    <2>1. IsFiniteSet(Orders) /\ IsFiniteSet(Requests) /\ Dozens[b] \in Nat
      BY BagConstants
    <2>2. (\A o \in Orders : HeldBy(resv, b)[o] = 0) /\ \A r \in Requests : Claims(call, b)[r] = 0
      BY DEF Init, BagInit, NoReservation, HeldBy, Claims, AdmittedTo
    <2>3. Held(b) = 0 /\ Claimed(b) = 0
      BY <2>1, <2>2, SumOfZeros DEF Held, Claimed
    <2> QED BY <2>1, <2>3
  <1>2. ASSUME IInv, NothingOver, [Next]_vars PROVE NothingOver'
    <2>0. BagTypeOK /\ BagTypeOK'
      BY <1>2, StepIInv DEF IInv, RowsOK
    <2>1. CASE UNCHANGED vars
      BY <1>2, <2>1 DEF NothingOver, Held, Claimed, vars, bagVars
    <2>2. ASSUME NEW r \in Requests, BagStep(r), OthersIdle(r) PROVE NothingOver'
      BY <1>2, <2>0, <2>2, NothingOverAlone
    <2>3. ASSUME NEW g \in Releasers, ReleaseNext(g) PROVE NothingOver'
      <3>1. UNCHANGED call /\ \A b \in Bags, o \in Orders : HeldBy(resv', b)[o] <= HeldBy(resv, b)[o]
        <4>1. \A b \in Bags, o \in Orders : resv[<<b, o>>].dozens \in Nat
          BY <2>0 DEF BagTypeOK, Reservation
        <4> QED BY <1>2, <2>3, <4>1, ReleaseHolds DEF HeldBy
      <3>2. ASSUME NEW b \in Bags PROVE Held(b)' + Claimed(b)' <= Dozens[b]
        <4>1. Held(b)' <= Held(b)
          BY <2>0, <3>1, NothingGained
        <4>2. Claimed(b)' = Claimed(b)
          BY <3>1 DEF Claimed
        <4>3. /\ Held(b) \in Int /\ Claimed(b) \in Int /\ Held(b)' \in Int
              /\ Held(b) + Claimed(b) <= Dozens[b] /\ Dozens[b] \in Nat
          BY <1>2, <2>0, SumsAreNumbers, BagConstants DEF NothingOver
        <4> QED BY <4>1, <4>2, <4>3
      <3> QED BY <3>2 DEF NothingOver
    <2> QED BY <1>2, <2>1, <2>2, <2>3, AloneKinds
  <1>3. ASSUME IInv, NothingOver PROVE NoOverReservation
    <2> SUFFICES ASSUME NEW b \in Bags PROVE ActiveDozens(b) <= Dozens[b]
      BY DEF NoOverReservation
    <2>1. /\ ActiveDozens(b) = Held(b) /\ Held(b) \in Nat /\ Claimed(b) \in Nat
          /\ Held(b) + Claimed(b) <= Dozens[b] /\ Dozens[b] \in Nat
      BY <1>3, BoundedSums, BagConstants DEF NothingOver, IInv, RowsOK
    <2> QED BY <2>1
  <1> QED BY <1>1, <1>2, <1>3, ReleaseInvariant, PTL DEF Spec

\* When inventory requests run alone and end, the bag of a reservation is not
\* offered as RECEIVED until the last of its reservations is closed.
THEOREM ReservedBagNotGivenBackCorrect ==
  ASSUME Serial, MayFail \intersect Requests = {}
  PROVE  Spec => []ReservedBagNotGivenBack
  <1>1. Init => GivenBackRightly
    <2> SUFFICES ASSUME Init PROVE GivenBackRightly
      OBVIOUS
    <2>1. \A b \in Bags, o \in Orders : resv[<<b, o>>].status # "ACTIVE"
      BY DEF Init, BagInit, NoReservation
    <2>2. \A b \in Bags : Active(b) = {}
      BY <2>1 DEF Active
    <2>3. \A r \in Requests : call[r] = None
      BY DEF Init, BagInit
    <2> QED BY <2>2, <2>3 DEF GivenBackRightly, At
  <1>2. ASSUME IInv, GivenBackRightly, [Next]_vars PROVE GivenBackRightly'
    <2>0. BagTypeOK /\ BagTypeOK'
      BY <1>2, StepIInv DEF IInv, RowsOK
    <2>1. CASE UNCHANGED vars
      BY <1>2, <2>1 DEF GivenBackRightly, Active, At, vars, bagVars
    <2>2. ASSUME NEW r \in Requests, BagStep(r), OthersIdle(r) PROVE GivenBackRightly'
      <3>1. r \notin MayFail
        OBVIOUS
      <3> QED BY <1>2, <2>0, <2>2, <3>1, GivenBackAlone
    <2>3. ASSUME NEW g \in Releasers, ReleaseNext(g), \A r \in Requests : Idle(r) PROVE GivenBackRightly'
      <3>1. UNCHANGED call
        BY <1>2, <2>3, ReleaseHolds
      <3>2. \A b \in Bags : bag'[b].status = "RECEIVED" => bag[b].status = "RECEIVED"
        <4>1. CASE ReleaseCommit(g)
          BY <4>1 DEF ReleaseCommit
        <4>2. CASE UNCHANGED bagVars
          BY <4>2 DEF bagVars
        <4> QED BY <1>2, <2>3, <4>1, <4>2, OwnCallOnly DEF IInv
      <3>3. \A b \in Bags : Active(b)' \subseteq Active(b)
        BY <1>2, <2>3, ReleaseHolds DEF Active
      <3>4. \A b \in Bags : bag[b].status = "RECEIVED" => Active(b) = {}
        BY <1>2, <2>3 DEF GivenBackRightly, Idle, At
      <3>5. \A r \in Requests : ~At(r, {"release", "cancel"}, "free")'
        BY <2>3, <3>1 DEF Idle, At
      <3>6. \A b \in Bags : bag'[b].status = "RECEIVED" => Active(b)' = {}
        BY <3>2, <3>3, <3>4
      <3> QED BY <3>5, <3>6 DEF GivenBackRightly
    <2> QED BY <1>2, <2>1, <2>2, <2>3, AloneKinds
  <1>3. GivenBackRightly => ReservedBagNotGivenBack
    BY DEF GivenBackRightly, ReservedBagNotGivenBack, Idle, At
  <1> QED BY <1>1, <1>2, <1>3, ReleaseInvariant, PTL DEF Spec

\* A bag that was released is in no warehouse, and its material not in a
\* production line under the bag's own name: no movement takes it up again.
Emptied ==
    \A k \in Bags \X Orders : lines[k] # {} => bag[k[1]].wh = None /\ bag[k[1]].status # "IN_WIP"

\* A movement in flight moves a bag that its check found somewhere.
MovesFull ==
    \A r \in Requests : At(r, {"transfer", "assign", "return"}, "commit") =>
        bag[call[r].bag].wh # None \/ bag[call[r].bag].status = "IN_WIP"

\* So does a release: what it has validated is in a warehouse until its commit.
Validated(c) == (c.bags \ c.todo) \union ({c.line} \ {None})

ReleasesFull ==
    \A g \in Releasers : rel[g] \in ReleaseCall /\ rel[g].next \in {"check", "insert", "count", "commit"} =>
        \A b \in Validated(rel[g]) : bag[b].wh # None

LinesOnce ==
    \A b \in Bags : \A o, q \in Orders :
        /\ lines[<<b, o>>] # {} /\ lines[<<b, q>>] # {} => o = q
        /\ lines[<<b, o>>] # {} => Cardinality(lines[<<b, o>>]) = 1

FullOrEmpty == Emptied /\ MovesFull /\ ReleasesFull /\ LinesOnce

LEMMA MoveAlone ==
  ASSUME IInv, FullOrEmpty, NEW r \in Requests, BagStep(r), UNCHANGED releaseVars,
         OthersIdle(r), \A g \in Releasers : IdleRel(g)
  PROVE  FullOrEmpty'
  <1>0. /\ call \in [Requests -> InventoryCall] /\ bag \in [Bags -> Bag] /\ BagTypeOK
        /\ UNCHANGED <<lines, rel>>
    BY DEF IInv, RowsOK, BagTypeOK, releaseVars
  <1>1. LinesOnce'
    BY <1>0 DEF FullOrEmpty, LinesOnce
  <1>2. ReleasesFull'
    <2>1. \A g \in Releasers : rel'[g] \notin ReleaseCall
      BY <1>0, IdleIsNoCall DEF IdleRel
    <2> QED BY <2>1 DEF ReleasesFull
  <1>3. \A q \in Requests \ {r} : call'[q] = None
    BY <1>0, OnlyCheckAdmits DEF OthersIdle, Idle
  <1> DEFINE Full(b) == bag[b].wh # None \/ bag[b].status = "IN_WIP"
  <1>4. ASSUME \A b \in Bags : bag'[b] = bag[b] \/ Full(b)
                 \/ (bag'[b].wh = bag[b].wh /\ bag'[b].status # "IN_WIP")
        PROVE  Emptied'
    <2> SUFFICES ASSUME NEW k \in Bags \X Orders, lines[k] # {}
                 PROVE  bag'[k[1]].wh = None /\ bag'[k[1]].status # "IN_WIP"
      BY <1>0 DEF Emptied
    <2>1. bag[k[1]].wh = None /\ bag[k[1]].status # "IN_WIP" /\ k[1] \in Bags
      BY DEF FullOrEmpty, Emptied
    <2> QED BY <1>4, <2>1
  <1>5. ASSUME call'[r] = None \/ call'[r].next # "commit" PROVE MovesFull'
    BY <1>3, <1>5 DEF MovesFull, At
  <1>6. ASSUME NEW s \in {"RESERVED", "RECEIVED"}, SetBagStatus(call[r].bag, s), Finish(r)
        PROVE  FullOrEmpty'
    <2>1. \A b \in Bags : bag'[b] = bag[b] \/ (bag'[b].wh = bag[b].wh /\ bag'[b].status # "IN_WIP")
      BY <1>0, <1>6 DEF SetBagStatus, Bag
    <2>2. call'[r] = None
      BY <1>0, <1>6 DEF Finish
    <2> QED BY <1>1, <1>2, <1>4, <1>5, <2>1, <2>2 DEF FullOrEmpty
  <1>7. ASSUME UNCHANGED bag, call'[r] = None \/ call'[r].next # "commit" PROVE FullOrEmpty'
    <2>1. Emptied'
      BY <1>0, <1>7 DEF FullOrEmpty, Emptied
    <2> QED BY <1>1, <1>2, <1>5, <1>7, <2>1 DEF FullOrEmpty
  <1>8. ASSUME NEW op \in {"transfer", "assign", "return"}, NEW b \in Bags, NEW to, Move(r, op, b, to), Full(b)
        PROVE  FullOrEmpty'
    <2>1. UNCHANGED bag /\ call'[r].bag = b
      BY <1>0, <1>8 DEF Move
    <2>2. Emptied'
      BY <1>0, <2>1 DEF FullOrEmpty, Emptied
    <2>3. MovesFull'
      BY <1>3, <1>8, <2>1 DEF MovesFull, At
    <2> QED BY <1>1, <1>2, <2>2, <2>3 DEF FullOrEmpty
  <1>9. ASSUME TransferCommit(r) \/ AssignCommit(r) \/ ReturnCommit(r) PROVE FullOrEmpty'
    <2>1. Full(call[r].bag)
      <3>1. At(r, {"transfer", "assign", "return"}, "commit")
        BY <1>9 DEF TransferCommit, AssignCommit, ReturnCommit, At
      <3> QED BY <3>1 DEF FullOrEmpty, MovesFull
    <2>2. \A b \in Bags : bag'[b] = bag[b] \/ Full(b)
      BY <1>0, <1>9, <2>1 DEF TransferCommit, AssignCommit, ReturnCommit, SetBagLocation
    <2>3. call'[r] = None
      BY <1>0, <1>9 DEF TransferCommit, AssignCommit, ReturnCommit, Finish
    <2> QED BY <1>1, <1>2, <1>4, <1>5, <2>2, <2>3 DEF FullOrEmpty
  <1>10. ASSUME NEW step \in {"mark", "sum", "free"}, call[r] \in ReserveCall \union CloseCall, Continue(r, step)
         PROVE  call'[r].next # "commit"
    <2>1. call'[r] = [call[r] EXCEPT !.next = step]
      BY <1>0, <1>10 DEF Continue
    <2>2. call'[r].next = step
      BY <1>10, <2>1 DEF ReserveCall, CloseCall
    <2> QED BY <2>2
  <1>f. Finish(r) => call'[r] = None
    BY <1>0 DEF Finish
  <1>11. ASSUME NEW b \in Bags, NEW o \in Orders, NEW d \in Amounts, ReserveCheck(r, b, o, d) PROVE FullOrEmpty'
    <2>1. UNCHANGED bag /\ call'[r].next = "create"
      BY <1>0, <1>11 DEF ReserveCheck
    <2> QED BY <1>7, <2>1
  <1>12. ASSUME ReserveCreate(r) PROVE FullOrEmpty'
    <2>1. UNCHANGED bag /\ call[r] \in ReserveCall /\ (Finish(r) \/ Continue(r, "mark"))
      BY <1>0, <1>12, CallOfRequest DEF ReserveCreate
    <2> QED BY <1>7, <1>10, <1>f, <2>1
  <1>13. ASSUME NEW op \in {"release", "cancel", "expire"}, NEW b \in Bags, NEW o \in Orders, CloseCheck(r, op, b, o)
         PROVE  FullOrEmpty'
    <2>1. UNCHANGED bag /\ call'[r].next = "close"
      BY <1>0, <1>13 DEF CloseCheck
    <2> QED BY <1>7, <2>1
  <1>14. ASSUME CloseWrite(r) \/ CloseSum(r) PROVE FullOrEmpty'
    <2>1. /\ UNCHANGED bag /\ call[r] \in CloseCall
          /\ Finish(r) \/ Continue(r, "sum") \/ Continue(r, "free")
      BY <1>0, <1>14, CallOfRequest DEF CloseWrite, CloseSum
    <2> QED BY <1>7, <1>10, <1>f, <2>1
  <1>15. ASSUME ExpireWrite(r) \/ Fail(r) PROVE FullOrEmpty'
    BY <1>7, <1>15, <1>f DEF ExpireWrite, Fail
  <1>16. ReserveMark(r) \/ CloseFree(r) => FullOrEmpty'
    BY <1>6 DEF ReserveMark, CloseFree
  <1>17. ASSUME NEW b \in Bags, NEW w \in Warehouses, TransferCheck(r, b, w) \/ ReturnCheck(r, b, w)
         PROVE  FullOrEmpty'
    BY <1>8, <1>17 DEF TransferCheck, ReturnCheck, InWarehouse
  <1>18. ASSUME NEW b \in Bags, NEW o \in Orders, AssignCheck(r, b, o) PROVE FullOrEmpty'
    BY <1>8, <1>18 DEF AssignCheck, InWarehouse
  <1> HIDE DEF Full
  <1> QED
    BY <1>9, <1>11, <1>12, <1>13, <1>14, <1>15, <1>16, <1>17, <1>18 DEF BagStep

\* The steps of a release that runs alone before its commit validate lines one
\* by one, or keep what is validated.
LEMMA ValidatedAlone ==
  ASSUME IInv, ReleasesFull, NEW g \in Releasers, ReleaseNext(g), ~ReleaseCommit(g),
         rel'[g] \in ReleaseCall, rel'[g].next \in {"check", "insert", "count", "commit"}
  PROVE  \A b \in Validated(rel'[g]) : bag[b].wh # None
  <1>0. rel \in [Releasers -> ProductionCall] /\ rel'[g] # None
    BY IdleIsNoCall DEF IInv, RowsOK, ReleaseRowsOK
  <1>f. ~FinishRel(g)
    BY <1>0 DEF FinishRel
  <1>v. ASSUME rel[g] \in ReleaseCall, rel[g].next \in {"check", "insert", "count", "commit"}
        PROVE  \A b \in Validated(rel[g]) : bag[b].wh # None
    BY <1>v DEF ReleasesFull
  <1>1. ASSUME NEW o \in Orders, NEW B \in SUBSET Bags, ReleaseOpen(g, o, B)
        PROVE  Validated(rel'[g]) = {}
    BY <1>0, <1>1 DEF ReleaseOpen, Validated
  <1>2. ASSUME NEW b \in Bags, ReleaseReadBag(g, b)
        PROVE  Validated(rel'[g]) \subseteq Validated(rel[g]) \union {b} /\ bag[b].wh # None
    <2>1. rel[g] \in ReleaseCall
      BY <1>2, ReleaseSteps DEF ReleaseReadBag, IInv, RowsOK
    <2>2. rel'[g] = [[rel[g] EXCEPT !.line = b] EXCEPT !.from[b] = bag[b].wh]
      BY <1>0, <1>2, <1>f DEF ReleaseReadBag
    <2>3. rel'[g].line = b /\ rel'[g].bags = rel[g].bags /\ rel'[g].todo = rel[g].todo
      BY <2>1, <2>2 DEF ReleaseCall
    <2>4. bag[b].wh # None
      BY <1>2, <1>f DEF ReleaseReadBag, BagReleasable
    <2> QED BY <2>3, <2>4 DEF Validated
  <1>3. ASSUME ReleaseReadReservation(g) PROVE Validated(rel'[g]) \subseteq Validated(rel[g])
    <2>1. rel[g] \in ReleaseCall /\ rel[g].line # None
      BY <1>3, ReleaseSteps DEF ReleaseReadReservation, IInv, RowsOK
    <2>2. rel'[g] = [rel[g] EXCEPT !.line = None, !.todo = @ \ {rel[g].line}]
      BY <1>0, <1>3, <1>f DEF ReleaseReadReservation
    <2>3. /\ rel'[g].line = None /\ rel'[g].bags = rel[g].bags
          /\ rel'[g].todo = rel[g].todo \ {rel[g].line}
      BY <2>1, <2>2 DEF ReleaseCall
    <2> QED BY <2>1, <2>3 DEF Validated
  <1>4. ASSUME ReleaseReadMax(g) \/ ReleaseInsertGroup(g) \/ ReleaseCount(g)
        PROVE  /\ rel[g] \in ReleaseCall /\ rel[g].next \in {"check", "insert", "count"}
               /\ Validated(rel'[g]) = Validated(rel[g])
    <2>1. rel[g] \in ReleaseCall /\ rel[g].next \in {"check", "insert", "count"}
      BY <1>4, ReleaseSteps DEF ReleaseReadMax, ReleaseInsertGroup, ReleaseCount, IInv, RowsOK, AtRel
    <2>2. /\ rel'[g].line = rel[g].line /\ rel'[g].bags = rel[g].bags /\ rel'[g].todo = rel[g].todo
      BY <1>0, <1>4, <1>f, <2>1 DEF ReleaseReadMax, ReleaseInsertGroup, ReleaseCount, ReleaseCall
    <2> QED BY <2>1, <2>2 DEF Validated
  <1>5. ASSUME CmoRead(g) \/ CmoCas(g) PROVE FALSE
    <2>1. g \in Pending
      BY <1>5 DEF CmoRead, CmoCas, Pending
    <2>2. CmoRetry(g) \/ CmoTold(g)
      BY <2>1, CmoKinds DEF CmoQuiet, CmoDue
    <2>3. rel'[g] = None \/ rel'[g].next \in {"cmo", "cas"}
      BY <2>2 DEF CmoRetry, CmoTold
    <2> QED BY <1>0, <2>3
  <1>6. ASSUME NEW o \in Orders, StartCheck(g, o) PROVE FALSE
    <2>1. rel'[g].next = "start"
      BY <1>0, <1>6 DEF StartCheck
    <2> QED BY <2>1
  <1>7. ASSUME NEW b \in Bags, ReleaseReadBag(g, b) PROVE \A a \in Validated(rel'[g]) : bag[a].wh # None
    <2>1. rel[g] \in ReleaseCall /\ rel[g].next = "check"
      BY <1>7, ReleaseSteps DEF ReleaseReadBag, IInv, RowsOK, AtRel
    <2> QED BY <1>2, <1>7, <1>v, <2>1
  <1>8. ASSUME ReleaseReadReservation(g) PROVE \A a \in Validated(rel'[g]) : bag[a].wh # None
    <2>1. rel[g] \in ReleaseCall /\ rel[g].next = "check"
      BY <1>8, ReleaseSteps DEF ReleaseReadReservation, IInv, RowsOK, AtRel
    <2> QED BY <1>3, <1>8, <1>v, <2>1
  <1>9. ASSUME ReleaseReadMax(g) \/ ReleaseInsertGroup(g) \/ ReleaseCount(g)
         PROVE  \A a \in Validated(rel'[g]) : bag[a].wh # None
    BY <1>4, <1>9, <1>v
  <1>10. ASSUME NEW o \in Orders, NEW B \in SUBSET Bags, ReleaseOpen(g, o, B)
         PROVE  \A a \in Validated(rel'[g]) : bag[a].wh # None
    BY <1>1, <1>10
  <1> QED
    BY <1>5, <1>6, <1>7, <1>8, <1>9, <1>10, <1>f DEF ReleaseNext, StartCommit, FailRelease, GiveUp

LEMMA ReleaseAlone ==
  ASSUME IInv, LinesOfGroups, FullOrEmpty, NEW g \in Releasers, ReleaseNext(g),
         \A r \in Requests : Idle(r), \A h \in Releasers \ {g} : IdleRel(h)
  PROVE  FullOrEmpty'
  <1>1. \A h \in Releasers \ {g} : rel'[h] = None
    BY OwnCallOnly DEF IInv, IdleRel
  <1>2. MovesFull'
    BY ReleaseHolds DEF MovesFull, Idle, At
  <1>3. CASE ~ReleaseCommit(g)
    <2>1. UNCHANGED <<bag, lines>>
      BY <1>3, OwnCallOnly DEF IInv, bagVars
    <2>2. Emptied' /\ LinesOnce'
      BY <2>1 DEF FullOrEmpty, Emptied, LinesOnce
    <2>3. ReleasesFull'
      <3> SUFFICES ASSUME NEW h \in Releasers, rel'[h] \in ReleaseCall,
                          rel'[h].next \in {"check", "insert", "count", "commit"},
                          NEW b \in Validated(rel'[h])
                   PROVE  bag[b].wh # None
        BY <2>1 DEF ReleasesFull, Validated
      <3>1. h = g
        BY <1>1, IdleIsNoCall
      <3> QED BY <1>3, <3>1, ValidatedAlone DEF FullOrEmpty
    <2> QED BY <1>2, <2>2, <2>3 DEF FullOrEmpty
  <1>4. CASE ReleaseCommit(g)
    <2>1. rel[g] \in ReleaseCall /\ rel[g].next = "commit"
      BY <1>4, ReleaseSteps DEF ReleaseCommit, IInv, RowsOK, AtRel
    <2>2. PICK o \in Orders, B \in SUBSET Bags : o = rel[g].order /\ B = BagsOf(g)
      BY <2>1 DEF ReleaseCall, BagsOf
    <2>3. \A b \in B : bag[b].wh # None
      <3>1. rel[g].todo = {}
        BY <2>1, IdleIsNoCall DEF IInv, WarehousesRead
      <3>2. B \subseteq Validated(rel[g])
        BY <2>2, <3>1 DEF Validated, BagsOf
      <3>3. \A b \in Validated(rel[g]) : bag[b].wh # None
        BY <2>1 DEF FullOrEmpty, ReleasesFull
      <3> QED BY <3>2, <3>3
    <2>4. \A b \in B, q \in Orders : lines[<<b, q>>] = {}
      BY <2>3 DEF FullOrEmpty, Emptied
    <2>5. ReleasesFull'
      <3>1. rel'[g] = None \/ rel'[g].next = "cmo"
        BY <1>4, <2>1 DEF ReleaseCommit, FinishRel, IInv, RowsOK, ReleaseRowsOK, ReleaseCall
      <3>2. \A h \in Releasers : rel'[h] \in ReleaseCall => rel'[h].next = "cmo"
        BY <1>1, <3>1, IdleIsNoCall
      <3> QED BY <3>2 DEF ReleasesFull
    <2>6. Emptied'
      <3> SUFFICES ASSUME NEW b \in Bags, NEW q \in Orders, lines'[<<b, q>>] # {}
                   PROVE  bag'[b].wh = None /\ bag'[b].status # "IN_WIP"
        BY DEF Emptied
      <3>1. CASE b \in B
        BY <1>4, <2>2, <3>1 DEF ReleaseCommit
      <3>2. CASE b \notin B
        <4>1. bag'[b] = bag[b]
          BY <1>4, <2>2, <3>2 DEF ReleaseCommit
        <4>2. lines'[<<b, q>>] = lines[<<b, q>>]
          BY <1>4, <2>2, <3>2, CommitRows
        <4>3. bag[b].wh = None /\ bag[b].status # "IN_WIP"
          BY <4>2 DEF FullOrEmpty, Emptied
        <4> QED BY <4>1, <4>3
      <3> QED BY <3>1, <3>2
    <2>7. LinesOnce'
      <3>1. ASSUME NEW b \in B, NEW q \in Orders
            PROVE  /\ q # o => lines'[<<b, q>>] = {}
                   /\ q = o => Cardinality(lines'[<<b, q>>]) = 1
        <4>1. q # o => lines'[<<b, q>>] = lines[<<b, q>>]
          BY <1>4, <2>2, CommitRows
        <4> DEFINE l == [group |-> rel[g].number, wh |-> rel[g].from[b]]
        <4>2. q = o => lines'[<<b, q>>] = lines[<<b, q>>] \union {l}
          BY <1>4, <2>2 DEF ReleaseCommit
        <4>3. lines[<<b, q>>] = {}
          BY <2>4
        <4> HIDE DEF l
        <4>4. q = o => lines'[<<b, q>>] = {l}
          BY <4>2, <4>3
        <4> QED BY <4>1, <4>3, <4>4, FS_Singleton
      <3>2. ASSUME NEW b \in Bags \ B, NEW q \in Orders PROVE lines'[<<b, q>>] = lines[<<b, q>>]
        BY <1>4, <2>2, <3>2, CommitRows
      <3>3. ASSUME NEW b \in Bags, NEW p \in Orders, NEW q \in Orders
            PROVE  /\ lines'[<<b, p>>] # {} /\ lines'[<<b, q>>] # {} => p = q
                   /\ lines'[<<b, p>>] # {} => Cardinality(lines'[<<b, p>>]) = 1
        <4>1. CASE b \in B
          BY <3>1, <4>1
        <4>2. CASE b \notin B
          BY <3>2, <4>2 DEF FullOrEmpty, LinesOnce
        <4> QED BY <4>1, <4>2
      <3> QED BY <3>3 DEF LinesOnce
    <2> QED BY <1>2, <2>5, <2>6, <2>7 DEF FullOrEmpty
  <1> QED BY <1>3, <1>4

\* When requests run alone, the material of a bag is released at most once,
\* however the bag is reserved, given back and moved in between.
THEOREM ReleasedOnceCorrect ==
  ASSUME Serial
  PROVE  Spec => []ReleasedOnce
  <1>1. Init => Accounts /\ FullOrEmpty
    <2> SUFFICES ASSUME Init PROVE FullOrEmpty
      BY InitAccounts
    <2>1. /\ \A k \in Bags \X Orders : lines[k] = {}
          /\ \A r \in Requests : call[r] = None
          /\ \A g \in Releasers : rel[g] = None
      BY DEF Init, BagInit
    <2>2. \A b \in Bags, o \in Orders : lines[<<b, o>>] = {}
      BY <2>1
    <2> QED BY <2>1, <2>2, IdleIsNoCall DEF FullOrEmpty, Emptied, MovesFull, ReleasesFull, LinesOnce, At
  <1>2. ASSUME IInv, Accounts, FullOrEmpty, [Next]_vars PROVE Accounts' /\ FullOrEmpty'
    <2>1. ASSUME UNCHANGED vars PROVE FullOrEmpty'
      <3>1. UNCHANGED <<bag, call, lines, rel>>
        BY <2>1 DEF vars, bagVars, releaseVars
      <3>2. Emptied' /\ LinesOnce'
        BY <1>2, <3>1 DEF FullOrEmpty, Emptied, LinesOnce
      <3>3. MovesFull'
        BY <1>2, <3>1 DEF FullOrEmpty, MovesFull, At
      <3>4. ReleasesFull'
        BY <1>2, <3>1 DEF FullOrEmpty, ReleasesFull, Validated
      <3> QED BY <3>2, <3>3, <3>4 DEF FullOrEmpty
    <2>2. FullOrEmpty'
      BY <1>2, <2>1, AloneKinds, MoveAlone, ReleaseAlone DEF Accounts
    <2> QED BY <1>2, <2>2, AccountsStep
  <1>3. ASSUME FullOrEmpty PROVE ReleasedOnce
    <2> SUFFICES ASSUME NEW b \in Bags
                 PROVE  SumFunctionOnSet([o \in Orders |-> Cardinality(lines[<<b, o>>])], Orders) <= 1
      BY DEF ReleasedOnce
    <2> DEFINE n == [o \in Orders |-> Cardinality(lines[<<b, o>>])]
    <2>0. IsFiniteSet(Orders)
      BY BagConstants
    <2>1. CASE \A o \in Orders : lines[<<b, o>>] = {}
      <3>1. \A o \in Orders : n[o] = 0
        BY <2>1, FS_EmptySet
      <3> HIDE DEF n
      <3>2. SumFunctionOnSet(n, Orders) = 0
        BY <2>0, <3>1, SumOfZeros
      <3> QED BY <3>2 DEF n
    <2>2. ASSUME NEW o \in Orders, lines[<<b, o>>] # {} PROVE SumFunctionOnSet(n, Orders) <= 1
      <3>1. n[o] = 1
        BY <1>3, <2>2 DEF FullOrEmpty, LinesOnce
      <3>2. \A q \in Orders \ {o} : n[q] = 0
        <4>1. \A q \in Orders \ {o} : lines[<<b, q>>] = {}
          BY <1>3, <2>2 DEF FullOrEmpty, LinesOnce
        <4> QED BY <4>1, FS_EmptySet
      <3>3. \A q \in Orders : n[q] \in Int
        <4> HIDE DEF n
        <4> QED BY <3>1, <3>2
      <3> HIDE DEF n
      <3>4. SumFunctionOnSet(n, Orders) = SumFunctionOnSet(n, {o})
        BY <2>0, <3>2, <3>3, SumOfNonZero
      <3>5. SumFunctionOnSet(n, {o}) = 1
        BY <3>1, SumOfOne
      <3> QED BY <3>4, <3>5
    <2> QED BY <2>1, <2>2
  <1> QED BY <1>1, <1>2, <1>3, ReleaseInvariant, PTL DEF Spec
=============================================================================
