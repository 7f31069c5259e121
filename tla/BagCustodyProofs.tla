-------------------------- MODULE BagCustodyProofs --------------------------
(* Theorems about BagCustody, for any set of bags, orders and requests.    *)
EXTENDS BagCustody, FiniteLemmas

-----------------------------------------------------------------------------
(* Type correctness.                                                       *)

\* Which service method a request runs tells which record it holds.
LEMMA CallOfRequest ==
  ASSUME BagTypeOK, NEW r \in Requests, NEW step
  PROVE  /\ At(r, {"reserve"}, step) => call[r] \in ReserveCall
         /\ \A ops \in SUBSET {"release", "cancel", "expire"} :
               At(r, ops, step) => call[r] \in CloseCall
         /\ \A ops \in SUBSET {"transfer", "assign", "return"} :
               At(r, ops, step) => call[r] \in MoveCall
  BY DEF BagTypeOK, InventoryCall, At, ReserveCall, CloseCall, MoveCall

\* A request that begins, goes on or ends leaves the calls well typed.
LEMMA CallTypeKept ==
  ASSUME BagTypeOK, NEW r \in Requests
  PROVE  /\ Finish(r) => call' \in [Requests -> InventoryCall]
         /\ \A c \in InventoryCall :
               call' = [call EXCEPT ![r] = c] => call' \in [Requests -> InventoryCall]
         /\ call[r] \in ReserveCall /\ Continue(r, "mark") => call' \in [Requests -> InventoryCall]
         /\ \A step \in {"sum", "free"} :
               call[r] \in CloseCall /\ Continue(r, step) => call' \in [Requests -> InventoryCall]
  <1>1. Finish(r) => call' \in [Requests -> InventoryCall]
    BY DEF BagTypeOK, Finish, InventoryCall
  <1>2. ASSUME NEW c \in InventoryCall, call' = [call EXCEPT ![r] = c]
        PROVE  call' \in [Requests -> InventoryCall]
    BY <1>2 DEF BagTypeOK
  <1>3. ASSUME call[r] \in ReserveCall, Continue(r, "mark")
        PROVE  call' \in [Requests -> InventoryCall]
    <2>1. [call[r] EXCEPT !.next = "mark"] \in ReserveCall
      BY <1>3 DEF ReserveCall
    <2>2. call' = [call EXCEPT ![r] = [call[r] EXCEPT !.next = "mark"]]
      BY <1>3 DEF Continue
    <2> QED BY <2>1, <2>2 DEF BagTypeOK, InventoryCall
  <1>4. ASSUME NEW step \in {"sum", "free"}, call[r] \in CloseCall, Continue(r, step)
        PROVE  call' \in [Requests -> InventoryCall]
    <2>1. [call[r] EXCEPT !.next = step] \in CloseCall
      BY <1>4 DEF CloseCall
    <2>2. call' = [call EXCEPT ![r] = [call[r] EXCEPT !.next = step]]
      BY <1>4 DEF Continue
    <2> QED BY <2>1, <2>2 DEF BagTypeOK, InventoryCall
  <1> QED BY <1>1, <1>2, <1>3, <1>4

\* Writes of one bag and of one reservation.
LEMMA BagTypeKept ==
  ASSUME BagTypeOK, NEW b \in Bags
  PROVE  /\ \A s \in BagStatus : SetBagStatus(b, s) => bag' \in [Bags -> Bag]
         /\ \A w \in Warehouses \union {None}, o \in Orders \union {None}, s \in BagStatus :
               SetBagLocation(b, w, o, s) => bag' \in [Bags -> Bag]
  <1>1. ASSUME NEW s \in BagStatus, SetBagStatus(b, s) PROVE bag' \in [Bags -> Bag]
    <2>1. [bag[b] EXCEPT !.status = s] \in Bag
      BY DEF BagTypeOK, Bag
    <2>2. bag' = [bag EXCEPT ![b] = [bag[b] EXCEPT !.status = s]]
      BY <1>1 DEF SetBagStatus
    <2> QED BY <2>1, <2>2 DEF BagTypeOK
  <1>2. ASSUME NEW w \in Warehouses \union {None}, NEW o \in Orders \union {None},
               NEW s \in BagStatus, SetBagLocation(b, w, o, s)
        PROVE  bag' \in [Bags -> Bag]
    BY <1>2 DEF SetBagLocation, BagTypeOK, Bag
  <1> QED BY <1>1, <1>2

LEMMA ReservationTypeKept ==
  ASSUME BagTypeOK, NEW k \in Bags \X Orders, NEW s \in {"ACTIVE", "RELEASED", "CANCELLED"},
         resv' = [resv EXCEPT ![k].status = s]
  PROVE  resv' \in [Bags \X Orders -> Reservation]
  <1>1. [resv[k] EXCEPT !.status = s] \in Reservation
    BY DEF BagTypeOK, Reservation
  <1>2. resv' = [resv EXCEPT ![k] = [resv[k] EXCEPT !.status = s]]
    OBVIOUS
  <1> QED BY <1>1, <1>2 DEF BagTypeOK

LEMMA BagTypeInit == ASSUME BagInit PROVE BagTypeOK
  <1>1. PICK w \in [Bags -> Warehouses] :
            bag = [b \in Bags |-> [status |-> "RECEIVED", wh |-> w[b], order |-> None]]
    BY DEF BagInit
  <1>2. bag \in [Bags -> Bag]
    BY <1>1 DEF Bag, BagStatus
  <1>3. resv \in [Bags \X Orders -> Reservation]
    BY DEF BagInit, NoReservation, Reservation
  <1>4. call \in [Requests -> InventoryCall]
    BY DEF BagInit, InventoryCall
  <1> QED BY <1>2, <1>3, <1>4 DEF BagTypeOK

LEMMA BagTypeStep ==
  ASSUME BagTypeOK, [BagNext]_bagVars
  PROVE  BagTypeOK'
  <1> DEFINE BagT == bag' \in [Bags -> Bag]
             ResvT == resv' \in [Bags \X Orders -> Reservation]
             CallT == call' \in [Requests -> InventoryCall]
  <1>0. BagT /\ ResvT /\ CallT => BagTypeOK'
    BY DEF BagTypeOK
  <1>u. /\ UNCHANGED bag => BagT
        /\ UNCHANGED resv => ResvT
        /\ UNCHANGED call => CallT
    BY DEF BagTypeOK
  <1>s. {"RECEIVED", "AVAILABLE", "RESERVED", "RELEASED", "IN_WIP", "RETURNED"} \subseteq BagStatus
    BY DEF BagStatus
  <1>1. CASE UNCHANGED bagVars
    BY <1>1, <1>0, <1>u DEF bagVars
  <1>2. ASSUME NEW r \in Requests, NEW b \in Bags, NEW o \in Orders, NEW d \in Amounts,
               ReserveCheck(r, b, o, d)
        PROVE  BagTypeOK'
    <2>1. [op |-> "reserve", next |-> "create", bag |-> b, order |-> o, dozens |-> d]
              \in InventoryCall
      BY DEF ReserveCall, InventoryCall
    <2> QED BY <1>2, <2>1, <1>0, <1>u, CallTypeKept DEF ReserveCheck
  <1>3. ASSUME NEW r \in Requests, ReserveCreate(r) PROVE BagTypeOK'
    <2>1. call[r] \in ReserveCall
      BY <1>3, CallOfRequest DEF ReserveCreate
    <2>2. CallT
      BY <1>3, <2>1, CallTypeKept DEF ReserveCreate
    <2>3. [status |-> "ACTIVE", dozens |-> call[r].dozens] \in Reservation
      BY <2>1, BagConstants DEF ReserveCall, Reservation, BagConstants
    <2>4. ResvT
      BY <1>3, <2>3 DEF ReserveCreate, BagTypeOK
    <2> QED BY <1>3, <2>2, <2>4, <1>0, <1>u DEF ReserveCreate
  <1>4. ASSUME NEW r \in Requests, ReserveMark(r) PROVE BagTypeOK'
    <2>1. call[r].bag \in Bags
      BY <1>4, CallOfRequest DEF ReserveMark, ReserveCall
    <2>2. BagT
      BY <1>4, <2>1, <1>s, BagTypeKept DEF ReserveMark
    <2> QED BY <1>4, <2>2, <1>0, <1>u, CallTypeKept DEF ReserveMark
  <1>5. ASSUME NEW r \in Requests, NEW op \in {"release", "cancel", "expire"},
               NEW b \in Bags, NEW o \in Orders, CloseCheck(r, op, b, o)
        PROVE  BagTypeOK'
    <2>1. [op |-> op, next |-> "close", bag |-> b, order |-> o] \in InventoryCall
      BY DEF CloseCall, InventoryCall
    <2> QED BY <1>5, <2>1, <1>0, <1>u, CallTypeKept DEF CloseCheck
  <1>6. ASSUME NEW r \in Requests, CloseWrite(r) \/ ExpireWrite(r) PROVE BagTypeOK'
    <2>1. call[r] \in CloseCall
      BY <1>6, CallOfRequest DEF CloseWrite, ExpireWrite
    <2>2. <<call[r].bag, call[r].order>> \in Bags \X Orders
      BY <2>1 DEF CloseCall
    <2>3. ClosedStatus(call[r].op) \in {"ACTIVE", "RELEASED", "CANCELLED"}
      BY DEF ClosedStatus
    <2>4. ResvT
      BY <1>6, <2>2, <2>3, ReservationTypeKept DEF CloseWrite, ExpireWrite
    <2>5. CallT
      BY <1>6, <2>1, CallTypeKept DEF CloseWrite, ExpireWrite
    <2> QED BY <1>6, <2>4, <2>5, <1>0, <1>u DEF CloseWrite, ExpireWrite
  <1>7. ASSUME NEW r \in Requests, CloseSum(r) PROVE BagTypeOK'
    <2>1. call[r] \in CloseCall
      BY <1>7, CallOfRequest DEF CloseSum
    <2>2. CallT
      BY <1>7, <2>1, CallTypeKept DEF CloseSum
    <2> QED BY <1>7, <2>2, <1>0, <1>u DEF CloseSum
  <1>8. ASSUME NEW r \in Requests, CloseFree(r) PROVE BagTypeOK'
    <2>1. call[r].bag \in Bags
      BY <1>8, CallOfRequest DEF CloseFree, CloseCall
    <2>2. BagT
      BY <1>8, <2>1, <1>s, BagTypeKept DEF CloseFree
    <2> QED BY <1>8, <2>2, <1>0, <1>u, CallTypeKept DEF CloseFree
  <1>9. ASSUME NEW r \in Requests, NEW b \in Bags, NEW w \in Warehouses,
               TransferCheck(r, b, w) \/ ReturnCheck(r, b, w)
        PROVE  BagTypeOK'
    <2>1. ASSUME TransferCheck(r, b, w)
          PROVE  [op |-> "transfer", next |-> "commit", bag |-> b, to |-> w] \in InventoryCall
      BY <2>1 DEF TransferCheck, MoveCall, InventoryCall
    <2>2. [op |-> "return", next |-> "commit", bag |-> b, to |-> w] \in InventoryCall
      BY DEF MoveCall, InventoryCall
    <2> QED BY <1>9, <2>1, <2>2, <1>0, <1>u, CallTypeKept DEF TransferCheck, ReturnCheck, Move
  <1>10. ASSUME NEW r \in Requests, NEW b \in Bags, NEW o \in Orders, AssignCheck(r, b, o)
         PROVE  BagTypeOK'
    <2>1. [op |-> "assign", next |-> "commit", bag |-> b, to |-> o] \in InventoryCall
      BY DEF MoveCall, InventoryCall
    <2> QED BY <1>10, <2>1, <1>0, <1>u, CallTypeKept DEF AssignCheck, Move
  <1>11. ASSUME NEW r \in Requests, TransferCommit(r) \/ AssignCommit(r) \/ ReturnCommit(r)
         PROVE  BagTypeOK'
    <2>1. /\ call[r].bag \in Bags
          /\ TransferCommit(r) \/ ReturnCommit(r) => call[r].to \in Warehouses
          /\ AssignCommit(r) => call[r].to \in Orders
      BY <1>11, BagConstants
      DEF TransferCommit, AssignCommit, ReturnCommit, At, BagTypeOK, InventoryCall, ReserveCall,
          CloseCall, MoveCall, BagConstants
    <2>2. BagT
      BY <1>11, <2>1, <1>s, BagTypeKept DEF TransferCommit, AssignCommit, ReturnCommit
    <2> QED
      BY <1>11, <2>2, <1>0, <1>u, CallTypeKept DEF TransferCommit, AssignCommit, ReturnCommit
  <1>12. ASSUME NEW r \in Requests, Fail(r) PROVE BagTypeOK'
    BY <1>12, <1>0, <1>u, CallTypeKept DEF Fail
  <1> QED
    BY <1>1, <1>2, <1>3, <1>4, <1>5, <1>6, <1>7, <1>8, <1>9, <1>10, <1>11, <1>12 DEF BagNext, BagStep

\* The rows and the calls have the types BagCustody gives them.
THEOREM BagTypeCorrect == BagSpec => []BagTypeOK
  BY BagTypeInit, BagTypeStep, PTL DEF BagSpec

-----------------------------------------------------------------------------
(* One custodian.                                                          *)

\* Every write of a bag sets the three columns together or the status alone,
\* to a status that names no place; a movement knows the kind of place it
\* moves to, whatever it read about the place it moves from.
LEMMA OneCustodianStep ==
  ASSUME BagTypeOK, OneCustodian, [BagNext]_bagVars
  PROVE  OneCustodian'
  <1>1. None \notin Warehouses /\ None \notin Orders
    BY BagConstants DEF BagConstants
  <1>2. CASE UNCHANGED bag
    BY <1>2 DEF OneCustodian
  <1>3. ASSUME NEW r \in Requests, NEW s \in {"RESERVED", "RECEIVED"},
               SetBagStatus(call[r].bag, s)
        PROVE  OneCustodian'
    BY <1>3 DEF SetBagStatus, OneCustodian, BagTypeOK, Bag
  <1>4. ASSUME NEW r \in Requests, TransferCommit(r) \/ AssignCommit(r) \/ ReturnCommit(r)
        PROVE  OneCustodian'
    <2>1. /\ TransferCommit(r) \/ ReturnCommit(r) => call[r].to \in Warehouses
          /\ AssignCommit(r) => call[r].to \in Orders
      BY <1>4, BagConstants
      DEF TransferCommit, AssignCommit, ReturnCommit, At, BagTypeOK, InventoryCall, ReserveCall,
          CloseCall, MoveCall, BagConstants
    <2> QED
      BY <1>1, <1>4, <2>1
      DEF TransferCommit, AssignCommit, ReturnCommit, SetBagLocation, OneCustodian, BagTypeOK, Bag
  <1> QED
    BY <1>2, <1>3, <1>4
    DEF BagNext, BagStep, bagVars, ReserveCheck, ReserveCreate, ReserveMark, CloseCheck, CloseWrite,
        CloseSum, CloseFree, ExpireWrite, TransferCheck, AssignCheck, ReturnCheck, Move, Fail

\* A bag is in exactly one place, and its status agrees with the place.
THEOREM OneCustodianCorrect == BagSpec => []OneCustodian
  <1>1. BagInit => OneCustodian
    <2> SUFFICES ASSUME BagInit PROVE OneCustodian
      OBVIOUS
    <2>1. PICK w \in [Bags -> Warehouses] :
              bag = [b \in Bags |-> [status |-> "RECEIVED", wh |-> w[b], order |-> None]]
      BY DEF BagInit
    <2> QED BY <2>1, BagConstants DEF OneCustodian, BagConstants
  <1> QED BY <1>1, OneCustodianStep, BagTypeCorrect, PTL DEF BagSpec

-----------------------------------------------------------------------------
(* Closed reservations.                                                    *)

\* The only insert is guarded by the unique key at the moment it is made, and
\* every update writes a closed status.
LEMMA ClosedForGoodStep ==
  ASSUME BagTypeOK, [BagNext]_bagVars
  PROVE  \A k \in Bags \X Orders :
            /\ resv[k].status # "none" => /\ resv'[k].status # "none"
                                          /\ resv'[k].dozens = resv[k].dozens
            /\ resv[k].status \in {"RELEASED", "CANCELLED"} => resv'[k].status # "ACTIVE"
  <1> SUFFICES ASSUME NEW k \in Bags \X Orders
               PROVE  /\ resv[k].status # "none" => /\ resv'[k].status # "none"
                                                    /\ resv'[k].dozens = resv[k].dozens
                      /\ resv[k].status \in {"RELEASED", "CANCELLED"} => resv'[k].status # "ACTIVE"
    OBVIOUS
  <1>1. CASE UNCHANGED resv
    BY <1>1
  <1>2. ASSUME NEW r \in Requests, ReserveCreate(r), resv' # resv
        PROVE  resv[k].status # "none" => resv'[k] = resv[k]
    <2>1. resv[<<call[r].bag, call[r].order>>].status = "none"
      BY <1>2 DEF ReserveCreate, KeyIsFree
    <2>2. resv' = [resv EXCEPT ![<<call[r].bag, call[r].order>>] =
                                  [status |-> "ACTIVE", dozens |-> call[r].dozens]]
      BY <1>2 DEF ReserveCreate
    <2> QED BY <2>1, <2>2 DEF BagTypeOK
  <1>3. ASSUME NEW r \in Requests, CloseWrite(r) \/ ExpireWrite(r)
        PROVE  /\ resv'[k].dozens = resv[k].dozens
               /\ resv'[k].status \in {resv[k].status, "RELEASED", "CANCELLED"}
    <2>1. resv' = [resv EXCEPT ![<<call[r].bag, call[r].order>>].status = ClosedStatus(call[r].op)]
      BY <1>3 DEF CloseWrite, ExpireWrite
    <2>2. resv'[k] \in {resv[k], [resv[k] EXCEPT !.status = ClosedStatus(call[r].op)]}
      BY <2>1 DEF BagTypeOK
    <2>3. resv[k] \in Reservation
      BY DEF BagTypeOK
    <2> QED BY <2>2, <2>3 DEF Reservation, ClosedStatus
  <1> QED
    BY <1>1, <1>2, <1>3
    DEF BagNext, BagStep, bagVars, ReserveCheck, ReserveMark, CloseCheck, CloseSum, CloseFree,
        TransferCheck, TransferCommit, AssignCheck, AssignCommit, ReturnCheck, ReturnCommit,
        Move, Fail

\* A closed reservation is never reopened and never rewritten.
THEOREM ClosedForGoodCorrect == BagSpec => ClosedForGood
  BY ClosedForGoodStep, BagTypeCorrect, PTL DEF BagSpec, ClosedForGood

-----------------------------------------------------------------------------
(* Over-reservation.                                                       *)
(*                                                                         *)
(* Both sums of the bound are taken over all orders and over all requests, *)
(* a row that is not ACTIVE and a request that is not admitted counting    *)
(* nothing: a step then changes one term of each at most.                  *)

\* What order o holds of bag b, in the rows t of the reservations.
HeldBy(t, b) == [o \in Orders |-> IF t[<<b, o>>].status = "ACTIVE" THEN t[<<b, o>>].dozens ELSE 0]

\* What a request with the call c was admitted to reserve of bag b.
AdmittedTo(c, b) ==
    IF c # None /\ c.op \in {"reserve"} /\ c.next = "create" /\ c.bag = b THEN c.dozens ELSE 0

Claims(calls, b) == [r \in Requests |-> AdmittedTo(calls[r], b)]

\* What a call was admitted to reserve is a number of dozens.
LEMMA AdmittedType ==
  ASSUME NEW c \in InventoryCall, NEW b
  PROVE  AdmittedTo(c, b) \in Nat
  <1>1. c # None /\ c.op \in {"reserve"} => c \in ReserveCall
    <2>1. (c \in CloseCall => c.op # "reserve") /\ (c \in MoveCall => c.op # "reserve")
      BY DEF CloseCall, MoveCall
    <2> QED BY <2>1 DEF InventoryCall
  <1>2. c \in ReserveCall => c.dozens \in Nat
    BY BagConstants DEF ReserveCall
  <1> QED BY <1>1, <1>2 DEF AdmittedTo

\* The dozens of the ACTIVE rows are the sum of what every order holds.
LEMMA HeldAddsUp ==
  ASSUME NEW t, NEW b, \A o \in Orders : t[<<b, o>>].dozens \in Nat
  PROVE  SumFunctionOnSet([o \in Orders |-> t[<<b, o>>].dozens],
                          {o \in Orders : t[<<b, o>>].status = "ACTIVE"})
           = SumFunctionOnSet(HeldBy(t, b), Orders)
  <1> DEFINE f == [o \in Orders |-> t[<<b, o>>].dozens]
             h == HeldBy(t, b)
             A == {o \in Orders : t[<<b, o>>].status = "ACTIVE"}
  <1>1. IsFiniteSet(Orders) /\ A \in SUBSET Orders
    BY BagConstants
  <1>2. \A o \in A : f[o] = h[o]
    BY DEF HeldBy
  <1>3. (\A o \in Orders : h[o] \in Int) /\ \A o \in Orders \ A : h[o] = 0
    BY DEF HeldBy
  <1>4. SumFunctionOnSet(f, A) = SumFunctionOnSet(h, Orders)
    <2> HIDE DEF f, h, A
    <2> QED BY <1>1, <1>2, <1>3, SumOfSelected
  <1> QED BY <1>4

\* The same for the requests that are admitted.
LEMMA ClaimsAddUp ==
  ASSUME NEW calls, NEW b, NEW A \in SUBSET Requests,
         \A r \in A : AdmittedTo(calls[r], b) = calls[r].dozens,
         \A r \in Requests \ A : AdmittedTo(calls[r], b) = 0,
         \A r \in Requests : AdmittedTo(calls[r], b) \in Nat
  PROVE  SumFunctionOnSet([r \in A |-> calls[r].dozens], A) = SumFunctionOnSet(Claims(calls, b), Requests)
  <1> DEFINE f == [r \in A |-> calls[r].dozens]
             h == Claims(calls, b)
  <1>1. IsFiniteSet(Requests)
    BY BagConstants
  <1>2. \A r \in A : f[r] = h[r]
    BY DEF Claims
  <1>3. (\A r \in Requests : h[r] \in Int) /\ \A r \in Requests \ A : h[r] = 0
    BY DEF Claims
  <1>4. SumFunctionOnSet(f, A) = SumFunctionOnSet(h, Requests)
    <2> HIDE DEF f, h
    <2> QED BY <1>1, <1>2, <1>3, SumOfSelected
  <1> QED BY <1>4

\* An admitted request asks for no more than its bag holds.
AdmittedFits ==
    \A r \in Requests : At(r, {"reserve"}, "create") => call[r].dozens <= Dozens[call[r].bag]

Held(b) == SumFunctionOnSet(HeldBy(resv, b), Orders)
Claimed(b) == SumFunctionOnSet(Claims(call, b), Requests)

\* A claim is a number of dozens, and no more than the bag holds.
LEMMA ClaimBounds ==
  ASSUME BagTypeOK, NEW b \in Bags, NEW r \in Requests
  PROVE  /\ AdmittedTo(call[r], b) \in Nat
         /\ AdmittedFits => AdmittedTo(call[r], b) <= Dozens[b]
         /\ AdmittedTo(call[r], b) = IF r \in Admitted(b) THEN call[r].dozens ELSE 0
  <1>1. Dozens[b] \in Nat /\ Amounts \subseteq Nat
    BY BagConstants
  <1>2. At(r, {"reserve"}, "create") => call[r] \in ReserveCall
    BY CallOfRequest
  <1>3. At(r, {"reserve"}, "create") => call[r].dozens \in Nat
    BY <1>1, <1>2 DEF ReserveCall
  <1> QED BY <1>1, <1>3 DEF AdmittedTo, AdmittedFits, At, Admitted

\* Both sums are those of the bound.
LEMMA BoundedSums ==
  ASSUME BagTypeOK, NEW b \in Bags
  PROVE  /\ ActiveDozens(b) = Held(b) /\ Held(b) \in Nat
         /\ SumFunctionOnSet([r \in Admitted(b) |-> call[r].dozens], Admitted(b)) = Claimed(b)
         /\ Claimed(b) \in Nat
  <1>1. IsFiniteSet(Orders) /\ IsFiniteSet(Requests)
    BY BagConstants
  <1>2. \A o \in Orders : resv[<<b, o>>].dozens \in Nat
    BY DEF BagTypeOK, Reservation
  <1>3. ActiveDozens(b) = Held(b)
    BY <1>2, HeldAddsUp DEF ActiveDozens, Active, Held
  <1>4. \A o \in Orders : HeldBy(resv, b)[o] \in Nat
    BY <1>2 DEF HeldBy
  <1>5. Held(b) \in Nat
    BY <1>1, <1>4, SumNat DEF Held
  <1>6. SumFunctionOnSet([r \in Admitted(b) |-> call[r].dozens], Admitted(b)) = Claimed(b)
    <2>1. Admitted(b) \in SUBSET Requests
      BY DEF Admitted
    <2>2. /\ \A r \in Admitted(b) : AdmittedTo(call[r], b) = call[r].dozens
          /\ \A r \in Requests \ Admitted(b) : AdmittedTo(call[r], b) = 0
          /\ \A r \in Requests : AdmittedTo(call[r], b) \in Nat
      BY <2>1, ClaimBounds
    <2> QED BY <2>1, <2>2, ClaimsAddUp DEF Claimed
  <1>7. \A r \in Requests : Claims(call, b)[r] \in Nat
    BY ClaimBounds DEF Claims
  <1>8. Claimed(b) \in Nat
    BY <1>1, <1>7, SumNat DEF Claimed
  <1> QED BY <1>3, <1>5, <1>6, <1>8

\* A request changes its own call, and is admitted by its check alone.
LEMMA OnlyCheckAdmits ==
  ASSUME BagTypeOK, NEW r \in Requests, BagStep(r)
  PROVE  /\ \A q \in Requests \ {r} : call'[q] = call[q]
         /\ \/ \E b \in Bags, o \in Orders, d \in Amounts : ReserveCheck(r, b, o, d)
            \/ \A b \in Bags : AdmittedTo(call'[r], b) = 0
  <1>0. call \in [Requests -> InventoryCall]
    BY DEF BagTypeOK
  <1>f. Finish(r) => /\ \A q \in Requests \ {r} : call'[q] = call[q]
                     /\ \A b \in Bags : AdmittedTo(call'[r], b) = 0
    BY <1>0 DEF Finish, AdmittedTo
  <1>1. ASSUME NEW b \in Bags, NEW o \in Orders, NEW d \in Amounts, ReserveCheck(r, b, o, d)
        PROVE  \A q \in Requests \ {r} : call'[q] = call[q]
    BY <1>0, <1>1 DEF ReserveCheck
  <1>2. ASSUME NEW step \in {"mark", "sum", "free"}, call[r] # None, Continue(r, step)
        PROVE  /\ \A q \in Requests \ {r} : call'[q] = call[q]
               /\ \A b \in Bags : AdmittedTo(call'[r], b) = 0
    <2>1. call' = [call EXCEPT ![r] = [call[r] EXCEPT !.next = step]]
      BY <1>2 DEF Continue
    <2>2. call[r] \in ReserveCall \union CloseCall \union MoveCall
      BY <1>0, <1>2 DEF InventoryCall
    <2>3. call'[r].next # "create"
      BY <1>0, <2>1, <2>2 DEF ReserveCall, CloseCall, MoveCall
    <2> QED BY <1>0, <2>1, <2>3 DEF AdmittedTo
  <1>3. ASSUME NEW c, call' = [call EXCEPT ![r] = c], c.op \notin {"reserve"}
        PROVE  /\ \A q \in Requests \ {r} : call'[q] = call[q]
               /\ \A b \in Bags : AdmittedTo(call'[r], b) = 0
    BY <1>0, <1>3 DEF AdmittedTo
  <1>4. ASSUME NEW op \in {"release", "cancel", "expire"}, NEW b \in Bags, NEW o \in Orders,
               CloseCheck(r, op, b, o)
        PROVE  /\ \A q \in Requests \ {r} : call'[q] = call[q]
               /\ \A a \in Bags : AdmittedTo(call'[r], a) = 0
    <2>1. call' = [call EXCEPT ![r] = [op |-> op, next |-> "close", bag |-> b, order |-> o]]
      BY <1>4 DEF CloseCheck
    <2> QED BY <1>3, <2>1
  <1>5. ASSUME NEW op \in {"transfer", "assign", "return"}, NEW b \in Bags, NEW to, Move(r, op, b, to)
        PROVE  /\ \A q \in Requests \ {r} : call'[q] = call[q]
               /\ \A a \in Bags : AdmittedTo(call'[r], a) = 0
    <2>1. call' = [call EXCEPT ![r] = [op |-> op, next |-> "commit", bag |-> b, to |-> to]]
      BY <1>5 DEF Move
    <2> QED BY <1>3, <2>1
  <1> QED
    BY <1>f, <1>1, <1>2, <1>4, <1>5
    DEF BagStep, ReserveCreate, ReserveMark, CloseWrite, CloseSum, CloseFree, ExpireWrite,
        TransferCheck, TransferCommit, AssignCheck, AssignCommit, ReturnCheck, ReturnCommit, Fail, At

\* No write but the insert of an admitted request makes an order hold more.
LEMMA OnlyCreateHolds ==
  ASSUME BagTypeOK, NEW r \in Requests, BagStep(r)
  PROVE  \/ ReserveCreate(r) /\ resv' # resv
         \/ \A b \in Bags, o \in Orders :
               /\ resv'[<<b, o>>].dozens = resv[<<b, o>>].dozens
               /\ resv'[<<b, o>>].status = "ACTIVE" => resv[<<b, o>>].status = "ACTIVE"
  <1>1. ASSUME CloseWrite(r) \/ ExpireWrite(r), NEW b \in Bags, NEW o \in Orders
        PROVE  /\ resv'[<<b, o>>].dozens = resv[<<b, o>>].dozens
               /\ resv'[<<b, o>>].status = "ACTIVE" => resv[<<b, o>>].status = "ACTIVE"
    <2>1. resv' = [resv EXCEPT ![<<call[r].bag, call[r].order>>].status = ClosedStatus(call[r].op)]
      BY <1>1 DEF CloseWrite, ExpireWrite
    <2>2. resv[<<b, o>>] \in Reservation
      BY DEF BagTypeOK
    <2>3. resv'[<<b, o>>] \in {resv[<<b, o>>], [resv[<<b, o>>] EXCEPT !.status = ClosedStatus(call[r].op)]}
      BY <2>1 DEF BagTypeOK
    <2> QED BY <2>2, <2>3 DEF Reservation, ClosedStatus
  <1> QED
    BY <1>1
    DEF BagStep, ReserveCheck, ReserveCreate, ReserveMark, CloseCheck, CloseSum, CloseFree,
        TransferCheck, TransferCommit, AssignCheck, AssignCommit, ReturnCheck, ReturnCommit, Move, Fail

\* Where no order holds more and no request claims more, the sums do not grow.
LEMMA NothingGained ==
  ASSUME BagTypeOK, BagTypeOK', NEW b \in Bags
  PROVE  /\ (\A o \in Orders : HeldBy(resv', b)[o] <= HeldBy(resv, b)[o]) => Held(b)' <= Held(b)
         /\ (\A r \in Requests : AdmittedTo(call'[r], b) <= AdmittedTo(call[r], b))
               => Claimed(b)' <= Claimed(b)
  <1>1. IsFiniteSet(Orders) /\ IsFiniteSet(Requests)
    BY BagConstants
  <1>2. \A o \in Orders : HeldBy(resv, b)[o] \in Int /\ HeldBy(resv', b)[o] \in Int
    BY DEF HeldBy, BagTypeOK, Reservation
  <1>3. \A r \in Requests : AdmittedTo(call[r], b) \in Int /\ AdmittedTo(call'[r], b) \in Int
    BY AdmittedType DEF BagTypeOK
  <1>4. ASSUME \A o \in Orders : HeldBy(resv', b)[o] <= HeldBy(resv, b)[o]
        PROVE  Held(b)' <= Held(b)
    BY <1>1, <1>2, <1>4, SumMonotone DEF Held
  <1>5. ASSUME \A r \in Requests : AdmittedTo(call'[r], b) <= AdmittedTo(call[r], b)
        PROVE  Claimed(b)' <= Claimed(b)
    <2>1. \A r \in Requests : /\ Claims(call, b)[r] = AdmittedTo(call[r], b)
                              /\ Claims(call', b)[r] = AdmittedTo(call'[r], b)
      BY DEF Claims
    <2> QED BY <1>1, <1>3, <1>5, <2>1, SumMonotone DEF Claimed
  <1> QED BY <1>4, <1>5

\* The sums and the bound are numbers before and after a step.
LEMMA SumsAreNumbers ==
  ASSUME NEW b \in Bags
  PROVE  /\ Cardinality(Requests) * Dozens[b] \in Nat
         /\ BagTypeOK => Held(b) \in Int /\ Claimed(b) \in Int
         /\ BagTypeOK' => Held(b)' \in Int /\ Claimed(b)' \in Int
  <1>0. IsFiniteSet(Orders) /\ IsFiniteSet(Requests) /\ Dozens[b] \in Nat
    BY BagConstants
  <1>1. Cardinality(Requests) \in Nat
    BY <1>0, FS_CardinalityType
  <1>2. Cardinality(Requests) * Dozens[b] \in Nat
    BY <1>0, <1>1
  <1>3. ASSUME NEW t \in [Bags \X Orders -> Reservation]
        PROVE  SumFunctionOnSet(HeldBy(t, b), Orders) \in Int
    <2>1. \A o \in Orders : HeldBy(t, b)[o] \in Int
      BY <1>3 DEF HeldBy, Reservation
    <2> QED BY <1>0, <2>1, SumInt
  <1>4. ASSUME NEW calls \in [Requests -> InventoryCall]
        PROVE  SumFunctionOnSet(Claims(calls, b), Requests) \in Int
    <2>1. \A r \in Requests : Claims(calls, b)[r] \in Int
      BY <1>4, AdmittedType DEF Claims
    <2> QED BY <1>0, <2>1, SumInt
  <1> QED BY <1>2, <1>3, <1>4 DEF BagTypeOK, Held, Claimed

\* The sums stay within the bound, and what was admitted fits, whatever step
\* is made: a check leaves the claims of the others, of which there is one
\* less, and an insert turns a claim into a row.
BoundInv == AdmittedFits /\ \A b \in Bags : Held(b) + Claimed(b) <= Cardinality(Requests) * Dozens[b]

LEMMA CheckKeepsBound ==
  ASSUME BagTypeOK, BagTypeOK', BoundInv,
         NEW r \in Requests, NEW b \in Bags, NEW o \in Orders, NEW d \in Amounts, ReserveCheck(r, b, o, d)
  PROVE  /\ d <= Dozens[b]
         /\ Held(b)' + Claimed(b)' <= Cardinality(Requests) * Dozens[b]
  <1>0. IsFiniteSet(Requests) /\ Dozens[b] \in Nat /\ d \in Nat
    BY BagConstants
  <1>1. Held(b) \in Nat /\ d <= Dozens[b] - Held(b)
    BY BoundedSums DEF ReserveCheck, Fits
  <1>2. d <= Dozens[b] /\ d + Held(b) <= Dozens[b]
    BY <1>0, <1>1
  <1>3. Held(b)' = Held(b)
    BY DEF ReserveCheck, Held
  <1> DEFINE c == Claims(call', b)
             rest == Requests \ {r}
  <1>4. c[r] \in {0, d}
    <2>1. call'[r] = [op |-> "reserve", next |-> "create", bag |-> b, order |-> o, dozens |-> d]
      BY DEF ReserveCheck, BagTypeOK
    <2> QED BY <2>1 DEF Claims, AdmittedTo
  <1>5. \A q \in rest : c[q] \in Int /\ c[q] <= Dozens[b]
    <2>1. \A q \in rest : call'[q] = call[q]
      BY DEF ReserveCheck, BagTypeOK
    <2>2. \A q \in rest : c[q] = AdmittedTo(call[q], b)
      BY <2>1 DEF Claims
    <2> HIDE DEF c
    <2> QED BY <2>2, ClaimBounds DEF BoundInv
  <1> HIDE DEF c
  <1>6. IsFiniteSet(rest)
    BY <1>0, FS_RemoveElement
  <1>7. SumFunctionOnSet(c, rest) <= Cardinality(rest) * Dozens[b]
    BY <1>0, <1>5, <1>6, SumBounded
  <1>8. \A q \in Requests : c[q] \in Int
    BY <1>0, <1>4, <1>5
  <1>9. SumFunctionOnSet(c, Requests) = c[r] + SumFunctionOnSet(c, rest) /\ SumFunctionOnSet(c, rest) \in Int
    BY <1>0, <1>8, SumTakeOut
  <1>10. Claimed(b)' = c[r] + SumFunctionOnSet(c, rest)
    BY <1>9 DEF c, Claimed
  <1>11. PICK n \in Nat, m \in Int, s \in Int :
            /\ n = Cardinality(rest) * Dozens[b] /\ m = Cardinality(Requests) * Dozens[b]
            /\ s = SumFunctionOnSet(c, rest) /\ m = n + Dozens[b]
    <2>1. Cardinality(rest) \in Nat /\ Cardinality(Requests) * Dozens[b] = Cardinality(rest) * Dozens[b] + Dozens[b]
      BY <1>0, OneElementMore
    <2>2. Cardinality(rest) * Dozens[b] \in Nat
      BY <1>0, <2>1
    <2> QED BY <1>0, <1>9, <2>1, <2>2
  <1>12. Held(b)' + Claimed(b)' = Held(b) + (c[r] + s) /\ s <= n
    BY <1>3, <1>7, <1>10, <1>11
  <1> QED BY <1>0, <1>1, <1>2, <1>4, <1>11, <1>12

LEMMA CreateKeepsBound ==
  ASSUME BagTypeOK, BagTypeOK', NEW r \in Requests, ReserveCreate(r), resv' # resv, NEW b \in Bags
  PROVE  Held(b)' + Claimed(b)' = Held(b) + Claimed(b)
  <1>0. IsFiniteSet(Orders) /\ IsFiniteSet(Requests)
    BY BagConstants
  <1>1. call[r] \in ReserveCall /\ call[r] # None /\ call[r].next = "create" /\ call[r].op = "reserve"
    BY CallOfRequest DEF ReserveCreate, At
  <1>2. PICK a \in Bags, o \in Orders, d \in Nat : a = call[r].bag /\ o = call[r].order /\ d = call[r].dozens
    BY <1>1, BagConstants DEF ReserveCall
  <1>3. /\ resv[<<a, o>>].status = "none"
        /\ resv' = [resv EXCEPT ![<<a, o>>] = [status |-> "ACTIVE", dozens |-> d]]
        /\ Continue(r, "mark")
    BY <1>2 DEF ReserveCreate, KeyIsFree
  <1>4. /\ \A k \in Bags \X Orders : k # <<a, o>> => resv'[k] = resv[k]
        /\ resv'[<<a, o>>].status = "ACTIVE" /\ resv'[<<a, o>>].dozens = d
    BY <1>3 DEF BagTypeOK
  <1>5. /\ \A q \in Requests \ {r} : call'[q] = call[q]
        /\ \A x \in Bags : AdmittedTo(call'[r], x) = 0
    BY <1>1, OnlyCheckAdmits DEF BagStep, ReserveCheck, Idle
  <1>6. CASE b # a
    <2>1. HeldBy(resv', b) = HeldBy(resv, b)
      BY <1>4, <1>6 DEF HeldBy
    <2>2. AdmittedTo(call'[r], b) = AdmittedTo(call[r], b)
      BY <1>2, <1>5, <1>6 DEF AdmittedTo
    <2>3. Claims(call', b) = Claims(call, b)
      BY <1>5, <2>2 DEF Claims
    <2> QED BY <2>1, <2>3 DEF Held, Claimed
  <1>7. CASE b = a
    <2> DEFINE h == HeldBy(resv, b)
               k == HeldBy(resv', b)
               c == Claims(call, b)
               e == Claims(call', b)
    <2>1. h[o] = 0 /\ k[o] = d /\ \A q \in Orders \ {o} : h[q] = k[q]
      <3>1. \A q \in Orders \ {o} : resv'[<<b, q>>] = resv[<<b, q>>]
        BY <1>4, <1>7
      <3> QED BY <1>3, <1>4, <1>7, <3>1 DEF HeldBy
    <2>2. c[r] = d /\ e[r] = 0 /\ \A q \in Requests \ {r} : c[q] = e[q]
      BY <1>1, <1>2, <1>5, <1>7 DEF Claims, AdmittedTo
    <2>3. \A q \in Orders : h[q] \in Int /\ k[q] \in Int
      BY DEF HeldBy, BagTypeOK, Reservation
    <2>4. \A q \in Requests : c[q] \in Int /\ e[q] \in Int
      <3>1. \A q \in Requests : c[q] \in Int
        BY ClaimBounds DEF Claims
      <3> HIDE DEF c, e
      <3> QED BY <2>2, <3>1
    <2>5. Held(b) = SumFunctionOnSet(h, Orders) /\ Held(b)' = SumFunctionOnSet(k, Orders)
      BY DEF Held
    <2>6. Claimed(b) = SumFunctionOnSet(c, Requests) /\ Claimed(b)' = SumFunctionOnSet(e, Requests)
      BY DEF Claimed
    <2> HIDE DEF h, k, c, e
    <2>7. SumFunctionOnSet(k, Orders) = SumFunctionOnSet(h, Orders) - 0 + d
      BY <1>0, <2>1, <2>3, SumChange
    <2>8. SumFunctionOnSet(e, Requests) = SumFunctionOnSet(c, Requests) - d + 0
      BY <1>0, <2>2, <2>4, SumChange
    <2>9. Held(b) \in Nat /\ Claimed(b) \in Nat
      BY BoundedSums
    <2> QED BY <2>5, <2>6, <2>7, <2>8, <2>9
  <1> QED BY <1>6, <1>7

\* Nothing but a check for the bag takes more of it.
LEMMA OnlyCheckClaims ==
  ASSUME BagTypeOK, BagTypeOK', NEW r \in Requests, BagStep(r), NEW b \in Bags,
         \A o \in Orders, d \in Amounts : ~ReserveCheck(r, b, o, d)
  PROVE  Held(b)' + Claimed(b)' <= Held(b) + Claimed(b)
  <1>0. Held(b) \in Nat /\ Claimed(b) \in Nat
    BY BoundedSums
  <1>1. CASE ReserveCreate(r) /\ resv' # resv
    BY <1>0, <1>1, CreateKeepsBound
  <1>2. CASE ~(ReserveCreate(r) /\ resv' # resv)
    <2>1. \A o \in Orders : HeldBy(resv', b)[o] <= HeldBy(resv, b)[o]
      <3>1. \A o \in Orders : /\ resv'[<<b, o>>].dozens = resv[<<b, o>>].dozens
                              /\ resv'[<<b, o>>].status = "ACTIVE" => resv[<<b, o>>].status = "ACTIVE"
        BY <1>2, OnlyCreateHolds
      <3>2. \A o \in Orders : resv[<<b, o>>].dozens \in Nat
        BY DEF BagTypeOK, Reservation
      <3> QED BY <3>1, <3>2 DEF HeldBy
    <2>2. AdmittedTo(call'[r], b) = 0 /\ \A q \in Requests \ {r} : call'[q] = call[q]
      <3>1. ASSUME NEW a \in Bags, NEW o \in Orders, NEW d \in Amounts, ReserveCheck(r, a, o, d)
            PROVE  AdmittedTo(call'[r], b) = 0
        <4>1. call'[r].bag = a
          BY <3>1 DEF ReserveCheck, BagTypeOK
        <4>2. a # b
          BY <3>1
        <4> QED BY <4>1, <4>2 DEF AdmittedTo
      <3> QED BY <3>1, OnlyCheckAdmits
    <2>3. \A q \in Requests : AdmittedTo(call'[q], b) <= AdmittedTo(call[q], b)
      <3>1. \A q \in Requests : AdmittedTo(call[q], b) \in Nat
        BY ClaimBounds
      <3> QED BY <2>2, <3>1
    <2>4. Held(b)' <= Held(b) /\ Claimed(b)' <= Claimed(b)
      BY <2>1, <2>3, NothingGained
    <2>5. Held(b)' \in Int /\ Claimed(b)' \in Int
      BY SumsAreNumbers
    <2> QED BY <1>0, <2>4, <2>5
  <1> QED BY <1>1, <1>2

LEMMA BoundStep ==
  ASSUME BagTypeOK, BagTypeOK', BoundInv, [BagNext]_bagVars
  PROVE  BoundInv'
  <1>0. \A b \in Bags : /\ Held(b) \in Nat /\ Claimed(b) \in Nat
                        /\ Held(b) + Claimed(b) <= Cardinality(Requests) * Dozens[b]
    BY BoundedSums DEF BoundInv
  <1>1. CASE UNCHANGED bagVars
    BY <1>1 DEF BoundInv, bagVars, AdmittedFits, At, Held, Claimed
  <1>2. ASSUME NEW r \in Requests, BagStep(r) PROVE BoundInv'
    <2>1. ASSUME NEW b \in Bags, NEW o \in Orders, NEW d \in Amounts, ReserveCheck(r, b, o, d)
          PROVE  BoundInv'
      <3>1. d <= Dozens[b] /\ Held(b)' + Claimed(b)' <= Cardinality(Requests) * Dozens[b]
        BY <2>1, CheckKeepsBound
      <3>2. call'[r].bag = b /\ call'[r].dozens = d /\ \A q \in Requests \ {r} : call'[q] = call[q]
        BY <2>1 DEF ReserveCheck, BagTypeOK
      <3>3. AdmittedFits'
        BY <3>1, <3>2 DEF BoundInv, AdmittedFits, At
      <3>4. ASSUME NEW a \in Bags, a # b PROVE Held(a)' = Held(a) /\ Claimed(a)' = Claimed(a)
        <4>1. AdmittedTo(call'[r], a) = 0 /\ AdmittedTo(call[r], a) = 0
          BY <2>1, <3>2, <3>4 DEF AdmittedTo, ReserveCheck, Idle
        <4>2. Claims(call', a) = Claims(call, a)
          BY <3>2, <4>1 DEF Claims
        <4> QED BY <2>1, <4>2 DEF Held, Claimed, ReserveCheck
      <3> QED BY <3>1, <3>3, <3>4 DEF BoundInv
    <2>2. ASSUME \A b \in Bags, o \in Orders, d \in Amounts : ~ReserveCheck(r, b, o, d)
          PROVE  BoundInv'
      <3>1. /\ \A q \in Requests \ {r} : call'[q] = call[q]
            /\ \A b \in Bags : AdmittedTo(call'[r], b) = 0
        BY <1>2, <2>2, OnlyCheckAdmits
      <3>2. AdmittedFits'
        <4>1. ASSUME At(r, {"reserve"}, "create")' PROVE call'[r].dozens = 0 /\ call'[r].bag \in Bags
          <5>1. call'[r] \in ReserveCall
            <6>1. call'[r] \in InventoryCall
              BY DEF BagTypeOK
            <6> QED BY <4>1, <6>1 DEF At, InventoryCall, CloseCall, MoveCall
          <5>2. call'[r].bag \in Bags
            BY <5>1 DEF ReserveCall
          <5> QED BY <3>1, <4>1, <5>2 DEF AdmittedTo, At
        <4> QED BY <3>1, <4>1, BagConstants DEF BoundInv, AdmittedFits, At
      <3>3. ASSUME NEW b \in Bags PROVE Held(b)' + Claimed(b)' <= Held(b) + Claimed(b)
        BY <1>2, <2>2, OnlyCheckClaims
      <3>4. \A b \in Bags : /\ Held(b)' \in Int /\ Claimed(b)' \in Int
                            /\ Cardinality(Requests) * Dozens[b] \in Int
        BY SumsAreNumbers
      <3> QED BY <1>0, <3>2, <3>3, <3>4 DEF BoundInv
    <2> QED BY <2>1, <2>2
  <1> QED BY <1>1, <1>2 DEF BagNext

\* However many requests are admitted on old reads, a bag is never reserved
\* for more than its dozens times the number of concurrent requests.
THEOREM OverReservationBoundedCorrect == BagSpec => []OverReservationBounded
  <1>1. BagInit => BoundInv
    <2> SUFFICES ASSUME BagInit PROVE BoundInv
      OBVIOUS
    <2>1. BagTypeOK
      BY BagTypeInit
    <2>2. ASSUME NEW b \in Bags PROVE Held(b) = 0 /\ Claimed(b) = 0
      <3>1. IsFiniteSet(Orders) /\ IsFiniteSet(Requests)
        BY BagConstants
      <3>2. (\A o \in Orders : HeldBy(resv, b)[o] = 0) /\ \A r \in Requests : Claims(call, b)[r] = 0
        BY DEF BagInit, NoReservation, HeldBy, Claims, AdmittedTo
      <3> QED BY <3>1, <3>2, SumOfZeros DEF Held, Claimed
    <2>3. \A b \in Bags : 0 <= Cardinality(Requests) * Dozens[b]
      BY SumsAreNumbers
    <2> QED BY <2>2, <2>3 DEF BoundInv, AdmittedFits, At, BagInit
  <1>2. BagTypeOK /\ BoundInv => OverReservationBounded
    BY BoundedSums DEF OverReservationBounded, BoundInv
  <1>3. BagTypeOK /\ [BagNext]_bagVars => BagTypeOK'
    BY BagTypeStep
  <1> QED BY <1>1, <1>2, <1>3, BagTypeInit, BoundStep, PTL DEF BagSpec

-----------------------------------------------------------------------------
(* What a request keeps that runs alone.                                   *)

OthersIdle(r) == \A q \in Requests \ {r} : Idle(q)

\* What was reserved and what is about to be fit in the bag.
NothingOver == \A b \in Bags : Held(b) + Claimed(b) <= Dozens[b]

LEMMA NothingOverAlone ==
  ASSUME BagTypeOK, BagTypeOK', NothingOver, NEW r \in Requests, BagStep(r), OthersIdle(r)
  PROVE  NothingOver'
  <1> SUFFICES ASSUME NEW b \in Bags PROVE Held(b)' + Claimed(b)' <= Dozens[b]
    BY DEF NothingOver
  <1>0. /\ Held(b) \in Nat /\ Claimed(b) \in Nat /\ Held(b)' \in Int /\ Claimed(b)' \in Int
        /\ Dozens[b] \in Nat /\ Amounts \subseteq Nat
    BY BoundedSums, SumsAreNumbers, BagConstants
  <1>1. ASSUME NEW o \in Orders, NEW d \in Amounts, ReserveCheck(r, b, o, d)
        PROVE  Held(b)' + Claimed(b)' <= Dozens[b]
    <2>1. Held(b)' = Held(b) /\ d <= Dozens[b] - Held(b)
      BY <1>1, BoundedSums DEF ReserveCheck, Fits, Held
    <2> DEFINE c == Claims(call', b)
    <2>2. c[r] \in {0, d} /\ \A q \in Requests \ {r} : c[q] = 0
      <3>1. call'[r] = [op |-> "reserve", next |-> "create", bag |-> b, order |-> o, dozens |-> d]
        BY <1>1 DEF ReserveCheck, BagTypeOK
      <3>2. \A q \in Requests \ {r} : call'[q] = None
        BY <1>1 DEF ReserveCheck, BagTypeOK, OthersIdle, Idle
      <3> QED BY <3>1, <3>2 DEF Claims, AdmittedTo
    <2>3. Claimed(b)' = SumFunctionOnSet(c, Requests)
      BY DEF Claimed
    <2> HIDE DEF c
    <2>4. IsFiniteSet(Requests) /\ \A q \in Requests : c[q] \in Int
      BY <1>0, <2>2, BagConstants
    <2>5. SumFunctionOnSet(c, Requests) = SumFunctionOnSet(c, {r})
      BY <2>2, <2>4, SumOfNonZero
    <2>6. SumFunctionOnSet(c, {r}) = c[r]
      BY <2>4, SumOfOne
    <2> QED BY <1>0, <2>1, <2>2, <2>3, <2>5, <2>6
  <1>2. CASE \A o \in Orders, d \in Amounts : ~ReserveCheck(r, b, o, d)
    <2>1. Held(b)' + Claimed(b)' <= Held(b) + Claimed(b)
      BY <1>2, OnlyCheckClaims
    <2> QED BY <1>0, <2>1 DEF NothingOver
  <1> QED BY <1>1, <1>2

\* Between requests no reserved bag is RECEIVED: a reserve leaves it so until
\* its mark, and a close gives it back with nothing reserved.
GivenBackRightly ==
    /\ \A b \in Bags : Active(b) # {} /\ bag[b].status = "RECEIVED" =>
          \E r \in Requests : At(r, {"reserve"}, "mark") /\ call[r].bag = b
    /\ \A r \in Requests : At(r, {"release", "cancel"}, "free") => Active(call[r].bag) = {}

LEMMA GivenBackAlone ==
  ASSUME BagTypeOK, BagTypeOK', GivenBackRightly,
         NEW r \in Requests, BagStep(r), OthersIdle(r), r \notin MayFail
  PROVE  GivenBackRightly'
  <1> DEFINE Quiet == \A b \in Bags : bag[b].status = "RECEIVED" => Active(b) = {}
  <1>0. call \in [Requests -> InventoryCall] /\ bag \in [Bags -> Bag]
    BY DEF BagTypeOK
  <1>1. ASSUME ~At(r, {"reserve"}, "mark") PROVE Quiet
    BY <1>1 DEF GivenBackRightly, OthersIdle, Idle, At
  <1>2. \A q \in Requests \ {r} : call'[q] = None
    BY OnlyCheckAdmits DEF OthersIdle, Idle
  <1>3. ASSUME ~(ReserveCreate(r) /\ resv' # resv), Quiet,
               \A b \in Bags : bag'[b].status = "RECEIVED" => bag[b].status = "RECEIVED" \/ Active(b) = {}
        PROVE  Quiet'
    <2>1. \A b \in Bags : Active(b)' \subseteq Active(b)
      BY <1>3, OnlyCreateHolds DEF Active
    <2> QED BY <1>3, <2>1
  <1>s. ASSUME UNCHANGED <<bag, resv>>, Quiet PROVE Quiet'
    BY <1>s DEF Active
  <1>4. ASSUME Quiet', ~At(r, {"release", "cancel"}, "free")' PROVE GivenBackRightly'
    BY <1>2, <1>4 DEF GivenBackRightly, At
  <1>f. Finish(r) => ~At(r, {"release", "cancel"}, "free")'
    BY <1>0 DEF Finish, At
  <1>c. ASSUME call'[r].next # "free" PROVE ~At(r, {"release", "cancel"}, "free")'
    BY <1>c DEF At
  <1>5. ASSUME NEW b \in Bags, NEW o \in Orders, NEW d \in Amounts, ReserveCheck(r, b, o, d)
        PROVE  GivenBackRightly'
    <2>1. ~At(r, {"reserve"}, "mark") /\ UNCHANGED <<bag, resv>>
      BY <1>5 DEF ReserveCheck, Idle, At
    <2>2. call'[r].next = "create"
      BY <1>0, <1>5 DEF ReserveCheck
    <2> HIDE DEF Quiet
    <2> QED BY <1>1, <1>s, <1>4, <1>c, <2>1, <2>2
  <1>6. ASSUME ReserveCreate(r) PROVE GivenBackRightly'
    <2>1. call[r] \in ReserveCall /\ call[r] # None /\ call[r].next = "create"
      BY <1>6, CallOfRequest DEF ReserveCreate, At
    <2>2. Quiet
      BY <1>1, <2>1 DEF At
    <2>3. CASE resv' = resv
      <3>1. call'[r] = None \/ call'[r] = [call[r] EXCEPT !.next = "mark"]
        BY <1>0, <1>6 DEF ReserveCreate, Finish, Continue
      <3>2. ~At(r, {"release", "cancel"}, "free")'
        BY <2>1, <3>1 DEF At, ReserveCall
      <3>3. Quiet'
        BY <1>6, <2>2, <2>3 DEF ReserveCreate, Active
      <3> HIDE DEF Quiet
      <3> QED BY <1>4, <3>2, <3>3
    <2>4. CASE resv' # resv
      <3>1. PICK a \in Bags, o \in Orders : a = call[r].bag /\ o = call[r].order
        BY <2>1 DEF ReserveCall
      <3>2. /\ resv' = [resv EXCEPT ![<<a, o>>] = [status |-> "ACTIVE", dozens |-> call[r].dozens]]
            /\ Continue(r, "mark") /\ UNCHANGED bag
        BY <1>6, <2>4, <3>1 DEF ReserveCreate
      <3>3. call'[r] = [call[r] EXCEPT !.next = "mark"]
        BY <1>0, <3>2 DEF Continue
      <3>4. call'[r].op = "reserve" /\ call'[r].next = "mark" /\ call'[r].bag = a
        BY <2>1, <3>1, <3>3 DEF ReserveCall
      <3>5. \A b \in Bags \ {a} : Active(b)' = Active(b)
        BY <3>2 DEF Active, BagTypeOK
      <3>6. call'[r] # None
        <4>1. call'[r] \in ReserveCall
          BY <2>1, <3>3 DEF ReserveCall
        <4> QED BY <4>1, AnsweredIsNoCall
      <3> QED BY <1>2, <2>2, <3>2, <3>4, <3>5, <3>6 DEF GivenBackRightly, At
    <2> QED BY <2>3, <2>4
  <1>7. ASSUME ReserveMark(r) PROVE GivenBackRightly'
    <2>1. call[r] \in ReserveCall /\ At(r, {"reserve"}, "mark")
      BY <1>7, CallOfRequest DEF ReserveMark
    <2>2. PICK a \in Bags : a = call[r].bag
      BY <2>1 DEF ReserveCall
    <2>3. bag' = [bag EXCEPT ![a].status = "RESERVED"] /\ UNCHANGED resv /\ Finish(r)
      BY <1>7, <2>2 DEF ReserveMark, SetBagStatus
    <2>4. ASSUME NEW b \in Bags, bag'[b].status = "RECEIVED" PROVE Active(b)' = {}
      <3>1. b # a /\ bag'[b] = bag[b]
        BY <1>0, <2>3, <2>4
      <3>2. ~ \E q \in Requests : At(q, {"reserve"}, "mark") /\ call[q].bag = b
        BY <2>2, <3>1 DEF OthersIdle, Idle, At
      <3>3. Active(b) = {}
        BY <2>4, <3>1, <3>2 DEF GivenBackRightly
      <3> QED BY <2>3, <3>3 DEF Active
    <2>5. Quiet'
      BY <2>4
    <2> HIDE DEF Quiet
    <2> QED BY <1>4, <1>f, <2>3, <2>5
  <1>8. ASSUME NEW op \in {"release", "cancel", "expire"}, NEW b \in Bags, NEW o \in Orders,
               CloseCheck(r, op, b, o)
        PROVE  GivenBackRightly'
    <2>1. ~At(r, {"reserve"}, "mark") /\ UNCHANGED <<bag, resv>>
      BY <1>8 DEF CloseCheck, Idle, At
    <2>2. call'[r].next = "close"
      BY <1>0, <1>8 DEF CloseCheck
    <2> HIDE DEF Quiet
    <2> QED BY <1>1, <1>s, <1>4, <1>c, <2>1, <2>2
  <1>9. ASSUME CloseWrite(r) \/ CloseSum(r) PROVE GivenBackRightly'
    <2>1. call[r] \in CloseCall /\ ~At(r, {"reserve"}, "mark") /\ ~ReserveCreate(r) /\ UNCHANGED bag
      BY <1>9, CallOfRequest DEF CloseWrite, CloseSum, At, ReserveCreate
    <2>2. Quiet'
      <3> Quiet
        BY <1>1, <2>1
      <3> QED BY <1>3, <2>1
    <2>3. At(r, {"release", "cancel"}, "free")' => Active(call[r].bag)' = {}
      <3>1. CASE CloseWrite(r)
        <4>1. call'[r] = [call[r] EXCEPT !.next = "sum"]
          BY <1>0, <3>1 DEF CloseWrite, Continue
        <4>2. call'[r].next = "sum"
          BY <2>1, <4>1 DEF CloseCall
        <4> QED BY <4>2 DEF At
      <3>2. CASE CloseSum(r)
        <4>1. CASE Finish(r)
          BY <1>f, <4>1
        <4>2. CASE ~Finish(r)
          <5>1. Active(call[r].bag) = {} /\ Continue(r, "free") /\ UNCHANGED resv
            BY <3>2, <4>2 DEF CloseSum, NothingActive
          <5>2. call'[r] = [call[r] EXCEPT !.next = "free"]
            BY <1>0, <5>1 DEF Continue
          <5>3. call'[r].bag = call[r].bag
            BY <2>1, <5>2 DEF CloseCall
          <5> QED BY <5>1, <5>3 DEF Active
        <4> QED BY <4>1, <4>2
      <3> QED BY <1>9, <3>1, <3>2
    <2>4. \A q \in Requests : At(q, {"release", "cancel"}, "free")' => q = r
      BY <1>2 DEF At
    <2>5. \A q \in Requests : At(q, {"release", "cancel"}, "free")' => Active(call[q].bag)' = {}
      BY <2>3, <2>4
    <2> QED BY <2>2, <2>5 DEF GivenBackRightly
  <1>10. ASSUME CloseFree(r) PROVE GivenBackRightly'
    <2>1. /\ At(r, {"release", "cancel"}, "free") /\ ~At(r, {"reserve"}, "mark") /\ ~ReserveCreate(r)
          /\ bag' = [bag EXCEPT ![call[r].bag].status = "RECEIVED"] /\ Finish(r)
      BY <1>10 DEF CloseFree, SetBagStatus, At, ReserveCreate
    <2>2. Active(call[r].bag) = {}
      BY <2>1 DEF GivenBackRightly
    <2>3. \A b \in Bags : bag'[b].status = "RECEIVED" => bag[b].status = "RECEIVED" \/ Active(b) = {}
      BY <1>0, <2>1, <2>2
    <2> HIDE DEF Quiet
    <2> QED BY <1>1, <1>3, <1>4, <1>f, <2>1, <2>3
  <1>11. ASSUME ExpireWrite(r) PROVE GivenBackRightly'
    <2>1. ~At(r, {"reserve"}, "mark") /\ ~ReserveCreate(r) /\ UNCHANGED bag /\ Finish(r)
      BY <1>11 DEF ExpireWrite, At, ReserveCreate
    <2>2. \A b \in Bags : bag'[b].status = "RECEIVED" => bag[b].status = "RECEIVED" \/ Active(b) = {}
      BY <2>1
    <2> HIDE DEF Quiet
    <2> QED BY <1>1, <1>3, <1>4, <1>f, <2>1, <2>2
  <1>12. ASSUME NEW op \in {"transfer", "assign", "return"}, NEW b \in Bags, NEW to, Move(r, op, b, to)
         PROVE  GivenBackRightly'
    <2>1. ~At(r, {"reserve"}, "mark") /\ UNCHANGED <<bag, resv>>
      BY <1>12 DEF Move, Idle, At
    <2>2. call'[r].next = "commit"
      BY <1>0, <1>12 DEF Move
    <2> HIDE DEF Quiet
    <2> QED BY <1>1, <1>s, <1>4, <1>c, <2>1, <2>2
  <1>13. ASSUME TransferCommit(r) \/ AssignCommit(r) \/ ReturnCommit(r) PROVE GivenBackRightly'
    <2>1. ~At(r, {"reserve"}, "mark") /\ ~ReserveCreate(r) /\ Finish(r)
      BY <1>13 DEF TransferCommit, AssignCommit, ReturnCommit, At, ReserveCreate
    <2>2. \A b \in Bags : bag'[b].status = "RECEIVED" => bag[b].status = "RECEIVED" \/ Active(b) = {}
      BY <1>0, <1>13 DEF TransferCommit, AssignCommit, ReturnCommit, SetBagLocation
    <2> HIDE DEF Quiet
    <2> QED BY <1>1, <1>3, <1>4, <1>f, <2>1, <2>2
  <1> QED
    BY <1>5, <1>6, <1>7, <1>8, <1>9, <1>10, <1>11, <1>12, <1>13
    DEF BagStep, TransferCheck, AssignCheck, ReturnCheck, Fail
=============================================================================
