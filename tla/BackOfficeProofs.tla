----------------------------- MODULE BackOfficeProofs -----------------------------
(* Theorems about BackOffice, for any ids, codes, items, places and bounds, *)
(* and any number of concurrent requests.                                   *)
EXTENDS BackOffice, FiniteLemmas, SequenceTheorems

-----------------------------------------------------------------------------
(* Calls by their kind.                                                    *)

RefSet == SUBSET (Tables \X Ids)

CreateCall == [op : {"create"}, table : Tables, code : Codes, owner : Ids \union {None}, refs : RefSet]
UpdateCall == [op : {"update"}, table : Tables, id : Ids, code : Codes \union {None},
               owner : Ids \union {None}, refs : RefSet]
RowCall == [op : {"deactivate", "reactivate", "delete"}, table : Tables, id : Ids, refs : RefSet]
PairCall == [op : {"assign", "remove"}, table : {"colors", "sizes"}, model : Ids, id : Ids, refs : RefSet]
PostCall == [op : {"journal", "adjust"}, entries : Seq(Entry), refs : RefSet]
OpenCall == [op : {"open"}, warehouse : Ids, item : PartItem, system : Int, actual : Int, refs : {{}}]
CountCall == [op : {"act", "close"}, doc : Nat, seen : {"OPEN"}, refs : {{}}]
RequestCall == [op : {"request"}, order : Orders, lines : Seq(Line), number : Nat \union {None}, refs : {{}}]
SupplementCall == [op : {"approve", "reject", "cancel", "transfer"}, doc : Nat,
                   seen : {"PENDING_APPROVAL", "APPROVED"}, refs : {{}}]

AllCalls == MasterCall \union StockCall \union LocationCall

LEMMA CallKinds ==
  AllCalls = CreateCall \union UpdateCall \union RowCall \union PairCall \union PostCall \union OpenCall
             \union CountCall \union RequestCall \union SupplementCall \union LocationCall
  BY DEF AllCalls, MasterCall, StockCall, CreateCall, UpdateCall, RowCall, PairCall, PostCall, OpenCall,
         CountCall, RequestCall, SupplementCall, RefSet

\* A call is of the kind that its op says.
LEMMA CallOf ==
  ASSUME NEW c \in AllCalls
  PROVE  /\ c # None /\ c.refs \in RefSet
         /\ c.op = "create" => c \in CreateCall
         /\ c.op = "update" => c \in UpdateCall
         /\ c.op \in {"deactivate", "reactivate", "delete"} => c \in RowCall
         /\ c.op \in {"assign", "remove"} => c \in PairCall
         /\ c.op \in {"journal", "adjust"} => c \in PostCall
         /\ c.op = "open" => c \in OpenCall
         /\ c.op \in {"act", "close"} => c \in CountCall
         /\ c.op = "request" => c \in RequestCall
         /\ c.op \in {"approve", "reject", "cancel", "transfer"} => c \in SupplementCall
         /\ c.op = "locate" => c \in LocationCall
  <1>1. c # None
    BY NoneIsNothing DEF AllCalls
  <1>2. CASE c \in CreateCall
    BY <1>1, <1>2 DEF CreateCall
  <1>3. CASE c \in UpdateCall
    BY <1>1, <1>3 DEF UpdateCall
  <1>4. CASE c \in RowCall
    BY <1>1, <1>4 DEF RowCall
  <1>5. CASE c \in PairCall
    BY <1>1, <1>5 DEF PairCall
  <1>6. CASE c \in PostCall
    BY <1>1, <1>6 DEF PostCall
  <1>7. CASE c \in OpenCall
    BY <1>1, <1>7 DEF OpenCall, RefSet
  <1>8. CASE c \in CountCall
    BY <1>1, <1>8 DEF CountCall, RefSet
  <1>9. CASE c \in RequestCall
    BY <1>1, <1>9 DEF RequestCall, RefSet
  <1>10. CASE c \in SupplementCall
    BY <1>1, <1>10 DEF SupplementCall, RefSet
  <1>11. CASE c \in LocationCall
    BY <1>1, <1>11 DEF LocationCall, RefSet
  <1> QED BY <1>2, <1>3, <1>4, <1>5, <1>6, <1>7, <1>8, <1>9, <1>10, <1>11, CallKinds

-----------------------------------------------------------------------------
(* What a call has found stays so until it writes.                         *)

Calls == {call[r] : r \in Requests} \ {None}

\* The rows a transaction is about to write to the journal.
Posts(entries) ==
  \E item \in Items, w, v \in Ids, n \in Amounts :
    entries \in {<<FromReceive(item, w, n)>>, <<FromIssue(item, w, v, n)>>,
                 FromTransfer(item, w, v, n), <<FromAdjust(item, w, n, None)>>}

Adjusts(entries) ==
  \E item \in Items \intersect PartItem, w \in Ids, n \in Amounts, reason \in Reasons :
    entries = <<FromAdjust(item, w, n, reason)>>

\* Only rows that are never deleted are deactivated or referred to, no update
\* gives a row whose code is unique within its owner another owner, a model gets
\* a customer, and a document is never taken back.
CallSound(c) ==
  /\ \A ref \in c.refs : ref[1] \notin Deletable
  /\ c.op \in {"deactivate", "reactivate"} => c.table \notin Deletable /\ Exists(c.table, c.id)
  /\ c.op = "delete" => c.table \in Deletable
  /\ c.op = "create" /\ c.table = "models" => c.owner \in Ids
  /\ c.op = "update" => (c.table \in CodeWithinOwner => c.owner = None)
  /\ c.op = "journal" => Posts(c.entries)
  /\ c.op = "adjust" => Adjusts(c.entries)
  /\ c.op \in {"act", "close"} => c.doc \in DOMAIN cycleCount
  /\ c.op \in {"approve", "reject", "cancel", "transfer"} => c.doc \in DOMAIN supplement
  /\ c.op = "approve" => c.seen = "PENDING_APPROVAL"
  /\ c.op = "transfer" => c.seen = "APPROVED"

TypeInv == TypeOK /\ \A c \in Calls : CallSound(c)

\* A request that passed its checks.
NewCall(r, x) ==
  /\ x \in AllCalls /\ Begin(r, x) /\ CallSound(x)
  /\ \A ref \in x.refs : Active(ref[1], ref[2])
  /\ x.op = "request" => x.lines \in Seq(NewLine) /\ x.number = None
  /\ x.op = "transfer" => supplement[x.doc].status = "APPROVED"

Checked(r) == \E x : NewCall(r, x)

-----------------------------------------------------------------------------
(* The checks of the tables.                                               *)

LEMMA CreateChecked ==
  ASSUME NEW r, NEW t \in Tables, NEW c \in Codes, NEW o \in Ids \union {None}, NEW refs \in RefSet,
         \A ref \in refs : ref[1] \notin Deletable /\ Active(ref[1], ref[2]),
         t = "models" => o \in Ids, CreateCheck(r, t, c, o, refs)
  PROVE  Checked(r) /\ UNCHANGED masterVars
  <1> DEFINE x == [op |-> "create", table |-> t, code |-> c, owner |-> o, refs |-> refs]
  <1>1. Begin(r, x) /\ UNCHANGED masterVars
    BY DEF CreateCheck
  <1>2. x \in CreateCall /\ x.op = "create" /\ x.refs = refs /\ x.table = t /\ x.owner = o
    BY DEF CreateCall
  <1> HIDE DEF x
  <1>3. NewCall(r, x)
    BY <1>1, <1>2, CallKinds DEF NewCall, CallSound
  <1> QED BY <1>1, <1>3 DEF Checked

LEMMA UpdateChecked ==
  ASSUME NEW r, NEW t \in Tables, NEW i \in Ids, NEW c \in Given, NEW o \in Ids \union {None},
         t \in CodeWithinOwner => o = None, UpdateCheck(r, t, i, c, o)
  PROVE  Checked(r) /\ UNCHANGED masterVars
  <1> DEFINE x == [op |-> "update", table |-> t, id |-> i, code |-> c, owner |-> o, refs |-> {}]
  <1>1. Begin(r, x) /\ UNCHANGED masterVars
    BY DEF UpdateCheck
  <1>2. x \in UpdateCall /\ x.op = "update" /\ x.refs = {} /\ x.table = t /\ x.owner = o
    BY DEF UpdateCall, Given, RefSet
  <1> HIDE DEF x
  <1>3. NewCall(r, x)
    BY <1>1, <1>2, CallKinds DEF NewCall, CallSound
  <1> QED BY <1>1, <1>3 DEF Checked

LEMMA RowChecked ==
  ASSUME NEW r, NEW t \in Tables, NEW i \in Ids,
         \/ t \notin Deletable /\ (DeactivateCheck(r, t, i) \/ ReactivateCheck(r, t, i))
         \/ t \in Deletable /\ DeleteCheck(r, t, i)
  PROVE  Checked(r) /\ UNCHANGED masterVars
  <1> DEFINE x(op) == [op |-> op, table |-> t, id |-> i, refs |-> {}]
  <1>1. PICK op \in {"deactivate", "reactivate", "delete"} :
           Begin(r, x(op)) /\ UNCHANGED masterVars /\ Exists(t, i) /\ (op = "delete" <=> t \in Deletable)
    BY DEF DeactivateCheck, ReactivateCheck, DeleteCheck, Active
  <1>2. PICK y : y = x(op)
    OBVIOUS
  <1>3. y \in RowCall /\ y.op = op /\ y.refs = {} /\ y.table = t /\ y.id = i
    BY <1>2 DEF RowCall, RefSet
  <1>4. NewCall(r, y)
    BY <1>1, <1>2, <1>3, CallKinds DEF NewCall, CallSound
  <1> QED BY <1>1, <1>4 DEF Checked

LEMMA PairChecked ==
  ASSUME NEW r, NEW t \in {"colors", "sizes"}, NEW m \in Ids, NEW i \in Ids,
         AssignCheck(r, t, m, i) \/ RemoveCheck(r, t, m, i)
  PROVE  Checked(r) /\ UNCHANGED masterVars
  <1> DEFINE x(op) == [op |-> op, table |-> t, model |-> m, id |-> i, refs |-> {}]
  <1>1. PICK op \in {"assign", "remove"} : Begin(r, x(op)) /\ UNCHANGED masterVars
    BY DEF AssignCheck, RemoveCheck
  <1>2. PICK y : y = x(op)
    OBVIOUS
  <1>3. y \in PairCall /\ y.op = op /\ y.refs = {}
    BY <1>2 DEF PairCall, RefSet
  <1>4. NewCall(r, y)
    BY <1>1, <1>2, <1>3, CallKinds DEF NewCall, CallSound
  <1> QED BY <1>1, <1>4 DEF Checked

LEMMA TableChecks ==
  ASSUME NEW r, TableRequest(r)
  PROVE  Checked(r) /\ UNCHANGED masterVars
  <1> DEFINE Goal == Checked(r) /\ UNCHANGED masterVars
  <1>0. {} \in RefSet /\ None \in Given /\ Codes \subseteq Given
    BY DEF RefSet, Given
  <1>1. ASSUME NEW t \in Tables \ Deletable, NEW i \in Ids, DeactivateCheck(r, t, i) \/ ReactivateCheck(r, t, i)
        PROVE  Goal
    BY <1>1, RowChecked
  <1>2. ASSUME NEW t \in Deletable, NEW i \in Ids, DeleteCheck(r, t, i) PROVE Goal
    BY <1>2, RowChecked DEF Deletable, Tables
  <1>3. ASSUME NEW t \in Tables \ {"models"}, NEW c \in Codes, NEW o \in Ids \union {None}, CreateCheck(r, t, c, o, {})
        PROVE  Goal
    BY <1>0, <1>3, CreateChecked
  <1>4. ASSUME NEW t \in Tables, NEW i \in Ids, NEW c \in Given, UpdateCheck(r, t, i, c, None) PROVE Goal
    BY <1>4, UpdateChecked
  <1> HIDE DEF Goal
  <1>5. CASE CustomerRequest(r)
    BY <1>1, <1>3, <1>4, <1>5 DEF CustomerRequest, CreateCustomer, UpdateCustomer, DeactivateCustomer,
                                  ReactivateCustomer, Tables, Deletable, Goal
  <1>6. CASE SupplierRequest(r)
    BY <1>1, <1>3, <1>4, <1>6 DEF SupplierRequest, CreateSupplier, UpdateSupplier, DeactivateSupplier,
                                  ReactivateSupplier, Tables, Deletable, Goal
  <1>7. CASE WarehouseRequest(r)
    BY <1>1, <1>3, <1>4, <1>7 DEF WarehouseRequest, CreateWarehouse, UpdateWarehouse, DeactivateWarehouse,
                                  ReactivateWarehouse, Tables, Deletable, Goal
  <1>8. CASE ProductionLineRequest(r)
    BY <1>1, <1>3, <1>4, <1>8 DEF ProductionLineRequest, CreateProductionLine, UpdateProductionLine,
                                  DeactivateProductionLine, ReactivateProductionLine, Tables, Deletable, Goal
  <1>9. CASE WorkingShiftRequest(r)
    BY <1>1, <1>3, <1>4, <1>9 DEF WorkingShiftRequest, CreateWorkingShift, UpdateWorkingShift,
                                  DeactivateWorkingShift, ReactivateWorkingShift, Tables, Deletable, Goal
  <1>10. CASE DepartmentRequest(r)
    <2>1. ASSUME NEW c \in Codes, NEW parent \in Ids \union {None}, CreateDepartment(r, c, parent) PROVE Goal
      BY <1>3, <2>1 DEF CreateDepartment, Tables
    <2>2. ASSUME NEW i \in Ids, NEW c \in Given, NEW parent \in Ids \union {None}, UpdateDepartment(r, i, c, parent)
          PROVE  Goal
      <3>1. UpdateCheck(r, "departments", i, c, parent)
        BY <2>2 DEF UpdateDepartment
      <3> QED BY <3>1, UpdateChecked DEF Tables, CodeWithinOwner, Goal
    <2>3. ASSUME NEW i \in Ids, DeactivateDepartment(r, i) \/ ReactivateDepartment(r, i) PROVE Goal
      BY <1>1, <2>3 DEF DeactivateDepartment, ReactivateDepartment, Tables, Deletable
    <2> QED BY <1>10, <2>1, <2>2, <2>3 DEF DepartmentRequest, Goal
  <1>11. CASE ModelRequest(r)
    <2>1. ASSUME NEW c \in Codes, NEW customer \in Ids, CreateModel(r, c, customer) PROVE Goal
      <3>1. Active("customers", customer) /\ CreateCheck(r, "models", c, customer, {<<"customers", customer>>})
        BY <2>1 DEF CreateModel
      <3>2. {<<"customers", customer>>} \in RefSet /\ "models" \in Tables /\ "customers" \notin Deletable
        BY DEF RefSet, Tables, Deletable
      <3> QED BY <3>1, <3>2, CreateChecked DEF Goal
    <2> QED BY <1>1, <1>4, <1>11, <2>1 DEF ModelRequest, UpdateModel, DeactivateModel, ReactivateModel,
                                           Tables, Deletable, Goal
  <1>12. CASE \E i \in Ids : DeactivateCustomer(r, i) \/ ReactivateCustomer(r, i)
    BY <1>1, <1>12 DEF DeactivateCustomer, ReactivateCustomer, Tables, Deletable, Goal
  <1>13. CASE PartRequest(r)
    BY <1>2, <1>3, <1>4, <1>13 DEF PartRequest, AddPart, UpdatePart, RemovePart, Tables, Deletable, Goal
  <1>14. CASE ColorRequest(r)
    BY <1>2, <1>3, <1>4, <1>14, PairChecked DEF ColorRequest, CreateColor, UpdateColor, DeleteColor, AssignColor,
                                                RemoveColor, Tables, Deletable, Goal
  <1>15. CASE SizeRequest(r)
    BY <1>2, <1>3, <1>4, <1>15, PairChecked DEF SizeRequest, CreateSize, UpdateSize, DeleteSize, AssignSize,
                                                RemoveSize, Tables, Deletable, Goal
  <1>16. CASE \E i \in Ids : \/ DeactivateWarehouse(r, i) \/ ReactivateWarehouse(r, i)
                             \/ DeactivateModel(r, i) \/ ReactivateModel(r, i)
    BY <1>1, <1>16 DEF DeactivateWarehouse, ReactivateWarehouse, DeactivateModel, ReactivateModel,
                       Tables, Deletable, Goal
  <1> QED BY <1>5, <1>6, <1>7, <1>8, <1>9, <1>10, <1>11, <1>12, <1>13, <1>14, <1>15, <1>16 DEF TableRequest

-----------------------------------------------------------------------------
(* The checks of the stock and of the places.                              *)

LEMMA EntryTyped ==
  ASSUME NEW item \in Item, NEW w \in Ids, NEW v \in Ids, NEW n \in Int, NEW note \in Reasons \union {None}
  PROVE  /\ FromReceive(item, w, n) \in Entry
         /\ FromIssue(item, w, v, n) \in Entry
         /\ FromTransfer(item, w, v, n) \in Seq(Entry) /\ Len(FromTransfer(item, w, v, n)) = 2
         /\ FromTransfer(item, w, v, n)[1] \in Entry /\ FromTransfer(item, w, v, n)[2] \in Entry
         /\ FromAdjust(item, w, n, note) \in Entry
  <1>1. /\ Warehouse(w) \in Site /\ Warehouse(v) \in Site /\ ProductionOrder(v) \in Site /\ None \in Site
    BY DEF Warehouse, ProductionOrder, Site
  <1>2. FromReceive(item, w, n) \in Entry
    BY <1>1 DEF FromReceive, Entry
  <1>3. FromIssue(item, w, v, n) \in Entry
    BY <1>1 DEF FromIssue, Entry
  <1>4. FromAdjust(item, w, n, note) \in Entry
    BY <1>1 DEF FromAdjust, Entry
  <1> DEFINE out == [type |-> "RELEASE", item |-> item, from |-> Warehouse(w), to |-> Warehouse(v),
                     dozens |-> n, note |-> None]
             in == [out EXCEPT !.type = "RECEIVING"]
  <1>5. out \in Entry
    BY <1>1 DEF Entry
  <1>6. in \in Entry
    BY <1>1 DEF Entry
  <1>7. FromTransfer(item, w, v, n) = <<out, in>>
    BY DEF FromTransfer
  <1> HIDE DEF out, in
  <1> QED BY <1>2, <1>3, <1>4, <1>5, <1>6, <1>7

LEMMA ItemsTyped ==
  /\ Items \subseteq Item /\ Amounts \subseteq Int /\ Orders \subseteq Ids /\ Ids \subseteq Nat
  /\ Seq(NewLine) \subseteq Seq(Line) /\ LineLists \subseteq Seq(NewLine)
  <1>1. NewLine \subseteq Line
    BY DEF NewLine, Line
  <1>2. Seq(NewLine) \subseteq Seq(Line)
    BY <1>1, SeqMonotonic
  <1> QED BY <1>2, OfficeConstants, JournalConstants, MasterConstants

LEMMA EntriesTyped ==
  ASSUME NEW entries, Posts(entries) \/ Adjusts(entries)
  PROVE  entries \in Seq(Entry)
  <1>1. CASE Posts(entries)
    <2>1. PICK item \in Items, w \in Ids, v \in Ids, n \in Amounts :
             entries \in {<<FromReceive(item, w, n)>>, <<FromIssue(item, w, v, n)>>,
                          FromTransfer(item, w, v, n), <<FromAdjust(item, w, n, None)>>}
      BY <1>1 DEF Posts
    <2>2. item \in Item /\ n \in Int
      BY ItemsTyped
    <2> QED BY <2>1, <2>2, EntryTyped
  <1>2. CASE Adjusts(entries)
    <2>1. PICK item \in Items, w \in Ids, n \in Amounts, reason \in Reasons : entries = <<FromAdjust(item, w, n, reason)>>
      BY <1>2 DEF Adjusts
    <2>2. item \in Item /\ n \in Int
      BY ItemsTyped
    <2> QED BY <2>1, <2>2, EntryTyped
  <1> QED BY <1>1, <1>2

LEMMA ItemRefs ==
  ASSUME NEW item \in Items, NEW w \in Ids, ItemIsActive(item), Active("warehouses", w)
  PROVE  /\ {ModelRef(item), WarehouseRef(w)} \in RefSet
         /\ \A ref \in {ModelRef(item), WarehouseRef(w)} : ref[1] \notin Deletable /\ Active(ref[1], ref[2])
  <1>1. item.model \in Ids
    BY ItemsTyped DEF Item
  <1> QED BY <1>1 DEF ModelRef, WarehouseRef, RefSet, Tables, Deletable, ItemIsActive

LEMMA PostingChecked ==
  ASSUME NEW r, NEW op \in {"journal", "adjust"}, NEW entries, NEW refs \in RefSet,
         op = "journal" => Posts(entries), op = "adjust" => Adjusts(entries),
         \A ref \in refs : ref[1] \notin Deletable /\ Active(ref[1], ref[2]),
         Posting(r, op, entries, refs)
  PROVE  Checked(r) /\ UNCHANGED <<masterVars, stockVars>>
  <1> DEFINE x == [op |-> op, entries |-> entries, refs |-> refs]
  <1>1. Begin(r, x) /\ UNCHANGED <<masterVars, stockVars>>
    BY DEF Posting
  <1>2. x \in PostCall /\ x.op = op /\ x.refs = refs /\ x.entries = entries
    BY EntriesTyped DEF PostCall
  <1> HIDE DEF x
  <1>3. NewCall(r, x)
    BY <1>1, <1>2, CallKinds DEF NewCall, CallSound
  <1> QED BY <1>1, <1>3 DEF Checked

LEMMA TransactionChecks ==
  ASSUME NEW r, TransactionRequest(r)
  PROVE  Checked(r) /\ UNCHANGED <<masterVars, stockVars>>
  <1> DEFINE Goal == Checked(r) /\ UNCHANGED <<masterVars, stockVars>>
  <1>1. PICK item \in Items, w \in Ids, n \in Amounts :
          \/ Receive(r, item, w, n)
          \/ \E o \in Orders : Issue(r, item, w, o, n)
          \/ \E v \in Ids : Transfer(r, item, w, v, n)
          \/ Adjust(r, item, w, n)
          \/ \E reason \in Reasons : ApplyAdjustment(r, item, w, reason, n)
    BY DEF TransactionRequest
  <1>2. CASE Receive(r, item, w, n)
    <2>1. Posts(<<FromReceive(item, w, n)>>)
      BY DEF Posts
    <2> QED BY <1>2, <2>1, ItemRefs, PostingChecked DEF Receive
  <1>3. ASSUME NEW o \in Orders, Issue(r, item, w, o, n) PROVE Goal
    <2>1. Posts(<<FromIssue(item, w, o, n)>>)
      BY ItemsTyped DEF Posts
    <2> QED BY <1>3, <2>1, ItemRefs, PostingChecked DEF Issue
  <1>4. ASSUME NEW v \in Ids, Transfer(r, item, w, v, n) PROVE Goal
    <2>1. Posts(FromTransfer(item, w, v, n))
      BY DEF Posts
    <2>2. ItemIsActive(item) /\ Active("warehouses", w) /\ Active("warehouses", v)
      BY <1>4 DEF Transfer
    <2>3. \A ref \in {ModelRef(item), WarehouseRef(w), WarehouseRef(v)} :
             ref \in Tables \X Ids /\ ref[1] \notin Deletable /\ Active(ref[1], ref[2])
      <3>1. ASSUME NEW u \in Ids, Active("warehouses", u), NEW ref \in {ModelRef(item), WarehouseRef(u)}
            PROVE  ref \in Tables \X Ids /\ ref[1] \notin Deletable /\ Active(ref[1], ref[2])
        BY <2>2, <3>1, ItemRefs DEF RefSet
      <3> QED BY <2>2, <3>1
    <2>4. {ModelRef(item), WarehouseRef(w), WarehouseRef(v)} \in RefSet
      BY <2>3 DEF RefSet
    <2> QED BY <1>4, <2>1, <2>3, <2>4, PostingChecked DEF Transfer
  <1>5. CASE Adjust(r, item, w, n)
    <2>1. Posts(<<FromAdjust(item, w, n, None)>>)
      BY DEF Posts
    <2> QED BY <1>5, <2>1, ItemRefs, PostingChecked DEF Adjust
  <1>6. ASSUME NEW reason \in Reasons, ApplyAdjustment(r, item, w, reason, n) PROVE Goal
    <2>1. item \in Items \intersect PartItem
      <3>1. item \in Item /\ item.part # None
        BY <1>6, ItemsTyped DEF ApplyAdjustment
      <3> QED BY <3>1 DEF Item, PartItem
    <2>2. Adjusts(<<FromAdjust(item, w, n, reason)>>)
      BY <2>1 DEF Adjusts
    <2> QED BY <1>6, <2>2, ItemRefs, PostingChecked DEF ApplyAdjustment
  <1> QED BY <1>1, <1>2, <1>3, <1>4, <1>5, <1>6

LEMMA CountChecks ==
  ASSUME NEW r, TypeOK, CountRequest(r)
  PROVE  Checked(r) /\ UNCHANGED <<masterVars, stockVars>>
  <1> DEFINE Goal == Checked(r) /\ UNCHANGED <<masterVars, stockVars>>
  <1>1. ASSUME NEW item \in Items \intersect PartItem, NEW w \in Ids, NEW n \in CountedDozens, OpenCycleCount(r, w, item, n)
        PROVE  Goal
    <2> DEFINE system == Counted(onHand[<<w, item>>])
               x == [op |-> "open", warehouse |-> w, item |-> item, system |-> system, actual |-> n, refs |-> {}]
    <2>1. Begin(r, x) /\ UNCHANGED <<masterVars, stockVars>>
      BY <1>1 DEF OpenCycleCount
    <2>2. onHand[<<w, item>>] \in Int \union {None}
      BY DEF TypeOK, StockTypeOK
    <2>3. system \in Int /\ n \in Int
      BY <2>2, OfficeConstants DEF Counted
    <2> HIDE DEF system
    <2>4. x \in OpenCall /\ x.op = "open" /\ x.refs = {}
      BY <2>3 DEF OpenCall
    <2> HIDE DEF x
    <2>5. NewCall(r, x)
      BY <2>1, <2>4, CallKinds DEF NewCall, CallSound
    <2> QED BY <2>1, <2>5 DEF Checked
  <1>2. ASSUME NEW item \in Items \intersect PartItem, NEW w \in Ids, NEW n \in Amounts,
               ApplyAdjustment(r, item, w, "LOSS", n)
        PROVE  Goal
    <2>1. Adjusts(<<FromAdjust(item, w, n, "LOSS")>>)
      BY JournalConstants DEF Adjusts
    <2> QED BY <1>2, <2>1, ItemRefs, PostingChecked DEF ApplyAdjustment
  <1>3. ASSUME NEW d \in 1 .. MaxCounts, NEW op \in {"act", "close"}, CountCheck(r, op, d) PROVE Goal
    <2> DEFINE x == [op |-> op, doc |-> d, seen |-> cycleCount[d].status, refs |-> {}]
    <2>1. Begin(r, x) /\ UNCHANGED <<masterVars, stockVars>> /\ d \in DOMAIN cycleCount /\ cycleCount[d].status # "CLOSED"
      BY <1>3 DEF CountCheck
    <2>2. cycleCount[d] \in CycleCount
      BY <2>1 DEF TypeOK, StockTypeOK
    <2>3. cycleCount[d].status = "OPEN"
      BY <2>1, <2>2 DEF CycleCount
    <2>4. x \in CountCall /\ x.op = op /\ x.refs = {} /\ x.doc = d
      BY <2>3 DEF CountCall
    <2> HIDE DEF x
    <2>5. NewCall(r, x)
      BY <2>1, <2>4, CallKinds DEF NewCall, CallSound
    <2> QED BY <2>1, <2>5 DEF Checked
  <1>4. CountedAt \subseteq Ids
    BY OfficeConstants
  <1> QED BY <1>1, <1>2, <1>3, <1>4 DEF CountRequest, AddAction, CloseCycleCount

LEMMA SupplementChecks ==
  ASSUME NEW r, TypeOK, SupplementRequest(r), ~ NextNumber(r)
  PROVE  Checked(r) /\ UNCHANGED <<masterVars, stockVars>>
  <1> DEFINE Goal == Checked(r) /\ UNCHANGED <<masterVars, stockVars>>
  <1>1. ASSUME NEW o \in Orders, NEW lines \in LineLists, RequestSupplement(r, o, lines) PROVE Goal
    <2> DEFINE x == [op |-> "request", order |-> o, lines |-> lines, number |-> None, refs |-> {}]
    <2>1. Begin(r, x) /\ UNCHANGED <<masterVars, stockVars>>
      BY <1>1 DEF RequestSupplement
    <2>2. lines \in Seq(NewLine) /\ lines \in Seq(Line)
      BY ItemsTyped
    <2>3. x \in RequestCall /\ x.op = "request" /\ x.refs = {} /\ x.lines = lines /\ x.number = None
      BY <2>2 DEF RequestCall
    <2> HIDE DEF x
    <2>4. NewCall(r, x)
      BY <2>1, <2>2, <2>3, CallKinds DEF NewCall, CallSound
    <2> QED BY <2>1, <2>4 DEF Checked
  <1>2. ASSUME NEW d \in 1 .. MaxDocuments,
               \/ ApproveSupplement(r, d) \/ RejectSupplement(r, d)
               \/ CancelSupplement(r, d) \/ TransferSupplement(r, d)
        PROVE  Goal
    <2> DEFINE x(op) == [op |-> op, doc |-> d, seen |-> supplement[d].status, refs |-> {}]
    <2>1. PICK op \in {"approve", "reject", "cancel", "transfer"} :
             /\ Begin(r, x(op)) /\ UNCHANGED <<masterVars, stockVars>> /\ d \in DOMAIN supplement
             /\ supplement[d].status \in {"PENDING_APPROVAL", "APPROVED"}
             /\ op = "approve" => supplement[d].status = "PENDING_APPROVAL"
             /\ op = "transfer" => supplement[d].status = "APPROVED"
      BY <1>2 DEF ApproveSupplement, RejectSupplement, CancelSupplement, TransferSupplement, SupplementCheck
    <2>2. PICK y : y = x(op)
      OBVIOUS
    <2>3. y \in SupplementCall /\ y.op = op /\ y.refs = {} /\ y.doc = d /\ y.seen = supplement[d].status
      BY <2>1, <2>2 DEF SupplementCall
    <2>4. NewCall(r, y)
      BY <2>1, <2>2, <2>3, CallKinds DEF NewCall, CallSound
    <2> QED BY <2>1, <2>4 DEF Checked
  <1> QED BY <1>1, <1>2 DEF SupplementRequest

LEMMA LocationChecks ==
  ASSUME NEW r, LocationRequest(r)
  PROVE  Checked(r) /\ UNCHANGED <<masterVars, location>>
  <1>1. PICK w \in Ids, p \in Place : CreateLocation(r, w, p)
    BY DEF LocationRequest
  <1> DEFINE x == [op |-> "locate", warehouse |-> w, place |-> p, refs |-> {}]
  <1>2. Begin(r, x) /\ UNCHANGED <<masterVars, location>>
    BY <1>1 DEF CreateLocation
  <1>3. x \in LocationCall /\ x.op = "locate" /\ x.refs = {}
    BY DEF LocationCall
  <1> HIDE DEF x
  <1>4. NewCall(r, x)
    BY <1>2, <1>3, CallKinds DEF NewCall, CallSound
  <1> QED BY <1>2, <1>4 DEF Checked

\* Every step passes the checks of a request, or writes, or comes from outside.
LEMMA Steps ==
  ASSUME TypeOK, Next
  PROVE  \/ \E r \in Requests : Checked(r) /\ UNCHANGED <<masterVars, stockVars, location, scope>>
         \/ \E r \in Requests : MasterWrite(r) /\ UNCHANGED <<stockVars, location, scope>>
         \/ \E r \in Requests : NextNumber(r) /\ UNCHANGED <<location, scope>>
         \/ \E r \in Requests : StockWrite(r) /\ UNCHANGED <<location, scope>>
         \/ \E r \in Requests : InsertLocation(r) /\ UNCHANGED <<stockVars, scope>>
         \/ \E l \in location, on \in BOOLEAN : UpdateLocationStatus(l, on) /\ UNCHANGED <<stockVars, scope>>
         \/ \E o \in Orders : OrderLeavesProduction(o) /\ UNCHANGED <<location, scope>>
  BY TableChecks, TransactionChecks, CountChecks, SupplementChecks, LocationChecks DEF Next

-----------------------------------------------------------------------------
(* The writes of the tables.                                               *)

\* The tables and the documents that the calls have found are still there.
Growing ==
  /\ \A t \in Tables \ Deletable : \A i \in Ids : Exists(t, i) => Exists(t, i)'
  /\ DOMAIN cycleCount \subseteq DOMAIN cycleCount' /\ DOMAIN supplement \subseteq DOMAIN supplement'

TablesOK ==
  /\ table \in [Tables -> [Ids -> Row \union {None}]]
  /\ \A t \in Tables : \A i, j \in RowsOf(t) :
        i # j => ~ HasCode(t, i, table[t][j].code, table[t][j].owner)

TablesKept == TablesOK' /\ \A t \in Tables \ Deletable : \A i \in Ids : Exists(t, i) => Exists(t, i)'

\* A row is put where its code is free.
LEMMA RowPut ==
  ASSUME TablesOK, NEW t \in Tables, NEW i \in Ids, NEW x \in Row,
         \A j \in RowsOf(t) \ {i} : ~ HasCode(t, j, x.code, x.owner),
         table' = [table EXCEPT ![t] = [@ EXCEPT ![i] = x]]
  PROVE  TablesKept
  <1>1. table[t] \in [Ids -> Row \union {None}] /\ x # None
    BY NoneIsNothing DEF TablesOK
  <1>2. table' \in [Tables -> [Ids -> Row \union {None}]]
    BY <1>1 DEF TablesOK
  <1>3. table'[t][i] = x /\ \A u \in Tables, j \in Ids : u # t \/ j # i => table'[u][j] = table[u][j]
    BY <1>1 DEF TablesOK
  <1>4. \A u \in Tables : RowsOf(u) \subseteq RowsOf(u)' /\ RowsOf(u)' \subseteq RowsOf(u) \union {i}
                          /\ (u # t => RowsOf(u)' \subseteq RowsOf(u))
    BY <1>1, <1>3 DEF RowsOf
  <1>5. ASSUME NEW u \in Tables, NEW a \in RowsOf(u)', NEW b \in RowsOf(u)', a # b,
               HasCode(u, a, table[u][b].code, table[u][b].owner)'
        PROVE  FALSE
    <2>0. a \in Ids /\ b \in Ids
      BY DEF RowsOf
    <2>1. CASE u # t \/ i \notin {a, b}
      <3>1. table'[u][a] = table[u][a] /\ table'[u][b] = table[u][b] /\ a \in RowsOf(u) /\ b \in RowsOf(u)
        BY <1>3, <1>4, <2>0, <2>1
      <3> QED BY <1>5, <3>1 DEF HasCode, TablesOK
    <2>2. CASE u = t /\ a = i
      <3>1. table'[u][a] = x /\ table'[u][b] = table[u][b] /\ b \in RowsOf(u) \ {i}
        BY <1>3, <1>4, <1>5, <2>0, <2>2
      <3>2. ~ HasCode(t, b, x.code, x.owner)
        BY <2>2, <3>1
      <3> QED BY <1>5, <2>2, <3>1, <3>2 DEF HasCode
    <2>3. CASE u = t /\ b = i
      <3>1. table'[u][b] = x /\ table'[u][a] = table[u][a] /\ a \in RowsOf(u) \ {i}
        BY <1>3, <1>4, <1>5, <2>0, <2>3
      <3>2. ~ HasCode(t, a, x.code, x.owner)
        BY <2>3, <3>1
      <3> QED BY <1>5, <2>3, <3>1, <3>2 DEF HasCode
    <2> QED BY <2>1, <2>2, <2>3
  <1>6. TablesOK'
    BY <1>2, <1>5 DEF TablesOK
  <1>7. \A u \in Tables \ Deletable : \A j \in Ids : Exists(u, j) => Exists(u, j)'
    BY <1>4 DEF RowsOf, Exists
  <1> QED BY <1>6, <1>7 DEF TablesKept

LEMMA SameTables ==
  ASSUME TablesOK, UNCHANGED table
  PROVE  TablesKept
  BY DEF TablesOK, TablesKept, RowsOf, HasCode, Exists

LEMMA CreateKeeps ==
  ASSUME TablesOK, NEW r, call[r] \in AllCalls, CreateWrite(r)
  PROVE  TablesKept
  <1> DEFINE c == call[r]
             i == CHOOSE j \in Ids : ~ Exists(c.table, j)
             x == [code |-> c.code, owner |-> c.owner, active |-> TRUE]
  <1>1. c \in CreateCall
    BY CallOf DEF CreateWrite, At
  <1>2. c.table \in Tables /\ x \in Row
    BY <1>1 DEF CreateCall, Row
  <1>3. CASE UNCHANGED table
    BY <1>3, SameTables
  <1>4. CASE ~ Taken(c.table, c.code, c.owner) /\ table' = [table EXCEPT ![c.table][i] = x]
    <2>1. CASE i \in Ids
      <3>1. x.code = c.code /\ x.owner = c.owner
        OBVIOUS
      <3>2. table' = [table EXCEPT ![c.table] = [@ EXCEPT ![i] = x]]
        BY <1>4
      <3>3. \A j \in RowsOf(c.table) \ {i} : ~ HasCode(c.table, j, x.code, x.owner)
        BY <1>4, <3>1 DEF Taken
      <3> HIDE DEF c, i, x
      <3> QED BY <1>2, <2>1, <3>2, <3>3, RowPut
    <2>2. CASE i \notin Ids
      <3> HIDE DEF i, x
      <3>1. [table[c.table] EXCEPT ![i] = x] = table[c.table]
        BY <1>2, <2>2 DEF TablesOK
      <3>2. table' = table
        BY <1>2, <1>4, <3>1 DEF TablesOK
      <3> QED BY <3>2, SameTables
    <2> QED BY <2>1, <2>2
  <1> QED BY <1>3, <1>4 DEF CreateWrite

LEMMA RowUpdated ==
  ASSUME NEW row \in Row, NEW c \in Codes, NEW o \in Ids \union {None}
  PROVE  [row EXCEPT !.code = c, !.owner = o] = [code |-> c, owner |-> o, active |-> row.active]
  <1> DEFINE x == [row EXCEPT !.code = c]
             y == [x EXCEPT !.owner = o]
             z == [code |-> c, owner |-> o, active |-> row.active]
  <1>1. x \in Row /\ x.code = c /\ x.active = row.active
    BY DEF Row
  <1> HIDE DEF x
  <1>2. y \in Row /\ y.code = c /\ y.owner = o /\ y.active = row.active
    BY <1>1 DEF Row
  <1>3. z \in Row /\ z.code = c /\ z.owner = o /\ z.active = row.active
    BY DEF Row
  <1>4. y = z
    <2> HIDE DEF y, z
    <2> QED BY <1>2, <1>3 DEF Row
  <1> QED BY <1>4 DEF x

LEMMA UpdateKeeps ==
  ASSUME TablesOK, NEW r, call[r] \in AllCalls, CallSound(call[r]), UpdateWrite(r)
  PROVE  TablesKept
  <1> DEFINE c == call[r]
             row == table[c.table][c.id]
             code == IF c.code = None THEN row.code ELSE c.code
             owner == IF c.owner = None THEN row.owner ELSE c.owner
             x == [code |-> code, owner |-> owner, active |-> row.active]
  <1>1. c \in UpdateCall /\ (c.table \in CodeWithinOwner => c.owner = None)
    BY CallOf DEF UpdateWrite, At, CallSound
  <1>2. CASE UNCHANGED table
    BY <1>2, SameTables
  <1>3. CASE /\ Exists(c.table, c.id)
             /\ c.code \notin {None, row.code} => ~ Taken(c.table, c.code, row.owner)
             /\ table' = [table EXCEPT ![c.table][c.id].code = IF c.code = None THEN @ ELSE c.code,
                                       ![c.table][c.id].owner = owner]
    <2>1. c.table \in Tables /\ c.id \in Ids /\ c.code \in Codes \union {None} /\ c.owner \in Ids \union {None}
      BY <1>1 DEF UpdateCall
    <2>2. row \in Row
      BY <1>3, <2>1 DEF TablesOK, Exists
    <2>3. code \in Codes /\ owner \in Ids \union {None} /\ row.active \in BOOLEAN
      BY <2>1, <2>2 DEF Row
    <2>4. x \in Row /\ x.code = code /\ x.owner = owner
      BY <2>3 DEF Row
    <2>5. [row EXCEPT !.code = code, !.owner = owner] = x
      <3> HIDE DEF row, code, owner
      <3> QED BY <2>2, <2>3, RowUpdated
    <2>6. table' = [table EXCEPT ![c.table] = [@ EXCEPT ![c.id] = x]]
      <3>1. table' = [table EXCEPT ![c.table] = [@ EXCEPT ![c.id] =
                        [row EXCEPT !.code = code, !.owner = owner]]]
        BY <1>3, <2>1, <2>2 DEF TablesOK, Row
      <3> QED BY <2>5, <3>1
    <2>7. ASSUME NEW j \in RowsOf(c.table) \ {c.id}, HasCode(c.table, j, x.code, x.owner) PROVE FALSE
      <3>1. HasCode(c.table, j, code, row.owner)
        BY <1>1, <2>4, <2>7 DEF HasCode
      <3>2. c.id \in RowsOf(c.table)
        BY <1>3, <2>1 DEF RowsOf, Exists
      <3> QED BY <1>3, <2>1, <2>7, <3>1, <3>2 DEF Taken, TablesOK
    <2> HIDE DEF c, x
    <2> QED BY <2>1, <2>4, <2>6, <2>7, RowPut
  <1> QED BY <1>2, <1>3 DEF UpdateWrite

LEMMA ActivityKeeps ==
  ASSUME TablesOK, NEW r, call[r] \in AllCalls, CallSound(call[r]), DeactivateWrite(r) \/ ReactivateWrite(r)
  PROVE  TablesKept
  <1> DEFINE c == call[r]
             row == table[c.table][c.id]
  <1>1. PICK on \in BOOLEAN : table' = [table EXCEPT ![c.table][c.id].active = on]
    BY DEF DeactivateWrite, ReactivateWrite
  <1>2. c \in RowCall /\ Exists(c.table, c.id)
    BY CallOf DEF DeactivateWrite, ReactivateWrite, At, CallSound
  <1>3. c.table \in Tables /\ c.id \in Ids
    BY <1>2 DEF RowCall
  <1>4. row \in Row
    BY <1>2, <1>3 DEF TablesOK, Exists
  <1>5. PICK x : x = [row EXCEPT !.active = on]
    OBVIOUS
  <1>6. x \in Row /\ x.code = row.code /\ x.owner = row.owner
    BY <1>4, <1>5 DEF Row
  <1>7. table' = [table EXCEPT ![c.table] = [@ EXCEPT ![c.id] = x]]
    BY <1>1, <1>5
  <1>8. \A j \in RowsOf(c.table) \ {c.id} : ~ HasCode(c.table, j, x.code, x.owner)
    <2>1. c.id \in RowsOf(c.table)
      BY <1>2, <1>3 DEF RowsOf, Exists
    <2> QED BY <1>3, <1>6, <2>1 DEF TablesOK
  <1> HIDE DEF c
  <1> QED BY <1>3, <1>6, <1>7, <1>8, RowPut

LEMMA DeleteKeeps ==
  ASSUME TablesOK, NEW r, call[r] \in AllCalls, CallSound(call[r]), DeleteWrite(r)
  PROVE  TablesKept
  <1> DEFINE c == call[r]
  <1>1. c \in RowCall /\ c.table \in Deletable
    BY CallOf DEF DeleteWrite, At, CallSound
  <1>2. CASE UNCHANGED table
    BY <1>2, SameTables
  <1>3. CASE table' = [table EXCEPT ![c.table][c.id] = None]
    <2>1. c.table \in Tables /\ c.id \in Ids
      BY <1>1 DEF RowCall
    <2>2. table' \in [Tables -> [Ids -> Row \union {None}]]
      BY <1>3, <2>1 DEF TablesOK
    <2>3. table'[c.table][c.id] = None
          /\ \A u \in Tables, j \in Ids : u # c.table \/ j # c.id => table'[u][j] = table[u][j]
      BY <1>3, <2>1 DEF TablesOK
    <2> HIDE DEF c
    <2>4. \A u \in Tables : \A j \in RowsOf(u)' : j \in RowsOf(u) /\ table'[u][j] = table[u][j]
      BY <2>3 DEF RowsOf
    <2>5. TablesOK'
      BY <2>2, <2>4 DEF TablesOK, HasCode
    <2>6. \A u \in Tables \ Deletable : \A j \in Ids : Exists(u, j) => Exists(u, j)'
      BY <1>1, <2>3 DEF Exists
    <2> QED BY <2>5, <2>6 DEF TablesKept
  <1> QED BY <1>2, <1>3 DEF DeleteWrite

AssignedOK == assigned \in [{"colors", "sizes"} -> SUBSET (Ids \X Ids)]

LEMMA PairsKept ==
  ASSUME AssignedOK, NEW r, call[r] \in AllCalls, AssignWrite(r) \/ RemoveWrite(r)
  PROVE  AssignedOK'
  <1>1. call[r] \in PairCall
    BY CallOf DEF AssignWrite, RemoveWrite, At
  <1>2. call[r].table \in {"colors", "sizes"} /\ call[r].model \in Ids /\ call[r].id \in Ids
    BY <1>1 DEF PairCall
  <1>3. CASE AssignWrite(r)
    BY <1>2, <1>3 DEF AssignWrite, AssignedOK
  <1>4. CASE RemoveWrite(r)
    BY <1>2, <1>4 DEF RemoveWrite, AssignedOK
  <1> QED BY <1>3, <1>4

LEMMA MasterWrites ==
  ASSUME TablesOK, AssignedOK, NEW r, call[r] \in AllCalls, CallSound(call[r]), overtaken \subseteq Requests, MasterWrite(r)
  PROVE  TablesKept /\ AssignedOK' /\ Finish(r) /\ overtaken' \subseteq Requests
  <1>1. TablesKept
    BY CreateKeeps, UpdateKeeps, ActivityKeeps, DeleteKeeps, SameTables
       DEF MasterWrite, AssignWrite, RemoveWrite
  <1>2. AssignedOK'
    <2>1. CASE AssignWrite(r) \/ RemoveWrite(r)
      BY <2>1, PairsKept
    <2>2. CASE UNCHANGED assigned
      BY <2>2 DEF AssignedOK
    <2> QED BY <2>1, <2>2 DEF MasterWrite, CreateWrite, UpdateWrite, DeleteWrite, DeactivateWrite, ReactivateWrite
  <1>3. Finish(r) /\ overtaken' \subseteq Requests
    BY DEF MasterWrite, CreateWrite, UpdateWrite, DeleteWrite, DeactivateWrite, ReactivateWrite, AssignWrite, RemoveWrite,
           Referring
  <1> QED BY <1>1, <1>2, <1>3

-----------------------------------------------------------------------------
(* The writes of the stock and of the places.                              *)

\* A row of a sequence is replaced.
LEMMA RowReplaced ==
  ASSUME NEW S, NEW seq \in Seq(S), NEW d \in DOMAIN seq, NEW x \in S
  PROVE  /\ d \in Nat /\ seq[d] \in S
         /\ [seq EXCEPT ![d] = x] \in Seq(S) /\ DOMAIN [seq EXCEPT ![d] = x] = DOMAIN seq
         /\ [seq EXCEPT ![d] = x][d] = x
         /\ \A j \in DOMAIN seq : j # d => [seq EXCEPT ![d] = x][j] = seq[j]
  <1>1. DOMAIN seq = 1 .. Len(seq) /\ Len(seq) \in Nat
    BY LenProperties
  <1>2. d \in 1 .. Len(seq)
    BY <1>1
  <1>3. DOMAIN [seq EXCEPT ![d] = x] = 1 .. Len([seq EXCEPT ![d] = x])
    BY <1>2, ExceptSeq, LenProperties
  <1> QED BY <1>1, <1>2, <1>3, ExceptSeq, ElementOfSeq

\* Rows are put at the end of a sequence.
LEMMA RowsAppended ==
  ASSUME NEW S, NEW seq \in Seq(S), NEW more \in Seq(S)
  PROVE  /\ seq \o more \in Seq(S)
         /\ DOMAIN seq = 1 .. Len(seq) /\ Len(seq) \in Nat /\ Len(more) \in Nat
         /\ DOMAIN (seq \o more) = 1 .. Len(seq) + Len(more)
         /\ DOMAIN seq \subseteq DOMAIN (seq \o more)
         /\ \A i \in DOMAIN seq : (seq \o more)[i] = seq[i]
         /\ \A i \in 1 .. Len(more) : (seq \o more)[Len(seq) + i] = more[i]
  <1>1. DOMAIN seq = 1 .. Len(seq) /\ Len(seq) \in Nat /\ Len(more) \in Nat
    BY LenProperties
  <1>2. seq \o more \in Seq(S) /\ Len(seq \o more) = Len(seq) + Len(more)
    BY ConcatProperties
  <1>3. DOMAIN (seq \o more) = 1 .. Len(seq) + Len(more)
    BY <1>2, LenProperties
  <1>4. \A i \in 1 .. Len(seq) + Len(more) : (seq \o more)[i] = IF i <= Len(seq) THEN seq[i] ELSE more[i - Len(seq)]
    BY ConcatProperties
  <1> QED BY <1>1, <1>2, <1>3, <1>4

LEMMA RowAppended ==
  ASSUME NEW S, NEW seq \in Seq(S), NEW x \in S
  PROVE  /\ Append(seq, x) \in Seq(S)
         /\ DOMAIN seq = 1 .. Len(seq) /\ Len(seq) \in Nat
         /\ DOMAIN Append(seq, x) = 1 .. Len(seq) + 1
         /\ DOMAIN seq \subseteq DOMAIN Append(seq, x)
         /\ \A i \in DOMAIN seq : Append(seq, x)[i] = seq[i]
         /\ Append(seq, x)[Len(seq) + 1] = x
  <1>1. DOMAIN Append(seq, x) = 1 .. Len(Append(seq, x))
    BY AppendProperties, LenProperties
  <1> QED BY <1>1, AppendProperties, LenProperties

DocumentsKept == DOMAIN cycleCount \subseteq DOMAIN cycleCount' /\ DOMAIN supplement \subseteq DOMAIN supplement'

\* What the types leave of StockTypeOK.
StockKept == StockTypeOK' /\ DocumentsKept

LEMMA RacedTyped ==
  ASSUME NEW old, old \subseteq ({"supplement", "count"} \X Nat), raced = old,
         NEW kind \in {"supplement", "count"}, NEW d \in Nat, NEW status, NEW seen
  PROVE  Stale(<<kind, d>>, status, seen) \subseteq ({"supplement", "count"} \X Nat)
  BY DEF Stale

LEMMA TransactionWritten ==
  ASSUME StockTypeOK, NEW r, call[r] \in AllCalls, WriteTransaction(r)
  PROVE  StockKept
  <1>1. call[r] \in PostCall
    BY CallOf DEF WriteTransaction, At
  <1>2. call[r].entries \in Seq(Entry)
    BY <1>1 DEF PostCall
  <1>3. journal' \in Seq(Entry)
    BY <1>2, RowsAppended DEF WriteTransaction, StockTypeOK
  <1> QED BY <1>3 DEF StockTypeOK, StockKept, DocumentsKept, WriteTransaction

\* The row that an adjustment writes, and where.
LEMMA AdjustmentRow ==
  ASSUME NEW entries, Adjusts(entries)
  PROVE  /\ entries[1] \in Entry /\ entries[1].dozens \in Int
         /\ <<entries[1].to[2], entries[1].item>> \in Ids \X PartItem
         /\ entries[1].type = "ADJUSTMENT" /\ entries[1].note \in Reasons /\ entries[1].from = None
         /\ entries[1].to = Warehouse(entries[1].to[2])
  <1>1. PICK item \in Items \intersect PartItem, w \in Ids, n \in Amounts, reason \in Reasons :
           entries = <<FromAdjust(item, w, n, reason)>>
    BY DEF Adjusts
  <1>2. item \in Item /\ n \in Int
    BY ItemsTyped
  <1>3. entries[1] = FromAdjust(item, w, n, reason)
    BY <1>1
  <1>4. entries[1] \in Entry
    BY <1>2, <1>3, EntryTyped
  <1> QED BY <1>2, <1>3, <1>4 DEF FromAdjust, Warehouse

LEMMA AdjustmentWritten ==
  ASSUME StockTypeOK, NEW r, call[r] \in AllCalls, CallSound(call[r]), WriteAdjustment(r)
  PROVE  StockKept
  <1> DEFINE e == call[r].entries[1]
             k == <<e.to[2], e.item>>
  <1>1. Adjusts(call[r].entries)
    BY DEF WriteAdjustment, At, CallSound
  <1>2. e \in Entry /\ e.dozens \in Int /\ k \in Ids \X PartItem
    BY <1>1, AdjustmentRow
  <1>3. journal' = Append(journal, e) /\ onHand' = [onHand EXCEPT ![k] = UpsertOnHand(@, e.dozens)]
    BY DEF WriteAdjustment
  <1> HIDE DEF e, k
  <1>4. journal' \in Seq(Entry)
    BY <1>2, <1>3, RowAppended DEF StockTypeOK
  <1>5. onHand[k] \in Int \union {None}
    BY <1>2 DEF StockTypeOK
  <1>6. UpsertOnHand(onHand[k], e.dozens) \in Int
    BY <1>2, <1>5 DEF UpsertOnHand
  <1>7. onHand' \in [Ids \X PartItem -> Int \union {None}]
    BY <1>2, <1>3, <1>6 DEF StockTypeOK
  <1> QED BY <1>4, <1>7 DEF StockTypeOK, StockKept, DocumentsKept, WriteAdjustment

LEMMA CountCreated ==
  ASSUME StockTypeOK, NEW r, call[r] \in AllCalls, CreateCycleCount(r)
  PROVE  StockKept
  <1> DEFINE c == call[r]
             x == [warehouse |-> c.warehouse, item |-> c.item, system |-> c.system, actual |-> c.actual,
                   status |-> "OPEN", actions |-> 0, closed |-> 0]
  <1>1. c \in OpenCall
    BY CallOf DEF CreateCycleCount, At
  <1>2. x \in CycleCount
    BY <1>1 DEF OpenCall, CycleCount
  <1>3. cycleCount' \in {cycleCount, Append(cycleCount, x)}
    BY DEF CreateCycleCount
  <1> HIDE DEF x
  <1>4. cycleCount' \in Seq(CycleCount) /\ DOMAIN cycleCount \subseteq DOMAIN cycleCount'
    <2>1. CASE cycleCount' = cycleCount
      BY <2>1 DEF StockTypeOK
    <2>2. CASE cycleCount' = Append(cycleCount, x)
      BY <1>2, <2>2, RowAppended DEF StockTypeOK
    <2> QED BY <1>3, <2>1, <2>2
  <1> QED BY <1>4 DEF StockTypeOK, StockKept, DocumentsKept, CreateCycleCount

LEMMA CountWritten ==
  ASSUME StockTypeOK, NEW r, call[r] \in AllCalls, CallSound(call[r]), WriteAction(r) \/ WriteClosure(r)
  PROVE  StockKept
  <1> DEFINE d == call[r].doc
             row == cycleCount[d]
  <1>1. d \in DOMAIN cycleCount /\ d \in Nat
    BY CallOf DEF CallSound, WriteAction, WriteClosure, At, CountCall
  <1>2. row \in CycleCount
    BY <1>1, RowReplaced DEF StockTypeOK
  <1>3. PICK x \in CycleCount : cycleCount' = [cycleCount EXCEPT ![d] = x]
    <2>1. CASE WriteAction(r)
      <3>1. PICK x : x = [row EXCEPT !.actions = @ + 1]
        OBVIOUS
      <3>2. x \in CycleCount
        BY <1>2, <3>1 DEF CycleCount
      <3>3. cycleCount' = [cycleCount EXCEPT ![d] = x]
        BY <2>1, <3>1 DEF WriteAction
      <3> QED BY <3>2, <3>3
    <2>2. CASE WriteClosure(r)
      <3>1. PICK y : y = [row EXCEPT !.status = "CLOSED"]
        OBVIOUS
      <3>2. y \in CycleCount
        BY <1>2, <3>1 DEF CycleCount
      <3>3. PICK x : x = [y EXCEPT !.closed = @ + 1]
        OBVIOUS
      <3>4. x \in CycleCount
        BY <3>2, <3>3 DEF CycleCount
      <3>5. cycleCount' = [cycleCount EXCEPT ![d].status = "CLOSED", ![d].closed = @ + 1]
        BY <2>2 DEF WriteClosure
      <3>6. cycleCount' = [cycleCount EXCEPT ![d] = x]
        <4> HIDE DEF d
        <4> QED BY <1>1, <3>1, <3>3, <3>5 DEF StockTypeOK
      <3> QED BY <3>4, <3>6
    <2> QED BY <2>1, <2>2
  <1>4. cycleCount' \in Seq(CycleCount) /\ DOMAIN cycleCount' = DOMAIN cycleCount
    BY <1>1, <1>3, RowReplaced DEF StockTypeOK
  <1>5. raced' \subseteq ({"supplement", "count"} \X Nat)
    BY <1>1, RacedTyped DEF WriteAction, WriteClosure, StockTypeOK
  <1> QED BY <1>4, <1>5 DEF StockTypeOK, StockKept, DocumentsKept, WriteAction, WriteClosure

Statuses == {"PENDING_APPROVAL", "APPROVED", "REJECTED", "CANCELLED", "TRANSFERRED"}

\* Every line of a request is rewritten.
LEMMA LinesApproved ==
  ASSUME NEW lines \in Seq(Line)
  PROVE  /\ [l \in DOMAIN lines |-> Approved(lines[l])] \in Seq(Line)
         /\ \A l \in DOMAIN lines : lines[l] \in Line /\ Approved(lines[l]).approved = lines[l].requested
              /\ Approved(lines[l]).requested = lines[l].requested
              /\ Approved(lines[l]).transferred = lines[l].transferred
  <1>1. DOMAIN lines = 1 .. Len(lines) /\ Len(lines) \in Nat /\ \A l \in DOMAIN lines : lines[l] \in Line
    BY LenProperties, ElementOfSeq
  <1>2. ASSUME NEW x \in Line PROVE Approved(x) \in Line /\ Approved(x).approved = x.requested
                                    /\ Approved(x).requested = x.requested /\ Approved(x).transferred = x.transferred
    BY DEF Line, Approved
  <1>3. [l \in DOMAIN lines |-> Approved(lines[l])] \in [1 .. Len(lines) -> Line]
    BY <1>1, <1>2
  <1> QED BY <1>1, <1>2, <1>3

LEMMA LinesTransferred ==
  ASSUME NEW lines \in Seq(Line)
  PROVE  /\ [l \in DOMAIN lines |-> Transferred(lines[l])] \in Seq(Line)
         /\ \A l \in DOMAIN lines : lines[l] \in Line /\ Transferred(lines[l]).transferred = ApprovedOf(lines[l])
              /\ ApprovedOf(lines[l]) \in Int
              /\ Transferred(lines[l]).approved = lines[l].approved
              /\ Transferred(lines[l]).requested = lines[l].requested
  <1>1. DOMAIN lines = 1 .. Len(lines) /\ Len(lines) \in Nat /\ \A l \in DOMAIN lines : lines[l] \in Line
    BY LenProperties, ElementOfSeq
  <1>2. ASSUME NEW x \in Line PROVE Transferred(x) \in Line /\ Transferred(x).transferred = ApprovedOf(x)
                                    /\ ApprovedOf(x) \in Int
                                    /\ Transferred(x).approved = x.approved /\ Transferred(x).requested = x.requested
    BY DEF Line, Transferred, ApprovedOf
  <1>3. [l \in DOMAIN lines |-> Transferred(lines[l])] \in [1 .. Len(lines) -> Line]
    BY <1>1, <1>2
  <1> QED BY <1>1, <1>2, <1>3

\* The rows that the transfer of a request writes to the journal.
LinesEntries(d) == [l \in DOMAIN supplement[d].lines |-> LineEntry(d, l)]

LEMMA LinesEntriesTyped ==
  ASSUME StockTypeOK, NEW d \in DOMAIN supplement
  PROVE  /\ LinesEntries(d) \in Seq(Entry) /\ Len(LinesEntries(d)) = Len(supplement[d].lines)
         /\ DOMAIN LinesEntries(d) = DOMAIN supplement[d].lines
         /\ \A l \in DOMAIN supplement[d].lines :
               LinesEntries(d)[l] = LineEntry(d, l) /\ LineEntry(d, l) \in Entry /\ l \in Nat
  <1>1. supplement[d] \in Supplement /\ d \in Nat
    BY RowReplaced DEF StockTypeOK
  <1> DEFINE row == supplement[d]
             lines == row.lines
  <1>2. lines \in Seq(Line) /\ row.order \in Ids
    BY <1>1, ItemsTyped DEF Supplement
  <1>3. DOMAIN lines = 1 .. Len(lines) /\ Len(lines) \in Nat
    BY <1>2, LenProperties
  <1>4. ASSUME NEW l \in DOMAIN lines PROVE LineEntry(d, l) \in Entry /\ l \in Nat
    <2>0. PICK ls \in Seq(Line) : ls = lines
      BY <1>2
    <2>1. l \in Nat /\ lines[l] \in Line /\ ApprovedOf(lines[l]) \in Int
      <3>1. l \in 1 .. Len(lines)
        BY <1>3, <1>4
      <3>2. l \in DOMAIN ls
        BY <1>4, <2>0
      <3>3. ls[l] \in Line /\ ApprovedOf(ls[l]) \in Int
        BY <3>2, LinesTransferred
      <3>4. l \in Nat
        <4> HIDE DEF lines
        <4> QED BY <1>3, <3>1
      <3> QED BY <2>0, <3>3, <3>4
    <2>2. lines[l].item \in Item /\ Warehouse(lines[l].warehouse) \in Site /\ ProductionOrder(row.order) \in Site
      BY <1>2, <2>1 DEF Line, Item, PartItem, Site, Warehouse, ProductionOrder
    <2> QED BY <1>1, <2>1, <2>2 DEF LineEntry, Entry
  <1>5. LinesEntries(d) \in [1 .. Len(lines) -> Entry]
    BY <1>3, <1>4 DEF LinesEntries
  <1>6. LinesEntries(d) \in Seq(Entry) /\ Len(LinesEntries(d)) = Len(lines)
    BY <1>3, <1>5
  <1> QED BY <1>4, <1>6 DEF LinesEntries

\* One request has got a status and lines, the others are what they were.
Rewritten(d, s, ls) ==
  /\ supplement' \in Seq(Supplement) /\ DOMAIN supplement' = DOMAIN supplement
  /\ supplement'[d].status = s /\ supplement'[d].lines = ls
  /\ supplement'[d].number = supplement[d].number /\ supplement'[d].order = supplement[d].order
  /\ \A j \in DOMAIN supplement : j # d => supplement'[j] = supplement[j]

LEMMA SupplementRewritten ==
  ASSUME StockTypeOK, NEW d \in DOMAIN supplement, NEW s \in Statuses, NEW ls \in Seq(Line),
         supplement' = [supplement EXCEPT ![d] = [@ EXCEPT !.status = s, !.lines = ls]]
  PROVE  Rewritten(d, s, ls)
  <1>1. supplement \in Seq(Supplement) /\ supplement[d] \in Supplement
    BY RowReplaced DEF StockTypeOK
  <1>2. PICK row \in Supplement : row = supplement[d]
    BY <1>1
  <1>3. PICK x : x = [row EXCEPT !.status = s, !.lines = ls]
    OBVIOUS
  <1>4. x \in Supplement /\ x.status = s /\ x.lines = ls /\ x.number = row.number /\ x.order = row.order
    <2>1. PICK y : y = [row EXCEPT !.status = s]
      OBVIOUS
    <2>2. y \in Supplement /\ y.status = s /\ y.number = row.number /\ y.order = row.order
      BY <2>1 DEF Supplement, Statuses
    <2>3. x = [y EXCEPT !.lines = ls]
      BY <1>3, <2>1
    <2> QED BY <2>2, <2>3 DEF Supplement
  <1>5. supplement' = [supplement EXCEPT ![d] = x]
    BY <1>2, <1>3
  <1>6. /\ supplement' \in Seq(Supplement) /\ DOMAIN supplement' = DOMAIN supplement
        /\ supplement'[d] = x /\ \A j \in DOMAIN supplement : j # d => supplement'[j] = supplement[j]
    BY <1>1, <1>4, <1>5, RowReplaced
  <1> QED BY <1>2, <1>4, <1>6 DEF Rewritten

\* The document of a call, and its lines before the call writes.
LEMMA DocOf ==
  ASSUME StockTypeOK, NEW r, call[r] \in AllCalls, CallSound(call[r]),
         WriteApproval(r) \/ WriteRejection(r) \/ WriteTransfer(r)
  PROVE  /\ call[r].doc \in DOMAIN supplement /\ call[r].doc \in Nat
         /\ supplement[call[r].doc] \in Supplement /\ supplement[call[r].doc].lines \in Seq(Line)
         /\ supplement[call[r].doc].status \in Statuses
  <1>1. call[r].op \in {"approve", "reject", "cancel", "transfer"}
    BY DEF WriteApproval, WriteRejection, WriteTransfer, At
  <1>2. call[r].doc \in DOMAIN supplement
    BY <1>1 DEF CallSound
  <1>3. supplement[call[r].doc] \in Supplement /\ call[r].doc \in Nat
    BY <1>2, RowReplaced DEF StockTypeOK
  <1> QED BY <1>2, <1>3 DEF Supplement, Statuses

LEMMA ApprovalWrites ==
  ASSUME StockTypeOK, NEW r, call[r] \in AllCalls, CallSound(call[r]), WriteApproval(r), NEW d, d = call[r].doc
  PROVE  Rewritten(d, "APPROVED", [l \in DOMAIN supplement[d].lines |-> Approved(supplement[d].lines[l])])
  <1> DEFINE lines == supplement[d].lines
             ls == [l \in DOMAIN lines |-> Approved(lines[l])]
  <1>1. d \in DOMAIN supplement /\ supplement[d] \in Supplement /\ lines \in Seq(Line)
    BY DocOf
  <1>2. ls \in Seq(Line)
    BY <1>1, LinesApproved
  <1>3. supplement' = [supplement EXCEPT ![d].status = "APPROVED", ![d].lines = [l \in DOMAIN @ |-> Approved(@[l])]]
    BY DEF WriteApproval
  <1>4. supplement' = [supplement EXCEPT ![d] = [@ EXCEPT !.status = "APPROVED", !.lines = ls]]
    BY <1>1, <1>3 DEF StockTypeOK, Supplement
  <1> HIDE DEF ls
  <1> QED BY <1>1, <1>2, <1>4, SupplementRewritten DEF Statuses, ls

LEMMA RejectionWrites ==
  ASSUME StockTypeOK, NEW r, call[r] \in AllCalls, CallSound(call[r]), WriteRejection(r), NEW d, d = call[r].doc
  PROVE  Rewritten(d, IF At(r, "reject") THEN "REJECTED" ELSE "CANCELLED", supplement[d].lines)
  <1> DEFINE s == IF At(r, "reject") THEN "REJECTED" ELSE "CANCELLED"
  <1>1. d \in DOMAIN supplement /\ supplement[d] \in Supplement /\ supplement[d].lines \in Seq(Line)
    BY DocOf
  <1>2. supplement' = [supplement EXCEPT ![d].status = s]
    BY DEF WriteRejection
  <1>3. s \in Statuses
    BY DEF Statuses
  <1> HIDE DEF s
  <1>4. PICK x : x = [supplement[d] EXCEPT !.status = s]
    OBVIOUS
  <1>5. x \in Supplement /\ x.status = s /\ x.lines = supplement[d].lines /\ x.number = supplement[d].number
        /\ x.order = supplement[d].order
    BY <1>1, <1>3, <1>4 DEF Supplement, Statuses
  <1>6. supplement' = [supplement EXCEPT ![d] = x]
    BY <1>2, <1>4
  <1>7. /\ supplement' \in Seq(Supplement) /\ DOMAIN supplement' = DOMAIN supplement
        /\ supplement'[d] = x /\ \A j \in DOMAIN supplement : j # d => supplement'[j] = supplement[j]
    BY <1>1, <1>5, <1>6, RowReplaced DEF StockTypeOK
  <1> QED BY <1>5, <1>7 DEF Rewritten, s

LEMMA TransferWrites ==
  ASSUME StockTypeOK, NEW r, call[r] \in AllCalls, CallSound(call[r]), WriteTransfer(r), NEW d, d = call[r].doc
  PROVE  /\ Rewritten(d, "TRANSFERRED", [l \in DOMAIN supplement[d].lines |-> Transferred(supplement[d].lines[l])])
         /\ journal' = journal \o LinesEntries(d)
  <1> DEFINE lines == supplement[d].lines
             ls == [l \in DOMAIN lines |-> Transferred(lines[l])]
  <1>1. d \in DOMAIN supplement /\ supplement[d] \in Supplement /\ lines \in Seq(Line)
    BY DocOf
  <1>2. ls \in Seq(Line)
    BY <1>1, LinesTransferred
  <1>3. supplement' = [supplement EXCEPT ![d].status = "TRANSFERRED",
                                         ![d].lines = [l \in DOMAIN @ |-> Transferred(@[l])]]
        /\ journal' = journal \o LinesEntries(d)
    BY DEF WriteTransfer, LinesEntries
  <1>4. supplement' = [supplement EXCEPT ![d] = [@ EXCEPT !.status = "TRANSFERRED", !.lines = ls]]
    BY <1>1, <1>3 DEF StockTypeOK, Supplement
  <1> HIDE DEF ls
  <1> QED BY <1>1, <1>2, <1>3, <1>4, SupplementRewritten DEF Statuses, ls

LEMMA SupplementsWritten ==
  ASSUME StockTypeOK, NEW r, call[r] \in AllCalls, CallSound(call[r]),
         WriteApproval(r) \/ WriteRejection(r) \/ WriteTransfer(r)
  PROVE  StockKept
  <1>1. PICK d : d = call[r].doc
    OBVIOUS
  <1>2. d \in DOMAIN supplement /\ d \in Nat
    BY <1>1, DocOf
  <1>3. supplement' \in Seq(Supplement) /\ DOMAIN supplement' = DOMAIN supplement
    BY <1>1, ApprovalWrites, RejectionWrites, TransferWrites DEF Rewritten
  <1>4. raced' \subseteq ({"supplement", "count"} \X Nat)
    BY <1>1, <1>2, RacedTyped DEF WriteApproval, WriteRejection, WriteTransfer, StockTypeOK
  <1>5. journal' \in Seq(Entry)
    <2>1. CASE WriteTransfer(r)
      <3>1. LinesEntries(d) \in Seq(Entry) /\ journal' = journal \o LinesEntries(d)
        BY <1>1, <1>2, <2>1, TransferWrites, LinesEntriesTyped
      <3>2. PICK es : es = LinesEntries(d)
        OBVIOUS
      <3> QED BY <3>1, <3>2, RowsAppended DEF StockTypeOK
    <2>2. CASE WriteApproval(r) \/ WriteRejection(r)
      BY <2>2 DEF WriteApproval, WriteRejection, StockTypeOK
    <2> QED BY <2>1, <2>2
  <1>6. UNCHANGED <<inProduction, onHand, numbers, cycleCount>>
    BY DEF WriteApproval, WriteRejection, WriteTransfer
  <1> QED BY <1>3, <1>4, <1>5, <1>6 DEF StockTypeOK, StockKept, DocumentsKept

LEMMA SupplementCreated ==
  ASSUME StockTypeOK, NEW r, call[r] \in AllCalls, CreateSupplement(r)
  PROVE  StockKept
  <1> DEFINE c == call[r]
             x == [number |-> c.number, order |-> c.order, lines |-> c.lines, status |-> "PENDING_APPROVAL"]
  <1>1. c \in RequestCall /\ c.number # None
    BY CallOf DEF CreateSupplement, At
  <1>2. x \in Supplement
    BY <1>1 DEF RequestCall, Supplement
  <1>3. supplement' \in {supplement, Append(supplement, x)}
    BY DEF CreateSupplement
  <1> HIDE DEF x
  <1>4. supplement' \in Seq(Supplement) /\ DOMAIN supplement \subseteq DOMAIN supplement'
    <2>1. CASE supplement' = supplement
      BY <2>1 DEF StockTypeOK
    <2>2. CASE supplement' = Append(supplement, x)
      BY <1>2, <2>2, RowAppended DEF StockTypeOK
    <2> QED BY <1>3, <2>1, <2>2
  <1> QED BY <1>4 DEF StockTypeOK, StockKept, DocumentsKept, CreateSupplement

LEMMA StockWrites ==
  ASSUME StockTypeOK, NEW r, call[r] \in AllCalls, CallSound(call[r]), StockWrite(r)
  PROVE  StockKept /\ Finish(r) /\ UNCHANGED <<masterVars, overtaken>>
  <1>1. StockKept
    BY TransactionWritten, AdjustmentWritten, CountCreated, CountWritten, SupplementsWritten, SupplementCreated
       DEF StockWrite
  <1>2. Finish(r) /\ UNCHANGED <<masterVars, overtaken>>
    BY DEF StockWrite, WriteTransaction, WriteAdjustment, CreateCycleCount, WriteAction, WriteClosure,
           CreateSupplement, WriteApproval, WriteRejection, WriteTransfer
  <1> QED BY <1>1, <1>2

LEMMA LocationsTyped ==
  ASSUME LocationTypeOK, NEW r, call[r] \in AllCalls, InsertLocation(r)
  PROVE  LocationTypeOK'
  <1> DEFINE w == call[r].warehouse
             p == call[r].place
             code == BuildLocationCode(p)
             x == [warehouse |-> w, place |-> p, code |-> code, active |-> TRUE]
  <1>1. call[r] \in LocationCall
    BY CallOf DEF InsertLocation, At
  <1>2. w \in Ids /\ p \in Place
    BY <1>1 DEF LocationCall
  <1>3. ASSUME NEW part \in PlaceCodes \union {None} PROVE Suffix(part) \in Seq(Characters)
    <2>1. CASE IsGiven(part)
      <3>1. part \in Seq(Characters)
        BY <2>1, LocationConstants DEF IsGiven
      <3>2. <<"-">> \in Seq(Characters)
        BY LocationConstants
      <3>3. <<"-">> \o part \in Seq(Characters)
        BY ONLY <3>1, <3>2, ConcatProperties
      <3> QED BY <2>1, <3>3 DEF Suffix
    <2>2. CASE ~ IsGiven(part)
      BY <2>2 DEF Suffix
    <2> QED BY <2>1, <2>2
  <1>4. p.zone \in Seq(Characters) /\ Suffix(p.rack) \in Seq(Characters) /\ Suffix(p.shelf) \in Seq(Characters)
        /\ Suffix(p.bin) \in Seq(Characters)
    BY <1>2, <1>3, LocationConstants DEF Place
  <1>5. code \in Seq(Characters)
    BY <1>4, ConcatProperties DEF BuildLocationCode
  <1>6. x \in Location
    BY <1>2, <1>5 DEF Location
  <1>7. location' \subseteq location \union {x}
    BY DEF InsertLocation
  <1> QED BY <1>6, <1>7 DEF LocationTypeOK

LEMMA LocationStatusTyped ==
  ASSUME LocationTypeOK, NEW l \in location, NEW on \in BOOLEAN, UpdateLocationStatus(l, on)
  PROVE  LocationTypeOK'
  <1>1. PICK x : x = [l EXCEPT !.active = on]
    OBVIOUS
  <1>2. l \in Location
    BY DEF LocationTypeOK
  <1>3. x \in Location
    BY <1>1, <1>2 DEF Location
  <1>4. location' = (location \ {l}) \union {x}
    BY <1>1 DEF UpdateLocationStatus
  <1> QED BY <1>3, <1>4 DEF LocationTypeOK

-----------------------------------------------------------------------------
(* The types.                                                              *)

LEMMA TypeParts ==
  TypeOK <=> /\ TablesOK /\ AssignedOK /\ StockTypeOK /\ LocationTypeOK
             /\ call \in [Requests -> AllCalls \union {None}]
             /\ overtaken \subseteq Requests
             /\ scope \in Scopes
  BY DEF TypeOK, TablesOK, AssignedOK, MasterTypeOK, AllCalls

LEMMA TypePartsNext ==
  /\ TablesOK' /\ AssignedOK' /\ StockTypeOK' /\ LocationTypeOK'
  /\ call' \in [Requests -> AllCalls \union {None}]
  /\ overtaken' \subseteq Requests
  /\ scope' \in Scopes
  => TypeOK'
  BY DEF TypeOK, TablesOK, AssignedOK, MasterTypeOK, AllCalls

\* A call goes on being sound while nothing that it has found is taken away.
LEMMA SoundKept ==
  ASSUME NEW c \in AllCalls, CallSound(c), Growing
  PROVE  CallSound(c)'
  <1>1. c.op \in {"deactivate", "reactivate"} => c.table \in Tables /\ c.id \in Ids
    BY CallOf DEF RowCall
  <1> QED BY <1>1 DEF CallSound, Growing

\* The calls after a step that finishes one, or begins one.
LEMMA FinishCalls ==
  ASSUME TypeInv, NEW r \in Requests, Finish(r), Growing
  PROVE  call' \in [Requests -> AllCalls \union {None}] /\ \A c \in Calls' : CallSound(c)'
  <1>1. call \in [Requests -> AllCalls \union {None}]
    BY TypeParts DEF TypeInv
  <1>2. call' \in [Requests -> AllCalls \union {None}] /\ Calls' \subseteq Calls /\ Calls \subseteq AllCalls
    BY <1>1 DEF Finish, Calls
  <1> QED BY <1>2, SoundKept DEF TypeInv

LEMMA BeginCalls ==
  ASSUME TypeInv, NEW r \in Requests, NEW x \in AllCalls, Begin(r, x), CallSound(x), Growing
  PROVE  call' \in [Requests -> AllCalls \union {None}] /\ overtaken' \subseteq Requests
         /\ \A c \in Calls' : CallSound(c)'
  <1>1. call \in [Requests -> AllCalls \union {None}] /\ overtaken \subseteq Requests
    BY TypeParts DEF TypeInv
  <1>2. /\ call' \in [Requests -> AllCalls \union {None}] /\ Calls' \subseteq Calls \union {x}
        /\ Calls \subseteq AllCalls /\ overtaken' \subseteq Requests
    BY <1>1 DEF Begin, Calls
  <1> QED BY <1>2, SoundKept DEF TypeInv

LEMMA SameMaster ==
  ASSUME TablesOK, AssignedOK, UNCHANGED masterVars
  PROVE  TablesKept /\ AssignedOK'
  BY SameTables DEF masterVars, AssignedOK

LEMMA SameStock ==
  ASSUME StockTypeOK, UNCHANGED stockVars
  PROVE  StockKept
  BY DEF StockTypeOK, StockKept, DocumentsKept, stockVars

LEMMA GrowingParts ==
  ASSUME TablesKept, DocumentsKept
  PROVE  TablesOK' /\ Growing
  BY DEF TablesKept, DocumentsKept, Growing

LEMMA SameTypes ==
  ASSUME TypeInv, UNCHANGED vars
  PROVE  TypeInv'
  <1>1. /\ TablesOK /\ AssignedOK /\ StockTypeOK /\ LocationTypeOK
        /\ call \in [Requests -> AllCalls \union {None}] /\ overtaken \subseteq Requests /\ scope \in Scopes
    BY TypeParts DEF TypeInv
  <1>2. TablesKept /\ AssignedOK' /\ StockKept
    BY <1>1, SameMaster, SameStock DEF vars
  <1>3. TablesOK' /\ Growing /\ StockTypeOK'
    BY <1>2, GrowingParts DEF StockKept
  <1>4. LocationTypeOK' /\ call' = call /\ overtaken' = overtaken /\ scope' = scope
    BY <1>1 DEF vars, LocationTypeOK
  <1>5. TypeOK'
    BY <1>1, <1>2, <1>3, <1>4, TypePartsNext
  <1>6. Calls' = Calls /\ Calls \subseteq AllCalls
    BY <1>1, <1>4 DEF Calls
  <1> QED BY <1>3, <1>5, <1>6, SoundKept DEF TypeInv

LEMMA NumberTaken ==
  ASSUME TypeInv, NEW r \in Requests, NextNumber(r)
  PROVE  /\ StockKept /\ Growing
         /\ call' \in [Requests -> AllCalls \union {None}]
         /\ \A c \in Calls' : CallSound(c)'
  <1>1. /\ TablesOK /\ StockTypeOK /\ call \in [Requests -> AllCalls \union {None}]
    BY TypeParts DEF TypeInv
  <1>2. StockKept /\ UNCHANGED masterVars
    BY <1>1 DEF NextNumber, StockTypeOK, StockKept, DocumentsKept
  <1>3. Growing
    BY <1>1, <1>2, SameTables, GrowingParts DEF masterVars, StockKept
  <1>4. PICK x : x = [call[r] EXCEPT !.number = numbers + 1]
    OBVIOUS
  <1>5. call[r] \in RequestCall
    <2>1. call[r] # None /\ call[r].op = "request"
      BY DEF NextNumber, At
    <2>2. call[r] \in AllCalls
      BY <1>1, <2>1
    <2> QED BY <2>1, <2>2, CallOf
  <1>6. x \in RequestCall /\ x.op = "request" /\ x.refs = {}
    <2>1. PICK y \in RequestCall : y = call[r]
      BY <1>5
    <2>2. PICK n \in Nat : n = numbers + 1
      BY <1>1 DEF StockTypeOK
    <2>3. x = [y EXCEPT !.number = n]
      BY <1>4, <2>1, <2>2
    <2> QED BY <2>3 DEF RequestCall
  <1>7. call' = [call EXCEPT ![r] = x]
    BY <1>4 DEF NextNumber
  <1>8. x \in AllCalls
    BY <1>6, CallKinds
  <1>9. /\ call' \in [Requests -> AllCalls \union {None}] /\ Calls' \subseteq Calls \union {x}
        /\ Calls \subseteq AllCalls
    BY <1>1, <1>7, <1>8 DEF Calls
  <1>10. CallSound(x)
    BY <1>6 DEF CallSound
  <1> QED BY <1>2, <1>3, <1>8, <1>9, <1>10, SoundKept DEF TypeInv

LEMMA TypeStep ==
  ASSUME TypeInv, Next
  PROVE  TypeInv'
  <1>1. /\ TablesOK /\ AssignedOK /\ StockTypeOK /\ LocationTypeOK
        /\ call \in [Requests -> AllCalls \union {None}] /\ overtaken \subseteq Requests /\ scope \in Scopes
    BY TypeParts DEF TypeInv
  <1>2. ASSUME NEW r \in Requests, call[r] # None
        PROVE  call[r] \in AllCalls /\ CallSound(call[r])
    BY <1>1, <1>2 DEF TypeInv, Calls
  <1>3. ASSUME NEW r \in Requests, Checked(r), UNCHANGED <<masterVars, stockVars, location, scope>>
        PROVE  TypeInv'
    <2>1. PICK x : NewCall(r, x)
      BY <1>3 DEF Checked
    <2>2. x \in AllCalls /\ Begin(r, x) /\ CallSound(x)
      BY <2>1 DEF NewCall
    <2>3. TablesOK' /\ AssignedOK' /\ StockTypeOK' /\ Growing
      BY <1>1, <1>3, SameMaster, SameStock, GrowingParts DEF StockKept
    <2>4. LocationTypeOK' /\ scope' = scope
      BY <1>1, <1>3 DEF LocationTypeOK
    <2>5. call' \in [Requests -> AllCalls \union {None}] /\ overtaken' \subseteq Requests
          /\ \A c \in Calls' : CallSound(c)'
      BY <2>2, <2>3, BeginCalls
    <2> QED BY <1>1, <2>3, <2>4, <2>5, TypePartsNext DEF TypeInv
  <1>4. ASSUME NEW r \in Requests, MasterWrite(r), UNCHANGED <<stockVars, location, scope>>
        PROVE  TypeInv'
    <2>1. call[r] # None
      BY <1>4 DEF MasterWrite, CreateWrite, UpdateWrite, DeleteWrite, DeactivateWrite, ReactivateWrite, AssignWrite,
                  RemoveWrite, At
    <2>2. TablesKept /\ AssignedOK' /\ Finish(r) /\ overtaken' \subseteq Requests
      BY <1>1, <1>2, <1>4, <2>1, MasterWrites
    <2>3. TablesOK' /\ StockTypeOK' /\ Growing
      BY <1>1, <1>4, <2>2, SameStock, GrowingParts DEF StockKept
    <2>4. LocationTypeOK' /\ scope' = scope
      BY <1>1, <1>4 DEF LocationTypeOK
    <2>5. call' \in [Requests -> AllCalls \union {None}] /\ \A c \in Calls' : CallSound(c)'
      BY <2>2, <2>3, FinishCalls
    <2> QED BY <1>1, <2>2, <2>3, <2>4, <2>5, TypePartsNext DEF TypeInv
  <1>5. ASSUME NEW r \in Requests, NextNumber(r), UNCHANGED <<location, scope>>
        PROVE  TypeInv'
    <2>1. /\ StockKept /\ Growing /\ call' \in [Requests -> AllCalls \union {None}]
          /\ \A c \in Calls' : CallSound(c)'
      BY <1>5, NumberTaken
    <2>2. UNCHANGED masterVars /\ overtaken' = overtaken
      BY <1>5 DEF NextNumber
    <2>3. TablesOK' /\ AssignedOK' /\ LocationTypeOK' /\ scope' = scope
      BY <1>1, <1>5, <2>2, SameMaster DEF LocationTypeOK, TablesKept
    <2> QED BY <1>1, <2>1, <2>2, <2>3, TypePartsNext DEF TypeInv, StockKept
  <1>6. ASSUME NEW r \in Requests, StockWrite(r), UNCHANGED <<location, scope>>
        PROVE  TypeInv'
    <2>1. call[r] # None
      BY <1>6 DEF StockWrite, WriteTransaction, WriteAdjustment, CreateCycleCount, WriteAction, WriteClosure,
                  CreateSupplement, WriteApproval, WriteRejection, WriteTransfer, At
    <2>2. StockKept /\ Finish(r) /\ UNCHANGED <<masterVars, overtaken>>
      BY <1>1, <1>2, <1>6, <2>1, StockWrites
    <2>3. TablesOK' /\ AssignedOK' /\ StockTypeOK' /\ Growing
      BY <1>1, <2>2, SameMaster, GrowingParts DEF StockKept
    <2>4. LocationTypeOK' /\ scope' = scope
      BY <1>1, <1>6 DEF LocationTypeOK
    <2>5. call' \in [Requests -> AllCalls \union {None}] /\ \A c \in Calls' : CallSound(c)'
      BY <2>2, <2>3, FinishCalls
    <2> QED BY <1>1, <2>2, <2>3, <2>4, <2>5, TypePartsNext DEF TypeInv
  <1>7. ASSUME NEW r \in Requests, InsertLocation(r), UNCHANGED <<stockVars, scope>>
        PROVE  TypeInv'
    <2>1. call[r] # None /\ Finish(r) /\ UNCHANGED <<masterVars, overtaken>>
      BY <1>7 DEF InsertLocation, At
    <2>2. TablesOK' /\ AssignedOK' /\ StockTypeOK' /\ Growing
      BY <1>1, <1>7, <2>1, SameMaster, SameStock, GrowingParts DEF StockKept
    <2>3. LocationTypeOK' /\ scope' = scope
      BY <1>1, <1>2, <1>7, <2>1, LocationsTyped
    <2>4. call' \in [Requests -> AllCalls \union {None}] /\ \A c \in Calls' : CallSound(c)'
      BY <2>1, <2>2, FinishCalls
    <2> QED BY <1>1, <2>1, <2>2, <2>3, <2>4, TypePartsNext DEF TypeInv
  <1>8. ASSUME UNCHANGED <<masterVars, call, overtaken, scope>>, StockKept, LocationTypeOK'
        PROVE  TypeInv'
    <2>1. TablesOK' /\ AssignedOK' /\ StockTypeOK' /\ Growing
      BY <1>1, <1>8, SameMaster, GrowingParts DEF StockKept
    <2>2. TypeOK'
      BY <1>1, <1>8, <2>1, TypePartsNext
    <2>3. Calls' = Calls /\ Calls \subseteq AllCalls
      BY <1>1, <1>8 DEF Calls
    <2> QED BY <2>1, <2>2, <2>3, SoundKept DEF TypeInv
  <1>9. ASSUME NEW l \in location, NEW on \in BOOLEAN, UpdateLocationStatus(l, on), UNCHANGED <<stockVars, scope>>
        PROVE  TypeInv'
    <2>1. UNCHANGED <<masterVars, call, overtaken, scope>>
      BY <1>9 DEF UpdateLocationStatus
    <2>2. StockKept /\ LocationTypeOK'
      BY <1>1, <1>9, SameStock, LocationStatusTyped
    <2> QED BY <1>8, <2>1, <2>2
  <1>10. ASSUME NEW o \in Orders, OrderLeavesProduction(o), UNCHANGED <<location, scope>>
         PROVE  TypeInv'
    <2>1. UNCHANGED <<masterVars, call, overtaken, scope>>
      BY <1>10 DEF OrderLeavesProduction
    <2>2. StockKept /\ LocationTypeOK'
      BY <1>1, <1>10 DEF OrderLeavesProduction, StockTypeOK, StockKept, DocumentsKept, LocationTypeOK
    <2> QED BY <1>8, <2>1, <2>2
  <1> QED BY <1>3, <1>4, <1>5, <1>6, <1>7, <1>9, <1>10, Steps DEF TypeInv

\* What was created before is sound.
LEMMA TypeInit ==
  ASSUME Init
  PROVE  TypeInv
  <1> DEFINE Fresh == {Rows(ids, owner) : ids \in SUBSET Ids, owner \in Ids \union {None}}
  <1>1. ASSUME NEW ids \in SUBSET Ids, NEW owner \in Ids \union {None}
        PROVE  /\ Rows(ids, owner) \in [Ids -> Row \union {None}]
               /\ \A i \in Ids : Rows(ids, owner)[i] # None => Rows(ids, owner)[i].code = i
    <2>1. ASSUME NEW i \in Ids
          PROVE  [code |-> i, owner |-> owner, active |-> TRUE] \in Row
      BY OfficeConstants DEF Row
    <2> QED BY <2>1 DEF Rows
  <1>2. ASSUME NEW f \in Fresh
        PROVE  f \in [Ids -> Row \union {None}] /\ \A i \in Ids : f[i] # None => f[i].code = i
    BY <1>1
  <1>3. Empty \in Fresh
    <2>1. Empty = Rows({}, None)
      BY DEF Empty, Rows
    <2>2. {} \in SUBSET Ids /\ None \in Ids \union {None}
      OBVIOUS
    <2> QED BY <2>1, <2>2
  <1>4. \A c \in Created : c[2] \in Fresh
    <2>1. {1} \in SUBSET Ids /\ Ids \in SUBSET Ids /\ 1 \in Ids
      BY OfficeConstants
    <2>2. {Rows(Ids, None), Rows({1}, None), Rows({1}, 1), Rows(Ids, 1)} \subseteq Fresh
      BY <2>1
    <2> HIDE DEF Fresh
    <2> QED BY <2>2 DEF Created
  <1>5. \A t \in Tables : table[t] \in Fresh
    <2> HIDE DEF Fresh
    <2>1. ASSUME NEW t \in Tables, \E c \in Created : c[1] = t
          PROVE  (CHOOSE c \in Created : c[1] = t)[2] \in Fresh
      BY <1>4, <2>1
    <2> QED BY <1>3, <2>1 DEF Init
  <1>6. table \in [Tables -> [Ids -> Row \union {None}]]
    <2>1. \A t \in Tables : table[t] \in [Ids -> Row \union {None}]
      BY <1>2, <1>5
    <2>2. table = [t \in Tables |-> table[t]]
      BY DEF Init
    <2> QED BY <2>1, <2>2
  <1>7. TablesOK
    <2>1. ASSUME NEW t \in Tables, NEW i \in RowsOf(t), NEW j \in RowsOf(t), i # j,
                 HasCode(t, i, table[t][j].code, table[t][j].owner)
          PROVE  FALSE
      <3>1. table[t][i].code = i /\ table[t][j].code = j
        BY <1>2, <1>5 DEF RowsOf
      <3> QED BY <2>1, <3>1 DEF HasCode
    <2> QED BY <1>6, <2>1 DEF TablesOK
  <1>8. AssignedOK /\ LocationTypeOK /\ call \in [Requests -> AllCalls \union {None}]
        /\ overtaken \subseteq Requests /\ scope \in Scopes
    BY DEF Init, AssignedOK, LocationTypeOK
  <1>9. StockTypeOK
    BY EmptySeq DEF Init, StockTypeOK, NoStock
  <1>10. Calls = {}
    BY DEF Init, Calls
  <1> QED BY <1>7, <1>8, <1>9, <1>10, TypeParts DEF TypeInv

\* What the tables hold and the requests have read is what it should be, no two
\* rows of a table have a code in common, and what a request has found is there
\* until it writes.
THEOREM BackOfficeInvariant == Spec => []TypeInv
  <1>1. TypeInv /\ [Next]_vars => TypeInv'
    BY TypeStep, SameTypes
  <1> QED BY TypeInit, <1>1, PTL DEF Spec

\* The tables hold rows with different codes, the requests what they have read.
THEOREM BackOfficeTypeCorrect == Spec => []TypeOK
  <1>1. TypeInv => TypeOK
    BY DEF TypeInv
  <1> QED BY <1>1, BackOfficeInvariant, PTL

-----------------------------------------------------------------------------
(* What a request has checked to be active is so, unless it is deactivated.  *)

RefsActive ==
  \A r \in Requests \ overtaken : call[r] # None => \A ref \in call[r].refs : Active(ref[1], ref[2])

\* Only its deactivation makes a row that is never deleted inactive.
LEMMA ActiveKept ==
  ASSUME TypeInv, NEW r \in Requests, MasterWrite(r), NEW t \in Tables \ Deletable, NEW i \in Ids, Active(t, i),
         ~ (DeactivateWrite(r) /\ call[r].table = t /\ call[r].id = i)
  PROVE  Active(t, i)'
  <1> DEFINE c == call[r]
  <1>1. TablesOK /\ c \in AllCalls /\ CallSound(c)
    BY TypeParts DEF TypeInv, Calls, MasterWrite, CreateWrite, UpdateWrite, DeleteWrite, DeactivateWrite,
                     ReactivateWrite, AssignWrite, RemoveWrite, At
  <1>2. table[t] \in [Ids -> Row \union {None}] /\ table[t][i] # None /\ table[t][i].active
    BY <1>1 DEF Active, Exists, TablesOK
  <1>3. ASSUME UNCHANGED table PROVE Active(t, i)'
    BY <1>3 DEF Active, Exists
  <1>4. ASSUME NEW u \in Tables, NEW j, NEW x, table' = [table EXCEPT ![u][j] = x],
               x # None /\ (u = t /\ j = i => x.active)
        PROVE  Active(t, i)'
    <2>1. table'[t][i] \in {table[t][i], x} /\ (u # t \/ j # i => table'[t][i] = table[t][i])
      BY <1>1, <1>4 DEF TablesOK
    <2> QED BY <1>2, <1>4, <2>1 DEF Active, Exists
  <1>5. CASE CreateWrite(r)
    <2> DEFINE j == CHOOSE k \in Ids : ~ Exists(c.table, k)
               x == [code |-> c.code, owner |-> c.owner, active |-> TRUE]
    <2>1. c \in CreateCall
      BY <1>1, <1>5, CallOf DEF CreateWrite, At
    <2>2. c.table \in Tables /\ x \in Row /\ x.active
      BY <2>1 DEF CreateCall, Row
    <2>3. x # None
      BY <2>2, NoneIsNothing
    <2>4. UNCHANGED table \/ table' = [table EXCEPT ![c.table][j] = x]
      BY <1>5 DEF CreateWrite
    <2> HIDE DEF c, j, x
    <2> QED BY <1>3, <1>4, <2>2, <2>3, <2>4
  <1>6. CASE UpdateWrite(r)
    <2> DEFINE row == table[c.table][c.id]
               code == IF c.code = None THEN row.code ELSE c.code
               owner == IF c.owner = None THEN row.owner ELSE c.owner
    <2>1. c \in UpdateCall
      BY <1>1, <1>6, CallOf DEF UpdateWrite, At
    <2>2. c.table \in Tables /\ c.id \in Ids /\ c.code \in Codes \union {None} /\ c.owner \in Ids \union {None}
      BY <2>1 DEF UpdateCall
    <2>3. CASE UNCHANGED table
      BY <1>3, <2>3
    <2>4. CASE /\ Exists(c.table, c.id)
               /\ table' = [table EXCEPT ![c.table][c.id].code = IF c.code = None THEN @ ELSE c.code,
                                         ![c.table][c.id].owner = owner]
      <3>1. row \in Row
        BY <1>1, <2>2, <2>4 DEF TablesOK, Exists
      <3>2. code \in Codes /\ owner \in Ids \union {None}
        BY <2>2, <3>1 DEF Row
      <3>3. PICK x : x = [row EXCEPT !.code = code, !.owner = owner]
        OBVIOUS
      <3>4. x \in Row /\ x.active = row.active
        <4>1. x = [code |-> code, owner |-> owner, active |-> row.active]
          <5> HIDE DEF row, code, owner
          <5> QED BY <3>1, <3>2, <3>3, RowUpdated
        <4> QED BY <3>1, <3>2, <4>1 DEF Row
      <3>5. table' = [table EXCEPT ![c.table][c.id] = x]
        <4>1. table' = [table EXCEPT ![c.table][c.id] = [row EXCEPT !.code = code, !.owner = owner]]
          BY <1>1, <2>2, <2>4, <3>1 DEF TablesOK, Row
        <4> QED BY <3>3, <4>1
      <3>6. x # None
        BY <3>4, NoneIsNothing
      <3> HIDE DEF c
      <3> QED BY <1>2, <1>4, <2>2, <3>4, <3>5, <3>6
    <2> QED BY <1>6, <2>3, <2>4 DEF UpdateWrite
  <1>7. CASE DeactivateWrite(r) \/ ReactivateWrite(r)
    <2>1. PICK on \in BOOLEAN : table' = [table EXCEPT ![c.table][c.id].active = on]
                                /\ (DeactivateWrite(r) \/ on = TRUE)
      BY <1>7 DEF DeactivateWrite, ReactivateWrite
    <2>2. c \in RowCall /\ Exists(c.table, c.id)
      BY <1>1, <1>7, CallOf DEF DeactivateWrite, ReactivateWrite, At, CallSound
    <2>3. c.table \in Tables /\ c.id \in Ids
      BY <2>2 DEF RowCall
    <2>4. table[c.table][c.id] \in Row
      BY <1>1, <2>2, <2>3 DEF TablesOK, Exists
    <2>5. PICK x : x = [table[c.table][c.id] EXCEPT !.active = on]
      OBVIOUS
    <2>6. x \in Row /\ x.active = on
      BY <2>4, <2>5 DEF Row
    <2>7. table' = [table EXCEPT ![c.table][c.id] = x] /\ x # None
      BY <2>1, <2>5, <2>6, NoneIsNothing
    <2>8. c.table = t /\ c.id = i => on = TRUE
      BY <2>1
    <2> HIDE DEF c
    <2> QED BY <1>4, <2>3, <2>6, <2>7, <2>8
  <1>8. CASE DeleteWrite(r)
    <2>1. c \in RowCall /\ c.table \in Deletable
      BY <1>1, <1>8, CallOf DEF DeleteWrite, At, CallSound
    <2>2. c.table \in Tables /\ c.table # t
      BY <2>1 DEF RowCall
    <2>3. UNCHANGED table \/ table' = [table EXCEPT ![c.table][c.id] = None]
      BY <1>8 DEF DeleteWrite
    <2>4. table'[t][i] = table[t][i]
      <3> HIDE DEF c
      <3> QED BY <1>1, <2>2, <2>3 DEF TablesOK
    <2> QED BY <1>2, <2>4 DEF Active, Exists
  <1>9. CASE AssignWrite(r) \/ RemoveWrite(r)
    BY <1>3, <1>9 DEF AssignWrite, RemoveWrite
  <1> QED BY <1>5, <1>6, <1>7, <1>8, <1>9 DEF MasterWrite

LEMMA RefsActiveStep ==
  ASSUME TypeInv, RefsActive, Next
  PROVE  RefsActive'
  <1>1. call \in [Requests -> AllCalls \union {None}]
    BY TypeParts DEF TypeInv
  <1>2. ASSUME NEW q \in Requests, call[q] # None, NEW ref \in call[q].refs
        PROVE  ref[1] \in Tables \ Deletable /\ ref[2] \in Ids
    <2>1. call[q] \in AllCalls /\ CallSound(call[q])
      BY <1>1, <1>2 DEF TypeInv, Calls
    <2>2. call[q].refs \in RefSet
      BY <2>1, CallOf
    <2> QED BY <1>2, <2>1, <2>2 DEF RefSet, CallSound
  <1>3. ASSUME UNCHANGED <<table, overtaken>>, NEW r \in Requests, Finish(r) \/ call' = call
        PROVE  RefsActive'
    <2>1. \A q \in Requests : call'[q] \in {call[q], None}
      BY <1>1, <1>3 DEF Finish
    <2> QED BY <1>3, <2>1 DEF RefsActive, Active, Exists
  <1>4. ASSUME NEW r \in Requests, Checked(r), UNCHANGED <<masterVars, stockVars, location, scope>>
        PROVE  RefsActive'
    <2>1. PICK x : NewCall(r, x)
      BY <1>4 DEF Checked
    <2>2. /\ overtaken' = overtaken \ {r} /\ call'[r] = x /\ \A q \in Requests \ {r} : call'[q] = call[q]
          /\ \A ref \in x.refs : Active(ref[1], ref[2])
          /\ table' = table
      BY <1>1, <1>4, <2>1 DEF NewCall, Begin, masterVars
    <2> QED BY <2>2 DEF RefsActive, Active, Exists
  <1>5. ASSUME NEW r \in Requests, MasterWrite(r)
        PROVE  RefsActive'
    <2>1. Finish(r) /\ overtaken \subseteq overtaken'
          /\ (DeactivateWrite(r) => overtaken' = overtaken \union Referring(call[r].table, call[r].id))
      BY <1>5 DEF MasterWrite, CreateWrite, UpdateWrite, DeleteWrite, DeactivateWrite, ReactivateWrite, AssignWrite,
                  RemoveWrite
    <2>2. \A q \in Requests : call'[q] \in {call[q], None}
      BY <1>1, <2>1 DEF Finish
    <2>3. ASSUME NEW q \in Requests \ overtaken', call'[q] # None, NEW ref \in call'[q].refs
          PROVE  Active(ref[1], ref[2])'
      <3>1. q \in Requests \ overtaken /\ call'[q] = call[q] /\ call[q] # None
        BY <2>1, <2>2, <2>3
      <3>2. ref[1] \in Tables \ Deletable /\ ref[2] \in Ids /\ ref = <<ref[1], ref[2]>>
        <4>1. call[q].refs \in RefSet
          BY <1>1, <3>1, CallOf
        <4> QED BY <1>2, <2>3, <3>1, <4>1 DEF RefSet
      <3>3. Active(ref[1], ref[2])
        BY <2>3, <3>1 DEF RefsActive
      <3>4. ~ (DeactivateWrite(r) /\ call[r].table = ref[1] /\ call[r].id = ref[2])
        BY <2>1, <2>3, <3>1, <3>2 DEF Referring
      <3>5. PICK t \in Tables \ Deletable, i \in Ids : t = ref[1] /\ i = ref[2]
        BY <3>2
      <3>6. Active(t, i)'
        BY <1>5, <3>3, <3>4, <3>5, ActiveKept
      <3> QED BY <3>5, <3>6
    <2> QED BY <2>3 DEF RefsActive
  <1>6. ASSUME NEW r \in Requests, NextNumber(r)
        PROVE  RefsActive'
    <2>1. /\ call' = [call EXCEPT ![r] = [call[r] EXCEPT !.number = numbers + 1]]
          /\ UNCHANGED masterVars /\ UNCHANGED overtaken /\ call[r] # None /\ call[r].op = "request"
      BY <1>6 DEF NextNumber, At
    <2>2. PICK y \in RequestCall : y = call[r]
      <3>1. call[r] \in AllCalls
        BY <1>1, <2>1
      <3> QED BY <2>1, <3>1, CallOf
    <2>3. PICK x : x = [y EXCEPT !.number = numbers + 1]
      OBVIOUS
    <2>4. x.refs = {}
      BY <2>2, <2>3 DEF RequestCall
    <2>5. call'[r] = x /\ \A q \in Requests \ {r} : call'[q] = call[q]
      BY <1>1, <2>1, <2>2, <2>3
    <2> QED BY <2>1, <2>4, <2>5 DEF RefsActive, Active, Exists, masterVars
  <1>7. ASSUME NEW r \in Requests, StockWrite(r)
        PROVE  RefsActive'
    <2>1. Finish(r) /\ UNCHANGED <<table, overtaken>>
      BY <1>7 DEF StockWrite, WriteTransaction, WriteAdjustment, CreateCycleCount, WriteAction, WriteClosure,
                  CreateSupplement, WriteApproval, WriteRejection, WriteTransfer, masterVars
    <2> QED BY <1>3, <2>1
  <1>8. ASSUME NEW r \in Requests, InsertLocation(r)
        PROVE  RefsActive'
    BY <1>3, <1>8 DEF InsertLocation, masterVars
  <1>9. ASSUME UNCHANGED <<masterVars, call, overtaken>>
        PROVE  RefsActive'
    BY <1>9 DEF RefsActive, Active, Exists, masterVars
  <1> QED BY <1>4, <1>5, <1>6, <1>7, <1>8, <1>9, Steps DEF TypeInv, UpdateLocationStatus, OrderLeavesProduction

\* A request that goes on because a row was active goes on with an active row,
\* unless the row was deactivated after the request had checked it.
THEOREM CheckedRowsActiveCorrect == Spec => []CheckedRowsActive
  <1>1. Init => RefsActive
    BY DEF Init, RefsActive
  <1>2. TypeInv /\ RefsActive /\ [Next]_vars => RefsActive'
    <2>1. ASSUME RefsActive, UNCHANGED vars PROVE RefsActive'
      BY <2>1 DEF vars, masterVars, RefsActive, Active, Exists
    <2> QED BY <2>1, RefsActiveStep
  <1>3. RefsActive => CheckedRowsActive
    BY DEF RefsActive, CheckedRowsActive, Active
  <1> QED BY <1>1, <1>2, <1>3, BackOfficeInvariant, PTL DEF Spec

-----------------------------------------------------------------------------
(* Sums over the journal.                                                  *)

\* The rows of the journal that are among P, and how a step that puts more rows
\* at its end changes them and their sum.
RowsIn(P) == {i \in DOMAIN journal : journal[i] \in P}

LEMMA EntriesSound ==
  ASSUME NEW seq \in Seq(Entry)
  PROVE  /\ DOMAIN seq = 1 .. Len(seq) /\ Len(seq) \in Nat /\ IsFiniteSet(DOMAIN seq)
         /\ \A i \in DOMAIN seq : seq[i] \in Entry /\ seq[i].dozens \in Int /\ seq[i].item \in Item
  <1>1. DOMAIN seq = 1 .. Len(seq) /\ Len(seq) \in Nat
    BY LenProperties
  <1>2. IsFiniteSet(1 .. Len(seq))
    BY <1>1, FS_Interval
  <1>3. ASSUME NEW i \in DOMAIN seq PROVE seq[i] \in Entry
    BY <1>1, <1>3, ElementOfSeq
  <1>4. \A e \in Entry : e.dozens \in Int /\ e.item \in Item
    BY DEF Entry
  <1> QED BY <1>1, <1>2, <1>3, <1>4

LEMMA RowsFinite ==
  ASSUME journal \in Seq(Entry), NEW A, A \subseteq DOMAIN journal
  PROVE  IsFiniteSet(A) /\ SumOf(A) \in Int
  <1>1. IsFiniteSet(DOMAIN journal) /\ \A i \in DOMAIN journal : journal[i].dozens \in Int
    BY EntriesSound
  <1>2. IsFiniteSet(A)
    BY <1>1, FS_Subset
  <1> DEFINE f == [i \in DOMAIN journal |-> journal[i].dozens]
  <1>3. \A x \in A : f[x] \in Int
    BY <1>1
  <1> HIDE DEF f
  <1>4. SumFunctionOnSet(f, A) \in Int
    BY <1>2, <1>3, SumInt
  <1> QED BY <1>2, <1>4 DEF SumOf, f

LEMMA JournalGrows ==
  ASSUME journal \in Seq(Entry), NEW more \in Seq(Entry), journal' = journal \o more, NEW P
  PROVE  /\ RowsIn(P)' = RowsIn(P) \union {Len(journal) + i : i \in {j \in DOMAIN more : more[j] \in P}}
         /\ SumOf(RowsIn(P))' = SumFunctionOnSet([i \in DOMAIN journal' |-> journal'[i].dozens], RowsIn(P)')
         /\ IsFiniteSet(RowsIn(P)) /\ SumOf(RowsIn(P)) \in Int
         /\ SumFunctionOnSet([i \in DOMAIN journal' |-> journal'[i].dozens], RowsIn(P)) = SumOf(RowsIn(P))
  <1>1. /\ DOMAIN journal = 1 .. Len(journal) /\ Len(journal) \in Nat /\ Len(more) \in Nat
        /\ DOMAIN journal' = 1 .. Len(journal) + Len(more)
        /\ DOMAIN journal \subseteq DOMAIN journal'
        /\ \A i \in DOMAIN journal : journal'[i] = journal[i]
        /\ \A i \in 1 .. Len(more) : journal'[Len(journal) + i] = more[i]
        /\ DOMAIN more = 1 .. Len(more)
    BY RowsAppended, LenProperties
  <1>2. RowsIn(P)' = RowsIn(P) \union {Len(journal) + i : i \in {j \in DOMAIN more : more[j] \in P}}
    <2>1. ASSUME NEW i \in DOMAIN journal', i \notin DOMAIN journal
          PROVE  i - Len(journal) \in DOMAIN more /\ i = Len(journal) + (i - Len(journal))
      BY <1>1, <2>1
    <2>2. \A i \in DOMAIN more : Len(journal) + i \in DOMAIN journal'
      BY <1>1
    <2> QED BY <1>1, <2>1, <2>2 DEF RowsIn
  <1>3. RowsIn(P) \subseteq DOMAIN journal
    BY DEF RowsIn
  <1> DEFINE f == [i \in DOMAIN journal |-> journal[i].dozens]
             g == [i \in DOMAIN journal' |-> journal'[i].dozens]
  <1>4. IsFiniteSet(RowsIn(P)) /\ SumOf(RowsIn(P)) \in Int
    BY <1>3, RowsFinite
  <1>5. SumFunctionOnSet(g, RowsIn(P)) = SumFunctionOnSet(f, RowsIn(P))
    <2>1. \A x \in RowsIn(P) : g[x] = f[x]
      BY <1>1, <1>3
    <2> HIDE DEF f, g
    <2> QED BY <1>4, <2>1, SumAgrees
  <1> QED BY <1>2, <1>4, <1>5 DEF SumOf

LEMMA NoneAdded ==
  ASSUME journal \in Seq(Entry), NEW more \in Seq(Entry), journal' = journal \o more, NEW P,
         \A j \in DOMAIN more : more[j] \notin P
  PROVE  RowsIn(P)' = RowsIn(P) /\ SumOf(RowsIn(P))' = SumOf(RowsIn(P))
  <1>1. {Len(journal) + i : i \in {j \in DOMAIN more : more[j] \in P}} = {}
    OBVIOUS
  <1> QED BY <1>1, JournalGrows

LEMMA OneAdded ==
  ASSUME journal \in Seq(Entry), NEW more \in Seq(Entry), journal' = journal \o more, NEW P,
         NEW x \in DOMAIN more, more[x] \in P, \A j \in DOMAIN more \ {x} : more[j] \notin P
  PROVE  /\ RowsIn(P)' = RowsIn(P) \union {Len(journal) + x} /\ Len(journal) + x \notin RowsIn(P)
         /\ SumOf(RowsIn(P))' = more[x].dozens + SumOf(RowsIn(P))
         /\ more[x].dozens \in Int
  <1>1. /\ DOMAIN journal = 1 .. Len(journal) /\ Len(journal) \in Nat /\ Len(more) \in Nat
        /\ DOMAIN journal' = 1 .. Len(journal) + Len(more)
        /\ DOMAIN more = 1 .. Len(more) /\ journal'[Len(journal) + x] = more[x]
    BY RowsAppended, LenProperties
  <1>2. PICK y : y = Len(journal) + x
    OBVIOUS
  <1>3. y \in DOMAIN journal' /\ y \notin DOMAIN journal
    BY <1>1, <1>2
  <1>4. {Len(journal) + i : i \in {j \in DOMAIN more : more[j] \in P}} = {y}
    BY <1>2
  <1>5. PICK A : A = RowsIn(P)
    OBVIOUS
  <1>6. RowsIn(P)' = A \union {y} /\ y \notin A /\ A \subseteq DOMAIN journal
    <2> DEFINE N == {Len(journal) + i : i \in {j \in DOMAIN more : more[j] \in P}}
    <2>0. RowsIn(P)' = RowsIn(P) \union N
      BY JournalGrows
    <2>1. RowsIn(P)' = A \union {y}
      BY <1>4, <1>5, <2>0
    <2>2. A \subseteq DOMAIN journal
      BY <1>5 DEF RowsIn
    <2> QED BY <1>3, <2>1, <2>2
  <1> DEFINE g == [i \in DOMAIN journal' |-> journal'[i].dozens]
  <1>7. IsFiniteSet(A) /\ SumFunctionOnSet(g, A) = SumOf(RowsIn(P))
        /\ SumOf(RowsIn(P))' = SumFunctionOnSet(g, A \union {y})
    BY <1>5, <1>6, JournalGrows
  <1>8. journal' \in Seq(Entry)
    BY RowsAppended
  <1>9. \A i \in DOMAIN journal' : g[i] \in Int
    <2>1. PICK js \in Seq(Entry) : js = journal'
      BY <1>8
    <2>2. \A i \in DOMAIN js : js[i].dozens \in Int
      BY EntriesSound
    <2> QED BY <2>1, <2>2
  <1>10. \A i \in A \union {y} : g[i] \in Int
    BY <1>1, <1>3, <1>6, <1>9, RowsAppended
  <1>11. g[y] = more[x].dozens /\ g[y] \in Int
    BY <1>1, <1>2, <1>3, <1>9
  <1>12. SumFunctionOnSet(g, A \union {y}) = g[y] + SumFunctionOnSet(g, A)
    <2> HIDE DEF g
    <2> QED BY <1>6, <1>7, <1>10, SumPutIn
  <1> HIDE DEF g
  <1> QED BY <1>2, <1>5, <1>6, <1>7, <1>11, <1>12

-----------------------------------------------------------------------------
(* What the journal says is what is on hand and what was transferred.      *)

\* The rows of applied adjustments, and those of a transfer.
Applied(k) == {e \in Entry : /\ e.type = "ADJUSTMENT" /\ e.note \in Reasons
                             /\ e.to = Warehouse(k[1]) /\ e.item = k[2]}
Move(type, item, w, v) == {e \in Entry : /\ e.type = type /\ e.item = item
                                         /\ e.from = Warehouse(w) /\ e.to = Warehouse(v)}

LEMMA RowsOfJournal ==
  ASSUME journal \in Seq(Entry)
  PROVE  /\ \A k \in Ids \X PartItem : AppliedTo(k) = RowsIn(Applied(k))
         /\ \A type, item, w, v : Moved(type, item, w, v) = RowsIn(Move(type, item, w, v))
  <1>1. \A i \in DOMAIN journal : journal[i] \in Entry
    BY LenProperties, ElementOfSeq
  <1> QED BY <1>1 DEF AppliedTo, Applied, Moved, Move, RowsIn

OnHandSums ==
  \A k \in Ids \X PartItem : IF RowsIn(Applied(k)) = {} THEN onHand[k] = None
                             ELSE onHand[k] = SumOf(RowsIn(Applied(k)))
MovesBalance ==
  \A w, v \in Ids, item \in Item :
     SumOf(RowsIn(Move("RELEASE", item, w, v))) = SumOf(RowsIn(Move("RECEIVING", item, w, v)))
LedgerExplained == OnHandSums /\ MovesBalance

LEMMA LedgerImplies ==
  ASSUME journal \in Seq(Entry), LedgerExplained
  PROVE  OnHandExplained /\ TransfersComplete
  <1>1. \A e \in ToSet(journal) : e.item \in Item
    BY EntriesSound DEF ToSet
  <1>2. OnHandExplained
    BY RowsOfJournal DEF LedgerExplained, OnHandSums, OnHandExplained
  <1>3. TransfersComplete
    BY <1>1, RowsOfJournal DEF LedgerExplained, MovesBalance, TransfersComplete
  <1> QED BY <1>2, <1>3

LEMMA OnHandSumsKept ==
  ASSUME journal \in Seq(Entry), OnHandSums, NEW more \in Seq(Entry), journal' = journal \o more, onHand' = onHand,
         \A j \in DOMAIN more : ~ (more[j].type = "ADJUSTMENT" /\ more[j].note \in Reasons)
  PROVE  OnHandSums'
  <1>1. ASSUME NEW k \in Ids \X PartItem
        PROVE  IF RowsIn(Applied(k))' = {} THEN onHand'[k] = None ELSE onHand'[k] = SumOf(RowsIn(Applied(k)))'
    <2>1. PICK P : P = Applied(k)
      OBVIOUS
    <2>2. \A j \in DOMAIN more : more[j] \notin P
      BY <2>1 DEF Applied
    <2>3. RowsIn(P)' = RowsIn(P) /\ SumOf(RowsIn(P))' = SumOf(RowsIn(P))
      BY <2>2, NoneAdded
    <2>4. IF RowsIn(P) = {} THEN onHand[k] = None ELSE onHand[k] = SumOf(RowsIn(P))
      BY <2>1 DEF OnHandSums
    <2>5. IF RowsIn(P)' = {} THEN onHand'[k] = None ELSE onHand'[k] = SumOf(RowsIn(P))'
      BY <2>3, <2>4
    <2> QED BY <2>1, <2>5
  <1> QED BY <1>1 DEF OnHandSums

LEMMA MovesBalanceKept ==
  ASSUME journal \in Seq(Entry), MovesBalance, NEW more \in Seq(Entry), journal' = journal \o more,
         \A j \in DOMAIN more, w, v \in Ids :
            ~ (more[j].type \in {"RELEASE", "RECEIVING"} /\ more[j].from = Warehouse(w) /\ more[j].to = Warehouse(v))
  PROVE  MovesBalance'
  <1>1. ASSUME NEW w \in Ids, NEW v \in Ids, NEW item \in Item
        PROVE  SumOf(RowsIn(Move("RELEASE", item, w, v)))' = SumOf(RowsIn(Move("RECEIVING", item, w, v)))'
    <2>1. PICK P, Q : P = Move("RELEASE", item, w, v) /\ Q = Move("RECEIVING", item, w, v)
      OBVIOUS
    <2>2. \A j \in DOMAIN more : more[j] \notin P /\ more[j] \notin Q
      BY <2>1 DEF Move
    <2>3. SumOf(RowsIn(P))' = SumOf(RowsIn(P)) /\ SumOf(RowsIn(Q))' = SumOf(RowsIn(Q))
      BY <2>2, NoneAdded
    <2>4. SumOf(RowsIn(P)) = SumOf(RowsIn(Q))
      BY <2>1 DEF MovesBalance
    <2>5. SumOf(RowsIn(P))' = SumOf(RowsIn(Q))'
      BY <2>3, <2>4
    <2> QED BY <2>1, <2>5
  <1> QED BY <1>1 DEF MovesBalance

\* None is no place.
LEMMA PlacesDiffer ==
  ASSUME NEW w \in Ids, NEW v \in Ids
  PROVE  None # Warehouse(w) /\ ProductionOrder(v) # Warehouse(w)
         /\ (Warehouse(v) = Warehouse(w) => v = w)
  <1>1. Warehouse(w) \in {"WAREHOUSE", "PRODUCTION_ORDER"} \X Ids
    BY DEF Warehouse
  <1> QED BY <1>1, NoneIsNothing DEF Warehouse, ProductionOrder

\* Both rows of a transfer count for the two warehouses, or neither does.
LEMMA TransferBalances ==
  ASSUME journal \in Seq(Entry), MovesBalance, NEW item \in Item, NEW w \in Ids, NEW v \in Ids, NEW n \in Int,
         journal' = journal \o FromTransfer(item, w, v, n)
  PROVE  MovesBalance'
  <1>1. PICK more \in Seq(Entry) :
          /\ more = FromTransfer(item, w, v, n) /\ DOMAIN more = {1, 2}
          /\ more[1].type = "RELEASE" /\ more[2].type = "RECEIVING"
          /\ \A j \in {1, 2} : /\ more[j] \in Entry /\ more[j].item = item /\ more[j].dozens = n
                               /\ more[j].from = Warehouse(w) /\ more[j].to = Warehouse(v)
    <2>0. None \in Reasons \union {None}
      OBVIOUS
    <2>1. PICK more : more = FromTransfer(item, w, v, n)
      OBVIOUS
    <2>2. more \in Seq(Entry) /\ Len(more) = 2 /\ more[1] \in Entry /\ more[2] \in Entry
      BY <2>0, <2>1, EntryTyped
    <2>3. DOMAIN more = {1, 2}
      BY <2>2, LenProperties
    <2> DEFINE out == [type |-> "RELEASE", item |-> item, from |-> Warehouse(w), to |-> Warehouse(v),
                       dozens |-> n, note |-> None]
               in == [out EXCEPT !.type = "RECEIVING"]
    <2>4. more[1] = out /\ more[2] = in
      BY <2>1 DEF FromTransfer
    <2>5. /\ more[1].type = "RELEASE" /\ more[1].item = item /\ more[1].dozens = n
          /\ more[1].from = Warehouse(w) /\ more[1].to = Warehouse(v)
      BY <2>4
    <2>6. /\ more[2].type = "RECEIVING" /\ more[2].item = item /\ more[2].dozens = n
          /\ more[2].from = Warehouse(w) /\ more[2].to = Warehouse(v)
      BY <2>4
    <2> HIDE DEF out, in
    <2> QED BY <2>1, <2>2, <2>3, <2>5, <2>6
  <1>2. ASSUME NEW x \in Ids, NEW y \in Ids, NEW other \in Item
        PROVE  SumOf(RowsIn(Move("RELEASE", other, x, y)))' = SumOf(RowsIn(Move("RECEIVING", other, x, y)))'
    <2>1. PICK P, Q : P = Move("RELEASE", other, x, y) /\ Q = Move("RECEIVING", other, x, y)
      OBVIOUS
    <2>2. SumOf(RowsIn(P)) = SumOf(RowsIn(Q))
      BY <2>1 DEF MovesBalance
    <2>3. CASE other = item /\ Warehouse(x) = Warehouse(w) /\ Warehouse(y) = Warehouse(v)
      <3>1. more[1] \in P /\ more[2] \notin P /\ more[2] \in Q /\ more[1] \notin Q
        BY <1>1, <2>1, <2>3 DEF Move
      <3>2. SumOf(RowsIn(P))' = more[1].dozens + SumOf(RowsIn(P))
        BY <1>1, <3>1, OneAdded
      <3>3. SumOf(RowsIn(Q))' = more[2].dozens + SumOf(RowsIn(Q))
        BY <1>1, <3>1, OneAdded
      <3>4. SumOf(RowsIn(P))' = SumOf(RowsIn(Q))'
        BY <1>1, <2>2, <3>2, <3>3
      <3> QED BY <2>1, <3>4
    <2>4. CASE ~ (other = item /\ Warehouse(x) = Warehouse(w) /\ Warehouse(y) = Warehouse(v))
      <3>1. \A j \in DOMAIN more : more[j] \notin P /\ more[j] \notin Q
        BY <1>1, <2>1, <2>4 DEF Move
      <3>2. SumOf(RowsIn(P))' = SumOf(RowsIn(P)) /\ SumOf(RowsIn(Q))' = SumOf(RowsIn(Q))
        BY <1>1, <3>1, NoneAdded
      <3>3. SumOf(RowsIn(P))' = SumOf(RowsIn(Q))'
        BY <2>2, <3>2
      <3> QED BY <2>1, <3>3
    <2> QED BY <2>3, <2>4
  <1> QED BY <1>2 DEF MovesBalance

LEMMA TransactionExplained ==
  ASSUME TypeInv, LedgerExplained, NEW r \in Requests, WriteTransaction(r)
  PROVE  LedgerExplained'
  <1>1. journal \in Seq(Entry) /\ call[r] \in AllCalls /\ CallSound(call[r])
    BY TypeParts DEF TypeInv, Calls, WriteTransaction, At, StockTypeOK
  <1>2. Posts(call[r].entries) /\ journal' = journal \o call[r].entries /\ onHand' = onHand
    BY <1>1 DEF WriteTransaction, At, CallSound
  <1>3. PICK more \in Seq(Entry) : more = call[r].entries
    BY <1>2, EntriesTyped
  <1>4. PICK item \in Items, w \in Ids, v \in Ids, n \in Amounts :
          more \in {<<FromReceive(item, w, n)>>, <<FromIssue(item, w, v, n)>>,
                    FromTransfer(item, w, v, n), <<FromAdjust(item, w, n, None)>>}
    BY <1>2, <1>3 DEF Posts
  <1>5. item \in Item /\ n \in Int /\ None \notin Reasons
    BY ItemsTyped, JournalConstants
  <1>6. CASE more = FromTransfer(item, w, v, n)
    <2>1. MovesBalance'
      BY <1>1, <1>2, <1>3, <1>5, <1>6, TransferBalances DEF LedgerExplained
    <2>2. \A j \in DOMAIN more : more[j].type # "ADJUSTMENT"
      <3> DEFINE out == [type |-> "RELEASE", item |-> item, from |-> Warehouse(w), to |-> Warehouse(v),
                         dozens |-> n, note |-> None]
                 in == [out EXCEPT !.type = "RECEIVING"]
      <3>1. out.type = "RELEASE" /\ in.type = "RECEIVING"
        OBVIOUS
      <3>2. more = <<out, in>>
        BY <1>6 DEF FromTransfer
      <3> HIDE DEF out, in
      <3> QED BY <3>1, <3>2
    <2>3. OnHandSums'
      BY <1>1, <1>2, <1>3, <2>2, OnHandSumsKept DEF LedgerExplained
    <2> QED BY <2>1, <2>3 DEF LedgerExplained
  <1>7. ASSUME NEW e, more = <<e>>, e.type # "ADJUSTMENT" \/ e.note = None,
               e.from = None \/ e.to = ProductionOrder(v)
        PROVE  LedgerExplained'
    <2>1. \A j \in DOMAIN more : more[j] = e
      BY <1>7
    <2>2. \A x, y \in Ids : ~ (e.from = Warehouse(x) /\ e.to = Warehouse(y))
      BY <1>7, PlacesDiffer
    <2>3. OnHandSums'
      BY <1>1, <1>2, <1>3, <1>5, <1>7, <2>1, OnHandSumsKept DEF LedgerExplained
    <2>4. \A j \in DOMAIN more, x, y \in Ids :
             ~ (more[j].type \in {"RELEASE", "RECEIVING"} /\ more[j].from = Warehouse(x) /\ more[j].to = Warehouse(y))
      BY <2>1, <2>2
    <2>5. MovesBalance'
      BY <1>1, <1>2, <1>3, <2>4, MovesBalanceKept DEF LedgerExplained
    <2> QED BY <2>3, <2>5 DEF LedgerExplained
  <1>8. CASE more = <<FromReceive(item, w, n)>>
    BY <1>7, <1>8 DEF FromReceive
  <1>9. CASE more = <<FromIssue(item, w, v, n)>>
    BY <1>7, <1>9 DEF FromIssue
  <1>10. CASE more = <<FromAdjust(item, w, n, None)>>
    BY <1>7, <1>10 DEF FromAdjust
  <1> QED BY <1>4, <1>6, <1>8, <1>9, <1>10

LEMMA AdjustmentExplained ==
  ASSUME TypeInv, LedgerExplained, NEW r \in Requests, WriteAdjustment(r)
  PROVE  LedgerExplained'
  <1>1. journal \in Seq(Entry) /\ call[r] \in AllCalls /\ CallSound(call[r])
        /\ onHand \in [Ids \X PartItem -> Int \union {None}]
    BY TypeParts DEF TypeInv, Calls, WriteAdjustment, At, StockTypeOK
  <1>2. Adjusts(call[r].entries)
    BY <1>1 DEF WriteAdjustment, At, CallSound
  <1>3. PICK e : e = call[r].entries[1]
    OBVIOUS
  <1>4. /\ e \in Entry /\ e.dozens \in Int /\ <<e.to[2], e.item>> \in Ids \X PartItem
        /\ e.type = "ADJUSTMENT" /\ e.note \in Reasons /\ e.from = None /\ e.to = Warehouse(e.to[2])
    BY <1>2, <1>3, AdjustmentRow
  <1>5. PICK c : c = <<e.to[2], e.item>>
    OBVIOUS
  <1>6. c \in Ids \X PartItem /\ e.to = Warehouse(c[1]) /\ e.item = c[2]
    BY <1>4, <1>5
  <1>7. onHand' = [onHand EXCEPT ![c] = UpsertOnHand(@, e.dozens)] /\ journal' = Append(journal, e)
    BY <1>3, <1>5 DEF WriteAdjustment
  <1>8. PICK more \in Seq(Entry) : more = <<e>> /\ DOMAIN more = {1} /\ more[1] = e
    <2>1. <<e>> \in Seq(Entry) /\ DOMAIN <<e>> = {1} /\ <<e>>[1] = e
      BY <1>4
    <2> QED BY <2>1
  <1>9. journal' = journal \o more
    BY <1>1, <1>4, <1>7, <1>8, AppendIsConcat
  <1>10. MovesBalance'
    <2>1. \A x, y \in Ids : ~ (e.from = Warehouse(x) /\ e.to = Warehouse(y))
      BY <1>4, PlacesDiffer
    <2> QED BY <1>1, <1>8, <1>9, <2>1, MovesBalanceKept DEF LedgerExplained
  <1>11. ASSUME NEW k \in Ids \X PartItem
         PROVE  IF RowsIn(Applied(k))' = {} THEN onHand'[k] = None ELSE onHand'[k] = SumOf(RowsIn(Applied(k)))'
    <2>1. PICK P : P = Applied(k)
      OBVIOUS
    <2>2. IF RowsIn(P) = {} THEN onHand[k] = None ELSE onHand[k] = SumOf(RowsIn(P))
      BY <2>1 DEF LedgerExplained, OnHandSums
    <2>3. CASE k = c
      <3>1. e \in P
        BY <1>4, <1>6, <2>1, <2>3 DEF Applied
      <3>2. RowsIn(P)' # {} /\ SumOf(RowsIn(P))' = e.dozens + SumOf(RowsIn(P))
        <4>1. 1 \in DOMAIN more /\ more[1] \in P /\ \A j \in DOMAIN more \ {1} : more[j] \notin P
          BY <1>8, <3>1
        <4>2. /\ RowsIn(P)' = RowsIn(P) \union {Len(journal) + 1}
              /\ SumOf(RowsIn(P))' = more[1].dozens + SumOf(RowsIn(P))
          BY <1>1, <1>9, <4>1, OneAdded
        <4> QED BY <1>8, <4>2
      <3>3. onHand'[k] = UpsertOnHand(onHand[k], e.dozens)
        BY <1>1, <1>7, <2>3
      <3>4. CASE RowsIn(P) = {}
        <4>1. SumOf(RowsIn(P)) = 0
          BY <3>4, SumEmpty DEF SumOf
        <4>2. onHand'[k] = SumOf(RowsIn(P))'
          BY <1>4, <2>2, <3>2, <3>3, <3>4, <4>1 DEF UpsertOnHand
        <4> QED BY <2>1, <3>2, <4>2
      <3>5. CASE RowsIn(P) # {}
        <4>1. SumOf(RowsIn(P)) \in Int
          BY <1>1, RowsFinite DEF RowsIn
        <4>2. onHand[k] = SumOf(RowsIn(P)) /\ onHand[k] # None
          BY <2>2, <3>5, <4>1, NoneIsNothing
        <4>3. onHand'[k] = SumOf(RowsIn(P))'
          BY <1>4, <3>2, <3>3, <4>1, <4>2 DEF UpsertOnHand
        <4> QED BY <2>1, <3>2, <4>3
      <3> QED BY <3>4, <3>5
    <2>4. CASE k # c
      <3>1. e \notin P
        <4>1. ASSUME e \in P PROVE FALSE
          <5>1. e.to = Warehouse(k[1]) /\ e.item = k[2]
            BY <2>1, <4>1 DEF Applied
          <5>2. k[1] = c[1] /\ k[2] = c[2]
            BY <1>6, <5>1 DEF Warehouse
          <5> QED BY <1>6, <2>4, <5>2
        <4> QED BY <4>1
      <3>2. RowsIn(P)' = RowsIn(P) /\ SumOf(RowsIn(P))' = SumOf(RowsIn(P))
        BY <1>1, <1>8, <1>9, <3>1, NoneAdded
      <3>3. onHand'[k] = onHand[k]
        BY <1>1, <1>7, <2>4
      <3>4. IF RowsIn(P)' = {} THEN onHand'[k] = None ELSE onHand'[k] = SumOf(RowsIn(P))'
        BY <2>2, <3>2, <3>3
      <3> QED BY <2>1, <3>4
    <2> QED BY <2>3, <2>4
  <1>12. OnHandSums'
    BY <1>11 DEF OnHandSums
  <1> QED BY <1>10, <1>12 DEF LedgerExplained

\* The rows of a supplementary request are neither adjustments nor transfers.
LEMMA SupplementExplained ==
  ASSUME TypeInv, LedgerExplained, NEW r \in Requests, WriteTransfer(r)
  PROVE  LedgerExplained'
  <1>1. StockTypeOK /\ journal \in Seq(Entry) /\ call[r] \in AllCalls /\ CallSound(call[r])
    BY TypeParts DEF TypeInv, Calls, WriteTransfer, At, StockTypeOK
  <1>2. PICK d \in DOMAIN supplement : d = call[r].doc
    BY <1>1, DocOf
  <1>3. PICK more \in Seq(Entry) : more = LinesEntries(d) /\ DOMAIN more = DOMAIN supplement[d].lines
    BY <1>1, LinesEntriesTyped
  <1>4. journal' = journal \o more /\ onHand' = onHand
    BY <1>1, <1>2, <1>3, TransferWrites DEF WriteTransfer
  <1>5. \A j \in DOMAIN more : more[j].type = "SUPPLEMENTARY_RELEASE"
    <2>1. \A j \in DOMAIN more : more[j] = LineEntry(d, j)
      BY <1>1, <1>3, LinesEntriesTyped
    <2> QED BY <2>1 DEF LineEntry
  <1>6. OnHandSums'
    BY <1>1, <1>4, <1>5, OnHandSumsKept DEF LedgerExplained
  <1>7. MovesBalance'
    BY <1>1, <1>4, <1>5, MovesBalanceKept DEF LedgerExplained
  <1> QED BY <1>6, <1>7 DEF LedgerExplained

\* Everything else leaves the journal and what is on hand alone.
LEMMA OtherSteps ==
  ASSUME TypeInv, Next
  PROVE  \/ UNCHANGED <<journal, onHand>>
         \/ \E r \in Requests : WriteTransaction(r) \/ WriteAdjustment(r) \/ WriteTransfer(r)
  <1>1. ASSUME NEW r \in Requests, StockWrite(r)
        PROVE  UNCHANGED <<journal, onHand>> \/ WriteTransaction(r) \/ WriteAdjustment(r) \/ WriteTransfer(r)
    BY <1>1 DEF StockWrite, CreateCycleCount, WriteAction, WriteClosure, CreateSupplement, WriteApproval, WriteRejection
  <1> QED BY <1>1, Steps DEF TypeInv, stockVars, NextNumber, OrderLeavesProduction

LEMMA LedgerKept ==
  ASSUME LedgerExplained, UNCHANGED <<journal, onHand>>
  PROVE  LedgerExplained'
  BY DEF LedgerExplained, OnHandSums, MovesBalance, RowsIn, Applied, Move, SumOf

\* What is on hand is the sum of the adjustments that were applied, and what
\* leaves a warehouse for another one arrives there.
THEOREM LedgerInvariant == Spec => []LedgerExplained
  <1>1. Init => LedgerExplained
    <2> SUFFICES ASSUME Init PROVE LedgerExplained
      OBVIOUS
    <2>1. journal = <<>> /\ \A P : RowsIn(P) = {}
      BY DEF Init, RowsIn
    <2>2. \A P : SumOf(RowsIn(P)) = 0
      BY <2>1, SumEmpty DEF SumOf
    <2>3. \A k \in Ids \X PartItem : onHand[k] = None
      BY DEF Init, NoStock
    <2> QED BY <2>1, <2>2, <2>3 DEF LedgerExplained, OnHandSums, MovesBalance
  <1>2. TypeInv /\ LedgerExplained /\ [Next]_vars => LedgerExplained'
    <2>1. ASSUME UNCHANGED vars PROVE UNCHANGED <<journal, onHand>>
      BY <2>1 DEF vars, stockVars
    <2> QED BY <2>1, LedgerKept, OtherSteps, TransactionExplained, AdjustmentExplained, SupplementExplained
  <1> QED BY <1>1, <1>2, BackOfficeInvariant, PTL DEF Spec

-----------------------------------------------------------------------------
(* Supplementary requests and their rows in the journal.                   *)

Notes(d, l) == {e \in Entry : e.type = "SUPPLEMENTARY_RELEASE" /\ e.note = <<d, l>>}

AllApproved(d) == \A l \in DOMAIN supplement[d].lines : supplement[d].lines[l].approved # None

\* A line is approved as it was requested and transferred as it was approved.
LineTold(line, rows) ==
  /\ line.approved \in {None, line.requested} /\ line.transferred \in {None, line.approved}
  /\ (line.transferred # None) <=> (rows # {})
  /\ \A i \in rows : journal[i].dozens = line.approved /\ line.approved = line.transferred

RequestTold(d) ==
  /\ supplement[d].status = "APPROVED" => AllApproved(d)
  /\ \A l \in DOMAIN supplement[d].lines :
        /\ LineTold(supplement[d].lines[l], RowsIn(Notes(d, l)))
        /\ <<"supplement", d>> \notin raced =>
             Cardinality(RowsIn(Notes(d, l))) = IF supplement[d].status = "TRANSFERRED" THEN 1 ELSE 0

\* The documents that are not there yet have no rows, new lines say nothing,
\* and who transfers has seen a request whose lines are all approved.
SupplementsSound ==
  /\ \A d \in DOMAIN supplement : RequestTold(d)
  /\ \A d \in Nat \ DOMAIN supplement, l \in Nat : RowsIn(Notes(d, l)) = {}
  /\ \A c \in Calls : /\ c.op = "request" => c.lines \in Seq(NewLine)
                      /\ c.op = "transfer" => AllApproved(c.doc)

\* The calls after a step: those before it, and the one that began or got its
\* number.
CallsKnown ==
  \A c \in Calls' :
     \/ c \in Calls
     \/ c.op \notin {"request", "transfer"}
     \/ c.op = "request" /\ c.lines \in Seq(NewLine)
     \/ c.op = "request" /\ \E b \in Calls : b.op = "request" /\ c.lines = b.lines
     \/ /\ c.op = "transfer" /\ c.doc \in DOMAIN supplement /\ supplement[c.doc].status = "APPROVED"
        /\ UNCHANGED supplement

LEMMA CallsOfStep ==
  ASSUME TypeInv, Next
  PROVE  CallsKnown
  <1>1. call \in [Requests -> AllCalls \union {None}]
    BY TypeParts DEF TypeInv
  <1>2. ASSUME NEW r \in Requests, Finish(r) PROVE CallsKnown
    <2>1. Calls' \subseteq Calls
      BY <1>1, <1>2 DEF Finish, Calls
    <2> QED BY <2>1 DEF CallsKnown
  <1>3. ASSUME call' = call PROVE CallsKnown
    BY <1>3 DEF Calls, CallsKnown
  <1>4. ASSUME NEW r \in Requests, Checked(r), UNCHANGED stockVars PROVE CallsKnown
    <2>1. PICK x : NewCall(r, x)
      BY <1>4 DEF Checked
    <2>2. Calls' \subseteq Calls \union {x}
      BY <1>1, <2>1 DEF NewCall, Begin, Calls
    <2>3. UNCHANGED supplement
      BY <1>4 DEF stockVars
    <2> QED BY <2>1, <2>2, <2>3 DEF CallsKnown, NewCall, CallSound
  <1>5. ASSUME NEW r \in Requests, NextNumber(r) PROVE CallsKnown
    <2>1. call[r] # None /\ call[r].op = "request"
      BY <1>5 DEF NextNumber, At
    <2>2. PICK y \in RequestCall : y = call[r]
      BY <1>1, <2>1, CallOf
    <2>3. PICK x : x = [y EXCEPT !.number = numbers + 1]
      OBVIOUS
    <2>4. x.op = "request" /\ x.lines = y.lines
      BY <2>2, <2>3 DEF RequestCall
    <2>5. call' = [call EXCEPT ![r] = x]
      BY <1>5, <2>2, <2>3 DEF NextNumber
    <2>6. Calls' \subseteq Calls \union {x} /\ y \in Calls
      BY <1>1, <2>1, <2>2, <2>5 DEF Calls
    <2> QED BY <2>1, <2>2, <2>4, <2>6 DEF CallsKnown
  <1>6. ASSUME NEW r \in Requests, MasterWrite(r) \/ StockWrite(r) \/ InsertLocation(r) PROVE Finish(r)
    BY <1>6 DEF MasterWrite, CreateWrite, UpdateWrite, DeleteWrite, DeactivateWrite, ReactivateWrite, AssignWrite,
                RemoveWrite, StockWrite, WriteTransaction, WriteAdjustment, CreateCycleCount, WriteAction, WriteClosure,
                CreateSupplement, WriteApproval, WriteRejection, WriteTransfer, InsertLocation
  <1>7. \/ \E r \in Requests : Checked(r) /\ UNCHANGED stockVars
        \/ \E r \in Requests : Finish(r)
        \/ \E r \in Requests : NextNumber(r)
        \/ call' = call
    BY <1>6, Steps DEF TypeInv, UpdateLocationStatus, OrderLeavesProduction
  <1> QED BY <1>2, <1>3, <1>4, <1>5, <1>7

\* The rows of the journal about supplementary requests stay what they are.
RowsKept ==
  /\ \A d, l : RowsIn(Notes(d, l))' = RowsIn(Notes(d, l))
  /\ \A i \in DOMAIN journal : journal'[i] = journal[i]

LEMMA OtherRows ==
  ASSUME journal \in Seq(Entry), NEW more \in Seq(Entry), journal' = journal \o more,
         \A j \in DOMAIN more : more[j].type # "SUPPLEMENTARY_RELEASE"
  PROVE  RowsKept
  <1>1. ASSUME NEW d, NEW l PROVE RowsIn(Notes(d, l))' = RowsIn(Notes(d, l))
    <2>1. PICK P : P = Notes(d, l)
      OBVIOUS
    <2>2. \A j \in DOMAIN more : more[j] \notin P
      BY <2>1 DEF Notes
    <2>3. RowsIn(P)' = RowsIn(P)
      BY <2>2, NoneAdded
    <2> QED BY <2>1, <2>3
  <1> QED BY <1>1, RowsAppended DEF RowsKept

LEMMA PostTypes ==
  ASSUME NEW entries, Posts(entries), NEW j \in DOMAIN entries
  PROVE  entries[j].type # "SUPPLEMENTARY_RELEASE"
  <1>1. PICK item \in Items, w \in Ids, v \in Ids, n \in Amounts :
          entries \in {<<FromReceive(item, w, n)>>, <<FromIssue(item, w, v, n)>>,
                       FromTransfer(item, w, v, n), <<FromAdjust(item, w, n, None)>>}
    BY DEF Posts
  <1>2. ASSUME NEW e, e.type # "SUPPLEMENTARY_RELEASE", entries = <<e>>
        PROVE  entries[j].type # "SUPPLEMENTARY_RELEASE"
    BY <1>2
  <1>3. CASE entries = FromTransfer(item, w, v, n)
    <2> DEFINE out == [type |-> "RELEASE", item |-> item, from |-> Warehouse(w), to |-> Warehouse(v),
                       dozens |-> n, note |-> None]
               in == [out EXCEPT !.type = "RECEIVING"]
    <2>1. out.type = "RELEASE" /\ in.type = "RECEIVING"
      OBVIOUS
    <2>2. entries = <<out, in>>
      BY <1>3 DEF FromTransfer
    <2> HIDE DEF out, in
    <2> QED BY <2>1, <2>2
  <1>4. FromReceive(item, w, n).type = "RECEIVING" /\ FromIssue(item, w, v, n).type = "RELEASE"
        /\ FromAdjust(item, w, n, None).type = "ADJUSTMENT"
    BY DEF FromReceive, FromIssue, FromAdjust
  <1> QED BY <1>1, <1>2, <1>3, <1>4

LEMMA RowsOfStep ==
  ASSUME TypeInv, Next
  PROVE  RowsKept \/ \E r \in Requests : WriteTransfer(r)
  <1>1. journal \in Seq(Entry) /\ StockTypeOK
    BY TypeParts DEF TypeInv, StockTypeOK
  <1>2. ASSUME NEW r \in Requests, call[r] # None PROVE call[r] \in AllCalls /\ CallSound(call[r])
    BY <1>2, TypeParts DEF TypeInv, Calls
  <1>3. CASE UNCHANGED journal
    BY <1>3 DEF RowsKept, RowsIn
  <1>4. ASSUME NEW r \in Requests, WriteTransaction(r) PROVE RowsKept
    <2>1. Posts(call[r].entries) /\ journal' = journal \o call[r].entries
      BY <1>2, <1>4 DEF WriteTransaction, At, CallSound
    <2>2. PICK more \in Seq(Entry) : more = call[r].entries
      BY <2>1, EntriesTyped
    <2> QED BY <1>1, <2>1, <2>2, PostTypes, OtherRows
  <1>5. ASSUME NEW r \in Requests, WriteAdjustment(r) PROVE RowsKept
    <2>1. Adjusts(call[r].entries)
      BY <1>2, <1>5 DEF WriteAdjustment, At, CallSound
    <2>2. PICK e : e = call[r].entries[1]
      OBVIOUS
    <2>3. e \in Entry /\ e.type = "ADJUSTMENT"
      BY <2>1, <2>2, AdjustmentRow
    <2>4. PICK more \in Seq(Entry) : more = <<e>>
      <3>1. <<e>> \in Seq(Entry)
        BY <2>3
      <3> QED BY <3>1
    <2>5. journal' = journal \o more
      BY <1>1, <1>5, <2>2, <2>3, <2>4, AppendIsConcat DEF WriteAdjustment
    <2>6. \A j \in DOMAIN more : more[j].type # "SUPPLEMENTARY_RELEASE"
      BY <2>3, <2>4
    <2> QED BY <1>1, <2>5, <2>6, OtherRows
  <1> QED BY <1>3, <1>4, <1>5, OtherSteps

\* A request that a step leaves alone.
LEMMA ToldKept ==
  ASSUME NEW d, RequestTold(d), supplement'[d] = supplement[d], raced \subseteq raced',
         \A l \in DOMAIN supplement[d].lines : RowsIn(Notes(d, l))' = RowsIn(Notes(d, l)),
         \A i \in DOMAIN journal : journal'[i] = journal[i]
  PROVE  RequestTold(d)'
  <1>1. PICK s : s = supplement[d] /\ s = supplement'[d]
    OBVIOUS
  <1>2. ASSUME NEW l \in DOMAIN s.lines
        PROVE  /\ LineTold(s.lines[l], RowsIn(Notes(d, l)))'
               /\ <<"supplement", d>> \notin raced' =>
                    Cardinality(RowsIn(Notes(d, l)))' = IF s.status = "TRANSFERRED" THEN 1 ELSE 0
    <2>1. PICK A : A = RowsIn(Notes(d, l))
      OBVIOUS
    <2>2. RowsIn(Notes(d, l))' = A /\ A \subseteq DOMAIN journal /\ \A i \in A : journal'[i] = journal[i]
      BY <1>1, <1>2, <2>1 DEF RowsIn
    <2>3. LineTold(s.lines[l], A) /\ (<<"supplement", d>> \notin raced =>
            Cardinality(A) = IF s.status = "TRANSFERRED" THEN 1 ELSE 0)
      BY <1>1, <1>2, <2>1 DEF RequestTold
    <2>4. LineTold(s.lines[l], A)'
      BY <2>2, <2>3 DEF LineTold
    <2> QED BY <2>2, <2>3, <2>4 DEF LineTold
  <1>3. s.status = "APPROVED" => \A l \in DOMAIN s.lines : s.lines[l].approved # None
    BY <1>1 DEF RequestTold, AllApproved
  <1> QED BY <1>1, <1>2, <1>3 DEF RequestTold, AllApproved

\* A new request: its lines say nothing, and it has no rows.
LEMMA ToldCreated ==
  ASSUME StockTypeOK, NEW d, supplement'[d].status = "PENDING_APPROVAL", supplement'[d].lines \in Seq(NewLine),
         \A l \in Nat : RowsIn(Notes(d, l)) = {}, RowsKept
  PROVE  RequestTold(d)'
  <1>1. PICK lines \in Seq(NewLine) : lines = supplement'[d].lines
    OBVIOUS
  <1>2. ASSUME NEW l \in DOMAIN lines
        PROVE  /\ LineTold(lines[l], RowsIn(Notes(d, l)))'
               /\ Cardinality(RowsIn(Notes(d, l)))' = 0
    <2>1. l \in Nat /\ lines[l] \in NewLine
      BY <1>2, LenProperties, ElementOfSeq
    <2>2. RowsIn(Notes(d, l))' = {}
      BY <2>1 DEF RowsKept
    <2>3. lines[l].approved = None /\ lines[l].transferred = None
      BY <2>1 DEF NewLine
    <2> QED BY <2>2, <2>3, FS_EmptySet DEF LineTold
  <1> QED BY <1>1, <1>2 DEF RequestTold

\* A request that is approved, rejected or cancelled: its rows stay, and a line
\* that was approved before is approved as before.
LEMMA ToldApproved ==
  ASSUME StockTypeOK, NEW d \in DOMAIN supplement, RequestTold(d), RowsKept, NEW seen \in {"PENDING_APPROVAL", "APPROVED"},
         raced' = Stale(<<"supplement", d>>, supplement[d].status, seen),
         \/ Rewritten(d, "APPROVED", [l \in DOMAIN supplement[d].lines |-> Approved(supplement[d].lines[l])])
         \/ \E s \in {"REJECTED", "CANCELLED"} : Rewritten(d, s, supplement[d].lines)
  PROVE  RequestTold(d)' /\ (AllApproved(d) => AllApproved(d)')
  <1>1. supplement[d] \in Supplement
    BY RowReplaced DEF StockTypeOK
  <1>2. PICK lines \in Seq(Line) : lines = supplement[d].lines
    BY <1>1 DEF Supplement
  <1>3. /\ supplement'[d].status # "TRANSFERRED" /\ DOMAIN supplement'[d].lines = DOMAIN lines
        /\ \/ supplement'[d].status = "APPROVED" /\ \A l \in DOMAIN lines : supplement'[d].lines[l] = Approved(lines[l])
           \/ supplement'[d].status # "APPROVED" /\ supplement'[d].lines = lines
    BY <1>2 DEF Rewritten
  <1>4. PICK new : new = supplement'[d].lines
    OBVIOUS
  <1>5. ASSUME NEW l \in DOMAIN lines
        PROVE  /\ new[l].requested = lines[l].requested /\ new[l].transferred = lines[l].transferred
               /\ new[l].approved \in {lines[l].approved, lines[l].requested}
               /\ supplement'[d].status = "APPROVED" => new[l].approved # None
               /\ lines[l].approved # None => new[l].approved # None
    <2>1. lines[l].requested \in Int /\ lines[l].requested # None
      <3>1. lines[l] \in Line
        BY LinesApproved
      <3> QED BY <3>1, NoneIsNothing DEF Line
    <2>2. /\ Approved(lines[l]).approved = lines[l].requested
          /\ Approved(lines[l]).requested = lines[l].requested
          /\ Approved(lines[l]).transferred = lines[l].transferred
      BY LinesApproved
    <2>3. new[l] = Approved(lines[l]) \/ (supplement'[d].status # "APPROVED" /\ new[l] = lines[l])
      BY <1>3, <1>4
    <2> QED BY <2>1, <2>2, <2>3
  <1>6. <<"supplement", d>> \notin raced' => <<"supplement", d>> \notin raced /\ supplement[d].status # "TRANSFERRED"
    BY DEF Stale
  <1>7. ASSUME NEW l \in DOMAIN lines
        PROVE  /\ LineTold(new[l], RowsIn(Notes(d, l)))'
               /\ <<"supplement", d>> \notin raced' => Cardinality(RowsIn(Notes(d, l)))' = 0
    <2>1. PICK A : A = RowsIn(Notes(d, l))
      OBVIOUS
    <2>2. RowsIn(Notes(d, l))' = A /\ A \subseteq DOMAIN journal /\ \A i \in A : journal'[i] = journal[i]
      BY <2>1 DEF RowsKept, RowsIn
    <2>3. LineTold(lines[l], A) /\ (<<"supplement", d>> \notin raced' => Cardinality(A) = 0)
      BY <1>2, <1>6, <1>7, <2>1 DEF RequestTold
    <2>4. new[l].approved \in {None, new[l].requested} /\ new[l].transferred \in {None, new[l].approved}
          /\ (lines[l].approved # None => new[l].approved = lines[l].approved)
      BY <1>5, <2>3 DEF LineTold
    <2>5. PICK x : x = new[l]
      OBVIOUS
    <2>6. LineTold(x, A)'
      BY <1>5, <2>2, <2>3, <2>4, <2>5 DEF LineTold
    <2> QED BY <2>2, <2>3, <2>5, <2>6 DEF LineTold
  <1>8. supplement'[d].status = "APPROVED" => \A l \in DOMAIN new : new[l].approved # None
    BY <1>3, <1>4, <1>5
  <1>9. RequestTold(d)'
    BY <1>3, <1>4, <1>7, <1>8 DEF RequestTold, AllApproved
  <1>10. AllApproved(d) => AllApproved(d)'
    BY <1>2, <1>3, <1>4, <1>5 DEF AllApproved
  <1> QED BY <1>9, <1>10

\* A request that is transferred gets one row for each line.
LEMMA RowsTransferred ==
  ASSUME StockTypeOK, NEW d \in DOMAIN supplement, journal' = journal \o LinesEntries(d)
  PROVE  /\ \A l \in DOMAIN supplement[d].lines :
               /\ RowsIn(Notes(d, l))' = RowsIn(Notes(d, l)) \union {Len(journal) + l}
               /\ Len(journal) + l \notin DOMAIN journal
               /\ journal'[Len(journal) + l].dozens = ApprovedOf(supplement[d].lines[l])
         /\ \A b \in Nat, l \in Nat : b # d => RowsIn(Notes(b, l))' = RowsIn(Notes(b, l))
         /\ \A i \in DOMAIN journal : journal'[i] = journal[i]
  <1>1. journal \in Seq(Entry) /\ d \in Nat
    BY RowReplaced DEF StockTypeOK
  <1>2. PICK more \in Seq(Entry) :
          /\ more = LinesEntries(d) /\ DOMAIN more = DOMAIN supplement[d].lines
          /\ \A l \in DOMAIN more : more[l] = LineEntry(d, l) /\ more[l] \in Entry
    BY LinesEntriesTyped
  <1>3. \A l \in DOMAIN more : /\ more[l].type = "SUPPLEMENTARY_RELEASE" /\ more[l].note = <<d, l>>
                               /\ more[l].dozens = ApprovedOf(supplement[d].lines[l])
    <2>1. ASSUME NEW l \in DOMAIN more
          PROVE  /\ LineEntry(d, l).type = "SUPPLEMENTARY_RELEASE" /\ LineEntry(d, l).note = <<d, l>>
                 /\ LineEntry(d, l).dozens = ApprovedOf(supplement[d].lines[l])
      BY DEF LineEntry
    <2> QED BY <1>2, <2>1
  <1>4. /\ DOMAIN journal = 1 .. Len(journal) /\ Len(journal) \in Nat /\ DOMAIN more = 1 .. Len(more)
        /\ \A i \in DOMAIN journal : journal'[i] = journal[i]
        /\ \A i \in 1 .. Len(more) : journal'[Len(journal) + i] = more[i]
    BY <1>1, <1>2, RowsAppended, LenProperties
  <1>5. ASSUME NEW l \in DOMAIN more
        PROVE  /\ RowsIn(Notes(d, l))' = RowsIn(Notes(d, l)) \union {Len(journal) + l}
               /\ Len(journal) + l \notin DOMAIN journal
               /\ journal'[Len(journal) + l].dozens = ApprovedOf(supplement[d].lines[l])
    <2>1. PICK P : P = Notes(d, l)
      OBVIOUS
    <2>2. more[l] \in P /\ \A j \in DOMAIN more \ {l} : more[j] \notin P
      BY <1>2, <1>3, <2>1 DEF Notes
    <2>3. RowsIn(P)' = RowsIn(P) \union {Len(journal) + l}
      BY <1>1, <1>2, <2>2, OneAdded
    <2>4. l \in Nat \ {0}
      BY <1>4
    <2>5. Len(journal) + l \notin DOMAIN journal
      BY <1>4, <2>4
    <2>6. journal'[Len(journal) + l].dozens = ApprovedOf(supplement[d].lines[l])
      BY <1>3, <1>4
    <2> QED BY <2>1, <2>3, <2>5, <2>6
  <1>6. ASSUME NEW b \in Nat, NEW l \in Nat, b # d
        PROVE  RowsIn(Notes(b, l))' = RowsIn(Notes(b, l))
    <2>1. PICK P : P = Notes(b, l)
      OBVIOUS
    <2>2. \A j \in DOMAIN more : more[j] \notin P
      BY <1>3, <1>6, <2>1 DEF Notes
    <2>3. RowsIn(P)' = RowsIn(P)
      BY <1>1, <1>2, <2>2, NoneAdded
    <2> QED BY <2>1, <2>3
  <1> QED BY <1>2, <1>4, <1>5, <1>6

LEMMA ToldTransferred ==
  ASSUME StockTypeOK, NEW d \in DOMAIN supplement, RequestTold(d), AllApproved(d),
         raced' = Stale(<<"supplement", d>>, supplement[d].status, "APPROVED"),
         journal' = journal \o LinesEntries(d),
         Rewritten(d, "TRANSFERRED", [l \in DOMAIN supplement[d].lines |-> Transferred(supplement[d].lines[l])])
  PROVE  RequestTold(d)' /\ AllApproved(d)'
  <1>1. supplement[d] \in Supplement
    BY RowReplaced DEF StockTypeOK
  <1>2. PICK lines \in Seq(Line) : lines = supplement[d].lines
    BY <1>1 DEF Supplement
  <1>3. PICK new : new = supplement'[d].lines
    OBVIOUS
  <1>4. /\ supplement'[d].status = "TRANSFERRED" /\ DOMAIN new = DOMAIN lines
        /\ \A l \in DOMAIN lines : new[l] = Transferred(lines[l])
    BY <1>2, <1>3 DEF Rewritten
  <1>5. <<"supplement", d>> \notin raced' => <<"supplement", d>> \notin raced /\ supplement[d].status # "TRANSFERRED"
    BY DEF Stale
  <1>6. ASSUME NEW l \in DOMAIN lines
        PROVE  /\ LineTold(new[l], RowsIn(Notes(d, l)))'
               /\ <<"supplement", d>> \notin raced' => Cardinality(RowsIn(Notes(d, l)))' = 1
               /\ new[l].approved # None
    <2>1. PICK A : A = RowsIn(Notes(d, l))
      OBVIOUS
    <2>2. PICK y : y = Len(journal) + l
      OBVIOUS
    <2>3. /\ RowsIn(Notes(d, l))' = A \union {y} /\ y \notin DOMAIN journal /\ A \subseteq DOMAIN journal
          /\ journal'[y].dozens = ApprovedOf(lines[l])
          /\ \A i \in A : journal'[i] = journal[i]
      BY <1>2, <2>1, <2>2, RowsTransferred DEF RowsIn
    <2>4. LineTold(lines[l], A) /\ (<<"supplement", d>> \notin raced' => Cardinality(A) = 0) /\ IsFiniteSet(A)
      <3>1. IsFiniteSet(A)
        BY <2>3, RowsFinite DEF StockTypeOK
      <3> QED BY <1>2, <1>5, <1>6, <2>1, <3>1 DEF RequestTold
    <2>5. lines[l].approved # None
      BY <1>2 DEF AllApproved
    <2>6. /\ new[l].approved = lines[l].approved /\ new[l].requested = lines[l].requested
          /\ new[l].transferred = lines[l].approved /\ ApprovedOf(lines[l]) = lines[l].approved
      <3>1. /\ Transferred(lines[l]).transferred = ApprovedOf(lines[l])
            /\ Transferred(lines[l]).approved = lines[l].approved
            /\ Transferred(lines[l]).requested = lines[l].requested
        BY LinesTransferred
      <3>2. ApprovedOf(lines[l]) = lines[l].approved
        BY <2>5 DEF ApprovedOf
      <3> QED BY <1>4, <3>1, <3>2
    <2>7. PICK x, B : x = new[l] /\ B = A \union {y}
      OBVIOUS
    <2>8. LineTold(x, B)'
      BY <2>3, <2>4, <2>5, <2>6, <2>7 DEF LineTold
    <2>9. <<"supplement", d>> \notin raced' => Cardinality(B) = 1
      <3>1. Cardinality(A) = 0 => A = {}
        BY <2>4, FS_EmptySet
      <3> QED BY <2>4, <2>7, <3>1, FS_Singleton
    <2> QED BY <2>3, <2>5, <2>6, <2>7, <2>8, <2>9 DEF LineTold
  <1>7. RequestTold(d)'
    BY <1>3, <1>4, <1>6 DEF RequestTold
  <1>8. AllApproved(d)'
    BY <1>3, <1>4, <1>6 DEF AllApproved
  <1> QED BY <1>7, <1>8

LEMMA SupplementSteps ==
  ASSUME TypeInv, Next
  PROVE  \/ UNCHANGED supplement /\ raced \subseteq raced'
         \/ \E r \in Requests : CreateSupplement(r) \/ WriteApproval(r) \/ WriteRejection(r) \/ WriteTransfer(r)
  <1>1. ASSUME NEW r \in Requests, StockWrite(r)
        PROVE  \/ UNCHANGED supplement /\ raced \subseteq raced'
               \/ CreateSupplement(r) \/ WriteApproval(r) \/ WriteRejection(r) \/ WriteTransfer(r)
    BY <1>1 DEF StockWrite, WriteTransaction, WriteAdjustment, CreateCycleCount, WriteAction, WriteClosure, Stale
  <1> QED BY <1>1, Steps DEF TypeInv, stockVars, NextNumber, OrderLeavesProduction

\* Once the requests are told right and their approvals last, the calls know
\* what they should.
LEMMA CallsTold ==
  ASSUME TypeInv, SupplementsSound, Next, \A d \in DOMAIN supplement : AllApproved(d) => AllApproved(d)'
  PROVE  \A c \in Calls' : /\ c.op = "request" => c.lines \in Seq(NewLine)
                           /\ c.op = "transfer" => AllApproved(c.doc)'
  <1> SUFFICES ASSUME NEW c \in Calls'
               PROVE  /\ c.op = "request" => c.lines \in Seq(NewLine)
                      /\ c.op = "transfer" => AllApproved(c.doc)'
    OBVIOUS
  <1>1. CASE c \in Calls
    <2>1. c.op = "transfer" => c.doc \in DOMAIN supplement
      BY <1>1 DEF TypeInv, CallSound
    <2> QED BY <1>1, <2>1 DEF SupplementsSound
  <1>2. CASE c.op = "request" /\ \E b \in Calls : b.op = "request" /\ c.lines = b.lines
    BY <1>2 DEF SupplementsSound
  <1>3. CASE c.op = "transfer" /\ c.doc \in DOMAIN supplement /\ supplement[c.doc].status = "APPROVED"
    <2>1. AllApproved(c.doc)
      BY <1>3 DEF SupplementsSound, RequestTold
    <2> QED BY <1>3, <2>1
  <1> QED BY <1>1, <1>2, <1>3, CallsOfStep DEF CallsKnown

LEMMA SupplementsStep ==
  ASSUME TypeInv, SupplementsSound, Next
  PROVE  SupplementsSound'
  <1>1. StockTypeOK /\ supplement \in Seq(Supplement) /\ journal \in Seq(Entry)
    BY TypeParts DEF TypeInv, StockTypeOK
  <1>2. ASSUME NEW r \in Requests, call[r] # None PROVE call[r] \in AllCalls /\ CallSound(call[r]) /\ call[r] \in Calls
    BY <1>2, TypeParts DEF TypeInv, Calls
  <1>3. DOMAIN supplement \subseteq Nat
    BY <1>1, LenProperties
  <1>4. ASSUME \A d \in DOMAIN supplement' : RequestTold(d)',
               \A d \in Nat \ DOMAIN supplement', l \in Nat : RowsIn(Notes(d, l))' = {},
               \A d \in DOMAIN supplement : AllApproved(d) => AllApproved(d)'
        PROVE  SupplementsSound'
    BY <1>4, CallsTold DEF SupplementsSound
  <1>5. ASSUME UNCHANGED supplement, raced \subseteq raced', RowsKept
        PROVE  SupplementsSound'
    <2>1. ASSUME NEW d \in DOMAIN supplement' PROVE RequestTold(d)'
      BY <1>5, <2>1, ToldKept DEF SupplementsSound, RowsKept
    <2>2. \A d \in DOMAIN supplement : AllApproved(d) => AllApproved(d)'
      BY <1>5 DEF AllApproved
    <2>3. ASSUME NEW d \in Nat \ DOMAIN supplement', NEW l \in Nat PROVE RowsIn(Notes(d, l))' = {}
      BY <1>5, <2>3 DEF SupplementsSound, RowsKept
    <2> QED BY <1>4, <2>1, <2>2, <2>3
  <1>6. ASSUME NEW r \in Requests, CreateSupplement(r), RowsKept
        PROVE  SupplementsSound'
    <2> DEFINE c == call[r]
               x == [number |-> c.number, order |-> c.order, lines |-> c.lines, status |-> "PENDING_APPROVAL"]
    <2>1. c \in RequestCall /\ c.number # None /\ c.lines \in Seq(NewLine)
      BY <1>2, <1>6, CallOf DEF CreateSupplement, At, SupplementsSound
    <2>2. x \in Supplement /\ x.status = "PENDING_APPROVAL" /\ x.lines = c.lines
      BY <2>1 DEF RequestCall, Supplement
    <2>3. supplement' = supplement \/ supplement' = Append(supplement, x)
      BY <1>6 DEF CreateSupplement
    <2>4. raced' = raced
      BY <1>6 DEF CreateSupplement
    <2> HIDE DEF c, x
    <2>5. CASE supplement' = supplement
      BY <1>5, <1>6, <2>4, <2>5
    <2>6. CASE supplement' = Append(supplement, x)
      <3>1. PICK e : e = Len(supplement) + 1
        OBVIOUS
      <3>2. /\ e \in Nat \ DOMAIN supplement /\ DOMAIN supplement' = DOMAIN supplement \union {e}
            /\ \A d \in DOMAIN supplement : supplement'[d] = supplement[d]
            /\ supplement'[e] = x
        <4>1. /\ DOMAIN supplement = 1 .. Len(supplement) /\ Len(supplement) \in Nat
              /\ DOMAIN supplement' = 1 .. Len(supplement) + 1
              /\ \A i \in DOMAIN supplement : supplement'[i] = supplement[i]
              /\ supplement'[Len(supplement) + 1] = x
          BY <1>1, <2>2, <2>6, RowAppended
        <4> QED BY <3>1, <4>1
      <3>3. ASSUME NEW d \in DOMAIN supplement' PROVE RequestTold(d)'
        <4>1. CASE d \in DOMAIN supplement
          BY <1>6, <2>4, <3>2, <4>1, ToldKept DEF SupplementsSound, RowsKept
        <4>2. CASE d = e
          <5>1. \A l \in Nat : RowsIn(Notes(d, l)) = {}
            BY <3>2, <4>2 DEF SupplementsSound
          <5>2. supplement'[d].status = "PENDING_APPROVAL" /\ supplement'[d].lines \in Seq(NewLine)
            BY <2>1, <2>2, <3>2, <4>2
          <5> QED BY <1>1, <1>6, <5>1, <5>2, ToldCreated
        <4> QED BY <3>2, <3>3, <4>1, <4>2
      <3>4. \A d \in DOMAIN supplement : AllApproved(d) => AllApproved(d)'
        BY <3>2 DEF AllApproved
      <3>5. ASSUME NEW d \in Nat \ DOMAIN supplement', NEW l \in Nat PROVE RowsIn(Notes(d, l))' = {}
        BY <1>6, <3>2, <3>5 DEF SupplementsSound, RowsKept
      <3> QED BY <1>4, <3>3, <3>4, <3>5
    <2> QED BY <2>3, <2>5, <2>6
  <1>7. ASSUME NEW r \in Requests, WriteApproval(r) \/ WriteRejection(r), RowsKept
        PROVE  SupplementsSound'
    <2>1. PICK d : d = call[r].doc
      OBVIOUS
    <2>2. call[r] \in AllCalls /\ CallSound(call[r])
      BY <1>2, <1>7 DEF WriteApproval, WriteRejection, At
    <2>3. d \in DOMAIN supplement
      BY <1>1, <1>7, <2>1, <2>2, DocOf
    <2>4. call[r].seen \in {"PENDING_APPROVAL", "APPROVED"}
      BY <1>7, <2>2, CallOf DEF WriteApproval, WriteRejection, At, SupplementCall
    <2>5. raced' = Stale(<<"supplement", d>>, supplement[d].status, call[r].seen)
      BY <1>7, <2>1 DEF WriteApproval, WriteRejection
    <2>6. \/ Rewritten(d, "APPROVED", [l \in DOMAIN supplement[d].lines |-> Approved(supplement[d].lines[l])])
          \/ \E s \in {"REJECTED", "CANCELLED"} : Rewritten(d, s, supplement[d].lines)
      <3>1. CASE WriteApproval(r)
        BY <1>1, <2>1, <2>2, <3>1, ApprovalWrites
      <3>2. CASE WriteRejection(r)
        <4>1. PICK s \in {"REJECTED", "CANCELLED"} : s = IF At(r, "reject") THEN "REJECTED" ELSE "CANCELLED"
          OBVIOUS
        <4> QED BY <1>1, <2>1, <2>2, <3>2, <4>1, RejectionWrites
      <3> QED BY <1>7, <3>1, <3>2
    <2>7. RequestTold(d)' /\ (AllApproved(d) => AllApproved(d)')
      BY <1>1, <1>7, <2>3, <2>4, <2>5, <2>6, ToldApproved DEF SupplementsSound
    <2>8. DOMAIN supplement' = DOMAIN supplement
          /\ \A b \in DOMAIN supplement : b # d => supplement'[b] = supplement[b]
      BY <2>6 DEF Rewritten
    <2>9. raced \subseteq raced'
      BY <2>5 DEF Stale
    <2>10. ASSUME NEW b \in DOMAIN supplement' PROVE RequestTold(b)'
      BY <1>7, <2>7, <2>8, <2>9, <2>10, ToldKept DEF SupplementsSound, RowsKept
    <2>11. \A b \in DOMAIN supplement : AllApproved(b) => AllApproved(b)'
      BY <2>7, <2>8 DEF AllApproved
    <2>12. ASSUME NEW b \in Nat \ DOMAIN supplement', NEW l \in Nat PROVE RowsIn(Notes(b, l))' = {}
      BY <1>7, <2>8, <2>12 DEF SupplementsSound, RowsKept
    <2> QED BY <1>4, <2>10, <2>11, <2>12
  <1>8. ASSUME NEW r \in Requests, WriteTransfer(r)
        PROVE  SupplementsSound'
    <2>1. PICK d : d = call[r].doc
      OBVIOUS
    <2>2. call[r] \in AllCalls /\ CallSound(call[r]) /\ call[r] \in Calls /\ call[r].op = "transfer"
      BY <1>2, <1>8 DEF WriteTransfer, At
    <2>3. d \in DOMAIN supplement /\ call[r].seen = "APPROVED" /\ AllApproved(d)
      BY <2>1, <2>2 DEF CallSound, SupplementsSound
    <2>4. raced' = Stale(<<"supplement", d>>, supplement[d].status, "APPROVED")
      BY <1>8, <2>1, <2>3 DEF WriteTransfer
    <2>5. /\ Rewritten(d, "TRANSFERRED", [l \in DOMAIN supplement[d].lines |-> Transferred(supplement[d].lines[l])])
          /\ journal' = journal \o LinesEntries(d)
      BY <1>1, <1>8, <2>1, <2>2, TransferWrites
    <2>6. RequestTold(d)' /\ AllApproved(d)'
      BY <1>1, <2>3, <2>4, <2>5, ToldTransferred DEF SupplementsSound
    <2>7. DOMAIN supplement' = DOMAIN supplement
          /\ \A b \in DOMAIN supplement : b # d => supplement'[b] = supplement[b]
      BY <2>5 DEF Rewritten
    <2>8. /\ \A b \in Nat, l \in Nat : b # d => RowsIn(Notes(b, l))' = RowsIn(Notes(b, l))
          /\ \A i \in DOMAIN journal : journal'[i] = journal[i]
      BY <1>1, <2>3, <2>5, RowsTransferred
    <2>9. ASSUME NEW b \in DOMAIN supplement, b # d PROVE RequestTold(b)'
      <3>1. RequestTold(b) /\ supplement'[b] = supplement[b] /\ raced \subseteq raced'
        BY <2>4, <2>7, <2>9 DEF SupplementsSound, Stale
      <3>2. \A l \in DOMAIN supplement[b].lines : RowsIn(Notes(b, l))' = RowsIn(Notes(b, l))
        <4>1. supplement[b] \in Supplement
          BY <1>1, RowReplaced
        <4>2. PICK lines \in Seq(Line) : lines = supplement[b].lines
          BY <4>1 DEF Supplement
        <4>3. DOMAIN lines \subseteq Nat
          BY LenProperties
        <4> QED BY <1>3, <2>8, <2>9, <4>2, <4>3
      <3> QED BY <2>8, <3>1, <3>2, ToldKept
    <2>10. \A b \in DOMAIN supplement : AllApproved(b) => AllApproved(b)'
      BY <2>6, <2>7 DEF AllApproved
    <2>11. ASSUME NEW b \in Nat \ DOMAIN supplement', NEW l \in Nat PROVE RowsIn(Notes(b, l))' = {}
      BY <2>3, <2>7, <2>8, <2>11 DEF SupplementsSound
    <2> QED BY <1>4, <2>6, <2>7, <2>9, <2>10, <2>11
  <1> QED BY <1>5, <1>6, <1>7, <1>8, RowsOfStep, SupplementSteps

\* The lines of a supplementary request, their rows in the journal and what its
\* requests have read of it agree in every interleaving.
THEOREM SupplementsInvariant == Spec => []SupplementsSound
  <1>1. Init => SupplementsSound
    <2> SUFFICES ASSUME Init PROVE SupplementsSound
      OBVIOUS
    <2>1. supplement = <<>> /\ \A P : RowsIn(P) = {}
      BY DEF Init, RowsIn
    <2>2. Calls = {}
      BY DEF Init, Calls
    <2> QED BY <2>1, <2>2 DEF SupplementsSound
  <1>2. TypeInv /\ SupplementsSound /\ [Next]_vars => SupplementsSound'
    <2>1. ASSUME SupplementsSound, UNCHANGED vars PROVE SupplementsSound'
      <3>1. UNCHANGED <<supplement, journal, raced, call>>
        BY <2>1 DEF vars, stockVars
      <3>2. \A d, l : RowsIn(Notes(d, l))' = RowsIn(Notes(d, l))
        BY <3>1 DEF RowsIn
      <3>3. ASSUME NEW d \in DOMAIN supplement' PROVE RequestTold(d)'
        BY <2>1, <3>1, <3>2, ToldKept DEF SupplementsSound
      <3>4. ASSUME NEW d \in Nat \ DOMAIN supplement', NEW l \in Nat PROVE RowsIn(Notes(d, l))' = {}
        BY <2>1, <3>1, <3>2 DEF SupplementsSound
      <3>5. Calls' = Calls
        BY <3>1 DEF Calls
      <3>6. \A d : AllApproved(d) => AllApproved(d)'
        BY <3>1 DEF AllApproved
      <3> QED BY <2>1, <3>3, <3>4, <3>5, <3>6 DEF SupplementsSound
    <2> QED BY <2>1, SupplementsStep
  <1> QED BY <1>1, <1>2, BackOfficeInvariant, PTL DEF Spec

LEMMA SupplementsImply ==
  ASSUME journal \in Seq(Entry), SupplementsSound
  PROVE  SupplementsJournaled
  <1>1. ASSUME NEW d, NEW l PROVE EntriesOf(d, l) = RowsIn(Notes(d, l))
    <2>1. \A i \in DOMAIN journal : journal[i] \in Entry
      BY LenProperties, ElementOfSeq
    <2> QED BY <2>1 DEF EntriesOf, RowsIn, Notes
  <1>2. ASSUME NEW d \in DOMAIN supplement, NEW l \in DOMAIN supplement[d].lines, NEW line, NEW rows,
               line = supplement[d].lines[l], rows = RowsIn(Notes(d, l))
        PROVE  /\ (line.transferred # None) <=> (rows # {})
               /\ \A i \in rows : journal[i].dozens = line.approved /\ line.approved = line.transferred
               /\ <<"supplement", d>> \notin raced =>
                    Cardinality(rows) = IF supplement[d].status = "TRANSFERRED" THEN 1 ELSE 0
    BY <1>2 DEF SupplementsSound, RequestTold, LineTold
  <1> QED BY <1>1, <1>2 DEF SupplementsJournaled

\* The journal explains the dozens on hand by the adjustments that were
\* applied, has both rows of every transfer between warehouses, and one row for
\* each line of a supplementary request that was transferred.
THEOREM JournalExplainsStockCorrect == Spec => []JournalExplainsStock
  <1>1. TypeInv /\ LedgerExplained /\ SupplementsSound => JournalExplainsStock
    BY LedgerImplies, SupplementsImply, TypeParts DEF TypeInv, StockTypeOK, JournalExplainsStock
  <1> QED BY <1>1, BackOfficeInvariant, LedgerInvariant, SupplementsInvariant, PTL

-----------------------------------------------------------------------------
(* The workflow of the documents.                                          *)

HasNumber(r) == At(r, "request") /\ call[r].number # None

\* A number is given to one request only.
NumbersSound ==
  /\ \A r \in Requests : HasNumber(r) => call[r].number <= numbers
  /\ \A r, q \in Requests : HasNumber(r) /\ HasNumber(q) /\ call[r].number = call[q].number => r = q
  /\ \A d \in DOMAIN supplement :
        /\ supplement[d].number <= numbers
        /\ \A r \in Requests : HasNumber(r) => call[r].number # supplement[d].number

\* The requests that have a number had it before.
NumbersHeld == \A r \in Requests : HasNumber(r)' => HasNumber(r) /\ call'[r].number = call[r].number

LEMMA HeldByFinish ==
  ASSUME TypeOK, NEW r \in Requests, Finish(r)
  PROVE  NumbersHeld /\ ~ HasNumber(r)'
  <1>1. call \in [Requests -> AllCalls \union {None}]
    BY TypeParts
  <1> QED BY <1>1 DEF Finish, NumbersHeld, HasNumber, At

LEMMA HeldByCheck ==
  ASSUME TypeOK, NEW r \in Requests, Checked(r)
  PROVE  NumbersHeld
  <1>1. call \in [Requests -> AllCalls \union {None}]
    BY TypeParts
  <1>2. PICK x : NewCall(r, x)
    BY DEF Checked
  <1> QED BY <1>1, <1>2 DEF NewCall, Begin, NumbersHeld, HasNumber, At

\* The requests of a step are those of before, with the numbers of before.
SameDocuments ==
  /\ DOMAIN supplement' = DOMAIN supplement
  /\ \A d \in DOMAIN supplement : supplement'[d].number = supplement[d].number

LEMMA NumbersOfStep ==
  ASSUME TypeInv, Next
  PROVE  \/ NumbersHeld /\ numbers' = numbers /\ SameDocuments
         \/ \E r \in Requests : NextNumber(r)
         \/ \E r \in Requests : CreateSupplement(r) /\ supplement' # supplement
  <1> DEFINE Goal == \/ NumbersHeld /\ numbers' = numbers /\ SameDocuments
                     \/ \E r \in Requests : NextNumber(r)
                     \/ \E r \in Requests : CreateSupplement(r) /\ supplement' # supplement
  <1>1. TypeOK /\ StockTypeOK
    BY TypeParts DEF TypeInv
  <1>2. ASSUME NEW r \in Requests, call[r] # None PROVE call[r] \in AllCalls /\ CallSound(call[r])
    BY <1>2, TypeParts DEF TypeInv, Calls
  <1>3. ASSUME NEW r \in Requests, Finish(r), numbers' = numbers, SameDocuments PROVE Goal
    BY <1>1, <1>3, HeldByFinish
  <1>4. ASSUME NEW r \in Requests, Checked(r), UNCHANGED stockVars PROVE Goal
    BY <1>1, <1>4, HeldByCheck DEF stockVars, SameDocuments
  <1>5. ASSUME call' = call, numbers' = numbers, supplement' = supplement PROVE Goal
    BY <1>5 DEF NumbersHeld, HasNumber, At, SameDocuments
  <1>6. ASSUME NEW r \in Requests, WriteApproval(r) \/ WriteRejection(r) \/ WriteTransfer(r) PROVE Goal
    <2>1. call[r] \in AllCalls /\ CallSound(call[r]) /\ Finish(r) /\ numbers' = numbers
      BY <1>2, <1>6 DEF WriteApproval, WriteRejection, WriteTransfer, At
    <2>2. PICK d : d = call[r].doc
      OBVIOUS
    <2>3. d \in DOMAIN supplement
      BY <1>1, <1>6, <2>1, <2>2, DocOf
    <2>4. \E s, ls : Rewritten(d, s, ls)
      BY <1>1, <1>6, <2>1, <2>2, ApprovalWrites, RejectionWrites, TransferWrites
    <2>5. SameDocuments
      BY <2>3, <2>4 DEF Rewritten, SameDocuments
    <2> QED BY <1>3, <2>1, <2>5
  <1>7. ASSUME NEW r \in Requests, StockWrite(r) PROVE Goal
    <2>1. Finish(r) /\ numbers' = numbers
      BY <1>7 DEF StockWrite, WriteTransaction, WriteAdjustment, CreateCycleCount, WriteAction, WriteClosure,
                  CreateSupplement, WriteApproval, WriteRejection, WriteTransfer
    <2>2. \/ WriteApproval(r) \/ WriteRejection(r) \/ WriteTransfer(r)
          \/ CreateSupplement(r)
          \/ supplement' = supplement
      BY <1>7 DEF StockWrite, WriteTransaction, WriteAdjustment, CreateCycleCount, WriteAction, WriteClosure
    <2>3. CASE supplement' = supplement
      BY <1>3, <2>1, <2>3 DEF SameDocuments
    <2> QED BY <1>6, <2>2, <2>3
  <1>8. ASSUME NEW r \in Requests, MasterWrite(r) \/ InsertLocation(r), UNCHANGED stockVars PROVE Goal
    <2>1. Finish(r)
      BY <1>8 DEF MasterWrite, CreateWrite, UpdateWrite, DeleteWrite, DeactivateWrite, ReactivateWrite, AssignWrite,
                  RemoveWrite, InsertLocation
    <2> QED BY <1>3, <1>8, <2>1 DEF stockVars, SameDocuments
  <1>9. ASSUME NEW o, OrderLeavesProduction(o) PROVE Goal
    BY <1>5, <1>9 DEF OrderLeavesProduction
  <1>10. ASSUME NEW l, NEW on, UpdateLocationStatus(l, on), UNCHANGED stockVars PROVE Goal
    BY <1>5, <1>10 DEF UpdateLocationStatus, stockVars
  <1> HIDE DEF Goal
  <1>11. Goal
    <2>1. ASSUME NEW r \in Requests, NextNumber(r) PROVE Goal
      BY <2>1 DEF Goal
    <2> QED BY <1>1, <1>4, <1>7, <1>8, <1>9, <1>10, <2>1, Steps
  <1> QED BY <1>11 DEF Goal

LEMMA NumbersStep ==
  ASSUME TypeInv, NumbersSound, Next
  PROVE  NumbersSound'
  <1>1. TypeOK /\ StockTypeOK /\ call \in [Requests -> AllCalls \union {None}]
    BY TypeParts DEF TypeInv
  <1>2. ASSUME NEW r \in Requests, call[r] # None PROVE call[r] \in AllCalls
    BY <1>1, <1>2
  <1>3. CASE NumbersHeld /\ numbers' = numbers /\ SameDocuments
    BY <1>3 DEF NumbersSound, NumbersHeld, SameDocuments
  <1>4. ASSUME NEW r \in Requests, NextNumber(r) PROVE NumbersSound'
    <2>1. call[r] # None /\ call[r].op = "request" /\ supplement' = supplement /\ numbers' = numbers + 1
      BY <1>4 DEF NextNumber, At
    <2>2. PICK y \in RequestCall : y = call[r]
      BY <1>2, <2>1, CallOf
    <2>3. PICK x : x = [y EXCEPT !.number = numbers + 1]
      OBVIOUS
    <2>4. x.number = numbers + 1
      BY <2>2, <2>3 DEF RequestCall
    <2>5. call' = [call EXCEPT ![r] = x]
      BY <1>4, <2>2, <2>3 DEF NextNumber
    <2>6. numbers \in Nat /\ \A d \in DOMAIN supplement : supplement[d].number \in Nat
      <3>1. \A d \in DOMAIN supplement : supplement[d] \in Supplement
        BY <1>1, RowReplaced DEF StockTypeOK
      <3> QED BY <1>1, <3>1 DEF StockTypeOK, Supplement
    <2>7. ASSUME NEW q \in Requests, HasNumber(q) PROVE call[q].number \in Nat
      BY <1>2, <2>7, CallOf DEF HasNumber, At, RequestCall
    <2>8. call'[r].number = numbers + 1 /\ \A q \in Requests : q # r => call'[q] = call[q]
      BY <1>1, <2>4, <2>5
    <2>9. \A q \in Requests : q # r /\ HasNumber(q)' => HasNumber(q) /\ call'[q].number = call[q].number
      BY <2>8 DEF HasNumber, At
    <2> QED BY <2>1, <2>6, <2>7, <2>8, <2>9 DEF NumbersSound
  <1>5. ASSUME NEW r \in Requests, CreateSupplement(r), supplement' # supplement PROVE NumbersSound'
    <2> DEFINE c == call[r]
               x == [number |-> c.number, order |-> c.order, lines |-> c.lines, status |-> "PENDING_APPROVAL"]
    <2>1. HasNumber(r) /\ Finish(r) /\ numbers' = numbers
      BY <1>5 DEF CreateSupplement, HasNumber
    <2>2. c \in RequestCall /\ c.number # None
      BY <1>2, <2>1, CallOf DEF HasNumber, At
    <2>3. x \in Supplement /\ x.number = c.number
      BY <2>2 DEF RequestCall, Supplement
    <2>4. supplement' = Append(supplement, x)
      BY <1>5 DEF CreateSupplement
    <2> HIDE DEF x
    <2>5. \A d \in DOMAIN supplement' : \/ supplement'[d].number = call[r].number
                                        \/ d \in DOMAIN supplement /\ supplement'[d] = supplement[d]
      <3>1. supplement \in Seq(Supplement)
        BY <1>1 DEF StockTypeOK
      <3>2. /\ DOMAIN supplement = 1 .. Len(supplement) /\ Len(supplement) \in Nat
            /\ DOMAIN supplement' = 1 .. Len(supplement) + 1
            /\ \A i \in DOMAIN supplement : supplement'[i] = supplement[i]
            /\ supplement'[Len(supplement) + 1] = x
        BY <2>3, <2>4, <3>1, RowAppended
      <3> QED BY <2>3, <3>2
    <2>6. NumbersHeld /\ ~ HasNumber(r)'
      BY <1>1, <2>1, HeldByFinish
    <2> QED BY <2>1, <2>5, <2>6 DEF NumbersSound, NumbersHeld
  <1> QED BY <1>3, <1>4, <1>5, NumbersOfStep

\* A number that a request holds or a document has is its own: the sequence is
\* read and written in one statement.
THEOREM NumbersInvariant == Spec => []NumbersSound
  <1>1. Init => NumbersSound
    <2> SUFFICES ASSUME Init PROVE NumbersSound
      OBVIOUS
    <2>1. supplement = <<>> /\ \A r \in Requests : ~ HasNumber(r)
      BY DEF Init, HasNumber, At
    <2> QED BY <2>1 DEF NumbersSound
  <1>2. TypeInv /\ NumbersSound /\ [Next]_vars => NumbersSound'
    <2>1. ASSUME NumbersSound, UNCHANGED vars PROVE NumbersSound'
      <3>1. UNCHANGED <<call, supplement, numbers>>
        BY <2>1 DEF vars, stockVars
      <3> QED BY <2>1, <3>1 DEF NumbersSound, HasNumber, At
    <2> QED BY <2>1, NumbersStep
  <1> QED BY <1>1, <1>2, BackOfficeInvariant, PTL DEF Spec

SupplementsFollow ==
  \A d \in DOMAIN supplement :
     supplement'[d].status # supplement[d].status /\ <<"supplement", d>> \notin raced' =>
       <<supplement[d].status, supplement'[d].status>> \in SupplementEdges

CountsFollow ==
  \A d \in DOMAIN cycleCount :
     cycleCount[d].status = "CLOSED" /\ cycleCount'[d] # cycleCount[d] => <<"count", d>> \in raced'

LEMMA SupplementWorkflow ==
  ASSUME TypeInv, Next
  PROVE  SupplementsFollow
  <1>1. StockTypeOK
    BY TypeParts DEF TypeInv
  <1>2. ASSUME NEW r \in Requests, call[r] # None PROVE call[r] \in AllCalls /\ CallSound(call[r])
    BY <1>2, TypeParts DEF TypeInv, Calls
  <1>3. CASE UNCHANGED supplement
    BY <1>3 DEF SupplementsFollow
  <1>4. ASSUME NEW r \in Requests, CreateSupplement(r) PROVE SupplementsFollow
    <2> DEFINE x == [number |-> call[r].number, order |-> call[r].order, lines |-> call[r].lines,
                     status |-> "PENDING_APPROVAL"]
    <2>1. call[r] \in RequestCall /\ call[r].number # None
      BY <1>2, <1>4, CallOf DEF CreateSupplement, At
    <2>2. x \in Supplement
      BY <2>1 DEF RequestCall, Supplement
    <2>3. supplement' = supplement \/ supplement' = Append(supplement, x)
      BY <1>4 DEF CreateSupplement
    <2> HIDE DEF x
    <2>4. \A d \in DOMAIN supplement : supplement'[d] = supplement[d]
      BY <1>1, <2>2, <2>3, RowAppended DEF StockTypeOK
    <2> QED BY <2>4 DEF SupplementsFollow
  <1>5. ASSUME NEW r \in Requests, WriteApproval(r) \/ WriteRejection(r) \/ WriteTransfer(r)
        PROVE  SupplementsFollow
    <2>1. PICK d : d = call[r].doc
      OBVIOUS
    <2>2. call[r] \in AllCalls /\ CallSound(call[r])
      BY <1>2, <1>5 DEF WriteApproval, WriteRejection, WriteTransfer, At
    <2>3. raced' = Stale(<<"supplement", d>>, supplement[d].status, call[r].seen)
      BY <1>5, <2>1 DEF WriteApproval, WriteRejection, WriteTransfer
    <2>4. \E s, ls : Rewritten(d, s, ls) /\ <<call[r].seen, s>> \in SupplementEdges
      <3>1. CASE WriteApproval(r)
        <4>1. call[r].seen = "PENDING_APPROVAL"
          BY <2>2, <3>1 DEF WriteApproval, At, CallSound
        <4> QED BY <1>1, <2>1, <2>2, <3>1, <4>1, ApprovalWrites DEF SupplementEdges
      <3>2. CASE WriteRejection(r)
        <4>1. call[r].seen \in {"PENDING_APPROVAL", "APPROVED"}
          BY <2>2, <3>2, CallOf DEF WriteRejection, At, SupplementCall
        <4>2. PICK s \in {"REJECTED", "CANCELLED"} : s = IF At(r, "reject") THEN "REJECTED" ELSE "CANCELLED"
          OBVIOUS
        <4>3. Rewritten(d, s, supplement[d].lines)
          BY <1>1, <2>1, <2>2, <3>2, <4>2, RejectionWrites
        <4>4. <<call[r].seen, s>> \in SupplementEdges
          BY <4>1 DEF SupplementEdges
        <4> QED BY <4>3, <4>4
      <3>3. CASE WriteTransfer(r)
        <4>1. call[r].seen = "APPROVED"
          BY <2>2, <3>3 DEF WriteTransfer, At, CallSound
        <4> QED BY <1>1, <2>1, <2>2, <3>3, <4>1, TransferWrites DEF SupplementEdges
      <3> QED BY <1>5, <3>1, <3>2, <3>3
    <2>5. PICK s, ls : Rewritten(d, s, ls) /\ <<call[r].seen, s>> \in SupplementEdges
      BY <2>4
    <2>6. <<"supplement", d>> \notin raced' => supplement[d].status = call[r].seen
      BY <2>3 DEF Stale
    <2> QED BY <2>5, <2>6 DEF Rewritten, SupplementsFollow
  <1> QED BY <1>3, <1>4, <1>5, SupplementSteps

LEMMA CountWorkflow ==
  ASSUME TypeInv, Next
  PROVE  CountsFollow
  <1>1. StockTypeOK /\ cycleCount \in Seq(CycleCount)
    BY TypeParts DEF TypeInv, StockTypeOK
  <1>2. ASSUME NEW r \in Requests, call[r] # None PROVE call[r] \in AllCalls /\ CallSound(call[r])
    BY <1>2, TypeParts DEF TypeInv, Calls
  <1>3. CASE UNCHANGED cycleCount
    BY <1>3 DEF CountsFollow
  <1>4. ASSUME NEW r \in Requests, CreateCycleCount(r) PROVE CountsFollow
    <2> DEFINE x == [warehouse |-> call[r].warehouse, item |-> call[r].item, system |-> call[r].system,
                     actual |-> call[r].actual, status |-> "OPEN", actions |-> 0, closed |-> 0]
    <2>1. call[r] \in OpenCall
      BY <1>2, <1>4, CallOf DEF CreateCycleCount, At
    <2>2. x \in CycleCount
      BY <2>1 DEF OpenCall, CycleCount
    <2>3. cycleCount' = cycleCount \/ cycleCount' = Append(cycleCount, x)
      BY <1>4 DEF CreateCycleCount
    <2> HIDE DEF x
    <2>4. \A d \in DOMAIN cycleCount : cycleCount'[d] = cycleCount[d]
      BY <1>1, <2>2, <2>3, RowAppended
    <2> QED BY <2>4 DEF CountsFollow
  <1>5. ASSUME NEW r \in Requests, WriteAction(r) \/ WriteClosure(r) PROVE CountsFollow
    <2>1. PICK d : d = call[r].doc
      OBVIOUS
    <2>2. call[r].seen = "OPEN"
      BY <1>2, <1>5, CallOf DEF WriteAction, WriteClosure, At, CountCall
    <2>3. raced' = Stale(<<"count", d>>, cycleCount[d].status, "OPEN")
      BY <1>5, <2>1, <2>2 DEF WriteAction, WriteClosure
    <2>4. \A b \in DOMAIN cycleCount : b # d => cycleCount'[b] = cycleCount[b]
      BY <1>5, <2>1 DEF WriteAction, WriteClosure
    <2>5. cycleCount[d].status = "CLOSED" => <<"count", d>> \in raced'
      BY <2>3 DEF Stale
    <2> QED BY <2>4, <2>5 DEF CountsFollow
  <1>6. ASSUME NEW r \in Requests, StockWrite(r)
        PROVE  UNCHANGED cycleCount \/ CreateCycleCount(r) \/ WriteAction(r) \/ WriteClosure(r)
    BY <1>6 DEF StockWrite, WriteTransaction, WriteAdjustment, CreateSupplement, WriteApproval, WriteRejection,
                WriteTransfer
  <1> QED BY <1>3, <1>4, <1>5, <1>6, Steps DEF TypeInv, stockVars, NextNumber, OrderLeavesProduction

\* A supplementary request takes the steps of its workflow and a closed cycle
\* count stays as it is, unless requests raced for the document; and no two
\* requests get one number.
THEOREM DocumentsFollowWorkflowCorrect == Spec => DocumentsFollowWorkflow
  <1>1. NumbersSound => \A r, q \in {s \in Requests : At(s, "request") /\ call[s].number # None} :
                           /\ call[r].number = call[q].number => r = q
                           /\ \A d \in DOMAIN supplement : call[r].number # supplement[d].number
    BY DEF NumbersSound, HasNumber
  <1>2. TypeInv /\ NumbersSound /\ [Next]_vars => [WorkflowStep]_vars
    BY <1>1, SupplementWorkflow, CountWorkflow DEF WorkflowStep, SupplementsFollow, CountsFollow
  <1> QED BY <1>2, BackOfficeInvariant, NumbersInvariant, PTL DEF Spec, DocumentsFollowWorkflow

-----------------------------------------------------------------------------
(* Every model has a customer.                                             *)

ModelsOwned == \A i \in RowsOf("models") : table["models"][i].owner \in Ids

\* The rows of the models: put, rewritten with the owner that they have, or left alone.
LEMMA OwnerKept ==
  ASSUME TypeInv, ModelsOwned, NEW r \in Requests, MasterWrite(r)
  PROVE  ModelsOwned'
  <1> DEFINE c == call[r]
  <1>1. TablesOK /\ c \in AllCalls /\ CallSound(c)
    BY TypeParts DEF TypeInv, Calls, MasterWrite, CreateWrite, UpdateWrite, DeleteWrite, DeactivateWrite,
                     ReactivateWrite, AssignWrite, RemoveWrite, At
  <1>2. ASSUME UNCHANGED table PROVE ModelsOwned'
    BY <1>2 DEF ModelsOwned, RowsOf
  <1>3. ASSUME NEW u \in Tables, NEW j, NEW x, table' = [table EXCEPT ![u][j] = x],
               u = "models" /\ j \in Ids => x.owner \in Ids
        PROVE  ModelsOwned'
    <2>1. \A i \in Ids : \/ table'["models"][i] = table["models"][i]
                         \/ u = "models" /\ j = i /\ table'["models"][i] = x
      <3>1. "models" \in Tables
        BY DEF Tables
      <3> QED BY <1>1, <1>3, <3>1 DEF TablesOK
    <2> QED BY <1>3, <2>1 DEF ModelsOwned, RowsOf
  <1>4. CASE CreateWrite(r)
    <2> DEFINE j == CHOOSE k \in Ids : ~ Exists(c.table, k)
               x == [code |-> c.code, owner |-> c.owner, active |-> TRUE]
    <2>1. c \in CreateCall /\ c.op = "create"
      BY <1>1, <1>4, CallOf DEF CreateWrite, At
    <2>2. c.table \in Tables /\ x.owner = c.owner /\ (c.table = "models" => c.owner \in Ids)
      BY <1>1, <2>1 DEF CreateCall, CallSound
    <2>3. UNCHANGED table \/ table' = [table EXCEPT ![c.table][j] = x]
      BY <1>4 DEF CreateWrite
    <2> HIDE DEF c, j, x
    <2> QED BY <1>2, <1>3, <2>2, <2>3
  <1>5. CASE UpdateWrite(r)
    <2> DEFINE row == table[c.table][c.id]
               code == IF c.code = None THEN row.code ELSE c.code
               owner == IF c.owner = None THEN row.owner ELSE c.owner
    <2>1. c \in UpdateCall /\ (c.table = "models" => c.owner = None)
      BY <1>1, <1>5, CallOf DEF UpdateWrite, At, CallSound, CodeWithinOwner
    <2>2. c.table \in Tables /\ c.id \in Ids /\ c.code \in Codes \union {None} /\ c.owner \in Ids \union {None}
      BY <2>1 DEF UpdateCall
    <2>3. CASE UNCHANGED table
      BY <1>2, <2>3
    <2>4. CASE /\ Exists(c.table, c.id)
               /\ table' = [table EXCEPT ![c.table][c.id].code = IF c.code = None THEN @ ELSE c.code,
                                         ![c.table][c.id].owner = owner]
      <3>1. row \in Row
        BY <1>1, <2>2, <2>4 DEF TablesOK, Exists
      <3>2. code \in Codes /\ owner \in Ids \union {None}
        BY <2>2, <3>1 DEF Row
      <3>3. PICK x : x = [row EXCEPT !.code = code, !.owner = owner]
        OBVIOUS
      <3>4. x.owner = owner
        <4>1. x = [code |-> code, owner |-> owner, active |-> row.active]
          <5> HIDE DEF row, code, owner
          <5> QED BY <3>1, <3>2, <3>3, RowUpdated
        <4> QED BY <4>1
      <3>5. table' = [table EXCEPT ![c.table][c.id] = x]
        <4>1. table' = [table EXCEPT ![c.table][c.id] = [row EXCEPT !.code = code, !.owner = owner]]
          BY <1>1, <2>2, <2>4, <3>1 DEF TablesOK, Row
        <4> QED BY <3>3, <4>1
      <3>6. c.table = "models" => x.owner \in Ids
        <4> HAVE c.table = "models"
        <4>1. c.id \in RowsOf("models") /\ owner = row.owner
          BY <2>1, <2>2, <2>4 DEF RowsOf, Exists
        <4> QED BY <3>4, <4>1 DEF ModelsOwned
      <3> HIDE DEF c
      <3> QED BY <1>3, <2>2, <3>5, <3>6
    <2> QED BY <1>5, <2>3, <2>4 DEF UpdateWrite
  <1>6. CASE DeactivateWrite(r) \/ ReactivateWrite(r)
    <2>1. PICK on \in BOOLEAN : table' = [table EXCEPT ![c.table][c.id].active = on]
      BY <1>6 DEF DeactivateWrite, ReactivateWrite
    <2>2. c \in RowCall /\ Exists(c.table, c.id)
      BY <1>1, <1>6, CallOf DEF DeactivateWrite, ReactivateWrite, At, CallSound
    <2>3. c.table \in Tables /\ c.id \in Ids
      BY <2>2 DEF RowCall
    <2>4. table[c.table][c.id] \in Row
      BY <1>1, <2>2, <2>3 DEF TablesOK, Exists
    <2>5. PICK x : x = [table[c.table][c.id] EXCEPT !.active = on]
      OBVIOUS
    <2>6. x.owner = table[c.table][c.id].owner
      BY <2>4, <2>5 DEF Row
    <2>7. table' = [table EXCEPT ![c.table][c.id] = x]
      BY <2>1, <2>5
    <2>8. c.table = "models" => x.owner \in Ids
      BY <2>2, <2>3, <2>6 DEF ModelsOwned, RowsOf, Exists
    <2> HIDE DEF c
    <2> QED BY <1>3, <2>3, <2>7, <2>8
  <1>7. CASE DeleteWrite(r)
    <2>1. c \in RowCall /\ c.table \in Deletable
      BY <1>1, <1>7, CallOf DEF DeleteWrite, At, CallSound
    <2>2. c.table \in Tables /\ c.table # "models"
      BY <2>1 DEF RowCall, Deletable
    <2>3. UNCHANGED table \/ table' = [table EXCEPT ![c.table][c.id] = None]
      BY <1>7 DEF DeleteWrite
    <2> HIDE DEF c
    <2> QED BY <1>2, <1>3, <2>2, <2>3
  <1>8. CASE AssignWrite(r) \/ RemoveWrite(r)
    BY <1>2, <1>8 DEF AssignWrite, RemoveWrite
  <1> QED BY <1>4, <1>5, <1>6, <1>7, <1>8 DEF MasterWrite

\* A model is created with a customer and keeps it.
LEMMA OwnersInvariant == Spec => []ModelsOwned
  <1>1. Init => ModelsOwned
    <2> SUFFICES ASSUME Init PROVE ModelsOwned
      OBVIOUS
    <2>1. ASSUME NEW ids, NEW i \in Ids, Rows(ids, 1)[i] # None
          PROVE  Rows(ids, 1)[i].owner \in Ids
      BY <2>1, OfficeConstants DEF Rows
    <2>2. \A i \in Ids : Empty[i] = None
      BY DEF Empty
    <2>3. table["models"] = Empty \/ \E ids : table["models"] = Rows(ids, 1)
      <3>1. \A c \in Created : c[1] = "models" => \E ids : c[2] = Rows(ids, 1)
        BY DEF Created
      <3>2. "models" \in Tables
        BY DEF Tables
      <3>3. ASSUME \E c \in Created : c[1] = "models"
            PROVE  \E ids : (CHOOSE c \in Created : c[1] = "models")[2] = Rows(ids, 1)
        BY <3>1, <3>3
      <3> QED BY <3>2, <3>3 DEF Init
    <2> QED BY <2>1, <2>2, <2>3 DEF ModelsOwned, RowsOf
  <1>2. TypeInv /\ ModelsOwned /\ [Next]_vars => ModelsOwned'
    <2>1. ASSUME ModelsOwned, UNCHANGED table PROVE ModelsOwned'
      BY <2>1 DEF ModelsOwned, RowsOf
    <2>2. ASSUME NEW r \in Requests, StockWrite(r) PROVE UNCHANGED table
      BY <2>2 DEF StockWrite, WriteTransaction, WriteAdjustment, CreateCycleCount, WriteAction, WriteClosure,
                  CreateSupplement, WriteApproval, WriteRejection, WriteTransfer, masterVars
    <2>3. UNCHANGED vars => UNCHANGED table
      BY DEF vars, masterVars
    <2> QED BY <2>1, <2>2, <2>3, OwnerKept, Steps DEF TypeInv, masterVars, NextNumber, InsertLocation,
                 UpdateLocationStatus, OrderLeavesProduction
  <1> QED BY <1>1, <1>2, BackOfficeInvariant, PTL DEF Spec

-----------------------------------------------------------------------------
(* The pages of a listing.                                                 *)

\* The last page that hasNext leads to, and that it is the last one needed.
LEMMA LastPageIs ==
  ASSUME NEW total \in Nat, NEW limit \in Nat \ {0}
  PROVE  LastPage(total, limit) \in Nat /\ total <= LastPage(total, limit) * limit
  <1> DEFINE t == TotalPages(total, limit)
  <1>1. t \in 1 .. total + 1 /\ total <= t * limit
    <2>1. CASE total = 0
      BY <2>1 DEF TotalPages
    <2>2. CASE total # 0
      <3>1. PICK n \in Nat : n = total + limit - 1
        OBVIOUS
      <3>2. t = n \div limit
        BY <2>2, <3>1 DEF TotalPages
      <3>3. t \in Nat /\ t * limit <= n /\ n < t * limit + limit
        BY <3>1, <3>2, Divided
      <3> HIDE DEF t
      <3>4. t * limit \in Nat
        BY <3>3
      <3>5. total <= t * limit
        BY <3>1, <3>3, <3>4
      <3>6. t # 0
        BY <2>2, <3>5
      <3>7. ~ (total < t)
        <4> SUFFICES ASSUME total < t PROVE FALSE
          OBVIOUS
        <4>1. total * limit + limit <= t * limit
          BY <3>3, MoreTimes
        <4>2. total * 1 <= total * limit /\ total * limit \in Nat
          BY TimesGrows
        <4> QED BY <3>1, <3>3, <3>4, <4>1, <4>2
      <3> QED BY <3>3, <3>5, <3>6, <3>7
    <2> QED BY <2>1, <2>2
  <1>2. \A p \in Int : HasNext(p, total, limit) <=> p < t
    BY DEF HasNext
  <1> HIDE DEF t
  <1>3. ~ HasNext(t, total, limit) /\ \A q \in 1 .. t - 1 : HasNext(q, total, limit)
    BY <1>1, <1>2
  <1>4. ASSUME NEW p \in 1 .. total + 1, ~ HasNext(p, total, limit), \A q \in 1 .. p - 1 : HasNext(q, total, limit)
        PROVE  p = t
    <2>1. ~ (p < t)
      BY <1>2, <1>4
    <2>2. ~ (t < p)
      BY <1>1, <1>3, <1>4
    <2> QED BY <1>1, <2>1, <2>2
  <1>5. LastPage(total, limit) = t
    BY <1>1, <1>3, <1>4 DEF LastPage
  <1> QED BY <1>1, <1>5

\* Rows at the places that an order gives them.
LEMMA PagesOfOrder ==
  ASSUME NEW S, IsFiniteSet(S), NEW R, IsOrder(R, S), NEW limit \in Nat \ {0},
         NEW place, place = [i \in S |-> Cardinality(Before(R, S, i))]
  PROVE  LET turned == 1 .. LastPage(Cardinality(S), limit)
         IN  /\ \A i \in S : Cardinality({p \in turned : i \in PageOf(place, p, limit)}) = 1
             /\ \A p \in turned : PageOf(place, p, limit) \subseteq S /\ Cardinality(PageOf(place, p, limit)) <= limit
  <1>1. PICK n \in Nat, last \in Nat : n = Cardinality(S) /\ last = LastPage(n, limit) /\ n <= last * limit
    BY RanksDiffer, LastPageIs
  <1>2. /\ \A i \in S : place[i] \in 0 .. n - 1
        /\ \A i, k \in S : place[i] = place[k] => i = k
    BY <1>1, RanksDiffer
  <1>3. \A p : PageOf(place, p, limit) = {i \in S : place[i] \in (p - 1) * limit .. (p - 1) * limit + limit - 1}
    BY DEF PageOf, Skipped
  <1>4. ASSUME NEW i \in S
        PROVE  Cardinality({p \in 1 .. last : i \in PageOf(place, p, limit)}) = 1
    <2>1. PICK x \in Nat : x = place[i] /\ x < last * limit
      <3>1. last * limit \in Nat
        BY TimesGrows
      <3> QED BY <1>1, <1>2, <3>1
    <2>2. {p \in 1 .. last : i \in PageOf(place, p, limit)} = OnPages(x, limit, last)
      BY <1>3, <2>1 DEF OnPages
    <2>3. \E p \in 1 .. last : OnPages(x, limit, last) = {p}
      BY <2>1, OnOnePage
    <2> QED BY <2>2, <2>3, FS_Singleton
  <1>5. ASSUME NEW p \in 1 .. last
        PROVE  PageOf(place, p, limit) \subseteq S /\ Cardinality(PageOf(place, p, limit)) <= limit
    <2>1. place \in [S -> Nat]
      <3>1. \A i \in S : place[i] \in Nat
        BY <1>2
      <3>2. place = [i \in S |-> place[i]]
        OBVIOUS
      <3> QED BY <3>1, <3>2
    <2>2. PICK a \in Nat : a = (p - 1) * limit
      <3>1. PICK m \in Nat : m = p - 1
        OBVIOUS
      <3>2. m * limit \in Nat
        BY TimesGrows
      <3> QED BY <3>1, <3>2
    <2>3. PageOf(place, p, limit) = {i \in S : place[i] \in a .. a + limit - 1}
      BY <1>3, <2>2
    <2> QED BY <1>2, <2>1, <2>3, PageFits
  <1> QED BY <1>1, <1>4, <1>5

\* The rows by their code, or by their owner and then by their code.
CodeOrder(t) == {k \in Ids \X Ids : ByCode(t, k[1], k[2])}
OwnerOrder(t) == {k \in Ids \X Ids : ByOwnerAndCode(t, k[1], k[2])}

\* Listed rows are rows, finitely many.
LEMMA RowsListed ==
  ASSUME TablesOK, NEW t \in Tables, NEW on
  PROVE  /\ Listed(t, on) \subseteq Ids /\ IsFiniteSet(Listed(t, on))
         /\ \A i \in Listed(t, on) : i \in RowsOf(t) /\ table[t][i] \in Row /\ table[t][i].code \in Nat
  <1>1. Listed(t, on) \subseteq Ids /\ \A i \in Listed(t, on) : i \in RowsOf(t) /\ table[t][i] \in Row
    BY DEF Listed, RowsOf, TablesOK
  <1>2. \A x \in Row : x.code \in Nat
    BY MasterConstants DEF Row
  <1> QED BY <1>1, <1>2, MasterConstants, FS_Subset

\* The code tells the rows of most tables apart.
LEMMA CodesOrder ==
  ASSUME TablesOK, NEW t \in Tables \ CodeWithinOwner, NEW on
  PROVE  IsOrder(CodeOrder(t), Listed(t, on))
  <1> DEFINE S == Listed(t, on)
             code(i) == table[t][i].code
  <1>1. S \subseteq Ids /\ \A i \in S : i \in RowsOf(t) /\ code(i) \in Nat
    BY RowsListed
  <1>2. \A i, j \in S : i # j => code(i) # code(j)
    BY <1>1 DEF TablesOK, HasCode
  <1>3. \A i, j \in S : <<i, j>> \in CodeOrder(t) <=> code(i) < code(j)
    BY <1>1 DEF CodeOrder, ByCode
  <1> HIDE DEF S, code
  <1>4. IsOrder(CodeOrder(t), S)
    BY <1>1, <1>2, <1>3 DEF IsOrder
  <1> QED BY <1>4 DEF S

\* The customer and the code tell the models apart.
LEMMA OwnersOrder ==
  ASSUME TablesOK, ModelsOwned, NEW on
  PROVE  IsOrder(OwnerOrder("models"), Listed("models", on))
  <1> DEFINE S == Listed("models", on)
             code(i) == table["models"][i].code
             owner(i) == table["models"][i].owner
  <1>0. "models" \in Tables /\ "models" \in CodeWithinOwner
    BY DEF Tables, CodeWithinOwner
  <1>1. S \subseteq Ids /\ \A i \in S : i \in RowsOf("models") /\ code(i) \in Nat
    BY <1>0, RowsListed
  <1>2. \A i \in S : owner(i) \in Nat
    BY <1>1, MasterConstants DEF ModelsOwned
  <1>3. \A i, j \in S : i # j => code(i) # code(j) \/ owner(i) # owner(j)
    BY <1>0, <1>1 DEF TablesOK, HasCode
  <1>4. \A i, j \in S : <<i, j>> \in OwnerOrder("models") <=>
                          owner(i) < owner(j) \/ (owner(i) = owner(j) /\ code(i) < code(j))
    <2>1. \A i, j \in S : <<i, j>> \in OwnerOrder("models") <=> ByOwnerAndCode("models", i, j)
      BY <1>1 DEF OwnerOrder
    <2> QED BY <2>1 DEF ByOwnerAndCode, ByCode
  <1> HIDE DEF S, code, owner
  <1>5. IsOrder(OwnerOrder("models"), S)
    <2>1. \A i \in S : <<i, i>> \notin OwnerOrder("models")
      BY <1>1, <1>2, <1>4
    <2>2. ASSUME NEW i \in S, NEW j \in S, NEW k \in S,
                 <<i, j>> \in OwnerOrder("models"), <<j, k>> \in OwnerOrder("models")
          PROVE  <<i, k>> \in OwnerOrder("models")
      <3>1. owner(i) \in Nat /\ owner(j) \in Nat /\ owner(k) \in Nat
            /\ code(i) \in Nat /\ code(j) \in Nat /\ code(k) \in Nat
        BY <1>1, <1>2
      <3>2. /\ owner(i) < owner(j) \/ (owner(i) = owner(j) /\ code(i) < code(j))
            /\ owner(j) < owner(k) \/ (owner(j) = owner(k) /\ code(j) < code(k))
        BY <1>4, <2>2
      <3>3. owner(i) < owner(k) \/ (owner(i) = owner(k) /\ code(i) < code(k))
        BY <3>1, <3>2
      <3> QED BY <1>4, <3>3
    <2>3. \A i, j \in S : i # j => <<i, j>> \in OwnerOrder("models") \/ <<j, i>> \in OwnerOrder("models")
      BY <1>1, <1>2, <1>3, <1>4
    <2> QED BY <2>1, <2>2, <2>3 DEF IsOrder
  <1> QED BY <1>5 DEF S

\* The places of the rows of a listing.
LEMMA PlacesListed ==
  ASSUME TablesOK, NEW t \in Tables, NEW on
  PROVE  /\ SortedByCode(t, on) = [i \in Listed(t, on) |-> Cardinality(Before(CodeOrder(t), Listed(t, on), i))]
         /\ SortedByOwnerAndCode(t, on) =
              [i \in Listed(t, on) |-> Cardinality(Before(OwnerOrder(t), Listed(t, on), i))]
  <1>1. Listed(t, on) \subseteq Ids
    BY RowsListed
  <1>2. ASSUME NEW i \in Listed(t, on)
        PROVE  /\ {j \in Listed(t, on) : ByCode(t, j, i)} = Before(CodeOrder(t), Listed(t, on), i)
               /\ {j \in Listed(t, on) : ByOwnerAndCode(t, j, i)} = Before(OwnerOrder(t), Listed(t, on), i)
    <2>1. \A j \in Listed(t, on) : /\ <<j, i>> \in CodeOrder(t) <=> ByCode(t, j, i)
                                   /\ <<j, i>> \in OwnerOrder(t) <=> ByOwnerAndCode(t, j, i)
      BY <1>1 DEF CodeOrder, OwnerOrder
    <2> QED BY <2>1 DEF Before
  <1> QED BY <1>2 DEF SortedByCode, SortedByOwnerAndCode

\* Each row of a listing is on one of its pages.
LEMMA PagesListed ==
  ASSUME TablesOK, ModelsOwned
  PROVE  PagesComplete
  <1> SUFFICES ASSUME NEW t \in {u \in Tables \ {"sizes", "model_parts"} : RowsOf(u) # {}}, NEW limit \in PageLimits,
                      NEW on \in IF t = "colors" THEN {None} ELSE {TRUE, FALSE, None}
               PROVE  LET turned == 1 .. LastPage(Cardinality(Listed(t, on)), limit)
                      IN  /\ \A i \in Listed(t, on) : Cardinality({p \in turned : i \in ListPage(t, on, p, limit)}) = 1
                          /\ \A p \in turned : /\ ListPage(t, on, p, limit) \subseteq Listed(t, on)
                                               /\ Cardinality(ListPage(t, on, p, limit)) <= limit
    BY DEF PagesComplete
  <1>1. t \in Tables /\ limit \in Nat \ {0} /\ IsFiniteSet(Listed(t, on))
    BY RowsListed, MasterConstants
  <1>2. PICK place, R : /\ \A p : ListPage(t, on, p, limit) = PageOf(place, p, limit)
                        /\ place = [i \in Listed(t, on) |-> Cardinality(Before(R, Listed(t, on), i))]
                        /\ IsOrder(R, Listed(t, on))
    <2>1. CASE t = "models"
      <3>1. \A p : ListPage(t, on, p, limit) = PageOf(SortedByOwnerAndCode(t, on), p, limit)
        BY <2>1 DEF ListPage, ModelsPage
      <3> QED BY <1>1, <2>1, <3>1, OwnersOrder, PlacesListed
    <2>2. CASE t # "models"
      <3>1. \A p : ListPage(t, on, p, limit) = PageOf(SortedByCode(t, on), p, limit)
        BY <1>1, <2>2 DEF ListPage, Tables, CustomersPage, SuppliersPage, WarehousesPage, ProductionLinesPage,
                          WorkingShiftsPage, DepartmentsPage, ColorsPage
      <3>2. t \in Tables \ CodeWithinOwner
        BY <1>1, <2>2 DEF CodeWithinOwner
      <3> QED BY <3>1, <3>2, CodesOrder, PlacesListed
    <2> QED BY <2>1, <2>2
  <1> QED BY <1>1, <1>2, PagesOfOrder

-----------------------------------------------------------------------------
(* The hierarchy of a warehouse.                                           *)

FiniteLocations == IsFiniteSet(location)

\* A step adds a location, changes one, or leaves them alone.
LEMMA LocationsFinite == Spec => []FiniteLocations
  <1>1. Init => FiniteLocations
    BY FS_EmptySet DEF Init, FiniteLocations
  <1>2. TypeInv /\ FiniteLocations /\ [Next]_vars => FiniteLocations'
    <2>1. ASSUME IsFiniteSet(location), NEW x, location' \subseteq location \union {x} PROVE IsFiniteSet(location')
      <3>1. IsFiniteSet(location \union {x})
        BY <2>1, FS_AddElement
      <3> QED BY <2>1, <3>1, FS_Subset
    <2>2. ASSUME NEW r, InsertLocation(r) PROVE \E x : location' \subseteq location \union {x}
      <3> DEFINE x == [warehouse |-> call[r].warehouse, place |-> call[r].place,
                       code |-> BuildLocationCode(call[r].place), active |-> TRUE]
      <3>1. location' = location \union {x} \/ location' = location
        BY <2>2 DEF InsertLocation
      <3> QED BY <3>1
    <2>3. ASSUME NEW l, NEW on, UpdateLocationStatus(l, on) PROVE \E x : location' \subseteq location \union {x}
      BY <2>3 DEF UpdateLocationStatus
    <2>4. ASSUME UNCHANGED location PROVE \E x : location' \subseteq location \union {x}
      BY <2>4
    <2>5. UNCHANGED vars => UNCHANGED location
      BY DEF vars
    <2>6. ASSUME TypeInv, Next PROVE \E x : location' \subseteq location \union {x}
      <3>1. TypeOK
        BY <2>6 DEF TypeInv
      <3> QED BY <2>2, <2>3, <2>4, <2>6, <3>1, Steps
    <2>7. TypeInv /\ [Next]_vars => \E x : location' \subseteq location \union {x}
      BY <2>4, <2>5, <2>6
    <2> QED BY <2>1, <2>7 DEF FiniteLocations
  <1> QED BY <1>1, <1>2, BackOfficeInvariant, PTL DEF Spec

\* The hierarchy reads locations of the warehouse, all of them up to the limit.
LEMMA LocationsRead ==
  ASSUME FiniteLocations, NEW w
  PROVE  /\ ReadForHierarchy(w) \subseteq LocationsOf(w)
         /\ Cardinality(LocationsOf(w)) <= HierarchyLimit => ReadForHierarchy(w) = LocationsOf(w)
  <1>1. IsFiniteSet(LocationsOf(w)) /\ Cardinality(LocationsOf(w)) \in Nat
    <2>1. LocationsOf(w) \subseteq location
      BY DEF LocationsOf
    <2> QED BY <2>1, FS_Subset, FS_CardinalityType DEF FiniteLocations
  <1>2. CASE Cardinality(LocationsOf(w)) <= HierarchyLimit
    BY <1>2 DEF ReadForHierarchy
  <1>3. CASE ~ (Cardinality(LocationsOf(w)) <= HierarchyLimit)
    <2>1. \E locs \in SUBSET LocationsOf(w) : Cardinality(locs) = HierarchyLimit
      BY <1>1, <1>3, LocationConstants, SubsetOfSize
    <2> QED BY <1>3, <2>1 DEF ReadForHierarchy
  <1> QED BY <1>2, <1>3

\* The four lists that a location may be on.
OfZone(locs, z) == {l \in locs : l.place.zone = z /\ l.place.rack = None}
OfRack(locs, z, k) == {l \in locs : l.place.zone = z /\ l.place.rack = k /\ l.place.shelf = None}
OfShelf(locs, z, k, s) ==
  {l \in locs : l.place.zone = z /\ l.place.rack = k /\ l.place.shelf = s /\ l.place.bin = None}
OfBins(locs, z, k, s) ==
  {l \in locs : l.place.zone = z /\ l.place.rack = k /\ l.place.shelf = s /\ l.place.bin # None}

Zones(locs) == {l.place.zone : l \in locs}
Racks(locs, z) == {l.place.rack : l \in {m \in locs : m.place.zone = z}} \ {None}
Shelves(locs, z, k) == {l.place.shelf : l \in {m \in locs : m.place.zone = z /\ m.place.rack = k}} \ {None}

ListsOfRack(locs, z, k) ==
  {<<z, k, OfRack(locs, z, k)>>}
    \union {<<z, k, s, OfShelf(locs, z, k, s)>> : s \in Shelves(locs, z, k)}
    \union {<<z, k, s, "bins", OfBins(locs, z, k, s)>> : s \in Shelves(locs, z, k)}

ListsOfZone(locs, z) ==
  {<<z, OfZone(locs, z)>>} \union UNION {ListsOfRack(locs, z, k) : k \in Racks(locs, z)}

\* What ShownLists shows of the group of a rack.
ShownOfRack(z, g) ==
  {<<z, g.rack, g.only>>}
    \union {<<z, g.rack, s.shelf, s.only>> : s \in g.shelves}
    \union {<<z, g.rack, s.shelf, "bins", s.bins>> : s \in g.shelves}

InZone(locs, z) == {l \in locs : l.place.zone = z}

\* The group of a rack shows the lists of the rack.
LEMMA RackShown ==
  ASSUME NEW locs, NEW z, NEW k
  PROVE  ShownOfRack(z, RackGroup(InZone(locs, z), k)) = ListsOfRack(locs, z, k)
  <1>0. PICK here, g : here = InZone(locs, z) /\ g = RackGroup(here, k)
    OBVIOUS
  <1> DEFINE in == {l \in here : l.place.rack = k}
             group(s) == [shelf |-> s,
                          only  |-> {l \in in : l.place.shelf = s /\ l.place.bin = None},
                          bins  |-> {l \in in : l.place.shelf = s /\ l.place.bin # None}]
  <1>1. /\ g.rack = k /\ g.only = {l \in in : l.place.shelf = None}
        /\ g.shelves = {group(s) : s \in {l.place.shelf : l \in in} \ {None}}
    BY <1>0 DEF RackGroup
  <1>2. in = {l \in locs : l.place.zone = z /\ l.place.rack = k}
    BY <1>0 DEF InZone
  <1>3. \A s : /\ group(s).shelf = s
               /\ group(s).only = {l \in in : l.place.shelf = s /\ l.place.bin = None}
               /\ group(s).bins = {l \in in : l.place.shelf = s /\ l.place.bin # None}
    OBVIOUS
  <1> HIDE DEF group, in
  <1>4. \A s : group(s).shelf = s /\ group(s).only = OfShelf(locs, z, k, s) /\ group(s).bins = OfBins(locs, z, k, s)
    BY <1>2, <1>3 DEF OfShelf, OfBins
  <1>5. g.shelves = {group(s) : s \in Shelves(locs, z, k)} /\ g.only = OfRack(locs, z, k)
    BY <1>1, <1>2 DEF Shelves, OfRack
  <1>6. {<<z, g.rack, s.shelf, s.only>> : s \in g.shelves} =
          {<<z, k, s, OfShelf(locs, z, k, s)>> : s \in Shelves(locs, z, k)}
    <2> DEFINE F(x) == <<z, g.rack, x.shelf, x.only>>
    <2>1. \A s : F(group(s)) = <<z, k, s, OfShelf(locs, z, k, s)>>
      BY <1>1, <1>4
    <2> HIDE DEF F
    <2>2. {F(x) : x \in g.shelves} = {<<z, k, s, OfShelf(locs, z, k, s)>> : s \in Shelves(locs, z, k)}
      BY <1>5, <2>1
    <2> QED BY <2>2 DEF F
  <1>7. {<<z, g.rack, s.shelf, "bins", s.bins>> : s \in g.shelves} =
          {<<z, k, s, "bins", OfBins(locs, z, k, s)>> : s \in Shelves(locs, z, k)}
    <2> DEFINE F(x) == <<z, g.rack, x.shelf, "bins", x.bins>>
    <2>1. \A s : F(group(s)) = <<z, k, s, "bins", OfBins(locs, z, k, s)>>
      BY <1>1, <1>4
    <2> HIDE DEF F
    <2>2. {F(x) : x \in g.shelves} = {<<z, k, s, "bins", OfBins(locs, z, k, s)>> : s \in Shelves(locs, z, k)}
      BY <1>5, <2>1
    <2> QED BY <2>2 DEF F
  <1>8. ShownOfRack(z, g) = ListsOfRack(locs, z, k)
    BY <1>1, <1>5, <1>6, <1>7 DEF ListsOfRack, ShownOfRack
  <1> QED BY <1>0, <1>8

\* The lists of a hierarchy.
LEMMA ListsShown ==
  ASSUME NEW w, NEW locs, locs = ReadForHierarchy(w)
  PROVE  ShownLists(Hierarchy(w)) = UNION {ListsOfZone(locs, z) : z \in Zones(locs)}
  <1> DEFINE shown(y) == {<<y.zone, y.only>>} \union UNION {ShownOfRack(y.zone, g) : g \in y.racks}
  <1>1. ShownLists(Hierarchy(w)) = UNION {shown(y) : y \in {ZoneGroup(locs, z) : z \in Zones(locs)}}
    BY DEF ShownLists, ShownOfRack, Hierarchy, Zones
  <1>2. ASSUME NEW z PROVE shown(ZoneGroup(locs, z)) = ListsOfZone(locs, z)
    <2>1. PICK y : y = ZoneGroup(locs, z)
      OBVIOUS
    <2>2. /\ y.zone = z /\ y.only = {l \in InZone(locs, z) : l.place.rack = None}
          /\ y.racks = {RackGroup(InZone(locs, z), k) : k \in {l.place.rack : l \in InZone(locs, z)} \ {None}}
      BY <2>1 DEF ZoneGroup, InZone
    <2>3. y.only = OfZone(locs, z) /\ {l.place.rack : l \in InZone(locs, z)} \ {None} = Racks(locs, z)
      BY <2>2 DEF OfZone, Racks, InZone
    <2>4. {ShownOfRack(z, g) : g \in y.racks} = {ListsOfRack(locs, z, k) : k \in Racks(locs, z)}
      BY <2>2, <2>3, RackShown
    <2>5. shown(y) = ListsOfZone(locs, z)
      BY <2>2, <2>3, <2>4 DEF ListsOfZone
    <2> QED BY <2>1, <2>5
  <1> HIDE DEF shown
  <1> QED BY <1>1, <1>2

\* What a list of a hierarchy ends with.
LEMMA LastIs ==
  \A a, b, c, d, e : Last(<<a, b>>) = b /\ Last(<<a, b, c>>) = c /\ Last(<<a, b, c, d>>) = d /\ Last(<<a, b, c, d, e>>) = e
  BY DEF Last

\* The list that a location is on.
ListOf(locs, l) ==
  LET p == l.place
  IN  IF p.rack = None THEN <<p.zone, OfZone(locs, p.zone)>>
      ELSE IF p.shelf = None THEN <<p.zone, p.rack, OfRack(locs, p.zone, p.rack)>>
      ELSE IF p.bin = None THEN <<p.zone, p.rack, p.shelf, OfShelf(locs, p.zone, p.rack, p.shelf)>>
      ELSE <<p.zone, p.rack, p.shelf, "bins", OfBins(locs, p.zone, p.rack, p.shelf)>>

ListsOfAll(locs) == UNION {ListsOfZone(locs, z) : z \in Zones(locs)}

\* A location is on its list.
LEMMA OnItsList ==
  ASSUME NEW locs, NEW l \in locs
  PROVE  ListOf(locs, l) \in ListsOfAll(locs) /\ l \in Last(ListOf(locs, l))
  <1>1. PICK z, k, s : z = l.place.zone /\ k = l.place.rack /\ s = l.place.shelf
    OBVIOUS
  <1>2. z \in Zones(locs)
    BY <1>1 DEF Zones
  <1>3. ListsOfZone(locs, z) \subseteq ListsOfAll(locs)
    BY <1>2 DEF ListsOfAll
  <1>4. CASE k = None
    <2>1. ListOf(locs, l) = <<z, OfZone(locs, z)>> /\ l \in OfZone(locs, z)
      BY <1>1, <1>4 DEF ListOf, OfZone
    <2>2. <<z, OfZone(locs, z)>> \in ListsOfZone(locs, z)
      BY DEF ListsOfZone
    <2> QED BY <1>3, <2>1, <2>2, LastIs
  <1>5. CASE k # None
    <2>1. k \in Racks(locs, z)
      BY <1>1, <1>5 DEF Racks
    <2>2. ListsOfRack(locs, z, k) \subseteq ListsOfZone(locs, z)
      BY <2>1 DEF ListsOfZone
    <2>3. CASE s = None
      <3>1. ListOf(locs, l) = <<z, k, OfRack(locs, z, k)>> /\ l \in OfRack(locs, z, k)
        BY <1>1, <1>5, <2>3 DEF ListOf, OfRack
      <3>2. <<z, k, OfRack(locs, z, k)>> \in ListsOfRack(locs, z, k)
        BY DEF ListsOfRack
      <3> QED BY <1>3, <2>2, <3>1, <3>2, LastIs
    <2>4. CASE s # None
      <3>1. s \in Shelves(locs, z, k)
        BY <1>1, <2>4 DEF Shelves
      <3>2. CASE l.place.bin = None
        <4>1. ListOf(locs, l) = <<z, k, s, OfShelf(locs, z, k, s)>> /\ l \in OfShelf(locs, z, k, s)
          BY <1>1, <1>5, <2>4, <3>2 DEF ListOf, OfShelf
        <4>2. <<z, k, s, OfShelf(locs, z, k, s)>> \in ListsOfRack(locs, z, k)
          BY <3>1 DEF ListsOfRack
        <4> QED BY <1>3, <2>2, <4>1, <4>2, LastIs
      <3>3. CASE l.place.bin # None
        <4>1. ListOf(locs, l) = <<z, k, s, "bins", OfBins(locs, z, k, s)>> /\ l \in OfBins(locs, z, k, s)
          BY <1>1, <1>5, <2>4, <3>3 DEF ListOf, OfBins
        <4>2. <<z, k, s, "bins", OfBins(locs, z, k, s)>> \in ListsOfRack(locs, z, k)
          BY <3>1 DEF ListsOfRack
        <4> QED BY <1>3, <2>2, <4>1, <4>2, LastIs
      <3> QED BY <3>2, <3>3
    <2> QED BY <2>3, <2>4
  <1> QED BY <1>4, <1>5

\* What a list shows was read, and is on this list only.
LEMMA OnNoOtherList ==
  ASSUME NEW locs, NEW list \in ListsOfAll(locs), NEW l \in Last(list)
  PROVE  l \in locs /\ list = ListOf(locs, l)
  <1>1. PICK z \in Zones(locs) : list \in ListsOfZone(locs, z)
    BY DEF ListsOfAll
  <1>2. CASE list = <<z, OfZone(locs, z)>>
    <2>1. l \in OfZone(locs, z)
      BY <1>2, LastIs
    <2>2. l \in locs /\ l.place.zone = z /\ l.place.rack = None
      BY <2>1 DEF OfZone
    <2> QED BY <1>2, <2>2 DEF ListOf
  <1>3. ASSUME NEW k \in Racks(locs, z), list \in ListsOfRack(locs, z, k)
        PROVE  l \in locs /\ list = ListOf(locs, l)
    <2>0. k # None
      BY DEF Racks
    <2>1. CASE list = <<z, k, OfRack(locs, z, k)>>
      <3>1. l \in OfRack(locs, z, k)
        BY <2>1, LastIs
      <3>2. l \in locs /\ l.place.zone = z /\ l.place.rack = k /\ l.place.shelf = None
        BY <3>1 DEF OfRack
      <3> QED BY <2>0, <2>1, <3>2 DEF ListOf
    <2>2. ASSUME NEW s \in Shelves(locs, z, k), list = <<z, k, s, OfShelf(locs, z, k, s)>>
          PROVE  l \in locs /\ list = ListOf(locs, l)
      <3>1. l \in OfShelf(locs, z, k, s)
        BY <2>2, LastIs
      <3>2. l \in locs /\ l.place.zone = z /\ l.place.rack = k /\ l.place.shelf = s /\ l.place.bin = None /\ s # None
        BY <3>1 DEF OfShelf, Shelves
      <3> QED BY <2>0, <2>2, <3>2 DEF ListOf
    <2>3. ASSUME NEW s \in Shelves(locs, z, k), list = <<z, k, s, "bins", OfBins(locs, z, k, s)>>
          PROVE  l \in locs /\ list = ListOf(locs, l)
      <3>1. l \in OfBins(locs, z, k, s)
        BY <2>3, LastIs
      <3>2. l \in locs /\ l.place.zone = z /\ l.place.rack = k /\ l.place.shelf = s /\ l.place.bin # None /\ s # None
        BY <3>1 DEF OfBins, Shelves
      <3> QED BY <2>0, <2>3, <3>2 DEF ListOf
    <2> QED BY <1>3, <2>1, <2>2, <2>3 DEF ListsOfRack
  <1>4. \/ list = <<z, OfZone(locs, z)>>
        \/ \E k \in Racks(locs, z) : list \in ListsOfRack(locs, z, k)
    BY <1>1 DEF ListsOfZone
  <1> QED BY <1>2, <1>3, <1>4

\* Every location that is read is on one list, and no other location is on any.
LEMMA HierarchyShown ==
  ASSUME FiniteLocations
  PROVE  HierarchyComplete
  <1> SUFFICES ASSUME NEW w \in {l.warehouse : l \in location}
               PROVE  LET lists == ShownLists(Hierarchy(w))
                          shown == UNION {Last(s) : s \in lists}
                      IN  /\ \A l \in shown : Cardinality({s \in lists : l \in Last(s)}) = 1
                          /\ Cardinality(LocationsOf(w)) <= HierarchyLimit => shown = LocationsOf(w)
                          /\ Hierarchy(w).total = Cardinality(shown)
    BY DEF HierarchyComplete
  <1>1. PICK locs : locs = ReadForHierarchy(w)
    OBVIOUS
  <1>2. ShownLists(Hierarchy(w)) = ListsOfAll(locs) /\ Hierarchy(w).total = Cardinality(locs)
    BY <1>1, ListsShown DEF ListsOfAll, Hierarchy
  <1>3. UNION {Last(s) : s \in ListsOfAll(locs)} = locs
    BY OnItsList, OnNoOtherList
  <1>4. ASSUME NEW l \in locs
        PROVE  Cardinality({s \in ListsOfAll(locs) : l \in Last(s)}) = 1
    <2>1. {s \in ListsOfAll(locs) : l \in Last(s)} = {ListOf(locs, l)}
      BY OnItsList, OnNoOtherList
    <2> QED BY <2>1, FS_Singleton
  <1> QED BY <1>1, <1>2, <1>3, <1>4, LocationsRead

-----------------------------------------------------------------------------
(* The reports.                                                            *)

\* The rows that a report reads are all rows, or as many as its limit.
LEMMA FirstRowsRead ==
  ASSUME NEW S, IsFiniteSet(S), NEW R, IsOrder(R, S), NEW limit \in Nat
  PROVE  /\ ShowsAll(FirstRows(S, R, limit), S, limit)
         /\ Cardinality(S) <= limit => FirstRows(S, R, limit) = S
  <1> DEFINE n == Cardinality(S)
             m == IF n <= limit THEN n ELSE limit
             rank == [x \in S |-> Cardinality(Before(R, S, x))]
             T == FirstRows(S, R, limit)
             f == [x \in T |-> rank[x]]
  <1>1. n \in Nat /\ (\A x \in S : rank[x] \in 0 .. n - 1) /\ (\A x, y \in S : rank[x] = rank[y] => x = y)
    BY RanksDiffer
  <1>2. T = {x \in S : rank[x] < limit}
    BY DEF FirstRows, Before
  <1>3. m \in Nat /\ (n <= limit => m = n) /\ (n > limit => m = limit)
    BY <1>1
  <1>4. \A k \in 0 .. n - 1 : \E x \in S : rank[x] = k
    <2>1. rank \in Injection(S, 0 .. n - 1)
      <3>1. rank \in [S -> 0 .. n - 1]
        BY <1>1
      <3> HIDE DEF rank, n
      <3> QED BY <1>1, <3>1 DEF Injection, IsInjective
    <2>2. IsFiniteSet(0 .. n - 1) /\ Cardinality(0 .. n - 1) = n
      BY <1>1, FS_Interval
    <2> HIDE DEF rank
    <2>3. rank \in Surjection(S, 0 .. n - 1)
      BY <2>1, <2>2, FS_Injection
    <2> QED BY <2>3 DEF Surjection
  <1> HIDE DEF rank, T, n, m
  <1>5. \A x \in S : x \in T <=> rank[x] \in 0 .. m - 1
    BY <1>1, <1>2, <1>3
  <1>6. T \subseteq S
    BY <1>2
  <1>7. Cardinality(T) = m
    <2>1. f \in [T -> 0 .. m - 1]
      BY <1>5, <1>6
    <2>2. \A x, y \in T : f[x] = f[y] => x = y
      BY <1>1, <1>6
    <2>3. \A k \in 0 .. m - 1 : \E x \in T : f[x] = k
      <3>1. ASSUME NEW k \in 0 .. m - 1 PROVE k \in 0 .. n - 1
        BY <1>1, <1>3
      <3>2. ASSUME NEW k \in 0 .. m - 1 PROVE \E x \in T : rank[x] = k
        <4>1. PICK x \in S : rank[x] = k
          BY <1>4, <3>1
        <4> QED BY <1>5, <4>1
      <3> QED BY <3>2
    <2>4. IsFiniteSet(0 .. m - 1) /\ Cardinality(0 .. m - 1) = m
      <3>1. m \in Nat
        BY <1>3
      <3> QED BY <3>1, FS_Interval
    <2> HIDE DEF f
    <2>5. f \in Injection(T, 0 .. m - 1) /\ f \in Surjection(T, 0 .. m - 1)
      BY <2>1, <2>2, <2>3 DEF Injection, IsInjective, Surjection
    <2> QED BY <2>4, <2>5, FS_Injection
  <1>8. ShowsAll(T, S, limit)
    BY <1>6, <1>7 DEF ShowsAll, m, n
  <1>9. Cardinality(S) <= limit => T = S
    <2>1. \A x \in S : n <= limit => rank[x] < limit
      BY <1>1
    <2> QED BY <1>2, <2>1 DEF n
  <1> QED BY <1>8, <1>9 DEF T

\* A row that is read of all rows is read of those of its kind.
LEMMA ReadAmongFewer ==
  ASSUME NEW S, IsFiniteSet(S), NEW P \in SUBSET S, NEW R, NEW limit \in Nat
  PROVE  FirstRows(S, R, limit) \intersect P \subseteq FirstRows(P, R, limit)
  <1> SUFFICES ASSUME NEW x \in FirstRows(S, R, limit), x \in P
               PROVE  x \in FirstRows(P, R, limit)
    OBVIOUS
  <1>1. PICK A, B : A = {y \in P : <<y, x>> \in R} /\ B = {y \in S : <<y, x>> \in R}
    OBVIOUS
  <1>2. B \in SUBSET S /\ A \in SUBSET B
    BY <1>1
  <1>3. IsFiniteSet(B) /\ IsFiniteSet(A) /\ Cardinality(A) <= Cardinality(B)
    BY <1>2, FS_Subset
  <1>4. Cardinality(A) \in Nat /\ Cardinality(B) \in Nat /\ Cardinality(B) < limit
    BY <1>1, <1>3, FS_CardinalityType DEF FirstRows
  <1>5. Cardinality(A) < limit
    BY <1>3, <1>4
  <1> QED BY <1>1, <1>5 DEF FirstRows

\* There are finitely many rows of what is on hand.
LEMMA KeysFinite == IsFiniteSet(Keys)
  <1> DEFINE f == [x \in PartItem |-> <<x.model, x.part>>]
  <1>1. f \in [PartItem -> Ids \X Ids]
    BY DEF PartItem
  <1>2. \A x, y \in PartItem : x.model = y.model /\ x.part = y.part => x = y
    BY DEF PartItem
  <1>3. \A x, y \in PartItem : f[x] = f[y] => x = y
    BY <1>2
  <1>4. f \in Injection(PartItem, Ids \X Ids)
    BY <1>1, <1>3 DEF Injection, IsInjective
  <1>5. IsFiniteSet(Ids \X Ids)
    BY MasterConstants, FS_Product
  <1>6. IsFiniteSet(PartItem)
    BY <1>4, <1>5, FS_Injection
  <1> QED BY <1>6, MasterConstants, FS_Product DEF Keys

\* The warehouse, the model and the part tell the rows of what is on hand apart.
LEMMA KeysOrdered ==
  ASSUME NEW S \in SUBSET Keys
  PROVE  IsOrder(KeyOrder, S)
  <1> DEFINE w(k) == k[1]
             m(k) == k[2].model
             p(k) == k[2].part
  <1>1. \A k \in S : w(k) \in Nat /\ m(k) \in Nat /\ p(k) \in Nat
    BY MasterConstants DEF Keys, PartItem
  <1>2. \A j, k \in S : j # k => w(j) # w(k) \/ m(j) # m(k) \/ p(j) # p(k)
    BY DEF Keys, PartItem
  <1>3. \A j, k \in S : <<j, k>> \in KeyOrder <=>
                          \/ w(j) < w(k)
                          \/ w(j) = w(k) /\ m(j) < m(k)
                          \/ w(j) = w(k) /\ m(j) = m(k) /\ p(j) < p(k)
    <2>1. \A j, k \in S : <<j, k>> \in KeyOrder <=> KeysBefore(j, k)
      BY DEF KeyOrder
    <2> QED BY <2>1 DEF KeysBefore
  <1> HIDE DEF w, m, p
  <1>4. \A k \in S : <<k, k>> \notin KeyOrder
    BY <1>1, <1>3
  <1>5. ASSUME NEW i \in S, NEW j \in S, NEW k \in S, <<i, j>> \in KeyOrder, <<j, k>> \in KeyOrder
        PROVE  <<i, k>> \in KeyOrder
    BY <1>1, <1>3, <1>5
  <1>6. ASSUME NEW j \in S, NEW k \in S, j # k
        PROVE  <<j, k>> \in KeyOrder \/ <<k, j>> \in KeyOrder
    BY <1>1, <1>2, <1>3, <1>6
  <1> QED BY <1>4, <1>5, <1>6 DEF IsOrder

\* A report on what is on hand reads all of the rows it asks for, or as many as its limit.
LEMMA HeldRead ==
  ASSUME NEW keys \in SUBSET Keys, NEW limit \in Nat
  PROVE  /\ IsFiniteSet(HeldAt(keys)) /\ ShowsAll(Read(keys, limit), HeldAt(keys), limit)
         /\ Cardinality(HeldAt(keys)) <= limit => Read(keys, limit) = HeldAt(keys)
  <1>1. HeldAt(keys) \in SUBSET Keys
    BY DEF HeldAt
  <1>2. IsFiniteSet(HeldAt(keys))
    BY <1>1, KeysFinite, FS_Subset
  <1> QED BY <1>1, <1>2, KeysOrdered, FirstRowsRead DEF Read

\* The position and the summary of a warehouse are one reading; what is held in
\* all is held in the warehouses, and of the models, while the reports read all.
LEMMA StockAddsUp ==
  ASSUME StockTypeOK, NEW limit \in Nat
  PROVE  StockReportsAgree(limit)
  <1> DEFINE H == HeldAt(Keys)
             place == [k \in Keys |-> k[1]]
             model == [k \in Keys |-> k[2].model]
  <1>1. IsFiniteSet(H) /\ H \subseteq Keys /\ IsFiniteSet(Ids)
    BY KeysFinite, FS_Subset, MasterConstants DEF HeldAt
  <1>2. \A k \in H : onHand[k] \in Int /\ place[k] \in Ids /\ model[k] \in Ids
    BY DEF HeldAt, StockTypeOK, Keys, PartItem
  <1>3. /\ StockPosition(None, limit).positions = Read(Keys, limit)
        /\ StockPosition(None, limit).total = TotalOf(Read(Keys, limit))
    BY DEF StockPosition
  <1>4. ASSUME NEW w \in Ids
        PROVE  /\ KeysOfWarehouse(w) \in SUBSET Keys
               /\ StockPosition(w, limit).positions = Read(KeysOfWarehouse(w), limit)
               /\ StockPosition(w, limit).total = TotalOf(Read(KeysOfWarehouse(w), limit))
    <2>1. w # None
      BY MasterConstants
    <2> QED BY <2>1 DEF StockPosition, KeysOfWarehouse
  <1>5. ShowsAll(StockPosition(None, limit).positions, HeldAt(Keys), limit)
    BY <1>3, HeldRead
  <1>6. ASSUME NEW w \in Ids
        PROVE  LET position == StockPosition(w, limit)
               IN  /\ ShowsAll(position.positions, HeldAt(KeysOfWarehouse(w)), limit)
                   /\ WarehouseSummary(w, limit)
                        = [total |-> position.total, skus |-> Cardinality(position.positions)]
    BY <1>4, HeldRead DEF WarehouseSummary
  <1>7. ASSUME Cardinality(H) <= limit
        PROVE  LET total == StockPosition(None, limit).total
               IN  /\ total = SumFunctionOnSet([w \in Ids |-> WarehouseSummary(w, limit).total], Ids)
                   /\ total = SumFunctionOnSet([m \in Ids |-> ModelSummary(m, limit).total], Ids)
    <2>1. StockPosition(None, limit).total = SumFunctionOnSet(onHand, H)
      BY <1>3, <1>7, HeldRead DEF TotalOf
    <2>2. ASSUME NEW keys \in SUBSET Keys PROVE Read(keys, limit) = HeldAt(keys)
      <3>1. HeldAt(keys) \in SUBSET H
        BY DEF HeldAt
      <3>2. Cardinality(HeldAt(keys)) <= Cardinality(H) /\ IsFiniteSet(HeldAt(keys))
        BY <1>1, <3>1, FS_Subset
      <3>3. Cardinality(HeldAt(keys)) \in Nat /\ Cardinality(H) \in Nat
        BY <1>1, <3>2, FS_CardinalityType
      <3>4. Cardinality(HeldAt(keys)) <= limit
        BY <1>7, <3>2, <3>3
      <3> QED BY <3>4, HeldRead
    <2>3. ASSUME NEW w \in Ids
          PROVE  WarehouseSummary(w, limit).total = SumFunctionOnSet(onHand, {k \in H : place[k] = w})
      <3>1. HeldAt(KeysOfWarehouse(w)) = {k \in H : place[k] = w}
        BY DEF HeldAt, KeysOfWarehouse
      <3> QED BY <1>4, <2>2, <3>1 DEF WarehouseSummary, TotalOf
    <2>4. ASSUME NEW m \in Ids
          PROVE  ModelSummary(m, limit).total = SumFunctionOnSet(onHand, {k \in H : model[k] = m})
      <3>1. HeldAt(KeysOfModel(m)) = {k \in H : model[k] = m} /\ KeysOfModel(m) \in SUBSET Keys
        BY DEF HeldAt, KeysOfModel
      <3> QED BY <2>2, <3>1 DEF ModelSummary, TotalOf
    <2> HIDE DEF H, place, model
    <2>5. /\ SumFunctionOnSet(onHand, H)
               = SumFunctionOnSet([w \in Ids |-> SumFunctionOnSet(onHand, {k \in H : place[k] = w})], Ids)
          /\ SumFunctionOnSet(onHand, H)
               = SumFunctionOnSet([m \in Ids |-> SumFunctionOnSet(onHand, {k \in H : model[k] = m})], Ids)
      BY <1>1, <1>2, SumByPlace
    <2>6. /\ [w \in Ids |-> SumFunctionOnSet(onHand, {k \in H : place[k] = w})]
               = [w \in Ids |-> WarehouseSummary(w, limit).total]
          /\ [m \in Ids |-> SumFunctionOnSet(onHand, {k \in H : model[k] = m})]
               = [m \in Ids |-> ModelSummary(m, limit).total]
      BY <2>3, <2>4
    <2> QED BY <2>1, <2>5, <2>6
  <1> QED BY <1>5, <1>6, <1>7 DEF StockReportsAgree

\* The rows of a sequence, counted by a column of theirs.
LEMMA RowsCounted ==
  ASSUME NEW S, NEW seq \in Seq(S), NEW column, NEW T, T = {column[i] : i \in DOMAIN seq}
  PROVE  Len(seq) = SumFunctionOnSet(CountedBy(column, DOMAIN seq, T), T)
  <1>1. DOMAIN seq = 1 .. Len(seq) /\ Len(seq) \in Nat
    BY LenProperties
  <1>2. IsFiniteSet(DOMAIN seq) /\ Cardinality(DOMAIN seq) = Len(seq)
    BY <1>1, FS_Interval
  <1>3. IsFiniteSet(T)
    <2> DEFINE f == [i \in DOMAIN seq |-> column[i]]
    <2>1. f \in Surjection(DOMAIN seq, T)
      BY DEF Surjection
    <2> QED BY <1>2, <2>1, FS_Surjection
  <1>4. \A i \in DOMAIN seq : column[i] \in T
    OBVIOUS
  <1> QED BY <1>2, <1>3, <1>4, CountByPlace

\* The journal by type, the supplementary requests by status.
LEMMA VolumesAddUp ==
  ASSUME StockTypeOK
  PROVE  /\ TransactionVolume.total = Len(journal)
         /\ SupplementaryDashboard.total =
              SumFunctionOnSet(SupplementaryDashboard.by_status, DOMAIN SupplementaryDashboard.by_status)
  <1>1. TransactionVolume.total = Len(journal)
    <2> DEFINE column == [i \in DOMAIN journal |-> journal[i].type]
               T == {e.type : e \in ToSet(journal)}
    <2>1. T = {column[i] : i \in DOMAIN journal}
      BY DEF ToSet
    <2>2. \A t : {i \in DOMAIN journal : column[i] = t} = {i \in DOMAIN journal : journal[i].type = t}
      OBVIOUS
    <2> HIDE DEF column, T
    <2>3. Len(journal) = SumFunctionOnSet(CountedBy(column, DOMAIN journal, T), T)
      BY <2>1, RowsCounted DEF StockTypeOK
    <2>4. CountedBy(column, DOMAIN journal, T)
            = [t \in T |-> Cardinality({i \in DOMAIN journal : journal[i].type = t})]
      BY <2>2 DEF CountedBy
    <2>5. PICK v : v = [t \in T |-> Cardinality({i \in DOMAIN journal : journal[i].type = t})]
      OBVIOUS
    <2>6. TransactionVolume.total = SumFunctionOnSet(v, DOMAIN v)
      BY <2>5 DEF TransactionVolume, T
    <2> QED BY <2>3, <2>4, <2>5, <2>6
  <1>2. SupplementaryDashboard.total =
          SumFunctionOnSet(SupplementaryDashboard.by_status, DOMAIN SupplementaryDashboard.by_status)
    <2> DEFINE column == [d \in DOMAIN supplement |-> supplement[d].status]
               T == {x.status : x \in ToSet(supplement)}
    <2>1. T = {column[d] : d \in DOMAIN supplement}
      BY DEF ToSet
    <2>2. \A s : {d \in DOMAIN supplement : column[d] = s} = {d \in DOMAIN supplement : supplement[d].status = s}
      OBVIOUS
    <2> HIDE DEF column, T
    <2>3. Len(supplement) = SumFunctionOnSet(CountedBy(column, DOMAIN supplement, T), T)
      BY <2>1, RowsCounted DEF StockTypeOK
    <2>4. CountedBy(column, DOMAIN supplement, T)
            = [s \in T |-> Cardinality({d \in DOMAIN supplement : supplement[d].status = s})]
      BY <2>2 DEF CountedBy
    <2>5. PICK v : v = [s \in T |-> Cardinality({d \in DOMAIN supplement : supplement[d].status = s})]
      OBVIOUS
    <2>6. SupplementaryDashboard.total = Len(supplement) /\ SupplementaryDashboard.by_status = v
      BY <2>5 DEF SupplementaryDashboard, T
    <2> QED BY <2>3, <2>4, <2>5, <2>6
  <1> QED BY <1>1, <1>2

\* A cycle count is open or closed; a report that reads all counts reads no more
\* of either than the one that asks for them.
LEMMA CountsAddUp ==
  ASSUME StockTypeOK, NEW limit \in Nat
  PROVE  CountReportsAgree(limit)
  <1> DEFINE D == DOMAIN cycleCount
             Kind(s) == {d \in D : cycleCount[d].status = s}
             A == FirstRows(D, LatestFirst, limit)
             F(s) == FirstRows(Kind(s), LatestFirst, limit)
  <1>1. D = 1 .. Len(cycleCount) /\ Len(cycleCount) \in Nat /\ \A d \in D : cycleCount[d] \in CycleCount
    BY LenProperties, ElementOfSeq DEF StockTypeOK
  <1>2. IsFiniteSet(D) /\ Cardinality(D) = Len(cycleCount) /\ \A d \in D : d \in Nat
    <2>1. PICK n \in Nat : n = Len(cycleCount) /\ D = 1 .. n
      BY <1>1
    <2>2. IsFiniteSet(1 .. n) /\ Cardinality(1 .. n) = n /\ \A d \in 1 .. n : d \in Nat
      BY FS_Interval
    <2> QED BY <2>1, <2>2
  <1>3. \A d \in D : cycleCount[d].status \in {"OPEN", "CLOSED"}
    BY <1>1 DEF CycleCount
  <1>4. CountsOf(None) = D
    BY DEF CountsOf
  <1>5. ASSUME NEW s \in {"OPEN", "CLOSED"} PROVE CountsOf(s) = Kind(s)
    BY NoneIsNothing DEF CountsOf
  <1>6. ASSUME NEW S \in SUBSET D
        PROVE  /\ IsFiniteSet(S) /\ IsFiniteSet(FirstRows(S, LatestFirst, limit))
               /\ FirstRows(S, LatestFirst, limit) \subseteq S
               /\ Cardinality(S) <= limit => FirstRows(S, LatestFirst, limit) = S
    <2>1. IsFiniteSet(S)
      BY <1>2, FS_Subset
    <2>2. \A i, j \in S : <<i, j>> \in LatestFirst <=> i > j
      BY DEF LatestFirst
    <2>3. \A i \in S : i \in Nat
      BY <1>2
    <2> HIDE DEF D
    <2>4. IsOrder(LatestFirst, S)
      BY <2>2, <2>3 DEF IsOrder
    <2>5. FirstRows(S, LatestFirst, limit) \in SUBSET S /\ (Cardinality(S) <= limit => FirstRows(S, LatestFirst, limit) = S)
      BY <2>1, <2>4, FirstRowsRead DEF ShowsAll
    <2> QED BY <2>1, <2>5, FS_Subset
  <1>7. /\ VarianceSummary(None, limit).total = Cardinality(A)
        /\ VarianceSummary(None, limit).open = Cardinality({d \in A : cycleCount[d].status = "OPEN"})
        /\ VarianceSummary(None, limit).closed = Cardinality({d \in A : cycleCount[d].status = "CLOSED"})
        /\ VarianceSummary("OPEN", limit).total = Cardinality(F("OPEN"))
        /\ VarianceSummary("CLOSED", limit).total = Cardinality(F("CLOSED"))
    BY <1>4, <1>5 DEF VarianceSummary
  <1>8. ASSUME NEW s \in {"OPEN", "CLOSED"}
        PROVE  /\ {d \in A : cycleCount[d].status = s} \subseteq F(s)
               /\ Cardinality({d \in A : cycleCount[d].status = s}) <= Cardinality(F(s))
               /\ Cardinality({d \in A : cycleCount[d].status = s}) \in Nat
               /\ IsFiniteSet({d \in A : cycleCount[d].status = s})
               /\ Len(cycleCount) <= limit => {d \in A : cycleCount[d].status = s} = F(s)
    <2>1. Kind(s) \in SUBSET D /\ A \subseteq D
      BY <1>6
    <2>2. {d \in A : cycleCount[d].status = s} = A \intersect Kind(s)
      BY <2>1
    <2>3. A \intersect Kind(s) \subseteq F(s)
      BY <1>2, <2>1, ReadAmongFewer
    <2>4. IsFiniteSet(F(s)) /\ IsFiniteSet(Kind(s))
      BY <1>6, <2>1
    <2> HIDE DEF A, F, Kind
    <2>5. IsFiniteSet(A \intersect Kind(s)) /\ Cardinality(A \intersect Kind(s)) <= Cardinality(F(s))
      BY <2>3, <2>4, FS_Subset
    <2>6. Cardinality(A \intersect Kind(s)) \in Nat
      BY <2>5, FS_CardinalityType
    <2>7. ASSUME Len(cycleCount) <= limit PROVE A \intersect Kind(s) = F(s)
      <3>1. A = D
        BY <1>2, <1>6, <2>7 DEF A
      <3>2. Cardinality(Kind(s)) <= Cardinality(D) /\ Cardinality(Kind(s)) \in Nat
        BY <1>2, <2>1, <2>4, FS_Subset, FS_CardinalityType
      <3>3. Cardinality(Kind(s)) <= limit
        BY <1>1, <1>2, <2>7, <3>2
      <3>4. F(s) = Kind(s)
        BY <1>6, <2>1, <3>3 DEF F
      <3> QED BY <2>1, <3>1, <3>4
    <2> QED BY <2>2, <2>3, <2>5, <2>6, <2>7
  <1>9. Cardinality(A) = Cardinality({d \in A : cycleCount[d].status = "OPEN"})
                         + Cardinality({d \in A : cycleCount[d].status = "CLOSED"})
    <2>1. PICK O, C : /\ O = {d \in A : cycleCount[d].status = "OPEN"}
                      /\ C = {d \in A : cycleCount[d].status = "CLOSED"}
      OBVIOUS
    <2>2. A \subseteq D
      BY <1>6
    <2>3. A = O \union C /\ O \intersect C = {}
      BY <1>3, <2>1, <2>2
    <2>4. IsFiniteSet(O) /\ IsFiniteSet(C) /\ Cardinality(O) \in Nat /\ Cardinality(C) \in Nat
      BY <1>8, <2>1
    <2> HIDE DEF A
    <2>5. Cardinality(A) = Cardinality(O) + Cardinality(C) - Cardinality({})
      BY <2>3, <2>4, FS_Union
    <2> QED BY <2>1, <2>4, <2>5, FS_EmptySet
  <1>10. Len(cycleCount) <= limit => Cardinality(A) = Len(cycleCount)
    BY <1>2, <1>6
  <1>11. LET all == VarianceSummary(None, limit)
             open == VarianceSummary("OPEN", limit)
             closed == VarianceSummary("CLOSED", limit)
         IN  /\ all.total = all.open + all.closed
             /\ all.open <= open.total /\ all.closed <= closed.total
             /\ Len(cycleCount) <= limit =>
                   all.total = Len(cycleCount) /\ all.open = open.total /\ all.closed = closed.total
    <2> HIDE DEF A, F, D
    <2> QED BY <1>7, <1>8, <1>9, <1>10
  <1> QED BY <1>11 DEF CountReportsAgree

\* Whoever turns the pages of a listing sees each row once; the hierarchy of a
\* warehouse shows each location that it reads on one list; and the reports on
\* the stock and the cycle counts, whatever their limits, read as much as they
\* can, agree where they are cut and add up where they are not, as those on the
\* journal and the supplementary requests always do.
THEOREM ReadsCompleteCorrect == Spec => []ReadsComplete
  <1>1. ReportLimits \subseteq Nat
    BY JournalConstants
  <1>2. TypeInv /\ ModelsOwned /\ FiniteLocations => ReadsComplete
    BY <1>1, TypeParts, PagesListed, HierarchyShown, StockAddsUp, VolumesAddUp, CountsAddUp
       DEF TypeInv, ReadsComplete, ReportsAgree
  <1> QED BY <1>2, BackOfficeInvariant, OwnersInvariant, LocationsFinite, PTL
==================================================================================
