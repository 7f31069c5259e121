---------------------------- MODULE QualityPacking ----------------------------
(***************************************************************************)
(* From the last stage to finished goods: the dozens that pass quality are *)
(* added to boxes (record-quality-output), assemblies take pieces out of   *)
(* the boxes into the packing order (add-assembly), which is verified,     *)
(* posted, and turned into finished goods bags.                            *)
(*                                                                         *)
(* Boxes are written under the version that was read, with a bounded       *)
(* number of attempts.  A packing order has no version: its status is      *)
(* read by the use case and written later, without looking at it again.    *)
(*                                                                         *)
(* Dozens are counted in thousandths, the scale of the Decimal(12, 3)      *)
(* columns, so a piece is 1000/12 of them and every write rounds.          *)
(***************************************************************************)
EXTENDS Integers, Sequences, FiniteSets, FiniteSetsExt

CONSTANTS
    Orders,         \* production_orders rows
    Variants,       \* pairs of a colour and a size
    Outputs,        \* what the last stage of an order may put out
    Amounts,        \* dozens_passed of a recording
    Assemblies,     \* the lines of an assembly: sequences of a box and its pieces
    MaxRecorded,    \* bound on the dozens recorded in a box
    MaxBags,        \* bound on the finished goods bags of an order
    Requests,       \* concurrent requests
    Serial,         \* TRUE: one request at a time
    MaxRetries,     \* MAX_RETRIES of both repositories
    None            \* no row, an idle request

Boxes == Orders \X Variants

PiecesOfAll(lines) == SumFunctionOnSet([i \in DOMAIN lines |-> lines[i].pieces], DOMAIN lines)

ASSUME QualityConstants ==
    /\ IsFiniteSet(Variants)
    /\ IsFiniteSet(Requests)
    /\ Outputs \subseteq Nat
    /\ Amounts \subseteq Nat \ {0}
    /\ Assemblies \subseteq Seq([box : Boxes, pieces : Nat \ {0}])
    /\ MaxRecorded \in Nat
    /\ MaxBags \in Nat
    /\ Serial \in BOOLEAN
    /\ MaxRetries \in Nat \ {0}
    /\ None \notin Nat

VARIABLES
    status,    \* status[o]: production_orders.status
    output,    \* output[o]: output_dozens of its last stage log, None until COMPLETE
    most,      \* history: most[o]: the greatest output that its last stage log has had
    box,       \* box[b]: the row of quality_output_boxes; version 0 is no row
    packing,   \* packing[o]: its packing_orders row with its packing_verifications row
    call,      \* call[r]: what request r has read and has still to do
    recorded,  \* recorded[b]: the sum of its QUALITY_OUTPUT rows in the journal
    packed,    \* packed[b]: pieces and number of its dozen_assembly_lines
    posted,    \* posted[o]: the dozens of its PACKING rows in the journal, in order
    bags,      \* bags[o]: how many finished_goods_bags were created from o
    calm       \* history: calm[o]: no two requests to pack o have overlapped

orderVars == <<status, output, most>>
boxVars == <<box, recorded>>
packVars == <<packing, packed, posted, bags>>
vars == <<orderVars, boxVars, packVars, call, calm>>

-----------------------------------------------------------------------------
(* Rows and calls.                                                         *)

BoxRow == [dozens : Nat, version : Nat]

\* Nothing in the code sets the status ASSEMBLED.  sequence is the highest
\* assembly_sequence, verification the system_dozens that were verified.
PackingOrder == [status : {"DRAFT", "IN_PROCESS", "VERIFIED", "POSTED"},
                 assembled : Nat, sequence : Nat, verification : Nat \union {None}]

Call ==      [op : {"record"}, next : {"read", "write"}, box : Boxes, dozens : Nat,
              seen : BoxRow, attempt : Nat]
      \union [op : {"assemble"}, next : {"read", "lock", "commit"}, order : Orders,
              lines : Assemblies, seen : [Boxes -> BoxRow], sequence : Nat, attempt : Nat]
      \union [op : {"verify", "post"}, order : Orders, dozens : Nat]
      \union [op : {"complete"}, order : Orders, dozens : Nat]

ASSUME NoneIsNoRow == None \notin Call \union PackingOrder

TypeOK ==
    /\ status \in [Orders -> {"IN_PRODUCTION", "PRODUCTION_COMPLETE", "CLOSED"}]
    /\ output \in [Orders -> Nat \union {None}]
    /\ most \in [Orders -> Nat]
    /\ box \in [Boxes -> BoxRow]
    /\ packing \in [Orders -> PackingOrder \union {None}]
    /\ call \in [Requests -> Call \union {None}]
    /\ recorded \in [Boxes -> Nat]
    /\ packed \in [Boxes -> [pieces : Nat, lines : Nat]]
    /\ posted \in [Orders -> Seq(Nat)]
    /\ bags \in [Orders -> Nat]
    /\ calm \in [Orders -> BOOLEAN]

BoxesOf(lines) == {lines[i].box : i \in DOMAIN lines}

\* getTotalAvailableForOrder, in thousandths of a dozen.
TotalAvailable(o) == SumFunctionOnSet([v \in Variants |-> box[<<o, v>>].dozens], Variants)

\* n twelfths of a thousandth, rounded to the scale of the column.
Rounded(n) == (n + 6) \div 12

At(r, op) == call[r] # None /\ call[r].op = op
AtStep(r, op, step) == At(r, op) /\ call[r].next = step

MayBegin(r) == call[r] = None /\ (Serial => \A q \in Requests : call[q] = None)
Begin(r, c) == MayBegin(r) /\ call' = [call EXCEPT ![r] = c]
Finish(r) == call' = [call EXCEPT ![r] = None]

MayRetry(attempt) == attempt + 1 < MaxRetries

\* Another attempt, from the read, or the conflict is reported.
TryAgainUncounted(r) == call' = [call EXCEPT ![r].next = "read"]
TryAgain(r) ==
    IF MayRetry(call[r].attempt)
      THEN call' = [call EXCEPT ![r].next = "read", ![r].attempt = @ + 1]
      ELSE Finish(r)

Packing(r, o) == (At(r, "assemble") \/ At(r, "verify") \/ At(r, "post")) /\ call[r].order = o

\* A request to pack o begins: the others of the same order overlap with it.
BeginPacking(r, o, c) ==
    /\ Begin(r, c)
    /\ calm' = [calm EXCEPT ![o] = @ /\ ~ \E q \in Requests : Packing(q, o)]
    /\ UNCHANGED <<orderVars, boxVars, packVars>>

-----------------------------------------------------------------------------
(* The life of the order, as far as quality and packing see it.            *)

\* record-stage-output of the last stage: the log is IN_PROGRESS when it is
\* read.  It is updated by its id, so that the last of two requests that
\* overlap has its output in it, whichever is greater.
LastStageCheck(r, o, d) ==
    /\ status[o] = "IN_PRODUCTION"
    /\ output[o] = None
    /\ Begin(r, [op |-> "complete", order |-> o, dozens |-> d])
    /\ UNCHANGED <<orderVars, boxVars, packVars, calm>>

LastStageWrite(r) ==
    /\ At(r, "complete")
    /\ LET o == call[r].order
           d == call[r].dozens
       IN  /\ output' = [output EXCEPT ![o] = d]
           /\ most' = [most EXCEPT ![o] = IF @ < d THEN d ELSE @]
    /\ Finish(r)
    /\ UNCHANGED <<status, boxVars, packVars, calm>>

CompleteOrder(o) ==
    /\ status[o] = "IN_PRODUCTION"
    /\ output[o] # None
    /\ status' = [status EXCEPT ![o] = "PRODUCTION_COMPLETE"]
    /\ UNCHANGED <<output, most, boxVars, packVars, call, calm>>

CloseOrder(o) ==
    /\ status[o] = "PRODUCTION_COMPLETE"
    /\ packing[o] # None
    /\ packing[o].status = "POSTED"
    /\ status' = [status EXCEPT ![o] = "CLOSED"]
    /\ UNCHANGED <<output, most, boxVars, packVars, call, calm>>

-----------------------------------------------------------------------------
(* record-quality-output.                                                  *)

\* What the boxes still hold, not what was ever recorded, is compared with
\* the output of the last stage, before any transaction.
WithinStageOutputAlone(o, d) == d <= output[o]
WithinStageOutput(o, d) == TotalAvailable(o) + d <= output[o]

RecordCheck(r, b, d) ==
    /\ status[b[1]] \in {"IN_PRODUCTION", "PRODUCTION_COMPLETE"}
    /\ output[b[1]] # None
    /\ WithinStageOutput(b[1], d)
    /\ recorded[b] + d <= MaxRecorded
    /\ Begin(r, [op |-> "record", next |-> "read", box |-> b, dozens |-> d,
                 seen |-> [dozens |-> 0, version |-> 0], attempt |-> 0])
    /\ UNCHANGED <<orderVars, boxVars, packVars, calm>>

\* upsertAndRecordTransaction: every attempt reads the box again.
UpsertRead(r) ==
    /\ AtStep(r, "record", "read")
    /\ call' = [call EXCEPT ![r].next = "write", ![r].seen = box[call[r].box]]
    /\ UNCHANGED <<orderVars, boxVars, packVars, calm>>

\* The transaction of an assembly holds the rows of its boxes until it commits.
Locked(b) == \E q \in Requests : AtStep(q, "assemble", "commit") /\ b \in BoxesOf(call[q].lines)

VersionMatchesAlways(b, seen) == TRUE
VersionMatches(b, seen) == box[b].version = seen.version

\* The write adds to the dozens that were read; the row is created when none
\* was read, which fails on its unique key when there is one by now.
UpsertWrite(r) ==
    /\ AtStep(r, "record", "write")
    /\ ~ Locked(call[r].box)
    /\ LET b == call[r].box
       IN  IF VersionMatches(b, call[r].seen)
             THEN /\ box' = [box EXCEPT ![b] = [dozens |-> call[r].seen.dozens + call[r].dozens,
                                               version |-> call[r].seen.version + 1]]
                  /\ recorded' = [recorded EXCEPT ![b] = @ + call[r].dozens]
                  /\ Finish(r)
             ELSE TryAgain(r) /\ UNCHANGED boxVars
    /\ UNCHANGED <<orderVars, packVars, calm>>

\* The creation is retried after any error, not only that of the unique key.
CreateFails(r) ==
    /\ AtStep(r, "record", "write")
    /\ call[r].seen.version = 0
    /\ TryAgain(r)
    /\ UNCHANGED <<orderVars, boxVars, packVars, calm>>

-----------------------------------------------------------------------------
(* create-packing-order.  Two requests that race create one row: the       *)
(* production order is a unique key of packing_orders.  The model of an    *)
(* order has an active packing pattern.                                    *)

CreatePackingOrder(o) ==
    /\ status[o] = "PRODUCTION_COMPLETE"
    /\ packing[o] = None
    /\ TotalAvailable(o) > 0
    /\ packing' = [packing EXCEPT ![o] = [status |-> "DRAFT", assembled |-> 0, sequence |-> 0,
                                          verification |-> None]]
    /\ UNCHANGED <<orderVars, boxVars, packed, posted, bags, call, calm>>

-----------------------------------------------------------------------------
(* add-assembly.                                                           *)

HasStatus(o, statuses) == packing[o] # None /\ packing[o].status \in statuses

AssemblyCheck(r, o, lines) ==
    /\ HasStatus(o, {"DRAFT", "IN_PROCESS"})
    /\ lines # <<>>
    /\ BeginPacking(r, o, [op |-> "assemble", next |-> "read", order |-> o, lines |-> lines,
                           seen |-> box, sequence |-> 0, attempt |-> 0])

\* Each line by itself is compared with what its box holds.
CoversAnyway(o, line) == line.box[1] = o /\ box[line.box].version > 0
Covers(o, line) ==
    /\ line.box[1] = o
    /\ box[line.box].version > 0
    /\ 1000 * line.pieces <= 12 * box[line.box].dozens

\* Every attempt reads the boxes again and refuses what they do not cover.
AssemblyRead(r) ==
    /\ AtStep(r, "assemble", "read")
    /\ IF \A i \in DOMAIN call[r].lines : Covers(call[r].order, call[r].lines[i])
         THEN call' = [call EXCEPT ![r].next = "lock", ![r].seen = box]
         ELSE Finish(r)
    /\ UNCHANGED <<orderVars, boxVars, packVars, calm>>

\* A box named by two lines has a new version when the second line is written.
NamedOnce(lines) == \A i, j \in DOMAIN lines : lines[i].box = lines[j].box => i = j

\* tryAddAssemblyTransaction: the boxes are updated under the versions that
\* were read, waiting for a transaction that holds one of them, and the next
\* assembly_sequence is read.
AssemblyLock(r) ==
    /\ AtStep(r, "assemble", "lock")
    /\ \A b \in BoxesOf(call[r].lines) : ~ Locked(b)
    /\ IF /\ \A b \in BoxesOf(call[r].lines) : VersionMatches(b, call[r].seen[b])
          /\ NamedOnce(call[r].lines)
         THEN call' = [call EXCEPT ![r].next = "commit",
                                   ![r].sequence = packing[call[r].order].sequence + 1]
         ELSE TryAgain(r)
    /\ UNCHANGED <<orderVars, boxVars, packVars, calm>>

\* The pieces of the line that names b.
PiecesOf(lines, b) == lines[CHOOSE i \in DOMAIN lines : lines[i].box = b].pieces

\* The first assembly takes a packing order out of DRAFT, whatever happened
\* to its status since it was checked.
AddAssemblyOverwriting(o, lines) ==
    packing' = [packing EXCEPT ![o].assembled = Rounded(1000 * PiecesOfAll(lines)),
                               ![o].sequence = @ + 1,
                               ![o].status = IF @ = "DRAFT" THEN "IN_PROCESS" ELSE @]
AddAssemblyReopening(o, lines) ==
    packing' = [packing EXCEPT ![o].assembled = @ + Rounded(1000 * PiecesOfAll(lines)),
                               ![o].sequence = @ + 1,
                               ![o].status = "IN_PROCESS"]
AddAssembly(o, lines) ==
    packing' = [packing EXCEPT ![o].assembled = @ + Rounded(1000 * PiecesOfAll(lines)),
                               ![o].sequence = @ + 1,
                               ![o].status = IF @ = "DRAFT" THEN "IN_PROCESS" ELSE @]

\* The transaction commits, unless another one took the same assembly_sequence
\* in the meantime, which is a unique key: that error is not retried.
AssemblyCommit(r) ==
    /\ AtStep(r, "assemble", "commit")
    /\ LET c == call[r]
           taken == BoxesOf(c.lines)
       IN  IF c.sequence = packing[c.order].sequence + 1
             THEN /\ box' = [b \in Boxes |->
                               IF b \in taken
                                 THEN [dozens |-> Rounded(12 * box[b].dozens
                                                            - 1000 * PiecesOf(c.lines, b)),
                                       version |-> box[b].version + 1]
                                 ELSE box[b]]
                  /\ packed' = [b \in Boxes |->
                                  IF b \in taken
                                    THEN [pieces |-> packed[b].pieces + PiecesOf(c.lines, b),
                                          lines |-> packed[b].lines + 1]
                                    ELSE packed[b]]
                  /\ AddAssembly(c.order, c.lines)
             ELSE UNCHANGED <<box, packed, packing>>
    /\ Finish(r)
    /\ UNCHANGED <<orderVars, recorded, posted, bags, calm>>

-----------------------------------------------------------------------------
(* verify-packing and post-packing-order: check, then write.               *)

VerifyCheck(r, o) ==
    /\ HasStatus(o, {"IN_PROCESS"})
    /\ BeginPacking(r, o, [op |-> "verify", order |-> o, dozens |-> packing[o].assembled])

\* The order is a unique key of packing_verifications: a second verification
\* fails, with its transaction.  The variance is accepted with the count.
NotVerifiedUnchecked(o) == TRUE
NotVerified(o) == packing[o].verification = None

VerifyWrite(r) ==
    /\ At(r, "verify")
    /\ IF NotVerified(call[r].order)
         THEN packing' = [packing EXCEPT ![call[r].order].verification = call[r].dozens,
                                         ![call[r].order].status = "VERIFIED"]
         ELSE UNCHANGED packing
    /\ Finish(r)
    /\ UNCHANGED <<orderVars, boxVars, packed, posted, bags, calm>>

PostCheckVerificationOnly(r, o) ==
    /\ packing[o] # None
    /\ packing[o].verification # None
    /\ BeginPacking(r, o, [op |-> "post", order |-> o, dozens |-> packing[o].assembled])
PostCheck(r, o) ==
    /\ HasStatus(o, {"VERIFIED"})
    /\ packing[o].verification # None
    /\ BeginPacking(r, o, [op |-> "post", order |-> o, dozens |-> packing[o].assembled])

PostWrite(r) ==
    /\ At(r, "post")
    /\ posted' = [posted EXCEPT ![call[r].order] = Append(@, call[r].dozens)]
    /\ packing' = [packing EXCEPT ![call[r].order].status = "POSTED"]
    /\ Finish(r)
    /\ UNCHANGED <<orderVars, boxVars, packed, bags, calm>>

-----------------------------------------------------------------------------
(* create-finished-goods: as many bags as are asked for, of any size.      *)

CreateFinishedGoods(o) ==
    /\ HasStatus(o, {"POSTED"})
    /\ bags[o] < MaxBags
    /\ bags' = [bags EXCEPT ![o] = @ + 1]
    /\ UNCHANGED <<orderVars, boxVars, packing, packed, posted, call, calm>>

\* The server stops, or a statement fails (a deadlock of two transactions
\* that take the same boxes in different orders is one), and the transaction
\* is rolled back.
Fail(r) ==
    /\ call[r] # None
    /\ Finish(r)
    /\ UNCHANGED <<orderVars, boxVars, packVars, calm>>

-----------------------------------------------------------------------------
Init ==
    /\ status = [o \in Orders |-> "IN_PRODUCTION"]
    /\ output = [o \in Orders |-> None]
    /\ most = [o \in Orders |-> 0]
    /\ box = [b \in Boxes |-> [dozens |-> 0, version |-> 0]]
    /\ packing = [o \in Orders |-> None]
    /\ call = [r \in Requests |-> None]
    /\ recorded = [b \in Boxes |-> 0]
    /\ packed = [b \in Boxes |-> [pieces |-> 0, lines |-> 0]]
    /\ posted = [o \in Orders |-> <<>>]
    /\ bags = [o \in Orders |-> 0]
    /\ calm = [o \in Orders |-> TRUE]

OrderStep(o) ==
    \/ CompleteOrder(o)
    \/ CloseOrder(o)
    \/ CreatePackingOrder(o)
    \/ CreateFinishedGoods(o)

Arrive(r) ==
    \/ \E o \in Orders, d \in Outputs : LastStageCheck(r, o, d)
    \/ \E b \in Boxes, d \in Amounts : RecordCheck(r, b, d)
    \/ \E o \in Orders, lines \in Assemblies : AssemblyCheck(r, o, lines)
    \/ \E o \in Orders : VerifyCheck(r, o) \/ PostCheck(r, o)

\* The next step of a request that has been accepted.  UpsertWrite and
\* AssemblyLock may have to wait for a row.
WaitingStep(r) == UpsertWrite(r) \/ AssemblyLock(r)
Step(r) ==
    \/ LastStageWrite(r)
    \/ UpsertRead(r)
    \/ AssemblyRead(r)
    \/ AssemblyCommit(r)
    \/ VerifyWrite(r)
    \/ PostWrite(r)

Next ==
    \/ \E o \in Orders : OrderStep(o)
    \/ \E r \in Requests : Arrive(r) \/ Step(r) \/ WaitingStep(r) \/ CreateFails(r) \/ Fail(r)

\* An accepted request goes on (its promise is resolved), and the queue of a
\* row lock lets every waiting transaction have its turn.
Fairness == \A r \in Requests : WF_vars(Step(r)) /\ SF_vars(WaitingStep(r))

Spec == Init /\ [][Next]_vars /\ Fairness

-----------------------------------------------------------------------------
(* Properties.                                                             *)

\* No recording is lost and no piece is taken twice (BR-Q02, BR-P02): what a
\* box holds is what was recorded in it minus the pieces of its assembly
\* lines, up to half a thousandth of a dozen for every line.
BoxesAccounted ==
    \A b \in Boxes :
        LET drift == 12 * recorded[b] - 1000 * packed[b].pieces - 12 * box[b].dozens
        IN  drift \in -6 * packed[b].lines .. 6 * packed[b].lines

\* What the assembly lines of o have taken from its boxes.
PiecesPacked(o) == SumFunctionOnSet([v \in Variants |-> packed[<<o, v>>].pieces], Variants)

\* The assembled dozens of a packing order are the pieces taken from the boxes
\* of its production order, up to half a thousandth for every assembly, however
\* many assemblies run at once.
AssembledAccounted ==
    \A o \in Orders : packing[o] # None =>
        LET drift == 1000 * PiecesPacked(o) - 12 * packing[o].assembled
        IN  drift \in -6 * packing[o].sequence .. 6 * packing[o].sequence

\* What the check of BR-Q03 does achieve: the boxes of an order never hold more
\* than the greatest output that its last stage has had, for every request that
\* may pass the check at the same time.  They may hold more than its output has
\* become: two requests that record it overwrite one another, and the boxes may
\* be filled against the first before the second, smaller, is written.
AvailableBounded ==
    \A o \in Orders : TotalAvailable(o) <= Cardinality(Requests) * most[o]

\* BR-Q03: all the dozens ever recorded stay within the output of the last
\* stage.  The check looks at what the boxes still hold, so that what has been
\* assembled can be recorded again.
RecordedWithinOutput ==
    \A o \in Orders :
        SumFunctionOnSet([v \in Variants |-> recorded[<<o, v>>]], Variants)
          <= (IF output[o] = None THEN 0 ELSE output[o])

Rank == [DRAFT |-> 1, IN_PROCESS |-> 2, VERIFIED |-> 3, POSTED |-> 4]

\* A packing order never goes back to an earlier status, although every write
\* of its status is unconditional or made long after the check.
PackingForward ==
    [][\A o \in Orders : packing[o] # None =>
          packing'[o] # None /\ Rank[packing[o].status] <= Rank[packing'[o].status]]_vars

\* The journal and the order agree on the posting (BR-P05): there is a PACKING
\* row exactly when the order is POSTED; each is for at least what was verified
\* and at most what is assembled.  Bags come from posted orders only.
PostingFollowsVerification ==
    \A o \in Orders :
        /\ posted[o] # <<>> <=> HasStatus(o, {"POSTED"})
        /\ \A i \in DOMAIN posted[o] :
              /\ packing[o].verification # None
              /\ packing[o].verification <= posted[o][i]
              /\ posted[o][i] <= packing[o].assembled
        /\ bags[o] > 0 => HasStatus(o, {"POSTED"})

\* Requests to pack an order that do not overlap post it once, for exactly what
\* was verified, and nothing is assembled afterwards.
CalmPostsOnce ==
    \A o \in Orders : calm[o] /\ posted[o] # <<>> =>
        posted[o] = <<packing[o].verification>> /\ packing[o].assembled = packing[o].verification

\* Every request is answered: an optimistic conflict is retried a bounded
\* number of times, also that of an assembly which names one box twice and
\* conflicts with itself on every attempt.
EveryRequestAnswered == \A r \in Requests : call[r] # None ~> call[r] = None
=============================================================================
