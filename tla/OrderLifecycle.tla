---------------------------- MODULE OrderLifecycle ----------------------------
(***************************************************************************)
(* Production orders and their stage logs: the use cases of the production *)
(* module that create, plan, start, complete and close an order and that   *)
(* start a stage and record its output, with the administration of the     *)
(* stages in production-setup.                                             *)
(*                                                                         *)
(* A use case reads and checks (one action), then writes without looking   *)
(* at the status again (another action).  Two statuses read one after the  *)
(* other are one action: what a race turns on is the gap before the write. *)
(*                                                                         *)
(* Dozens are in units of the Decimal(12,3) columns, those of a request    *)
(* that records an output in the finer parts of a unit that it may name.   *)
(***************************************************************************)
EXTENDS Integers, Sequences, FiniteSets, FiniteSetsExt

CONSTANTS
    Orders,         \* production_orders rows
    Stages,         \* production_stages rows
    MaxSequence,    \* bound on sequence_order
    MaxDozens,      \* bound on the dozens released to an order
    Fine,           \* how many parts a request may name are one unit of the columns
    Amounts,        \* bound: the amounts of a recorded output, in such parts
    MaxRecords,     \* bound on the scrap records of a recorded output
    Requests,       \* concurrent requests
    MayFail,        \* the requests that may die between two statements
    Serial,         \* TRUE: one request at a time
    Resequencing,   \* TRUE: stages may be given a new place while an order is in production
    None            \* an idle request

ASSUME LifecycleConstants ==
    /\ MaxSequence \in Nat \ {0}
    /\ MaxDozens \in Nat /\ MaxRecords \in Nat
    /\ Fine \in Nat \ {0}
    /\ Amounts \subseteq Nat
    /\ Serial \in BOOLEAN
    /\ Resequencing \in BOOLEAN
    /\ IsFiniteSet(Stages)

VARIABLES
    status,    \* status[o]: production_orders.status, "none" without a row
    parts,     \* parts[o]: its production_order_parts: no row, some PENDING, all RELEASED
    released,  \* released[o]: the sum of its release_group_lines.dozens_released
    seq,       \* seq[s]: production_stages.sequence_order, 0 without a row
    log,       \* log[<<o, s>>]: production_stage_logs
    scrapped,  \* scrapped[<<o, s>>]: the scrap_records, how many and the sum of their dozens
    packing,   \* packing[o]: packing_orders.status
    call       \* call[r]: what request r has read and has still to do

vars == <<status, parts, released, seq, log, scrapped, packing, call>>

-----------------------------------------------------------------------------
(* Rows and calls.                                                         *)

OrderStatus == {"none", "DRAFT", "PLANNED", "IN_PRODUCTION", "PRODUCTION_COMPLETE", "CLOSED"}

StageLog == [status : {"none", "PENDING", "IN_PROGRESS", "COMPLETE"},
             input : Nat, output : Nat, scrap : Nat, incomplete : Nat]

ScrapRows == [records : Nat, dozens : Nat]

NoLog == [status |-> "none", input |-> 0, output |-> 0, scrap |-> 0, incomplete |-> 0]

Call ==      [op : {"parts", "plan", "start", "complete", "close"}, order : Orders]
      \union [op : {"release"}, order : Orders, dozens : Nat, all : BOOLEAN]
      \union [op : {"stage"}, order : Orders, stage : Stages, input : Nat]
      \union [op : {"output"}, order : Orders, stage : Stages,
              output : Nat, scrap : Seq(Nat), incomplete : Nat]

TypeOK ==
    /\ status \in [Orders -> OrderStatus]
    /\ parts \in [Orders -> {"none", "PENDING", "RELEASED"}]
    /\ released \in [Orders -> Nat]
    /\ seq \in [Stages -> 0 .. MaxSequence]
    /\ log \in [Orders \X Stages -> StageLog]
    /\ scrapped \in [Orders \X Stages -> ScrapRows]
    /\ packing \in [Orders -> {"none", "DRAFT", "POSTED"}]
    /\ call \in [Requests -> Call \union {None}]

Idle(r) == call[r] = None

\* A new request, and one that still has to write.
MayBegin(r) == Idle(r) /\ (Serial => \A q \in Requests : Idle(q))

Begin(r, c) ==
    /\ MayBegin(r)
    /\ call' = [call EXCEPT ![r] = c]
    /\ UNCHANGED <<status, parts, released, seq, log, scrapped, packing>>

At(r, op) == call[r] # None /\ call[r].op = op

Finish(r) == call' = [call EXCEPT ![r] = None]

SetStatus(r, s) ==
    /\ status' = [status EXCEPT ![call[r].order] = s]
    /\ Finish(r)
    /\ UNCHANGED <<parts, released, seq, scrapped, packing>>

-----------------------------------------------------------------------------
(* Creation: the order, then its parts, in two writes.                     *)

CreateOrder(r, o) ==
    /\ MayBegin(r)
    /\ status[o] = "none"
    /\ status' = [status EXCEPT ![o] = "DRAFT"]
    /\ call' = [call EXCEPT ![r] = [op |-> "parts", order |-> o]]
    /\ UNCHANGED <<parts, released, seq, log, scrapped, packing>>

CreateParts(r) ==
    /\ At(r, "parts")
    /\ parts' = [parts EXCEPT ![call[r].order] = "PENDING"]
    /\ Finish(r)
    /\ UNCHANGED <<status, released, seq, log, scrapped, packing>>

-----------------------------------------------------------------------------
(* Plan, start, complete, close.                                           *)

PlanCheckWithoutParts(r, o) ==
    /\ status[o] = "DRAFT"
    /\ Begin(r, [op |-> "plan", order |-> o])
PlanCheck(r, o) ==
    /\ status[o] = "DRAFT"
    /\ parts[o] # "none"
    /\ Begin(r, [op |-> "plan", order |-> o])

PlanWrite(r) == At(r, "plan") /\ SetStatus(r, "PLANNED") /\ UNCHANGED log

StartCheck(r, o) ==
    /\ status[o] = "PLANNED"
    /\ parts[o] # "PENDING"
    /\ Begin(r, [op |-> "start", order |-> o])

Exists(s) == seq[s] > 0

\* A log for every stage that has none; with no stage the order starts anyway.
StartWrite(r) ==
    /\ At(r, "start")
    /\ SetStatus(r, "IN_PRODUCTION")
    /\ log' = [k \in Orders \X Stages |->
                 IF k[1] = call[r].order /\ Exists(k[2]) /\ log[k].status = "none"
                   THEN [NoLog EXCEPT !.status = "PENDING"] ELSE log[k]]

LogsOf(o) == {s \in Stages : log[<<o, s>>].status # "none"}

NonComplete(o) == {s \in LogsOf(o) : log[<<o, s>>].status # "COMPLETE"}

AllStagesComplete(o) == LogsOf(o) # {} /\ NonComplete(o) = {}

CompleteCheck(r, o) ==
    /\ status[o] = "IN_PRODUCTION"
    /\ AllStagesComplete(o)
    /\ Begin(r, [op |-> "complete", order |-> o])

CompleteWrite(r) ==
    /\ At(r, "complete")
    /\ SetStatus(r, "PRODUCTION_COMPLETE")
    /\ UNCHANGED log

CloseCheck(r, o) ==
    /\ status[o] = "PRODUCTION_COMPLETE"
    /\ packing[o] = "POSTED"
    /\ Begin(r, [op |-> "close", order |-> o])

CloseWrite(r) == At(r, "close") /\ SetStatus(r, "CLOSED") /\ UNCHANGED log

-----------------------------------------------------------------------------
(* Release groups and packing orders, as far as the life of an order sees  *)
(* them: a release adds dozens and may be the last one of the parts.       *)

ReleaseCheck(r, o, d, all) ==
    /\ status[o] = "PLANNED"
    /\ parts[o] # "none"
    /\ released[o] + d <= MaxDozens
    /\ Begin(r, [op |-> "release", order |-> o, dozens |-> d, all |-> all])

ReleaseCommit(r) ==
    /\ At(r, "release")
    /\ released' = [released EXCEPT ![call[r].order] = @ + call[r].dozens]
    /\ parts' = IF call[r].all THEN [parts EXCEPT ![call[r].order] = "RELEASED"] ELSE parts
    /\ Finish(r)
    /\ UNCHANGED <<status, seq, log, scrapped, packing>>

\* One packing order per order, posted once; PackingOrder checks are not repeated here.
OpenPacking(o) ==
    /\ status[o] = "PRODUCTION_COMPLETE"
    /\ packing[o] = "none"
    /\ packing' = [packing EXCEPT ![o] = "DRAFT"]
    /\ UNCHANGED <<status, parts, released, seq, log, scrapped, call>>

PostPacking(o) ==
    /\ packing[o] = "DRAFT"
    /\ packing' = [packing EXCEPT ![o] = "POSTED"]
    /\ UNCHANGED <<status, parts, released, seq, log, scrapped, call>>

-----------------------------------------------------------------------------
(* Stages.  The first and the preceding stage are looked up in the table   *)
(* of stages, not among the logs of the order.                             *)

IsFirst(s) == \A t \in Stages : Exists(t) => seq[s] <= seq[t]

Earlier(s) == {t \in Stages : Exists(t) /\ seq[t] < seq[s]}

\* The stage with the largest smaller sequence_order.
PreviousFirst(s) == CHOOSE t \in Earlier(s) : \A u \in Earlier(s) : seq[t] <= seq[u]
Previous(s) == CHOOSE t \in Earlier(s) : \A u \in Earlier(s) : seq[u] <= seq[t]

StageMayStart(o, s) ==
    /\ status[o] = "IN_PRODUCTION"
    /\ log[<<o, s>>].status = "PENDING"
    /\ ~IsFirst(s) => log[<<o, Previous(s)>>].status = "COMPLETE"

StageInputLessScrap(o, s) ==
    IF IsFirst(s) THEN released[o] ELSE log[<<o, Previous(s)>>].output - log[<<o, Previous(s)>>].scrap
StageInput(o, s) == IF IsFirst(s) THEN released[o] ELSE log[<<o, Previous(s)>>].output

StartStageCheck(r, o, s) ==
    /\ StageMayStart(o, s)
    /\ Begin(r, [op |-> "stage", order |-> o, stage |-> s, input |-> StageInput(o, s)])

StartStageWrite(r) ==
    /\ At(r, "stage")
    /\ log' = [log EXCEPT ![<<call[r].order, call[r].stage>>] =
                             [@ EXCEPT !.status = "IN_PROGRESS", !.input = call[r].input]]
    /\ Finish(r)
    /\ UNCHANGED <<status, parts, released, seq, scrapped, packing>>

OutputMayBeRecordedAgain(o, s) ==
    status[o] = "IN_PRODUCTION" /\ log[<<o, s>>].status \in {"IN_PROGRESS", "COMPLETE"}
OutputMayBeRecordedIfAny(o, s) ==
    status[o] = "IN_PRODUCTION" /\ log[<<o, s>>].status = "IN_PROGRESS" /\ log[<<o, s>>].input > 0
OutputMayBeRecorded(o, s) ==
    status[o] = "IN_PRODUCTION" /\ log[<<o, s>>].status = "IN_PROGRESS"

Total(amounts) == SumFunctionOnSet(amounts, DOMAIN amounts)

\* BR-S02: up to a ten-thousandth of a dozen, which is a tenth of a unit.
Balanced(input, output, scrap, incomplete) ==
    LET total == output + Total(scrap) + incomplete
    IN  10 * (total - Fine * input) <= Fine /\ 10 * (Fine * input - total) <= Fine

\* What a column keeps of an amount, and the rows of scrap records, which are
\* rounded one by one.
Rounded(amount) == (2 * amount + Fine) \div (2 * Fine)
InRows(amounts) == [i \in DOMAIN amounts |-> Rounded(amounts[i])]

OutputCheck(r, o, s, output, scrap, incomplete) ==
    /\ OutputMayBeRecorded(o, s)
    /\ Balanced(log[<<o, s>>].input, output, scrap, incomplete)
    /\ Begin(r, [op |-> "output", order |-> o, stage |-> s,
                 output |-> output, scrap |-> scrap, incomplete |-> incomplete])

\* The log keeps the scrap of all the records, rounded once.
OutputWrite(r) ==
    /\ At(r, "output")
    /\ LET c == call[r]
           k == <<c.order, c.stage>>
       IN  /\ log' = [log EXCEPT ![k] = [status |-> "COMPLETE", input |-> @.input,
                        output |-> Rounded(c.output), scrap |-> Rounded(Total(c.scrap)),
                        incomplete |-> Rounded(c.incomplete)]]
           /\ scrapped' = [scrapped EXCEPT ![k] = [records |-> @.records + Len(c.scrap),
                                                   dozens |-> @.dozens + Total(InRows(c.scrap))]]
    /\ Finish(r)
    /\ UNCHANGED <<status, parts, released, seq, packing>>

-----------------------------------------------------------------------------
(* Administration of the stages: single statements, which the unique key   *)
(* on sequence_order and the foreign key of the logs may refuse.           *)

Quiet == Serial => \A q \in Requests : Idle(q)

PlaceIsFree(q) == \A t \in Stages : seq[t] # q

CreateStage(s, q) ==
    /\ Quiet
    /\ ~Exists(s) /\ PlaceIsFree(q)
    /\ seq' = [seq EXCEPT ![s] = q]
    /\ UNCHANGED <<status, parts, released, log, scrapped, packing, call>>

\* Resequencing = FALSE: administrators leave the order of the stages alone
\* while an order is in production.  Nothing in the code makes them.
UpdateStage(s, q) ==
    /\ Quiet
    /\ Resequencing \/ \A o \in Orders : status[o] # "IN_PRODUCTION"
    /\ Exists(s) /\ PlaceIsFree(q)
    /\ seq' = [seq EXCEPT ![s] = q]
    /\ UNCHANGED <<status, parts, released, log, scrapped, packing, call>>

DeleteStage(s) ==
    /\ Quiet
    /\ Exists(s)
    /\ \A o \in Orders : log[<<o, s>>].status = "none"
    /\ seq' = [seq EXCEPT ![s] = 0]
    /\ UNCHANGED <<status, parts, released, log, scrapped, packing, call>>

-----------------------------------------------------------------------------
\* The server stops between the check and the write, or between two writes.
Fail(r) ==
    /\ r \in MayFail
    /\ ~Idle(r)
    /\ Finish(r)
    /\ UNCHANGED <<status, parts, released, seq, log, scrapped, packing>>

Init ==
    /\ status = [o \in Orders |-> "none"]
    /\ parts = [o \in Orders |-> "none"]
    /\ released = [o \in Orders |-> 0]
    /\ seq = [s \in Stages |-> 0]
    /\ log = [k \in Orders \X Stages |-> NoLog]
    /\ scrapped = [k \in Orders \X Stages |-> [records |-> 0, dozens |-> 0]]
    /\ packing = [o \in Orders |-> "none"]
    /\ call = [r \in Requests |-> None]

\* A record is of a unit at least.
Records == UNION {[1 .. n -> {a \in Amounts : a >= Fine}] : n \in 0 .. MaxRecords}

OrderNext(r, o) ==
    \/ CreateOrder(r, o)
    \/ PlanCheck(r, o)
    \/ StartCheck(r, o)
    \/ CompleteCheck(r, o)
    \/ CloseCheck(r, o)
    \/ \E d \in 1 .. MaxDozens, all \in BOOLEAN : ReleaseCheck(r, o, d, all)
    \/ \E s \in Stages : StartStageCheck(r, o, s)
    \/ \E s \in Stages, output \in Amounts, scrap \in Records, incomplete \in {0} \union {a \in Amounts : a >= Fine} :
           OutputCheck(r, o, s, output, scrap, incomplete)

WriteNext(r) ==
    \/ CreateParts(r)
    \/ PlanWrite(r)
    \/ StartWrite(r)
    \/ CompleteWrite(r)
    \/ CloseWrite(r)
    \/ ReleaseCommit(r)
    \/ StartStageWrite(r)
    \/ OutputWrite(r)
    \/ Fail(r)

Next ==
    \/ \E r \in Requests, o \in Orders : OrderNext(r, o)
    \/ \E r \in Requests : WriteNext(r)
    \/ \E o \in Orders : OpenPacking(o) \/ PostPacking(o)
    \/ \E s \in Stages, q \in 1 .. MaxSequence : CreateStage(s, q) \/ UpdateStage(s, q)
    \/ \E s \in Stages : DeleteStage(s)

Spec == Init /\ [][Next]_vars

-----------------------------------------------------------------------------
(* Properties.                                                             *)

\* The whole life of an order, stage by stage, is the abstract workflow.  The
\* material in an order is what its last complete stage let through, which is
\* the least output, since no stage adds any.
CompleteStages(o) == LogsOf(o) \ NonComplete(o)

Material(o) ==
    IF CompleteStages(o) = {} THEN released[o]
    ELSE Min({log[<<o, s>>].output : s \in CompleteStages(o)})

Lost(o, s) == log[<<o, s>>].scrap + log[<<o, s>>].incomplete

Left == [o \in Orders |-> NonComplete(o)]
MaterialOf == [o \in Orders |-> Material(o)]
Losses == [o \in Orders |-> [s \in Stages |-> Lost(o, s)]]

Workflow == INSTANCE OrderWorkflow WITH left <- Left, material <- MaterialOf, losses <- Losses

\* When requests do not overlap and no stage is moved while an order is in
\* production, every step of an order is one that OrderWorkflow allows: its
\* status goes forward, nothing is added after it is started, every stage of
\* the start is completed once and loses what the material decreases by, to
\* within one unit of the columns, as what a stage lets through, scraps and
\* leaves incomplete is rounded apart; and none is skipped.
ImplementsWorkflow == Workflow!WorkflowSpec

\* An order past DRAFT has parts (BR-O02) and one past PLANNED has released
\* all of them (BR-O03), although creation is two writes and may die between
\* them, and every status is written without a second look.
PartsJustifyStatus ==
    \A o \in Orders :
        /\ status[o] \notin {"none", "DRAFT"} => parts[o] # "none"
        /\ status[o] \in {"IN_PRODUCTION", "PRODUCTION_COMPLETE", "CLOSED"} => parts[o] = "RELEASED"

\* BR-S01 across the administration of stages: an order in production that
\* started with a stage can always go on - complete, record an output or start
\* a stage - unless a stage without a log for it was put before one it has
\* still to do.
Overtaken(o) == \E s \in NonComplete(o) : \E t \in Earlier(s) : log[<<o, t>>].status = "none"

NeverStuck ==
    \A o \in Orders :
        status[o] = "IN_PRODUCTION" /\ LogsOf(o) # {} /\ ~Overtaken(o) =>
            \/ AllStagesComplete(o)
            \/ \E s \in Stages : OutputMayBeRecorded(o, s) \/ StageMayStart(o, s)

\* BR-S07: the scrap that a stage reports is the sum of its scrap records,
\* which are inserted and rounded one by one, while the report is overwritten
\* and rounded once: they differ by half a unit for every record at most.
Near(rows, dozens) == 2 * (rows.dozens - dozens) <= rows.records /\ 2 * (dozens - rows.dozens) <= rows.records

ScrapRecordsAddUp ==
    \A k \in Orders \X Stages : log[k].status = "COMPLETE" => Near(scrapped[k], log[k].scrap)

Rank(s) == CASE s = "none" -> 0 [] s = "DRAFT" -> 1 [] s = "PLANNED" -> 2
             [] s = "IN_PRODUCTION" -> 3 [] s = "PRODUCTION_COMPLETE" -> 4 [] s = "CLOSED" -> 5

\* BR-O01: an order only goes forward through its statuses.
NoBackwardTransition ==
    [][\A o \in Orders : Rank(status[o]) <= Rank(status'[o])]_status

=============================================================================
