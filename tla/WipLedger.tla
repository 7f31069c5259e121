------------------------------- MODULE WipLedger -------------------------------
(***************************************************************************)
(* The balance of material in production, wip_inventory, per order and     *)
(* part.  Two writers share it: the listener of the stage completion event *)
(* (process-stage-completion-wip), which overwrites the balance with the   *)
(* output of the stage, and returns to a warehouse (create-return), which  *)
(* subtract from it.  Both read the row, then write it under the version   *)
(* they read, and try again a bounded number of times.                     *)
(*                                                                         *)
(* The event is published in process after the completion has committed.   *)
(* Its listener runs concurrently with everything else, and an error in it *)
(* is logged and dropped: nobody repeats it.                               *)
(***************************************************************************)
EXTENDS Integers, FiniteSets

CONSTANTS
    Orders,       \* production_orders rows, started with all parts released
    Parts,        \* model_parts rows
    OrderParts,   \* OrderParts[o]: parts with a production_order_parts row
    NumStages,    \* the stages an order goes through
    MaxDozens,    \* bound on the dozens released to an order
    Returners,    \* concurrent requests to create-return
    MaxRetries,   \* MAX_RETRIES of both repositories
    None          \* an idle request, a finished listener

ASSUME WipConstants ==
    /\ OrderParts \in [Orders -> (SUBSET Parts) \ {{}}]
    /\ NumStages \in Nat \ {0}
    /\ MaxDozens \in Nat
    /\ MaxRetries \in Nat \ {0}
    /\ None \notin Parts

VARIABLES
    status,   \* status[o]: production_orders.status
    part,     \* part[<<o, p>>]: production_order_parts.status
    done,     \* done[o]: how many stages of o are COMPLETE
    output,   \* output[o]: what the last of them put out; at first, what was released
    wip,      \* wip[<<o, p>>]: the row of wip_inventory; version 0 is no row
    event,    \* event[<<o, n>>]: the listener of the n-th completion of o
    ret,      \* ret[r]: what return request r has read and has still to do
    journal,  \* history: what the inventory_transactions of <<o, p>> say, the dozens
              \* of the last WIP_CONSUMPTION and the sum of the RETURNs after it
    missed,   \* history: missed[o]: an event of o was not applied to every part
    inOrder   \* history: inOrder[o]: no stage of o was completed while the event of
              \* an earlier one was still being handled

rowVars == <<part, wip, journal>>
stageVars == <<status, done, output, inOrder>>
vars == <<rowVars, stageVars, event, ret, missed>>

-----------------------------------------------------------------------------
(* Rows and calls.                                                         *)

Rows == {k \in Orders \X Parts : k[2] \in OrderParts[k[1]]}
Completions == Orders \X (1 .. NumStages)

\* The parts still to update, the one being updated, the version its row had
\* at the first read and at the last, and the attempts that failed.
Listener == [next : {"read", "write"}, dozens : Nat, todo : SUBSET Parts,
             part : Parts \union {None}, first : Nat, seen : Nat, attempt : Nat]

Return == [next : {"read", "write"}, row : Rows, dozens : Nat,
           have : Nat, first : Nat, seen : Nat, attempt : Nat]

ASSUME NoneIsNoCall == None \notin Listener \union Return

TypeOK ==
    /\ status \in [Orders -> {"IN_PRODUCTION", "PRODUCTION_COMPLETE", "CLOSED"}]
    /\ part \in [Rows -> {"RELEASED", "RETURNED"}]
    /\ done \in [Orders -> 0 .. NumStages]
    /\ output \in [Orders -> Nat]
    /\ wip \in [Rows -> [dozens : Nat, version : Nat]]
    /\ event \in [Completions -> Listener \union {None}]
    /\ ret \in [Returners -> Return \union {None}]
    /\ journal \in [Rows -> [set : Nat, back : Nat]]
    /\ missed \in [Orders -> BOOLEAN]
    /\ inOrder \in [Orders -> BOOLEAN]

\* The listener about to take the next of the parts ps.
Handle(d, ps) == [next |-> "read", dozens |-> d, todo |-> ps, part |-> None,
                  first |-> 0, seen |-> 0, attempt |-> 0]

AtEvent(e, step) == event[e] # None /\ event[e].next = step
AtReturn(r, step) == ret[r] # None /\ ret[r].next = step

EndEvent(e) == event' = [event EXCEPT ![e] = None]
EndReturn(r) == ret' = [ret EXCEPT ![r] = None]

Pending(o) == {n \in 1 .. NumStages : event[<<o, n>>] # None}

-----------------------------------------------------------------------------
(* The life of the order, as far as the balance sees it.                   *)

\* record-stage-output: no stage puts out more than it was given (BR-S02), which
\* is the output of the one before.  The listener of the event starts.  One
\* request records a stage here; OrderLifecycle has what two of them may do.
CompleteStage(o, d) ==
    /\ status[o] = "IN_PRODUCTION"
    /\ done[o] < NumStages
    /\ d <= output[o]
    /\ done' = [done EXCEPT ![o] = @ + 1]
    /\ output' = [output EXCEPT ![o] = d]
    /\ event' = [event EXCEPT ![<<o, done[o] + 1>>] = Handle(d, OrderParts[o])]
    /\ inOrder' = [inOrder EXCEPT ![o] = @ /\ Pending(o) = {}]
    /\ UNCHANGED <<rowVars, status, ret, missed>>

CompleteOrder(o) ==
    /\ status[o] = "IN_PRODUCTION"
    /\ done[o] = NumStages
    /\ status' = [status EXCEPT ![o] = "PRODUCTION_COMPLETE"]
    /\ UNCHANGED <<rowVars, done, output, inOrder, event, ret, missed>>

\* The packing order is POSTED, or not: nothing here depends on it.
CloseOrder(o) ==
    /\ status[o] = "PRODUCTION_COMPLETE"
    /\ status' = [status EXCEPT ![o] = "CLOSED"]
    /\ UNCHANGED <<rowVars, done, output, inOrder, event, ret, missed>>

-----------------------------------------------------------------------------
(* One attempt to write a row: under the version that was read.  Creating  *)
(* the row, version 0 to 1, fails on the unique key (order_id, part_id) if *)
(* another has created it, which is the same condition.                    *)

VersionMatchesAlways(k, seen) == TRUE
VersionMatches(k, seen) == wip[k].version = seen

WriteBalance(k, d) == wip' = [wip EXCEPT ![k] = [dozens |-> d, version |-> @.version + 1]]

MayRetry(attempt) == attempt + 1 < MaxRetries

-----------------------------------------------------------------------------
(* The listener: the parts of the order one after the other.               *)

\* A new part, or the same one again after a conflict.
ReadWip(e, p) ==
    /\ AtEvent(e, "read")
    /\ IF event[e].attempt = 0 THEN p \in event[e].todo ELSE p = event[e].part
    /\ LET v == wip[<<e[1], p>>].version
       IN  event' = [event EXCEPT ![e].next = "write", ![e].part = p, ![e].seen = v,
                                  ![e].first = IF event[e].attempt = 0 THEN v ELSE @]
    /\ UNCHANGED <<rowVars, stageVars, ret, missed>>

\* When the attempts run out the listener throws: the parts that are left
\* are not updated either.
WipConflict(e) ==
    /\ IF MayRetry(event[e].attempt)
         THEN /\ event' = [event EXCEPT ![e].next = "read", ![e].attempt = @ + 1]
              /\ UNCHANGED missed
         ELSE /\ EndEvent(e)
              /\ missed' = [missed EXCEPT ![e[1]] = TRUE]
    /\ UNCHANGED rowVars

NextPartSkippingRest(e) == EndEvent(e)
NextPart(e) ==
    IF event[e].todo = {event[e].part}
      THEN EndEvent(e)
      ELSE event' = [event EXCEPT ![e] = Handle(@.dozens, @.todo \ {@.part})]

WriteWip(e) ==
    /\ AtEvent(e, "write")
    /\ LET k == <<e[1], event[e].part>>
       IN  IF VersionMatches(k, event[e].seen)
             THEN /\ WriteBalance(k, event[e].dozens)
                  /\ journal' = [journal EXCEPT ![k] = [set |-> event[e].dozens, back |-> 0]]
                  /\ NextPart(e)
                  /\ UNCHANGED <<part, missed>>
             ELSE WipConflict(e)
    /\ UNCHANGED <<stageVars, ret>>

\* The creation is retried after any error, not only that of the unique key.
CreateFails(e) ==
    /\ AtEvent(e, "write")
    /\ event[e].seen = 0
    /\ WipConflict(e)
    /\ UNCHANGED <<stageVars, ret>>

\* The server stops after the completion has committed, or a statement of the
\* listener fails.
LoseEvent(e) ==
    /\ event[e] # None
    /\ EndEvent(e)
    /\ missed' = [missed EXCEPT ![e[1]] = TRUE]
    /\ UNCHANGED <<rowVars, stageVars, ret>>

-----------------------------------------------------------------------------
(* create-return.                                                          *)

ReturnCheck(r, k, d) ==
    /\ ret[r] = None
    /\ d > 0
    /\ status[k[1]] \in {"IN_PRODUCTION", "PRODUCTION_COMPLETE"}
    /\ part[k] = "RELEASED"
    /\ ret' = [ret EXCEPT ![r] = [next |-> "read", row |-> k, dozens |-> d, have |-> 0,
                                 first |-> 0, seen |-> 0, attempt |-> 0]]
    /\ UNCHANGED <<rowVars, stageVars, event, missed>>

CoveredAnyway(k, d) == wip[k].version # 0
Covered(k, d) == wip[k].version # 0 /\ d <= wip[k].dozens

\* Every attempt reads the balance again and refuses what it does not cover.
ReadReturn(r) ==
    /\ AtReturn(r, "read")
    /\ LET k == ret[r].row
       IN  IF Covered(k, ret[r].dozens)
             THEN ret' = [ret EXCEPT ![r].next = "write", ![r].have = wip[k].dozens,
                                     ![r].seen = wip[k].version,
                                     ![r].first = IF ret[r].attempt = 0 THEN wip[k].version ELSE @]
             ELSE EndReturn(r)
    /\ UNCHANGED <<rowVars, stageVars, event, missed>>

RetryWithoutReading(r) ==
    IF MayRetry(ret[r].attempt)
      THEN ret' = [ret EXCEPT ![r].attempt = @ + 1]
      ELSE EndReturn(r)
RetryReturn(r) ==
    IF MayRetry(ret[r].attempt)
      THEN ret' = [ret EXCEPT ![r].next = "read", ![r].attempt = @ + 1]
      ELSE EndReturn(r)

\* A part whose balance reaches zero is RETURNED (BR-Rt05), and stays so.
WriteReturn(r) ==
    /\ AtReturn(r, "write")
    /\ LET k == ret[r].row
           remaining == ret[r].have - ret[r].dozens
       IN  IF VersionMatches(k, ret[r].seen)
             THEN /\ WriteBalance(k, remaining)
                  /\ journal' = [journal EXCEPT ![k].back = @ + ret[r].dozens]
                  /\ part' = IF remaining = 0 THEN [part EXCEPT ![k] = "RETURNED"] ELSE part
                  /\ EndReturn(r)
             ELSE RetryReturn(r) /\ UNCHANGED rowVars
    /\ UNCHANGED <<stageVars, event, missed>>

FailReturn(r) ==
    /\ ret[r] # None
    /\ EndReturn(r)
    /\ UNCHANGED <<rowVars, stageVars, event, missed>>

-----------------------------------------------------------------------------
Init ==
    /\ status = [o \in Orders |-> "IN_PRODUCTION"]
    /\ part = [k \in Rows |-> "RELEASED"]
    /\ done = [o \in Orders |-> 0]
    /\ output \in [Orders -> 0 .. MaxDozens]
    /\ wip = [k \in Rows |-> [dozens |-> 0, version |-> 0]]
    /\ event = [e \in Completions |-> None]
    /\ ret = [r \in Returners |-> None]
    /\ journal = [k \in Rows |-> [set |-> 0, back |-> 0]]
    /\ missed = [o \in Orders |-> FALSE]
    /\ inOrder = [o \in Orders |-> TRUE]

StageNext ==
    \E o \in Orders :
        \/ \E d \in 0 .. MaxDozens : CompleteStage(o, d)
        \/ CompleteOrder(o)
        \/ CloseOrder(o)

EventNext ==
    \E e \in Completions :
        \/ \E p \in OrderParts[e[1]] : ReadWip(e, p)
        \/ WriteWip(e)
        \/ CreateFails(e)
        \/ LoseEvent(e)

ReturnNext ==
    \E r \in Returners :
        \/ \E k \in Rows, d \in 1 .. MaxDozens : ReturnCheck(r, k, d)
        \/ ReadReturn(r)
        \/ WriteReturn(r)
        \/ FailReturn(r)

Next == StageNext \/ EventNext \/ ReturnNext

Spec == Init /\ [][Next]_vars

-----------------------------------------------------------------------------
(* Properties.                                                             *)

\* BR-W01, BR-Inv03: no update is lost.  The balance is exactly what the journal
\* adds up to, although the listener and the returns of concurrent requests
\* compute it from what they have read.
JournalExplainsBalance ==
    \A k \in Rows : wip[k].dozens = journal[k].set - journal[k].back

\* When no stage was completed while the event of an earlier one was handled,
\* and no event was dropped, every part of the order carries the output of the
\* last stage once its event has been handled, less what was returned since.
BalanceFollowsStages ==
    \A o \in Orders :
        inOrder[o] /\ ~missed[o] /\ Pending(o) = {} /\ done[o] > 0 =>
            \A p \in OrderParts[o] :
                wip[<<o, p>>].dozens + journal[<<o, p>>].back = output[o]

\* An attempt to update a row fails only because another one succeeded: the row
\* has been written at least as often as a request has had to try again, so
\* a return is refused, or an event dropped, only after MAX_RETRIES writes by
\* others.  (A creation is also retried after other errors.)
ConflictsMeanProgress ==
    /\ \A e \in Completions :
          event[e] # None /\ event[e].attempt > 0 /\ event[e].first > 0 =>
              wip[<<e[1], event[e].part>>].version >= event[e].first + event[e].attempt
    /\ \A r \in Returners :
          ret[r] # None /\ ret[r].attempt > 0 =>
              wip[ret[r].row].version >= ret[r].first + ret[r].attempt

=============================================================================
