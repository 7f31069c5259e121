---------------------------- MODULE WipLedgerProofs ----------------------------
(* Theorems about WipLedger, for any orders, parts, stages and requests.   *)
EXTENDS WipLedger, TLAPS

-----------------------------------------------------------------------------
(* The inductive invariant.                                                *)

Version(k) == wip[k].version

\* What a listener has read of a row is no newer than the row, and each of its
\* failed attempts to update it has seen a newer version.
ListenerSound(e) ==
    LET x == event[e]
        v == Version(<<e[1], x.part>>)
    IN  x # None =>
          /\ x.todo \subseteq OrderParts[e[1]]
          /\ x.next = "write" =>
               /\ x.part \in x.todo
               /\ x.seen <= v
               /\ x.first > 0 => x.seen >= x.first + x.attempt
          /\ x.next = "read" /\ x.attempt > 0 =>
               /\ x.part \in x.todo
               /\ x.first > 0 => v >= x.first + x.attempt

\* The same of a return; and if the row is still the one it has read, so is the
\* balance it has computed from.
ReturnSound(r) ==
    LET x == ret[r]
        v == Version(x.row)
    IN  x # None =>
          /\ x.next = "write" =>
               /\ x.seen <= v
               /\ x.seen = v => x.have = wip[x.row].dozens
               /\ x.dozens <= x.have
               /\ x.seen >= x.first + x.attempt
          /\ x.next = "read" /\ x.attempt > 0 => v >= x.first + x.attempt

Listeners == \A e \in Completions : ListenerSound(e)
Returns == \A r \in Returners : ReturnSound(r)

\* No listener runs for a stage that is not COMPLETE.
NothingAhead == \A o \in Orders, n \in 1 .. NumStages : n > done[o] => event[<<o, n>>] = None

\* While the events of o come one by one, only the last can be running, and
\* each part has either been given the last output or is about to be.
StageFollowed(o) ==
    inOrder[o] /\ ~missed[o] /\ done[o] > 0 =>
        /\ \A n \in 1 .. NumStages : n # done[o] => event[<<o, n>>] = None
        /\ event[<<o, done[o]>>] # None => event[<<o, done[o]>>].dozens = output[o]
        /\ \A p \in OrderParts[o] :
              \/ event[<<o, done[o]>>] # None /\ p \in event[<<o, done[o]>>].todo
              \/ journal[<<o, p>>].set = output[o]

StagesFollowed == \A o \in Orders : StageFollowed(o)

IInv == TypeOK /\ Listeners /\ Returns /\ JournalExplainsBalance /\ NothingAhead /\ StagesFollowed

-----------------------------------------------------------------------------
(* Rows and what a step may do to them.                                    *)

VersionsGrow == \A k \in Rows : wip'[k].version >= wip[k].version

\* The key of a part that an order has is that of a row.
LEMMA RowOfPart ==
  ASSUME NEW o \in Orders, NEW p \in OrderParts[o]
  PROVE  <<o, p>> \in Rows
  BY WipConstants DEF Rows

LEMMA RowWritten ==
  ASSUME TypeOK, NEW k \in Rows, NEW d \in Nat, WriteBalance(k, d)
  PROVE  /\ wip' \in [Rows -> [dozens : Nat, version : Nat]]
         /\ wip'[k].dozens = d
         /\ wip'[k].version = wip[k].version + 1
         /\ \A j \in Rows : j # k => wip'[j] = wip[j]
         /\ VersionsGrow
  <1> DEFINE new == [dozens |-> d, version |-> wip[k].version + 1]
  <1>1. wip \in [Rows -> [dozens : Nat, version : Nat]]
    BY DEF TypeOK
  <1>2. wip' = [wip EXCEPT ![k] = new]
    BY DEF WriteBalance
  <1>3. new \in [dozens : Nat, version : Nat]
    BY <1>1
  <1>4. wip'[k] = new /\ \A j \in Rows : j # k => wip'[j] = wip[j]
    BY <1>1, <1>2
  <1>5. \A j \in Rows : wip[j].version \in Nat
    BY <1>1
  <1> QED BY <1>1, <1>2, <1>3, <1>4, <1>5 DEF VersionsGrow

LEMMA RowsUnchanged ==
  ASSUME TypeOK, UNCHANGED wip
  PROVE  VersionsGrow
  BY DEF TypeOK, VersionsGrow

\* A listener that a step leaves alone stays sound, whoever writes rows.
LEMMA ListenerKept ==
  ASSUME TypeOK, TypeOK', VersionsGrow, NEW e \in Completions, ListenerSound(e), event'[e] = event[e]
  PROVE  ListenerSound(e)'
  <1> SUFFICES ASSUME event[e] # None PROVE ListenerSound(e)'
    BY DEF ListenerSound
  <1> DEFINE x == event[e]
  <1>1. x \in Listener /\ e[1] \in Orders
    BY DEF TypeOK, Completions
  <1>2. x.seen \in Nat /\ x.first \in Nat /\ x.attempt \in Nat
    BY <1>1 DEF Listener
  <1>3. x.part \in x.todo => <<e[1], x.part>> \in Rows
    BY <1>1, RowOfPart DEF ListenerSound
  <1>4. \A k \in Rows : wip[k].version \in Nat /\ wip'[k].version \in Nat
    BY DEF TypeOK
  <1> HIDE DEF x
  <1>5. <<e[1], x.part>> \in Rows =>
          /\ wip[<<e[1], x.part>>].version \in Nat
          /\ wip'[<<e[1], x.part>>].version \in Nat
          /\ wip'[<<e[1], x.part>>].version >= wip[<<e[1], x.part>>].version
    BY <1>4 DEF VersionsGrow
  <1> QED BY <1>2, <1>3, <1>5 DEF ListenerSound, Version, x

\* So does a return: a row that keeps its version keeps its balance.
LEMMA ReturnKept ==
  ASSUME TypeOK, TypeOK', VersionsGrow, NEW r \in Returners, ReturnSound(r), ret'[r] = ret[r],
         \A k \in Rows : wip'[k] = wip[k] \/ wip'[k].version > wip[k].version
  PROVE  ReturnSound(r)'
  <1> SUFFICES ASSUME ret[r] # None PROVE ReturnSound(r)'
    BY DEF ReturnSound
  <1> DEFINE x == ret[r]
  <1>1. x \in Return
    BY DEF TypeOK
  <1>2. x.row \in Rows /\ x.seen \in Nat /\ x.first \in Nat /\ x.attempt \in Nat
    BY <1>1 DEF Return
  <1>3. /\ wip[x.row].version \in Nat
        /\ wip'[x.row].version \in Nat
        /\ wip'[x.row].version >= wip[x.row].version
        /\ wip'[x.row] = wip[x.row] \/ wip'[x.row].version > wip[x.row].version
    BY <1>2 DEF TypeOK, VersionsGrow
  <1> HIDE DEF x
  <1> QED BY <1>2, <1>3 DEF ReturnSound, Version, x

-----------------------------------------------------------------------------
(* Type correctness.                                                       *)

LEMMA HandleType ==
  ASSUME NEW d \in Nat, NEW ps \in SUBSET Parts
  PROVE  Handle(d, ps) \in Listener
  BY DEF Handle, Listener

\* A listener that takes its next part, or stops.
LEMMA EventSet ==
  ASSUME TypeOK, NEW e \in Completions, NEW x \in Listener \union {None},
         event' = [event EXCEPT ![e] = x]
  PROVE  event' \in [Completions -> Listener \union {None}]
  BY DEF TypeOK

LEMMA RetSet ==
  ASSUME TypeOK, NEW r \in Returners, NEW x \in Return \union {None},
         ret' = [ret EXCEPT ![r] = x]
  PROVE  ret' \in [Returners -> Return \union {None}]
  BY DEF TypeOK

LEMMA EventOf ==
  ASSUME TypeOK, NEW e \in Completions, event[e] # None
  PROVE  /\ event[e] \in Listener
         /\ e[1] \in Orders /\ e[2] \in 1 .. NumStages /\ e = <<e[1], e[2]>>
         /\ event[e].dozens \in Nat /\ event[e].todo \in SUBSET Parts
         /\ event[e].first \in Nat /\ event[e].seen \in Nat /\ event[e].attempt \in Nat
         /\ event[e].next \in {"read", "write"}
  BY DEF TypeOK, Completions, Listener

LEMMA ReturnOf ==
  ASSUME TypeOK, NEW r \in Returners, ret[r] # None
  PROVE  /\ ret[r] \in Return
         /\ ret[r].row \in Rows
         /\ ret[r].dozens \in Nat /\ ret[r].have \in Nat
         /\ ret[r].first \in Nat /\ ret[r].seen \in Nat /\ ret[r].attempt \in Nat
         /\ ret[r].next \in {"read", "write"}
  BY DEF TypeOK, Return

\* After a conflict the listener reads again or stops.
LEMMA ConflictType ==
  ASSUME TypeOK, NEW e \in Completions, event[e] # None, WipConflict(e)
  PROVE  /\ event' \in [Completions -> Listener \union {None}]
         /\ missed' \in [Orders -> BOOLEAN]
  <1>1. CASE MayRetry(event[e].attempt)
    <2> DEFINE x == [event[e] EXCEPT !.next = "read", !.attempt = @ + 1]
    <2>1. x \in Listener
      <3>1. event[e] \in Listener /\ event[e].attempt + 1 \in Nat
        BY EventOf
      <3> QED BY <3>1 DEF Listener
    <2>2. event' = [event EXCEPT ![e] = x] /\ UNCHANGED missed
      BY <1>1 DEF WipConflict
    <2> HIDE DEF x
    <2> QED BY <2>1, <2>2, EventSet DEF TypeOK
  <1>2. CASE ~ MayRetry(event[e].attempt)
    BY <1>2, EventSet DEF WipConflict, EndEvent, TypeOK
  <1> QED BY <1>1, <1>2

LEMMA RowVarsType ==
  ASSUME TypeOK, UNCHANGED rowVars
  PROVE  /\ part' \in [Rows -> {"RELEASED", "RETURNED"}]
         /\ wip' \in [Rows -> [dozens : Nat, version : Nat]]
         /\ journal' \in [Rows -> [set : Nat, back : Nat]]
  BY DEF TypeOK, rowVars

LEMMA StageVarsType ==
  ASSUME TypeOK, UNCHANGED stageVars
  PROVE  /\ status' \in [Orders -> {"IN_PRODUCTION", "PRODUCTION_COMPLETE", "CLOSED"}]
         /\ done' \in [Orders -> 0 .. NumStages]
         /\ output' \in [Orders -> Nat]
         /\ inOrder' \in [Orders -> BOOLEAN]
  BY DEF TypeOK, stageVars

LEMMA StageTypeStep ==
  ASSUME TypeOK, StageNext
  PROVE  TypeOK'
  <1> PICK o \in Orders : \/ \E d \in 0 .. MaxDozens : CompleteStage(o, d)
                          \/ CompleteOrder(o)
                          \/ CloseOrder(o)
    BY DEF StageNext
  <1>1. ASSUME NEW d \in 0 .. MaxDozens, CompleteStage(o, d) PROVE TypeOK'
    <2>1. d \in Nat /\ done[o] + 1 \in 1 .. NumStages /\ done[o] + 1 \in 0 .. NumStages
      BY <1>1, WipConstants DEF CompleteStage, TypeOK
    <2>2. OrderParts[o] \in SUBSET Parts
      BY WipConstants
    <2>3. <<o, done[o] + 1>> \in Completions
      BY <2>1 DEF Completions
    <2>4. event' = [event EXCEPT ![<<o, done[o] + 1>>] = Handle(d, OrderParts[o])]
      BY <1>1 DEF CompleteStage
    <2>5. event' \in [Completions -> Listener \union {None}]
      BY <2>1, <2>2, <2>3, <2>4, HandleType, EventSet
    <2>6. done' \in [Orders -> 0 .. NumStages] /\ output' \in [Orders -> Nat]
      BY <1>1, <2>1 DEF CompleteStage, TypeOK
    <2>7. inOrder' \in [Orders -> BOOLEAN]
      <3>1. inOrder' = [inOrder EXCEPT ![o] = inOrder[o] /\ Pending(o) = {}]
        BY <1>1 DEF CompleteStage
      <3>2. (inOrder[o] /\ Pending(o) = {}) \in BOOLEAN
        OBVIOUS
      <3> QED BY <3>1, <3>2 DEF TypeOK
    <2> QED BY <1>1, <2>5, <2>6, <2>7, RowVarsType DEF CompleteStage, TypeOK
  <1>2. ASSUME CompleteOrder(o) \/ CloseOrder(o) PROVE TypeOK'
    BY <1>2, RowVarsType DEF CompleteOrder, CloseOrder, TypeOK
  <1> QED BY <1>1, <1>2

LEMMA EventTypeStep ==
  ASSUME TypeOK, Listeners, EventNext
  PROVE  TypeOK'
  <1> PICK e \in Completions : \/ \E p \in OrderParts[e[1]] : ReadWip(e, p)
                               \/ WriteWip(e)
                               \/ CreateFails(e)
                               \/ LoseEvent(e)
    BY DEF EventNext
  <1>1. ASSUME NEW p \in OrderParts[e[1]], ReadWip(e, p) PROVE TypeOK'
    <2>1. event[e] # None
      BY <1>1 DEF ReadWip, AtEvent
    <2>2. p \in Parts /\ <<e[1], p>> \in Rows
      BY <2>1, EventOf, RowOfPart, WipConstants
    <2>3. wip[<<e[1], p>>].version \in Nat
      BY <2>2 DEF TypeOK
    <2> DEFINE v == wip[<<e[1], p>>].version
               x == [event[e] EXCEPT !.next = "write", !.part = p, !.seen = v,
                       !.first = IF event[e].attempt = 0 THEN v ELSE @]
    <2>4. x \in Listener
      BY <2>1, <2>2, <2>3, EventOf DEF Listener
    <2>5. event' = [event EXCEPT ![e] = x]
      BY <1>1 DEF ReadWip
    <2> HIDE DEF x
    <2>6. event' \in [Completions -> Listener \union {None}]
      BY <2>4, <2>5, EventSet
    <2> QED BY <1>1, <2>6, RowVarsType, StageVarsType DEF ReadWip, TypeOK
  <1>2. ASSUME WriteWip(e) PROVE TypeOK'
    <2> DEFINE k == <<e[1], event[e].part>>
    <2>1. event[e] # None /\ event[e].next = "write"
      BY <1>2 DEF WriteWip, AtEvent
    <2>2. k \in Rows
      BY <2>1, EventOf, RowOfPart DEF Listeners, ListenerSound
    <2>3. CASE VersionMatches(k, event[e].seen)
      <3>1. /\ WriteBalance(k, event[e].dozens)
            /\ journal' = [journal EXCEPT ![k] = [set |-> event[e].dozens, back |-> 0]]
            /\ NextPart(e)
            /\ UNCHANGED <<part, missed>>
        BY <1>2, <2>3 DEF WriteWip
      <3>2. journal' \in [Rows -> [set : Nat, back : Nat]]
        BY <2>1, <2>2, <3>1, EventOf DEF TypeOK
      <3>3. wip' \in [Rows -> [dozens : Nat, version : Nat]]
        BY <2>1, <2>2, <3>1, EventOf, RowWritten
      <3>4. event' \in [Completions -> Listener \union {None}]
        <4>1. Handle(event[e].dozens, event[e].todo \ {event[e].part}) \in Listener
          BY <2>1, EventOf, HandleType
        <4> QED BY <3>1, <4>1, EventSet DEF NextPart, EndEvent
      <3> QED BY <1>2, <3>1, <3>2, <3>3, <3>4, StageVarsType DEF WriteWip, TypeOK
    <2>4. CASE ~ VersionMatches(k, event[e].seen)
      <3>1. WipConflict(e)
        BY <1>2, <2>4 DEF WriteWip
      <3>2. UNCHANGED rowVars
        BY <3>1 DEF WipConflict
      <3> QED BY <1>2, <2>1, <3>1, <3>2, ConflictType, RowVarsType, StageVarsType DEF WriteWip, TypeOK
    <2> QED BY <2>3, <2>4
  <1>3. ASSUME CreateFails(e) PROVE TypeOK'
    <2>1. event[e] # None /\ WipConflict(e) /\ UNCHANGED <<stageVars, ret>>
      BY <1>3 DEF CreateFails, AtEvent
    <2>2. UNCHANGED rowVars
      BY <2>1 DEF WipConflict
    <2> QED BY <2>1, <2>2, ConflictType, RowVarsType, StageVarsType DEF TypeOK
  <1>4. ASSUME LoseEvent(e) PROVE TypeOK'
    <2>1. event' \in [Completions -> Listener \union {None}]
      BY <1>4, EventSet DEF LoseEvent, EndEvent
    <2> QED BY <1>4, <2>1, RowVarsType, StageVarsType DEF LoseEvent, TypeOK
  <1> QED BY <1>1, <1>2, <1>3, <1>4

LEMMA RetryType ==
  ASSUME TypeOK, NEW r \in Returners, ret[r] # None, RetryReturn(r)
  PROVE  ret' \in [Returners -> Return \union {None}]
  <1>1. CASE MayRetry(ret[r].attempt)
    <2> DEFINE x == [ret[r] EXCEPT !.next = "read", !.attempt = @ + 1]
    <2>1. x \in Return
      <3>1. ret[r] \in Return /\ ret[r].attempt + 1 \in Nat
        BY ReturnOf
      <3> QED BY <3>1 DEF Return
    <2>2. ret' = [ret EXCEPT ![r] = x]
      BY <1>1 DEF RetryReturn
    <2> HIDE DEF x
    <2> QED BY <2>1, <2>2, RetSet
  <1>2. CASE ~ MayRetry(ret[r].attempt)
    BY <1>2, RetSet DEF RetryReturn, EndReturn
  <1> QED BY <1>1, <1>2

LEMMA ReturnTypeStep ==
  ASSUME TypeOK, Returns, ReturnNext
  PROVE  TypeOK'
  <1> PICK r \in Returners : \/ \E k \in Rows, d \in 1 .. MaxDozens : ReturnCheck(r, k, d)
                             \/ ReadReturn(r)
                             \/ WriteReturn(r)
                             \/ FailReturn(r)
    BY DEF ReturnNext
  <1>1. ASSUME NEW k \in Rows, NEW d \in 1 .. MaxDozens, ReturnCheck(r, k, d) PROVE TypeOK'
    <2> DEFINE x == [next |-> "read", row |-> k, dozens |-> d, have |-> 0,
                     first |-> 0, seen |-> 0, attempt |-> 0]
    <2>1. x \in Return
      BY WipConstants DEF Return
    <2>2. ret' = [ret EXCEPT ![r] = x]
      BY <1>1 DEF ReturnCheck
    <2> HIDE DEF x
    <2>3. ret' \in [Returners -> Return \union {None}]
      BY <2>1, <2>2, RetSet
    <2> QED BY <1>1, <2>3, RowVarsType, StageVarsType DEF ReturnCheck, TypeOK
  <1>2. ASSUME ReadReturn(r) PROVE TypeOK'
    <2> DEFINE k == ret[r].row
    <2>1. ret[r] # None
      BY <1>2 DEF ReadReturn, AtReturn
    <2>2. ret' \in [Returners -> Return \union {None}]
      <3>1. CASE Covered(k, ret[r].dozens)
        <4> DEFINE x == [ret[r] EXCEPT !.next = "write", !.have = wip[k].dozens,
                           !.seen = wip[k].version,
                           !.first = IF ret[r].attempt = 0 THEN wip[k].version ELSE @]
        <4>1. wip[k].dozens \in Nat /\ wip[k].version \in Nat
          BY <2>1, ReturnOf DEF TypeOK
        <4>2. x \in Return
          BY <2>1, <4>1, ReturnOf DEF Return
        <4>3. ret' = [ret EXCEPT ![r] = x]
          BY <1>2, <3>1 DEF ReadReturn
        <4> HIDE DEF x
        <4> QED BY <4>2, <4>3, RetSet
      <3>2. CASE ~ Covered(k, ret[r].dozens)
        BY <1>2, <3>2, RetSet DEF ReadReturn, EndReturn
      <3> QED BY <3>1, <3>2
    <2> QED BY <1>2, <2>2, RowVarsType, StageVarsType DEF ReadReturn, TypeOK
  <1>3. ASSUME WriteReturn(r) PROVE TypeOK'
    <2> DEFINE k == ret[r].row
               remaining == ret[r].have - ret[r].dozens
    <2>1. ret[r] # None /\ ret[r].next = "write"
      BY <1>3 DEF WriteReturn, AtReturn
    <2>2. remaining \in Nat /\ k \in Rows
      BY <2>1, ReturnOf DEF Returns, ReturnSound
    <2>3. CASE VersionMatches(k, ret[r].seen)
      <3>1. /\ WriteBalance(k, remaining)
            /\ journal' = [journal EXCEPT ![k].back = @ + ret[r].dozens]
            /\ part' = IF remaining = 0 THEN [part EXCEPT ![k] = "RETURNED"] ELSE part
            /\ EndReturn(r)
        BY <1>3, <2>3 DEF WriteReturn
      <3>2. journal' \in [Rows -> [set : Nat, back : Nat]]
        <4>1. [journal[k] EXCEPT !.back = @ + ret[r].dozens] \in [set : Nat, back : Nat]
          BY <2>1, <2>2, ReturnOf DEF TypeOK
        <4>2. journal' = [journal EXCEPT ![k] = [journal[k] EXCEPT !.back = @ + ret[r].dozens]]
          BY <3>1
        <4> QED BY <4>1, <4>2 DEF TypeOK
      <3>3. wip' \in [Rows -> [dozens : Nat, version : Nat]]
        BY <2>2, <3>1, RowWritten
      <3>4. ret' \in [Returners -> Return \union {None}]
        BY <3>1, RetSet DEF EndReturn
      <3>5. part' \in [Rows -> {"RELEASED", "RETURNED"}]
        BY <2>2, <3>1 DEF TypeOK
      <3> QED BY <1>3, <3>2, <3>3, <3>4, <3>5, StageVarsType DEF WriteReturn, TypeOK
    <2>4. CASE ~ VersionMatches(k, ret[r].seen)
      <3>1. RetryReturn(r) /\ UNCHANGED rowVars
        BY <1>3, <2>4 DEF WriteReturn
      <3> QED BY <1>3, <2>1, <3>1, RetryType, RowVarsType, StageVarsType DEF WriteReturn, TypeOK
    <2> QED BY <2>3, <2>4
  <1>4. ASSUME FailReturn(r) PROVE TypeOK'
    <2>1. ret' \in [Returners -> Return \union {None}]
      BY <1>4, RetSet DEF FailReturn, EndReturn
    <2> QED BY <1>4, <2>1, RowVarsType, StageVarsType DEF FailReturn, TypeOK
  <1> QED BY <1>1, <1>2, <1>3, <1>4

LEMMA TypeStep ==
  ASSUME TypeOK, Listeners, Returns, [Next]_vars
  PROVE  TypeOK'
  <1>1. ASSUME UNCHANGED vars PROVE TypeOK'
    BY <1>1, RowVarsType, StageVarsType DEF vars, TypeOK
  <1> QED BY <1>1, StageTypeStep, EventTypeStep, ReturnTypeStep DEF Next

-----------------------------------------------------------------------------
(* The two ways a row is written, and what holds of every step because     *)
(* there is no third.                                                      *)

Given(e) == <<e[1], event[e].part>>

WipWritten(e) ==
    /\ event[e] # None
    /\ event[e].next = "write"
    /\ Given(e) \in Rows
    /\ wip[Given(e)].version = event[e].seen
    /\ WriteBalance(Given(e), event[e].dozens)
    /\ journal' = [journal EXCEPT ![Given(e)] = [set |-> event[e].dozens, back |-> 0]]
    /\ NextPart(e)
    /\ UNCHANGED <<part, missed, stageVars, ret>>

ReturnWritten(r) ==
    /\ ret[r] # None
    /\ ret[r].next = "write"
    /\ wip[ret[r].row].version = ret[r].seen
    /\ WriteBalance(ret[r].row, ret[r].have - ret[r].dozens)
    /\ journal' = [journal EXCEPT ![ret[r].row].back = @ + ret[r].dozens]
    /\ EndReturn(r)
    /\ UNCHANGED <<stageVars, event, missed>>

LEMMA WriteWipCases ==
  ASSUME TypeOK, Listeners, NEW e \in Completions, WriteWip(e)
  PROVE  \/ WipWritten(e)
         \/ /\ event[e] # None /\ event[e].next = "write" /\ wip[Given(e)].version # event[e].seen
            /\ WipConflict(e) /\ UNCHANGED <<rowVars, stageVars, ret>>
  <1>1. event[e] # None /\ event[e].next = "write"
    BY DEF WriteWip, AtEvent
  <1>2. Given(e) \in Rows
    BY <1>1, EventOf, RowOfPart DEF Listeners, ListenerSound, Given
  <1>3. CASE VersionMatches(Given(e), event[e].seen)
    BY <1>1, <1>2, <1>3 DEF WriteWip, WipWritten, VersionMatches, Given
  <1>4. CASE ~ VersionMatches(Given(e), event[e].seen)
    BY <1>1, <1>4 DEF WriteWip, WipConflict, VersionMatches, Given
  <1> QED BY <1>3, <1>4

LEMMA WriteReturnCases ==
  ASSUME NEW r \in Returners, WriteReturn(r)
  PROVE  \/ ReturnWritten(r)
         \/ /\ ret[r] # None /\ ret[r].next = "write" /\ wip[ret[r].row].version # ret[r].seen
            /\ RetryReturn(r) /\ UNCHANGED <<rowVars, stageVars, event, missed>>
  <1>1. ret[r] # None /\ ret[r].next = "write"
    BY DEF WriteReturn, AtReturn
  <1>2. CASE VersionMatches(ret[r].row, ret[r].seen)
    BY <1>1, <1>2 DEF WriteReturn, ReturnWritten, VersionMatches
  <1>3. CASE ~ VersionMatches(ret[r].row, ret[r].seen)
    BY <1>1, <1>3 DEF WriteReturn, VersionMatches
  <1> QED BY <1>2, <1>3

LEMMA RowsStep ==
  ASSUME TypeOK, Listeners, [Next]_vars
  PROVE  \/ UNCHANGED rowVars
         \/ \E e \in Completions : WipWritten(e)
         \/ \E r \in Returners : ReturnWritten(r)
  <1>1. ASSUME UNCHANGED vars PROVE UNCHANGED rowVars
    BY <1>1 DEF vars
  <1>2. ASSUME StageNext PROVE UNCHANGED rowVars
    BY <1>2 DEF StageNext, CompleteStage, CompleteOrder, CloseOrder
  <1>3. ASSUME EventNext PROVE UNCHANGED rowVars \/ \E e \in Completions : WipWritten(e)
    <2> PICK e \in Completions : \/ \E p \in OrderParts[e[1]] : ReadWip(e, p)
                                 \/ WriteWip(e)
                                 \/ CreateFails(e)
                                 \/ LoseEvent(e)
      BY <1>3 DEF EventNext
    <2>1. CASE WriteWip(e)
      BY <2>1, WriteWipCases
    <2>2. CASE ~ WriteWip(e)
      BY <2>2 DEF ReadWip, CreateFails, WipConflict, LoseEvent
    <2> QED BY <2>1, <2>2
  <1>4. ASSUME ReturnNext PROVE UNCHANGED rowVars \/ \E r \in Returners : ReturnWritten(r)
    <2> PICK r \in Returners : \/ \E k \in Rows, d \in 1 .. MaxDozens : ReturnCheck(r, k, d)
                               \/ ReadReturn(r)
                               \/ WriteReturn(r)
                               \/ FailReturn(r)
      BY <1>4 DEF ReturnNext
    <2>1. CASE WriteReturn(r)
      BY <2>1, WriteReturnCases
    <2>2. CASE ~ WriteReturn(r)
      BY <2>2 DEF ReturnCheck, ReadReturn, FailReturn
    <2> QED BY <2>1, <2>2
  <1> QED BY <1>1, <1>2, <1>3, <1>4 DEF Next

LEMMA ReturnRemaining ==
  ASSUME TypeOK, Returns, NEW r \in Returners, ReturnWritten(r)
  PROVE  /\ ret[r].row \in Rows
         /\ ret[r].have - ret[r].dozens \in Nat
         /\ ret[r].have = wip[ret[r].row].dozens
         /\ ret[r].dozens \in Nat
  BY ReturnOf DEF ReturnWritten, Returns, ReturnSound, Version

\* A row that changes gets a new version.
LEMMA VersionsStep ==
  ASSUME TypeOK, Listeners, Returns, [Next]_vars
  PROVE  /\ VersionsGrow
         /\ \A k \in Rows : wip'[k] = wip[k] \/ wip'[k].version > wip[k].version
  <1>1. CASE UNCHANGED rowVars
    BY <1>1, RowsUnchanged DEF rowVars
  <1>2. ASSUME NEW k \in Rows, NEW d \in Nat, WriteBalance(k, d)
        PROVE  /\ VersionsGrow
               /\ \A j \in Rows : wip'[j] = wip[j] \/ wip'[j].version > wip[j].version
    <2>1. wip[k].version \in Nat
      BY DEF TypeOK
    <2> QED BY <1>2, <2>1, RowWritten
  <1>3. ASSUME NEW e \in Completions, WipWritten(e)
        PROVE  Given(e) \in Rows /\ event[e].dozens \in Nat /\ WriteBalance(Given(e), event[e].dozens)
    BY <1>3, EventOf DEF WipWritten
  <1>4. ASSUME NEW r \in Returners, ReturnWritten(r)
        PROVE  /\ ret[r].row \in Rows /\ ret[r].have - ret[r].dozens \in Nat
               /\ WriteBalance(ret[r].row, ret[r].have - ret[r].dozens)
    BY <1>4, ReturnRemaining DEF ReturnWritten
  <1> QED BY <1>1, <1>2, <1>3, <1>4, RowsStep

\* A return subtracts from the balance it has read only if that is still the
\* balance.
LEMMA JournalStep ==
  ASSUME TypeOK, Listeners, Returns, JournalExplainsBalance, [Next]_vars
  PROVE  JournalExplainsBalance'
  <1>1. CASE UNCHANGED rowVars
    BY <1>1 DEF rowVars, JournalExplainsBalance
  <1>2. ASSUME NEW e \in Completions, WipWritten(e) PROVE JournalExplainsBalance'
    <2> DEFINE k == Given(e)
    <2>1. k \in Rows /\ event[e].dozens \in Nat
      BY <1>2, EventOf DEF WipWritten
    <2>2. wip'[k].dozens = event[e].dozens /\ \A j \in Rows : j # k => wip'[j] = wip[j]
      BY <1>2, <2>1, RowWritten DEF WipWritten
    <2>3. /\ journal'[k] = [set |-> event[e].dozens, back |-> 0]
          /\ \A j \in Rows : j # k => journal'[j] = journal[j]
      BY <1>2, <2>1 DEF WipWritten, TypeOK
    <2> QED BY <2>1, <2>2, <2>3 DEF JournalExplainsBalance
  <1>3. ASSUME NEW r \in Returners, ReturnWritten(r) PROVE JournalExplainsBalance'
    <2> DEFINE k == ret[r].row
    <2>1. /\ k \in Rows /\ ret[r].have - ret[r].dozens \in Nat
          /\ ret[r].have = wip[k].dozens /\ ret[r].dozens \in Nat
      BY <1>3, ReturnRemaining
    <2>2. /\ wip'[k].dozens = wip[k].dozens - ret[r].dozens
          /\ \A j \in Rows : j # k => wip'[j] = wip[j]
      BY <1>3, <2>1, RowWritten DEF ReturnWritten
    <2>3. /\ journal'[k].set = journal[k].set
          /\ journal'[k].back = journal[k].back + ret[r].dozens
          /\ \A j \in Rows : j # k => journal'[j] = journal[j]
      BY <1>3, <2>1 DEF ReturnWritten, TypeOK
    <2>4. journal[k].set \in Nat /\ journal[k].back \in Nat
      BY <2>1 DEF TypeOK
    <2> HIDE DEF k
    <2> QED BY <2>1, <2>2, <2>3, <2>4 DEF JournalExplainsBalance
  <1> QED BY <1>1, <1>2, <1>3, RowsStep

-----------------------------------------------------------------------------
(* Every attempt that fails has seen a newer version.                      *)

\* A listener with its next part before it is sound, and so is one that ends.
LEMMA FreshListener ==
  ASSUME NEW e \in Completions, NEW d, NEW ps \in SUBSET OrderParts[e[1]],
         event'[e] = Handle(d, ps) \/ event'[e] = None
  PROVE  ListenerSound(e)'
  BY DEF ListenerSound, Handle

LEMMA ConflictSound ==
  ASSUME TypeOK, NEW e \in Completions, ListenerSound(e), event[e] # None, event[e].next = "write",
         \/ wip[Given(e)].version # event[e].seen
         \/ event[e].seen = 0,
         WipConflict(e)
  PROVE  ListenerSound(e)'
  <1> DEFINE x == event[e]
  <1>1. x \in Listener /\ x.seen \in Nat /\ x.first \in Nat /\ x.attempt \in Nat
    BY EventOf
  <1>2. /\ x.todo \subseteq OrderParts[e[1]] /\ x.part \in x.todo
        /\ x.seen <= wip[Given(e)].version
        /\ x.first > 0 => x.seen >= x.first + x.attempt
    BY DEF ListenerSound, Version, Given
  <1>3. wip[Given(e)].version \in Nat /\ wip' = wip
    <2>1. Given(e) \in Rows
      BY <1>2, EventOf, RowOfPart DEF Given
    <2> QED BY <2>1 DEF TypeOK, WipConflict, rowVars
  <1>4. x.first > 0 => wip[Given(e)].version >= x.first + (x.attempt + 1)
    BY <1>1, <1>2, <1>3
  <1>5. CASE MayRetry(x.attempt)
    <2>1. event'[e] = [x EXCEPT !.next = "read", !.attempt = @ + 1]
      BY <1>5 DEF WipConflict, TypeOK
    <2>2. /\ event'[e].todo = x.todo /\ event'[e].part = x.part /\ event'[e].first = x.first
          /\ event'[e].next = "read" /\ event'[e].attempt = x.attempt + 1
      BY <1>1, <2>1 DEF Listener
    <2> HIDE DEF x
    <2> QED BY <1>2, <1>3, <1>4, <2>2 DEF ListenerSound, Version, Given, x
  <1>6. CASE ~ MayRetry(x.attempt)
    BY <1>6 DEF WipConflict, EndEvent, TypeOK, ListenerSound
  <1> QED BY <1>5, <1>6

LEMMA ReadSound ==
  ASSUME TypeOK, NEW e \in Completions, ListenerSound(e), NEW p \in OrderParts[e[1]], ReadWip(e, p)
  PROVE  ListenerSound(e)'
  <1> DEFINE x == event[e]
             v == wip[<<e[1], p>>].version
  <1>1. x # None /\ x.next = "read"
    BY DEF ReadWip, AtEvent
  <1>2. x \in Listener /\ x.first \in Nat /\ x.attempt \in Nat
    BY <1>1, EventOf
  <1>3. v \in Nat /\ wip' = wip
    <2>1. <<e[1], p>> \in Rows
      BY <1>1, EventOf, RowOfPart
    <2> QED BY <2>1 DEF TypeOK, ReadWip, rowVars
  <1>4. event'[e] = [x EXCEPT !.next = "write", !.part = p, !.seen = v,
                              !.first = IF x.attempt = 0 THEN v ELSE @]
    BY DEF ReadWip, TypeOK
  <1>5. /\ event'[e].todo = x.todo /\ event'[e].part = p /\ event'[e].seen = v
        /\ event'[e].first = IF x.attempt = 0 THEN v ELSE x.first
        /\ event'[e].next = "write" /\ event'[e].attempt = x.attempt
    BY <1>2, <1>4 DEF Listener
  <1>6. x.todo \subseteq OrderParts[e[1]] /\ p \in x.todo
    BY <1>1, <1>2 DEF ReadWip, ListenerSound
  <1>7. x.attempt > 0 => (x.first > 0 => v >= x.first + x.attempt)
    BY <1>1, <1>2 DEF ReadWip, ListenerSound, Version
  <1> HIDE DEF x, v
  <1>8. event'[e].first > 0 => v >= event'[e].first + event'[e].attempt
    BY <1>2, <1>3, <1>5, <1>7
  <1>9. v <= v /\ wip'[<<e[1], p>>].version = v
    BY <1>3 DEF v
  <1> QED BY <1>5, <1>6, <1>8, <1>9 DEF ListenerSound, Version

LEMMA ListenersStep ==
  ASSUME TypeOK, TypeOK', Listeners, Returns, [Next]_vars
  PROVE  Listeners'
  <1> SUFFICES ASSUME NEW e \in Completions PROVE ListenerSound(e)'
    BY DEF Listeners
  <1>1. ListenerSound(e) /\ VersionsGrow
    BY VersionsStep DEF Listeners
  <1>2. CASE event'[e] = event[e]
    BY <1>1, <1>2, ListenerKept
  <1>3. ASSUME StageNext, event'[e] # event[e] PROVE ListenerSound(e)'
    <2> PICK o \in Orders, d \in 0 .. MaxDozens : CompleteStage(o, d)
      BY <1>3 DEF StageNext, CompleteOrder, CloseOrder
    <2>1. event' = [event EXCEPT ![<<o, done[o] + 1>>] = Handle(d, OrderParts[o])]
      BY DEF CompleteStage
    <2>2. e = <<o, done[o] + 1>> /\ event'[e] = Handle(d, OrderParts[o])
      BY <1>3, <2>1 DEF TypeOK
    <2>3. OrderParts[o] \in SUBSET OrderParts[e[1]]
      BY <2>2
    <2> QED BY <2>2, <2>3, FreshListener
  <1>4. ASSUME EventNext, event'[e] # event[e] PROVE ListenerSound(e)'
    <2> PICK f \in Completions : \/ \E p \in OrderParts[f[1]] : ReadWip(f, p)
                                 \/ WriteWip(f)
                                 \/ CreateFails(f)
                                 \/ LoseEvent(f)
      BY <1>4 DEF EventNext
    <2>1. f = e
      BY <1>4 DEF ReadWip, WriteWip, CreateFails, LoseEvent, WipConflict, NextPart, EndEvent, TypeOK
    <2>2. CASE \E p \in OrderParts[e[1]] : ReadWip(e, p)
      BY <1>1, <2>2, ReadSound
    <2>3. CASE WipWritten(e)
      <3>1. event[e].todo \ {event[e].part} \in SUBSET OrderParts[e[1]] /\ {} \in SUBSET OrderParts[e[1]]
        BY <1>1, <2>3 DEF ListenerSound, WipWritten
      <3>2. \/ event'[e] = Handle(event[e].dozens, event[e].todo \ {event[e].part})
            \/ event'[e] = None
        BY <2>3 DEF WipWritten, NextPart, EndEvent, TypeOK
      <3> QED BY <3>1, <3>2, FreshListener
    <2>4. CASE WriteWip(e) /\ ~ WipWritten(e)
      BY <1>1, <2>4, WriteWipCases, ConflictSound
    <2>5. CASE CreateFails(e)
      BY <1>1, <2>5, ConflictSound DEF CreateFails, AtEvent
    <2>6. CASE LoseEvent(e)
      BY <2>6 DEF LoseEvent, EndEvent, TypeOK, ListenerSound
    <2> QED BY <2>1, <2>2, <2>3, <2>4, <2>5, <2>6
  <1>5. ASSUME ReturnNext PROVE event'[e] = event[e]
    BY <1>5 DEF ReturnNext, ReturnCheck, ReadReturn, WriteReturn, FailReturn
  <1> QED BY <1>2, <1>3, <1>4, <1>5 DEF Next, vars

LEMMA ReadReturnSound ==
  ASSUME TypeOK, NEW r \in Returners, ReturnSound(r), ReadReturn(r)
  PROVE  ReturnSound(r)'
  <1> DEFINE x == ret[r]
             v == wip[x.row].version
             b == wip[x.row].dozens
  <1>1. x # None /\ x.next = "read" /\ wip' = wip
    BY DEF ReadReturn, AtReturn, rowVars
  <1>2. x \in Return /\ x.row \in Rows /\ x.first \in Nat /\ x.attempt \in Nat /\ x.dozens \in Nat
    BY <1>1, ReturnOf
  <1>3. v \in Nat /\ b \in Nat
    BY <1>2 DEF TypeOK
  <1>4. CASE Covered(x.row, x.dozens)
    <2>1. ret'[r] = [x EXCEPT !.next = "write", !.have = b, !.seen = v,
                              !.first = IF x.attempt = 0 THEN v ELSE @]
      BY <1>4 DEF ReadReturn, TypeOK
    <2>2. /\ ret'[r].row = x.row /\ ret'[r].dozens = x.dozens /\ ret'[r].have = b
          /\ ret'[r].seen = v /\ ret'[r].next = "write" /\ ret'[r].attempt = x.attempt
          /\ ret'[r].first = IF x.attempt = 0 THEN v ELSE x.first
      BY <1>2, <2>1 DEF Return
    <2>3. x.dozens <= b
      BY <1>4 DEF Covered
    <2>4. x.attempt > 0 => v >= x.first + x.attempt
      BY <1>1 DEF ReturnSound, Version
    <2>5. wip'[x.row].version = v /\ wip'[x.row].dozens = b
      BY <1>1
    <2> HIDE DEF x, v, b
    <2>6. v >= ret'[r].first + ret'[r].attempt /\ v <= v
      BY <1>2, <1>3, <2>2, <2>4
    <2> QED BY <2>2, <2>3, <2>5, <2>6 DEF ReturnSound, Version
  <1>5. CASE ~ Covered(x.row, x.dozens)
    BY <1>5 DEF ReadReturn, EndReturn, TypeOK, ReturnSound
  <1> QED BY <1>4, <1>5

LEMMA RetrySound ==
  ASSUME TypeOK, NEW r \in Returners, ReturnSound(r), ret[r] # None, ret[r].next = "write",
         wip[ret[r].row].version # ret[r].seen, RetryReturn(r), UNCHANGED rowVars
  PROVE  ReturnSound(r)'
  <1> DEFINE x == ret[r]
             v == wip[x.row].version
  <1>1. /\ x \in Return /\ x.row \in Rows
        /\ x.first \in Nat /\ x.attempt \in Nat /\ x.seen \in Nat
    BY ReturnOf
  <1>2. v \in Nat /\ wip' = wip
    BY <1>1 DEF TypeOK, rowVars
  <1>3. v >= x.first + (x.attempt + 1)
    BY <1>1, <1>2 DEF ReturnSound, Version
  <1>4. CASE MayRetry(x.attempt)
    <2>1. ret'[r] = [x EXCEPT !.next = "read", !.attempt = @ + 1]
      BY <1>4 DEF RetryReturn, TypeOK
    <2>2. /\ ret'[r].row = x.row /\ ret'[r].first = x.first
          /\ ret'[r].next = "read" /\ ret'[r].attempt = x.attempt + 1
      BY <1>1, <2>1 DEF Return
    <2> QED BY <1>2, <1>3, <2>2 DEF ReturnSound, Version
  <1>5. CASE ~ MayRetry(x.attempt)
    BY <1>5 DEF RetryReturn, EndReturn, TypeOK, ReturnSound
  <1> QED BY <1>4, <1>5

LEMMA ReturnsStep ==
  ASSUME TypeOK, TypeOK', Listeners, Returns, [Next]_vars
  PROVE  Returns'
  <1> SUFFICES ASSUME NEW r \in Returners PROVE ReturnSound(r)'
    BY DEF Returns
  <1>1. ReturnSound(r)
    BY DEF Returns
  <1>2. CASE ret'[r] = ret[r]
    BY <1>1, <1>2, VersionsStep, ReturnKept
  <1>3. ASSUME StageNext \/ EventNext PROVE ret'[r] = ret[r]
    BY <1>3 DEF StageNext, CompleteStage, CompleteOrder, CloseOrder,
                EventNext, ReadWip, WriteWip, CreateFails, LoseEvent
  <1>4. ASSUME ReturnNext, ret'[r] # ret[r] PROVE ReturnSound(r)'
    <2> PICK q \in Returners : \/ \E k \in Rows, d \in 1 .. MaxDozens : ReturnCheck(q, k, d)
                               \/ ReadReturn(q)
                               \/ WriteReturn(q)
                               \/ FailReturn(q)
      BY <1>4 DEF ReturnNext
    <2>1. q = r
      BY <1>4 DEF ReturnCheck, ReadReturn, WriteReturn, FailReturn, RetryReturn, EndReturn, TypeOK
    <2>2. ASSUME NEW k \in Rows, NEW d \in 1 .. MaxDozens, ReturnCheck(r, k, d)
          PROVE  ReturnSound(r)'
      <3>1. ret'[r] = [next |-> "read", row |-> k, dozens |-> d, have |-> 0,
                       first |-> 0, seen |-> 0, attempt |-> 0]
        BY <2>2 DEF ReturnCheck, TypeOK
      <3> QED BY <3>1 DEF ReturnSound
    <2>3. CASE ReadReturn(r)
      BY <1>1, <2>3, ReadReturnSound
    <2>4. CASE ReturnWritten(r)
      BY <2>4 DEF ReturnWritten, EndReturn, TypeOK, ReturnSound
    <2>5. CASE WriteReturn(r) /\ ~ ReturnWritten(r)
      BY <1>1, <2>5, WriteReturnCases, RetrySound
    <2>6. CASE FailReturn(r)
      BY <2>6 DEF FailReturn, EndReturn, TypeOK, ReturnSound
    <2> QED BY <2>1, <2>2, <2>3, <2>4, <2>5, <2>6
  <1> QED BY <1>2, <1>3, <1>4 DEF Next, vars

-----------------------------------------------------------------------------
(* The balance follows the stages.                                         *)

LEMMA AheadStep ==
  ASSUME TypeOK, NothingAhead, [Next]_vars
  PROVE  NothingAhead'
  <1> SUFFICES ASSUME NEW o \in Orders, NEW n \in 1 .. NumStages, n > done'[o]
               PROVE  event'[<<o, n>>] = None
    BY DEF NothingAhead
  <1>1. <<o, n>> \in Completions
    BY DEF Completions
  <1>2. ASSUME NEW u \in Orders, NEW d \in 0 .. MaxDozens, CompleteStage(u, d)
        PROVE  event'[<<o, n>>] = None
    <2>1. /\ done' = [done EXCEPT ![u] = done[u] + 1]
          /\ event' = [event EXCEPT ![<<u, done[u] + 1>>] = Handle(d, OrderParts[u])]
      BY <1>2 DEF CompleteStage
    <2>2. done[o] \in 0 .. NumStages
      BY DEF TypeOK
    <2>3. CASE u = o
      BY <1>1, <2>1, <2>2, <2>3 DEF TypeOK, NothingAhead
    <2>4. CASE u # o
      BY <1>1, <2>1, <2>2, <2>4 DEF TypeOK, NothingAhead
    <2> QED BY <2>3, <2>4
  <1>3. ASSUME UNCHANGED done, \/ UNCHANGED event
                               \/ \E e \in Completions : event[e] # None /\ \A f \in Completions :
                                                             f # e => event'[f] = event[f]
        PROVE  event'[<<o, n>>] = None
    BY <1>1, <1>3 DEF NothingAhead
  <1>4. ASSUME EventNext
        PROVE  UNCHANGED done /\ \E e \in Completions : event[e] # None /\ \A f \in Completions :
                                                            f # e => event'[f] = event[f]
    <2> PICK e \in Completions : \/ \E p \in OrderParts[e[1]] : ReadWip(e, p)
                                 \/ WriteWip(e)
                                 \/ CreateFails(e)
                                 \/ LoseEvent(e)
      BY <1>4 DEF EventNext
    <2>1. UNCHANGED done
      BY DEF ReadWip, WriteWip, CreateFails, LoseEvent, stageVars
    <2>2. event[e] # None
      BY DEF ReadWip, WriteWip, CreateFails, LoseEvent, AtEvent
    <2>3. \A f \in Completions : f # e => event'[f] = event[f]
      BY DEF ReadWip, WriteWip, CreateFails, LoseEvent, WipConflict, NextPart, EndEvent, TypeOK
    <2> QED BY <2>1, <2>2, <2>3
  <1>5. ASSUME ReturnNext PROVE UNCHANGED <<done, event>>
    BY <1>5 DEF ReturnNext, ReturnCheck, ReadReturn, WriteReturn, FailReturn, stageVars
  <1>6. ASSUME NEW u \in Orders, CompleteOrder(u) \/ CloseOrder(u) PROVE UNCHANGED <<done, event>>
    BY <1>6 DEF CompleteOrder, CloseOrder
  <1> QED BY <1>2, <1>3, <1>4, <1>5, <1>6 DEF Next, StageNext, vars, stageVars

\* What o's stages promise survives when its listeners keep their work and its
\* journal its last output.
LEMMA StageKept ==
  ASSUME TypeOK, NEW o \in Orders, StageFollowed(o),
         done'[o] = done[o], output'[o] = output[o], inOrder'[o] = inOrder[o],
         missed'[o] = missed[o],
         \A n \in 1 .. NumStages :
            \/ event'[<<o, n>>] = event[<<o, n>>]
            \/ /\ event[<<o, n>>] # None /\ event'[<<o, n>>] # None
               /\ event'[<<o, n>>].todo = event[<<o, n>>].todo
               /\ event'[<<o, n>>].dozens = event[<<o, n>>].dozens,
         \A p \in OrderParts[o] : journal'[<<o, p>>].set = journal[<<o, p>>].set
  PROVE  StageFollowed(o)'
  <1> SUFFICES ASSUME inOrder'[o], ~missed'[o], done'[o] > 0 PROVE StageFollowed(o)'
    BY DEF StageFollowed
  <1>1. done[o] \in 1 .. NumStages
    BY WipConstants DEF TypeOK
  <1>2. inOrder[o] /\ ~missed[o] /\ done[o] > 0
    OBVIOUS
  <1> QED BY <1>1, <1>2 DEF StageFollowed

\* A listener that goes on keeps the parts it has to do.
LEMMA ListenerGoesOn ==
  ASSUME TypeOK, NEW e \in Completions, event[e] # None,
         \/ \E p \in OrderParts[e[1]] : ReadWip(e, p)
         \/ WipConflict(e) /\ MayRetry(event[e].attempt)
  PROVE  /\ \A f \in Completions : f # e => event'[f] = event[f]
         /\ event'[e] # None
         /\ event'[e].todo = event[e].todo /\ event'[e].dozens = event[e].dozens
         /\ UNCHANGED <<rowVars, missed>>
  <1>1. event[e] \in Listener /\ event[e].attempt \in Nat /\ event[e].attempt + 1 \in Nat
    BY EventOf
  <1>2. ASSUME NEW p \in OrderParts[e[1]], ReadWip(e, p)
        PROVE  /\ \A f \in Completions : f # e => event'[f] = event[f]
               /\ event'[e] # None
               /\ event'[e].todo = event[e].todo /\ event'[e].dozens = event[e].dozens
               /\ UNCHANGED <<rowVars, missed>>
    <2> DEFINE v == wip[<<e[1], p>>].version
    <2>1. event' = [event EXCEPT ![e] = [event[e] EXCEPT !.next = "write", !.part = p, !.seen = v,
                                           !.first = IF event[e].attempt = 0 THEN v ELSE @]]
      BY <1>2 DEF ReadWip
    <2>2. event'[e] = [event[e] EXCEPT !.next = "write", !.part = p, !.seen = v,
                                       !.first = IF event[e].attempt = 0 THEN v ELSE @]
      BY <2>1 DEF TypeOK
    <2>3. event'[e].todo = event[e].todo /\ event'[e].dozens = event[e].dozens
      BY <1>1, <2>2 DEF Listener
    <2>4. event'[e] \in Listener
      <3>1. <<e[1], p>> \in Rows /\ p \in Parts
        BY EventOf, RowOfPart, WipConstants
      <3>2. v \in Nat
        BY <3>1 DEF TypeOK
      <3> QED BY <1>1, <2>2, <3>1, <3>2 DEF Listener
    <2> QED BY <1>2, <2>1, <2>3, <2>4, NoneIsNoCall DEF ReadWip, TypeOK
  <1>3. ASSUME WipConflict(e), MayRetry(event[e].attempt)
        PROVE  /\ \A f \in Completions : f # e => event'[f] = event[f]
               /\ event'[e] # None
               /\ event'[e].todo = event[e].todo /\ event'[e].dozens = event[e].dozens
               /\ UNCHANGED <<rowVars, missed>>
    <2>1. event'[e] = [event[e] EXCEPT !.next = "read", !.attempt = @ + 1]
      BY <1>3 DEF WipConflict, TypeOK
    <2>2. event'[e].todo = event[e].todo /\ event'[e].dozens = event[e].dozens
      BY <1>1, <2>1 DEF Listener
    <2>3. event'[e] \in Listener
      BY <1>1, <2>1 DEF Listener
    <2> QED BY <1>3, <2>2, <2>3, NoneIsNoCall DEF WipConflict, TypeOK
  <1> QED BY <1>2, <1>3

LEMMA CompleteStageFollowed ==
  ASSUME TypeOK, NothingAhead, StagesFollowed, NEW o \in Orders,
         NEW u \in Orders, NEW d \in 0 .. MaxDozens, CompleteStage(u, d)
  PROVE  StageFollowed(o)'
  <1>1. /\ done' = [done EXCEPT ![u] = done[u] + 1]
        /\ output' = [output EXCEPT ![u] = d]
        /\ event' = [event EXCEPT ![<<u, done[u] + 1>>] = Handle(d, OrderParts[u])]
        /\ inOrder' = [inOrder EXCEPT ![u] = inOrder[u] /\ Pending(u) = {}]
        /\ UNCHANGED <<rowVars, missed>>
    BY DEF CompleteStage
  <1>2. done[u] \in Nat /\ done[u] + 1 \in 1 .. NumStages
    BY WipConstants DEF TypeOK, CompleteStage
  <1>3. CASE u = o
    <2> SUFFICES ASSUME inOrder'[o] PROVE StageFollowed(o)'
      BY DEF StageFollowed
    <2>1. Pending(o) = {}
      BY <1>1, <1>3 DEF TypeOK
    <2>2. done'[o] = done[o] + 1 /\ output'[o] = d
      BY <1>1, <1>3 DEF TypeOK
    <2>3. event'[<<o, done[o] + 1>>] = Handle(d, OrderParts[o])
      BY <1>1, <1>2, <1>3 DEF TypeOK, Completions
    <2>4. \A n \in 1 .. NumStages : n # done[o] + 1 => event'[<<o, n>>] = None
      <3> SUFFICES ASSUME NEW n \in 1 .. NumStages, n # done[o] + 1 PROVE event'[<<o, n>>] = None
        OBVIOUS
      <3>1. event[<<o, n>>] = None
        BY <2>1 DEF Pending
      <3>2. <<o, n>> \in Completions /\ <<o, n>> # <<o, done[o] + 1>>
        BY DEF Completions
      <3> QED BY <1>1, <1>3, <3>1, <3>2 DEF TypeOK
    <2>5. Handle(d, OrderParts[o]) # None
      BY HandleType, NoneIsNoCall, WipConstants
    <2>6. Handle(d, OrderParts[o]).dozens = d /\ Handle(d, OrderParts[o]).todo = OrderParts[o]
      BY DEF Handle
    <2> QED BY <2>2, <2>3, <2>4, <2>5, <2>6 DEF StageFollowed
  <1>4. CASE u # o
    <2>1. \A n \in 1 .. NumStages : event'[<<o, n>>] = event[<<o, n>>]
      BY <1>1, <1>4 DEF TypeOK, Completions
    <2>2. done'[o] = done[o] /\ output'[o] = output[o] /\ inOrder'[o] = inOrder[o]
      BY <1>1, <1>4 DEF TypeOK
    <2>3. journal' = journal /\ missed' = missed
      BY <1>1 DEF rowVars
    <2> QED BY <2>1, <2>2, <2>3, StageKept DEF StagesFollowed
  <1> QED BY <1>3, <1>4

\* The part that is written carries the output; the others are still to do, or done.
LEMMA WipWrittenFollowed ==
  ASSUME TypeOK, Listeners, StagesFollowed, NEW o \in Orders,
         NEW e \in Completions, WipWritten(e)
  PROVE  StageFollowed(o)'
  <1>1. e[1] \in Orders /\ e[2] \in 1 .. NumStages /\ e = <<e[1], e[2]>>
    BY EventOf DEF WipWritten
  <1>2. /\ \A f \in Completions : f # e => event'[f] = event[f]
        /\ UNCHANGED <<missed, stageVars>>
    BY DEF WipWritten, NextPart, EndEvent, TypeOK
  <1>3. /\ Given(e) \in Rows
        /\ journal'[Given(e)].set = event[e].dozens
        /\ \A j \in Rows : j # Given(e) => journal'[j] = journal[j]
    BY DEF WipWritten, TypeOK
  <1>4. \A p \in OrderParts[o] : <<o, p>> \in Rows
    BY RowOfPart
  <1>5. CASE e[1] # o
    <2>1. \A n \in 1 .. NumStages : <<o, n>> \in Completions /\ <<o, n>> # e
      BY <1>1, <1>5 DEF Completions
    <2>2. \A p \in OrderParts[o] : journal'[<<o, p>>] = journal[<<o, p>>]
      BY <1>3, <1>4, <1>5 DEF Given
    <2> QED BY <1>2, <2>1, <2>2, StageKept DEF StagesFollowed, stageVars
  <1>6. CASE e[1] = o
    <2> SUFFICES ASSUME inOrder[o], ~missed[o], done[o] > 0 PROVE StageFollowed(o)'
      BY <1>2 DEF StageFollowed, stageVars
    <2>1. done[o] \in 1 .. NumStages /\ done' = done /\ output' = output
      BY <1>2, WipConstants DEF TypeOK, stageVars
    <2>2. e = <<o, done[o]>> /\ event[e] # None
      <3>1. e = <<o, e[2]>> /\ event[e] # None
        BY <1>1, <1>6 DEF WipWritten
      <3>2. event[<<o, e[2]>>] # None
        BY <3>1
      <3>3. \A n \in 1 .. NumStages : n # done[o] => event[<<o, n>>] = None
        BY DEF StagesFollowed, StageFollowed
      <3>4. e[2] = done[o]
        BY <1>1, <3>2, <3>3
      <3> QED BY <3>1, <3>4
    <2>3. \A n \in 1 .. NumStages : n # done[o] => event'[<<o, n>>] = None
      BY <1>2, <2>2 DEF StagesFollowed, StageFollowed, Completions
    <2>4. event[e].dozens = output[o]
      BY <2>2 DEF StagesFollowed, StageFollowed
    <2>5. event[e].todo \in SUBSET OrderParts[o] /\ event[e].todo \in SUBSET Parts
      BY <1>6, <2>2, EventOf DEF Listeners, ListenerSound
    <2> DEFINE rest == event[e].todo \ {event[e].part}
               h == Handle(event[e].dozens, rest)
    <2>6. h # None /\ h.dozens = output[o] /\ h.todo = rest
      <3>1. h \in Listener
        BY <2>2, <2>5, EventOf, HandleType
      <3> QED BY <2>4, <3>1, NoneIsNoCall DEF Handle
    <2>7. \A p \in OrderParts[o] : p \in rest \/ journal'[<<o, p>>].set = output[o]
      <3> SUFFICES ASSUME NEW p \in OrderParts[o], p \notin rest
                   PROVE  journal'[<<o, p>>].set = output[o]
        OBVIOUS
      <3>1. CASE p = event[e].part
        BY <1>3, <1>6, <2>4, <3>1 DEF Given
      <3>2. CASE p # event[e].part
        <4>1. journal[<<o, p>>].set = output[o]
          BY <2>2, <3>2 DEF StagesFollowed, StageFollowed
        <4>2. journal'[<<o, p>>] = journal[<<o, p>>]
          BY <1>3, <1>4, <3>2 DEF Given
        <4> QED BY <4>1, <4>2
      <3> QED BY <3>1, <3>2
    <2>8. event'[e] = h \/ (event'[e] = None /\ event[e].todo = {event[e].part})
      BY DEF WipWritten, NextPart, EndEvent, TypeOK
    <2> HIDE DEF h
    <2>9. CASE event'[e] = h
      BY <2>1, <2>2, <2>3, <2>6, <2>7, <2>9 DEF StageFollowed
    <2>10. CASE event'[e] = None /\ event[e].todo = {event[e].part}
      <3>1. \A p \in OrderParts[o] : journal'[<<o, p>>].set = output[o]
        BY <2>7, <2>10
      <3> QED BY <2>1, <2>2, <2>3, <2>10, <3>1 DEF StageFollowed
    <2> QED BY <2>8, <2>9, <2>10
  <1> QED BY <1>5, <1>6

LEMMA StagesStep ==
  ASSUME TypeOK, Listeners, Returns, NothingAhead, StagesFollowed, [Next]_vars
  PROVE  StagesFollowed'
  <1> SUFFICES ASSUME NEW o \in Orders PROVE StageFollowed(o)'
    BY DEF StagesFollowed
  <1>1. StageFollowed(o) /\ \A p \in OrderParts[o] : <<o, p>> \in Rows
    BY RowOfPart DEF StagesFollowed
  <1>2. ASSUME UNCHANGED <<stageVars, event, missed, rowVars>> PROVE StageFollowed(o)'
    BY <1>1, <1>2, StageKept DEF stageVars, rowVars
  <1>3. ASSUME StageNext PROVE StageFollowed(o)'
    <2> PICK u \in Orders : \/ \E d \in 0 .. MaxDozens : CompleteStage(u, d)
                            \/ CompleteOrder(u)
                            \/ CloseOrder(u)
      BY <1>3 DEF StageNext
    <2>1. CASE \E d \in 0 .. MaxDozens : CompleteStage(u, d)
      BY <2>1, CompleteStageFollowed
    <2>2. CASE CompleteOrder(u) \/ CloseOrder(u)
      BY <1>1, <2>2, StageKept DEF CompleteOrder, CloseOrder, rowVars
    <2> QED BY <2>1, <2>2
  <1>4. ASSUME EventNext PROVE StageFollowed(o)'
    <2> PICK e \in Completions : \/ \E p \in OrderParts[e[1]] : ReadWip(e, p)
                                 \/ WriteWip(e)
                                 \/ CreateFails(e)
                                 \/ LoseEvent(e)
      BY <1>4 DEF EventNext
    <2>1. event[e] # None
      BY DEF ReadWip, WriteWip, CreateFails, LoseEvent, AtEvent
    <2>2. ASSUME \/ \E p \in OrderParts[e[1]] : ReadWip(e, p)
                 \/ WipConflict(e) /\ MayRetry(event[e].attempt),
                 UNCHANGED stageVars
          PROVE  StageFollowed(o)'
      <3>1. /\ \A f \in Completions : f # e => event'[f] = event[f]
            /\ event'[e] # None
            /\ event'[e].todo = event[e].todo /\ event'[e].dozens = event[e].dozens
            /\ UNCHANGED <<rowVars, missed>>
        BY <2>1, <2>2, ListenerGoesOn
      <3>2. \A n \in 1 .. NumStages :
              \/ event'[<<o, n>>] = event[<<o, n>>]
              \/ /\ event[<<o, n>>] # None /\ event'[<<o, n>>] # None
                 /\ event'[<<o, n>>].todo = event[<<o, n>>].todo
                 /\ event'[<<o, n>>].dozens = event[<<o, n>>].dozens
        BY <2>1, <3>1 DEF Completions
      <3> QED BY <1>1, <2>2, <3>1, <3>2, StageKept DEF stageVars, rowVars
    <2>3. ASSUME missed' = [missed EXCEPT ![e[1]] = TRUE], UNCHANGED <<rowVars, stageVars>>,
                 EndEvent(e)
          PROVE  StageFollowed(o)'
      <3>1. CASE e[1] = o
        BY <2>3, <3>1 DEF StageFollowed, TypeOK
      <3>2. CASE e[1] # o
        <4>1. \A n \in 1 .. NumStages : event'[<<o, n>>] = event[<<o, n>>]
          BY <2>3, <3>2 DEF EndEvent, TypeOK, Completions
        <4> QED BY <1>1, <2>3, <3>2, <4>1, StageKept DEF stageVars, rowVars, TypeOK
      <3> QED BY <3>1, <3>2
    <2>4. ASSUME WipConflict(e), UNCHANGED stageVars PROVE StageFollowed(o)'
      <3>1. CASE MayRetry(event[e].attempt)
        BY <2>2, <2>4, <3>1
      <3>2. CASE ~ MayRetry(event[e].attempt)
        BY <2>3, <2>4, <3>2 DEF WipConflict
      <3> QED BY <3>1, <3>2
    <2>5. CASE \E p \in OrderParts[e[1]] : ReadWip(e, p)
      BY <2>2, <2>5 DEF ReadWip
    <2>6. CASE WriteWip(e)
      BY <2>4, <2>6, WriteWipCases, WipWrittenFollowed
    <2>7. CASE CreateFails(e)
      BY <2>4, <2>7 DEF CreateFails
    <2>8. CASE LoseEvent(e)
      BY <2>3, <2>8 DEF LoseEvent
    <2> QED BY <2>5, <2>6, <2>7, <2>8
  <1>5. ASSUME ReturnNext PROVE StageFollowed(o)'
    <2> PICK r \in Returners : \/ \E k \in Rows, d \in 1 .. MaxDozens : ReturnCheck(r, k, d)
                               \/ ReadReturn(r)
                               \/ WriteReturn(r)
                               \/ FailReturn(r)
      BY <1>5 DEF ReturnNext
    <2>1. CASE ReturnWritten(r)
      <3>1. \A k \in Rows : journal'[k].set = journal[k].set
        BY <2>1 DEF ReturnWritten, TypeOK
      <3> QED BY <1>1, <2>1, <3>1, StageKept DEF ReturnWritten, stageVars
    <2>2. CASE ~ ReturnWritten(r)
      BY <1>2, <2>2, WriteReturnCases DEF ReturnCheck, ReadReturn, FailReturn
    <2> QED BY <2>1, <2>2
  <1> QED BY <1>2, <1>3, <1>4, <1>5 DEF Next, vars

-----------------------------------------------------------------------------
(* The theorems.                                                           *)

LEMMA InitIInv ==
  ASSUME Init
  PROVE  IInv
  <1>1. TypeOK
    BY WipConstants DEF Init, TypeOK
  <1>2. Listeners /\ Returns
    BY DEF Init, Listeners, ListenerSound, Returns, ReturnSound
  <1>3. JournalExplainsBalance
    BY DEF Init, JournalExplainsBalance
  <1>4. NothingAhead
    BY DEF Init, NothingAhead, Completions
  <1>5. StagesFollowed
    BY DEF Init, StagesFollowed, StageFollowed
  <1> QED BY <1>1, <1>2, <1>3, <1>4, <1>5 DEF IInv

\* However listeners, returns and failures interleave, whatever a request has
\* read of a row is older than the row or still true of it: the invariant that
\* process-stage-completion-wip and create-return rely on.
THEOREM WipInvariant == Spec => []IInv
  <1>1. IInv /\ [Next]_vars => IInv'
    BY TypeStep, ListenersStep, ReturnsStep, JournalStep, AheadStep, StagesStep DEF IInv
  <1> QED BY <1>1, InitIInv, PTL DEF Spec

\* Rows, listeners and returns keep their types: a return never writes a
\* negative balance (BR-W02).
THEOREM WipTypeCorrect == Spec => []TypeOK
  <1>1. IInv => TypeOK
    BY DEF IInv
  <1> QED BY <1>1, WipInvariant, PTL

\* BR-W01 and BR-Inv03 for any number of concurrent returns and listeners: the
\* optimistic versions of both repositories lose no update of wip_inventory.
THEOREM JournalExplainsBalanceCorrect == Spec => []JournalExplainsBalance
  <1>1. IInv => JournalExplainsBalance
    BY DEF IInv
  <1> QED BY <1>1, WipInvariant, PTL

\* The listener of the last stage gives every part its output, in whichever
\* order the parts are handled and whatever is returned meanwhile.
THEOREM BalanceFollowsStagesCorrect == Spec => []BalanceFollowsStages
  <1>1. IInv => BalanceFollowsStages
    <2> SUFFICES ASSUME IInv, NEW o \in Orders, inOrder[o], ~missed[o], Pending(o) = {}, done[o] > 0,
                        NEW p \in OrderParts[o]
                 PROVE  wip[<<o, p>>].dozens + journal[<<o, p>>].back = output[o]
      BY DEF BalanceFollowsStages
    <2>1. done[o] \in 1 .. NumStages
      BY WipConstants DEF IInv, TypeOK
    <2>2. event[<<o, done[o]>>] = None
      BY <2>1 DEF Pending
    <2>3. journal[<<o, p>>].set = output[o]
      BY <2>2 DEF IInv, StagesFollowed, StageFollowed
    <2>4. <<o, p>> \in Rows
      BY RowOfPart
    <2>5. wip[<<o, p>>].dozens = journal[<<o, p>>].set - journal[<<o, p>>].back
      BY <2>4 DEF IInv, JournalExplainsBalance
    <2>6. journal[<<o, p>>].set \in Nat /\ journal[<<o, p>>].back \in Nat
      BY <2>4 DEF IInv, TypeOK
    <2> QED BY <2>3, <2>5, <2>6
  <1> QED BY <1>1, WipInvariant, PTL

\* No listener and no return gives up unless other writers of its row have
\* succeeded as often as it has failed.
THEOREM ConflictsMeanProgressCorrect == Spec => []ConflictsMeanProgress
  <1>1. IInv => ConflictsMeanProgress
    <2> SUFFICES ASSUME IInv PROVE ConflictsMeanProgress
      OBVIOUS
    <2>1. ASSUME NEW e \in Completions, event[e] # None, event[e].attempt > 0, event[e].first > 0
          PROVE  wip[<<e[1], event[e].part>>].version >= event[e].first + event[e].attempt
      <3> DEFINE x == event[e]
                 v == wip[<<e[1], x.part>>].version
      <3>1. /\ x.first \in Nat /\ x.seen \in Nat /\ x.attempt \in Nat /\ x.next \in {"read", "write"}
            /\ e[1] \in Orders
        BY <2>1, EventOf DEF IInv
      <3>2. ListenerSound(e)
        BY DEF IInv, Listeners
      <3>3. <<e[1], x.part>> \in Rows
        BY <2>1, <3>1, <3>2, RowOfPart DEF ListenerSound
      <3>4. v \in Nat
        BY <3>3 DEF IInv, TypeOK
      <3>5. \/ x.seen <= v /\ x.seen >= x.first + x.attempt
            \/ v >= x.first + x.attempt
        BY <2>1, <3>1, <3>2 DEF ListenerSound, Version
      <3> QED BY <3>1, <3>4, <3>5
    <2>2. ASSUME NEW r \in Returners, ret[r] # None, ret[r].attempt > 0
          PROVE  wip[ret[r].row].version >= ret[r].first + ret[r].attempt
      <3> DEFINE x == ret[r]
                 v == wip[x.row].version
      <3>1. /\ x.first \in Nat /\ x.seen \in Nat /\ x.attempt \in Nat /\ x.next \in {"read", "write"}
            /\ x.row \in Rows
        BY <2>2, ReturnOf DEF IInv
      <3>2. v \in Nat
        BY <3>1 DEF IInv, TypeOK
      <3>3. \/ x.seen <= v /\ x.seen >= x.first + x.attempt
            \/ v >= x.first + x.attempt
        BY <2>2, <3>1 DEF IInv, Returns, ReturnSound, Version
      <3> QED BY <3>1, <3>2, <3>3
    <2> QED BY <2>1, <2>2 DEF ConflictsMeanProgress
  <1> QED BY <1>1, WipInvariant, PTL

================================================================================
