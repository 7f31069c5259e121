------------------------- MODULE OrderLifecycleProofs -------------------------
(***************************************************************************)
(* Proofs about OrderLifecycle and ProductionReports, for every number of  *)
(* orders, stages, places and requests.                                    *)
(*                                                                         *)
(* In every interleaving the tables are well typed, the parts of an order  *)
(* justify its status, and an order in production is never stuck.  When    *)
(* requests do not overlap and no stage is moved while an order is in      *)
(* production (both are in the constants), the scrap records add up to the *)
(* scrap of the logs but for their rounding, the specification implements  *)
(* OrderWorkflow, and the reports agree.                                   *)
(***************************************************************************)
EXTENDS ProductionReports, FiniteLemmas

-----------------------------------------------------------------------------
(* Rounding.                                                               *)

\* A multiple of a positive number is no greater than another only if it is.
LEMMA Cancel ==
    ASSUME NEW f \in Nat \ {0}, NEW a \in Int, NEW b \in Int, f * a < f * b
    PROVE  a < b
OBVIOUS

\* An amount is rounded to the nearest unit, a half upwards.
LEMMA RoundedIs ==
    ASSUME NEW x \in Nat
    PROVE  /\ Rounded(x) \in Nat
           /\ 2 * (Fine * Rounded(x)) <= 2 * x + Fine
           /\ 2 * x < 2 * (Fine * Rounded(x)) + Fine
<1>1. Fine \in Nat /\ Fine > 0
  BY LifecycleConstants
<1> DEFINE n == 2 * x + Fine
           d == 2 * Fine
<1>2. n \in Nat /\ d \in Nat /\ d > 0
  BY <1>1
<1>3. \A q \in Int : d * q = 2 * (Fine * q)
  BY <1>1
<1> HIDE DEF n, d
<1>4. n \div d \in Nat /\ d * (n \div d) <= n /\ n < d * (n \div d) + d
  BY <1>2
<1>5. Rounded(x) = n \div d
  BY DEF Rounded, n, d
<1> QED BY <1>1, <1>3, <1>4, <1>5 DEF n, d

\* The rows of records differ from the records by half a unit each at most,
\* and by less below.
RowsWithin(amounts, D) ==
    LET rows == SumFunctionOnSet([i \in DOMAIN amounts |-> Rounded(amounts[i])], D)
        whole == SumFunctionOnSet(amounts, D)
    IN  /\ rows \in Nat /\ whole \in Nat
        /\ 2 * (Fine * rows) <= 2 * whole + Fine * Cardinality(D)
        /\ 2 * whole <= 2 * (Fine * rows) + Fine * Cardinality(D)
        /\ D # {} => 2 * whole < 2 * (Fine * rows) + Fine * Cardinality(D)

LEMMA RowsAreWithin ==
    ASSUME NEW s \in Seq(Nat)
    PROVE  RowsWithin(s, DOMAIN s)
<1> DEFINE D == DOMAIN s
           g == [i \in D |-> Rounded(s[i])]
           B == {A \in SUBSET D : ~ RowsWithin(s, A)}
<1>1. IsFiniteSet(D) /\ \A i \in D : s[i] \in Nat
  BY FS_Interval
<1>2. \A i \in D : /\ g[i] \in Nat
                   /\ 2 * (Fine * g[i]) <= 2 * s[i] + Fine
                   /\ 2 * s[i] < 2 * (Fine * g[i]) + Fine
  BY <1>1, RoundedIs
<1>3. Fine \in Nat /\ Fine > 0
  BY LifecycleConstants
<1>4. \A A : RowsWithin(s, A) <=>
             LET rows == SumFunctionOnSet(g, A)
                 whole == SumFunctionOnSet(s, A)
             IN  /\ rows \in Nat /\ whole \in Nat
                 /\ 2 * (Fine * rows) <= 2 * whole + Fine * Cardinality(A)
                 /\ 2 * whole <= 2 * (Fine * rows) + Fine * Cardinality(A)
                 /\ A # {} => 2 * whole < 2 * (Fine * rows) + Fine * Cardinality(A)
  BY DEF RowsWithin
<1> HIDE DEF g
<1> SUFFICES ASSUME B # {} PROVE FALSE
  OBVIOUS
<1>5. PICK m \in B : \A b \in B : b \subseteq m => b = m
  <2>1. B \in SUBSET (SUBSET D)
    OBVIOUS
  <2> HIDE DEF B
  <2> QED BY <1>1, <2>1, SmallestSubset
<1>6. m \subseteq D /\ IsFiniteSet(m) /\ ~ RowsWithin(s, m)
  BY <1>1, <1>5, FS_Subset
<1>7. m # {}
  <2> SUFFICES ASSUME m = {} PROVE FALSE
    OBVIOUS
  <2>1. SumFunctionOnSet(g, m) = 0 /\ SumFunctionOnSet(s, m) = 0 /\ Cardinality(m) = 0
    BY SumEmpty, FS_EmptySet
  <2>2. Fine * 0 = 0
    BY <1>3
  <2> QED BY <1>4, <1>6, <2>1, <2>2
<1>8. PICK x \in m : TRUE
  BY <1>7
<1> DEFINE rest == m \ {x}
<1>9. rest \subseteq D /\ RowsWithin(s, rest) /\ IsFiniteSet(rest)
  BY <1>5, <1>6, <1>8, FS_Subset
<1>10. PICK rows, whole, row, amount, count :
         /\ rows = SumFunctionOnSet(g, rest) /\ whole = SumFunctionOnSet(s, rest)
         /\ row = g[x] /\ amount = s[x] /\ count = Cardinality(rest)
  OBVIOUS
<1>11. SumFunctionOnSet(g, m) = row + rows
  <2>1. \A i \in m : g[i] \in Int
    BY <1>2, <1>6
  <2> QED BY <1>6, <1>8, <1>10, <2>1, SumTakeOut
<1>12. SumFunctionOnSet(s, m) = amount + whole
  <2>1. \A i \in m : s[i] \in Int
    BY <1>1, <1>6
  <2> QED BY <1>6, <1>8, <1>10, <2>1, SumTakeOut
<1>13. Cardinality(m) = count + 1 /\ count \in Nat
  BY <1>6, <1>8, <1>9, <1>10, FS_RemoveElement, FS_CardinalityType
<1>14. /\ rows \in Nat /\ whole \in Nat
       /\ 2 * (Fine * rows) <= 2 * whole + Fine * count
       /\ 2 * whole <= 2 * (Fine * rows) + Fine * count
  BY <1>4, <1>9, <1>10
<1>15. /\ row \in Nat /\ amount \in Nat
       /\ 2 * (Fine * row) <= 2 * amount + Fine
       /\ 2 * amount < 2 * (Fine * row) + Fine
  BY <1>1, <1>2, <1>6, <1>8, <1>10
<1>16. Fine * (row + rows) = Fine * row + Fine * rows /\ Fine * (count + 1) = Fine * count + Fine
  BY <1>3, <1>13, <1>14, <1>15
<1>17. /\ Fine * row \in Int /\ Fine * rows \in Int /\ Fine * count \in Int
  BY <1>3, <1>13, <1>14, <1>15
<1>18. /\ row + rows \in Nat /\ amount + whole \in Nat
       /\ 2 * (Fine * (row + rows)) <= 2 * (amount + whole) + Fine * (count + 1)
       /\ 2 * (amount + whole) < 2 * (Fine * (row + rows)) + Fine * (count + 1)
  BY <1>3, <1>14, <1>15, <1>16, <1>17
<1>19. 2 * (amount + whole) <= 2 * (Fine * (row + rows)) + Fine * (count + 1)
  BY <1>3, <1>14, <1>15, <1>16, <1>17
<1> QED BY <1>4, <1>6, <1>11, <1>12, <1>13, <1>18, <1>19

\* So do their sum and the scrap of the log, which is rounded once.
LEMMA RowsAreNear ==
    ASSUME NEW s \in Seq(Nat)
    PROVE  /\ Total(s) \in Nat /\ Total(InRows(s)) \in Nat /\ Len(s) \in Nat
           /\ Near([records |-> Len(s), dozens |-> Total(InRows(s))], Rounded(Total(s)))
<1>1. PICK rows, whole, n, log1 :
         rows = Total(InRows(s)) /\ whole = Total(s) /\ n = Len(s) /\ log1 = Rounded(whole)
  OBVIOUS
<1>2. Fine \in Nat /\ Fine > 0 /\ n \in Nat /\ DOMAIN s = 1 .. n
  BY <1>1, LifecycleConstants
<1>3. Cardinality(DOMAIN s) = n /\ (DOMAIN s = {} => n = 0)
  <2>1. Cardinality(1 .. n) = n
    BY <1>2, FS_Interval
  <2> QED BY <1>2, <2>1, FS_EmptySet
<1>4. rows = SumFunctionOnSet([i \in DOMAIN s |-> Rounded(s[i])], DOMAIN s) /\ whole = SumFunctionOnSet(s, DOMAIN s)
  BY <1>1 DEF Total, InRows
<1>5. /\ rows \in Nat /\ whole \in Nat
      /\ 2 * (Fine * rows) <= 2 * whole + Fine * n
      /\ 2 * whole <= 2 * (Fine * rows) + Fine * n
      /\ n # 0 => 2 * whole < 2 * (Fine * rows) + Fine * n
  BY <1>3, <1>4, RowsAreWithin DEF RowsWithin
<1>6. /\ log1 \in Nat
      /\ 2 * (Fine * log1) <= 2 * whole + Fine
      /\ 2 * whole < 2 * (Fine * log1) + Fine
  BY <1>1, <1>5, RoundedIs
<1>7. /\ Fine * rows \in Int /\ Fine * log1 \in Int /\ Fine * n \in Int
      /\ Fine * (2 * (rows - log1)) = 2 * (Fine * rows) - 2 * (Fine * log1)
      /\ Fine * (2 * (log1 - rows)) = 2 * (Fine * log1) - 2 * (Fine * rows)
      /\ Fine * (n + 1) = Fine * n + Fine
  BY <1>2, <1>5, <1>6
<1>8. 2 * (rows - log1) < n + 1
  <2>1. Fine * (2 * (rows - log1)) < Fine * (n + 1)
    BY <1>2, <1>5, <1>6, <1>7
  <2> QED BY <1>2, <1>5, <1>6, <2>1, Cancel
<1>9. 2 * (log1 - rows) <= n
  <2>1. CASE n # 0
    <3>1. Fine * (2 * (log1 - rows)) < Fine * (n + 1)
      BY <1>2, <1>5, <1>6, <1>7, <2>1
    <3>2. 2 * (log1 - rows) < n + 1
      BY <1>2, <1>5, <1>6, <3>1, Cancel
    <3> QED BY <1>2, <1>5, <1>6, <3>2
  <2>2. CASE n = 0
    <3>1. Fine * (2 * (log1 - rows)) < Fine * 2
      BY <1>2, <1>5, <1>6, <1>7, <2>2
    <3>2. 2 * (log1 - rows) < 2
      BY <1>2, <1>5, <1>6, <3>1, Cancel
    <3> QED BY <1>5, <1>6, <2>2, <3>2
  <2> QED BY <2>1, <2>2
<1>10. 2 * (rows - log1) <= n
  BY <1>2, <1>5, <1>6, <1>8
<1>11. Near([records |-> n, dozens |-> rows], log1)
  BY <1>9, <1>10 DEF Near
<1> QED BY <1>1, <1>2, <1>5, <1>11

\* What the columns keep of a balanced output: no more comes out than went in,
\* and output, scrap and incomplete are the input but for a unit.
LEMMA BalancedRows ==
    ASSUME NEW input \in Nat, NEW output \in Nat, NEW s \in Seq(Nat), NEW incomplete \in Nat,
           Balanced(input, output, s, incomplete)
    PROVE  LET sum == Rounded(output) + Rounded(Total(s)) + Rounded(incomplete)
           IN  Rounded(output) <= input /\ sum <= input + 1 /\ input <= sum + 1
<1>1. PICK scrap \in Nat : scrap = Total(s)
  BY RowsAreNear
<1>2. PICK a, b, c : a = Rounded(output) /\ b = Rounded(scrap) /\ c = Rounded(incomplete)
  OBVIOUS
<1>3. Fine \in Nat /\ Fine > 0
  BY LifecycleConstants
<1>4. /\ a \in Nat /\ 2 * (Fine * a) <= 2 * output + Fine /\ 2 * output < 2 * (Fine * a) + Fine
      /\ b \in Nat /\ 2 * (Fine * b) <= 2 * scrap + Fine /\ 2 * scrap < 2 * (Fine * b) + Fine
      /\ c \in Nat /\ 2 * (Fine * c) <= 2 * incomplete + Fine /\ 2 * incomplete < 2 * (Fine * c) + Fine
  BY <1>2, RoundedIs
<1>5. PICK x \in Int, y \in Int, z \in Int, t \in Int :
         x = Fine * a /\ y = Fine * b /\ z = Fine * c /\ t = Fine * input
  BY <1>3, <1>4
<1>6. 10 * (output + scrap + incomplete - t) <= Fine /\ 10 * (t - (output + scrap + incomplete)) <= Fine
  BY <1>1, <1>5 DEF Balanced
<1>7. /\ Fine * a = x /\ Fine * (input + 1) = t + Fine
      /\ Fine * (a + b + c) = x + y + z /\ Fine * (input + 2) = t + 2 * Fine
      /\ Fine * (a + b + c + 2) = x + y + z + 2 * Fine
  BY <1>3, <1>4, <1>5
<1>8. PICK f \in Nat : f = Fine /\ f > 0
  BY <1>3
<1>9. /\ 2 * x <= 2 * output + f /\ 2 * output < 2 * x + f
      /\ 2 * y <= 2 * scrap + f /\ 2 * scrap < 2 * y + f
      /\ 2 * z <= 2 * incomplete + f /\ 2 * incomplete < 2 * z + f
      /\ 10 * (output + scrap + incomplete - t) <= f /\ 10 * (t - (output + scrap + incomplete)) <= f
  BY <1>4, <1>5, <1>6, <1>8
<1>10. /\ x < t + f
       /\ x + y + z < t + 2 * f
       /\ t < x + y + z + 2 * f
  BY ONLY <1>8, <1>9
<1>11. a < input + 1
  BY <1>3, <1>4, <1>7, <1>8, <1>10, Cancel
<1>12. a + b + c < input + 2
  BY <1>3, <1>4, <1>7, <1>8, <1>10, Cancel
<1>13. input < a + b + c + 2
  BY <1>3, <1>4, <1>5, <1>7, <1>8, <1>10, Cancel
<1>14. Rounded(output) <= input /\ a + b + c <= input + 1 /\ input <= a + b + c + 1
  <2>1. a \in Nat /\ b \in Nat /\ c \in Nat
    BY <1>4
  <2>2. a <= input /\ a + b + c <= input + 1 /\ input <= a + b + c + 1
    BY ONLY input \in Nat, <2>1, <1>11, <1>12, <1>13
  <2> QED BY <1>2, <2>2
<1>15. a + b + c = Rounded(output) + Rounded(Total(s)) + Rounded(incomplete)
  BY <1>1, <1>2
<1> QED BY <1>14, <1>15

\* The amounts that a request may name.
LEMMA RequestedAmounts ==
    ASSUME NEW scrap \in Records, NEW incomplete \in {0} \union {a \in Amounts : a >= Fine}
    PROVE  scrap \in Seq(Nat) /\ incomplete \in Nat /\ Amounts \subseteq Nat
<1>1. Amounts \subseteq Nat
  BY LifecycleConstants
<1>2. PICK n \in Nat : scrap \in [1 .. n -> {a \in Amounts : a >= Fine}]
  BY LifecycleConstants DEF Records
<1>3. scrap \in [1 .. n -> Nat]
  BY <1>1, <1>2
<1> QED BY <1>1, <1>3

-----------------------------------------------------------------------------
(* Types.                                                                  *)

\* A stage that is not the first has a preceding one: an earlier stage with
\* no other between the two.
LEMMA PreviousIsLastEarlier ==
    ASSUME seq \in [Stages -> 0 .. MaxSequence], NEW s \in Stages, ~IsFirst(s)
    PROVE  /\ Previous(s) \in Earlier(s)
           /\ \A u \in Earlier(s) : seq[u] <= seq[Previous(s)]
<1>1. MaxSequence \in Nat /\ IsFiniteSet(Stages)
  BY LifecycleConstants
<1>2. \A t \in Stages : seq[t] \in Int
  BY <1>1
<1>3. Earlier(s) # {}
  BY <1>2 DEF IsFirst, Earlier, Exists
<1>4. IsFiniteSet(Earlier(s)) /\ Earlier(s) \subseteq Stages
  BY <1>1, FS_Subset DEF Earlier
<1>5. \E m \in Earlier(s) : \A u \in Earlier(s) : seq[u] <= seq[m]
  <2>1. \A t \in Earlier(s) : seq[t] \in Int
    BY <1>2, <1>4
  <2> QED BY <1>3, <1>4, <2>1, FirstAndLastExist
<1> QED BY <1>5 DEF Previous

\* What a stage takes in is a number of dozens.
LEMMA StageInputType ==
    ASSUME TypeOK, NEW o \in Orders, NEW s \in Stages
    PROVE  StageInput(o, s) \in Nat
<1>1. CASE IsFirst(s)
  BY <1>1 DEF StageInput, TypeOK
<1>2. CASE ~IsFirst(s)
  <2>1. Previous(s) \in Stages
    BY <1>2, PreviousIsLastEarlier DEF TypeOK, Earlier
  <2>2. log[<<o, Previous(s)>>] \in StageLog
    BY <2>1 DEF TypeOK
  <2> QED BY <1>2, <2>2 DEF StageInput, StageLog
<1> QED BY <1>1, <1>2

\* Every kind of call, taken apart.
LEMMA CallShape ==
    ASSUME NEW c \in Call
    PROVE  /\ c.order \in Orders
           /\ c.op \in {"parts", "plan", "start", "complete", "close", "release", "stage", "output"}
           /\ c.op = "release" => c.dozens \in Nat /\ c.all \in BOOLEAN
           /\ c.op = "stage" => c.stage \in Stages /\ c.input \in Nat
           /\ c.op = "output" => c.stage \in Stages /\ c.output \in Nat /\ c.scrap \in Seq(Nat) /\ c.incomplete \in Nat
BY DEF Call

LEMMA CallOf ==
    ASSUME TypeOK, NEW r \in Requests, NEW op, At(r, op)
    PROVE  call[r] \in Call /\ call[r].op = op /\ call[r].order \in Orders
<1>1. call[r] \in Call
  BY DEF TypeOK, At
<1> QED BY <1>1, CallShape DEF At

LEMMA FinishType ==
    ASSUME TypeOK, NEW r \in Requests, Finish(r)
    PROVE  call' \in [Requests -> Call \union {None}]
BY DEF TypeOK, Finish

LEMMA BeginType ==
    ASSUME TypeOK, NEW r \in Requests, NEW c \in Call, Begin(r, c)
    PROVE  TypeOK'
BY DEF TypeOK, Begin

LEMMA TypeInit == Init => TypeOK
<1> SUFFICES ASSUME Init PROVE TypeOK
  OBVIOUS
<1>1. NoLog \in StageLog
  BY DEF NoLog, StageLog
<1>2. MaxSequence \in Nat
  BY LifecycleConstants
<1> QED BY <1>1, <1>2 DEF Init, TypeOK, OrderStatus, ScrapRows

LEMMA TypeStep == TypeOK /\ [Next]_vars => TypeOK'
<1> SUFFICES ASSUME TypeOK, [Next]_vars PROVE TypeOK'
  OBVIOUS
<1>0. MaxDozens \in Nat /\ MaxSequence \in Nat
  BY LifecycleConstants
<1> USE <1>0
<1>1. ASSUME NEW r \in Requests, NEW o \in Orders, OrderNext(r, o)
      PROVE  TypeOK'
  <2>1. CASE CreateOrder(r, o)
    <3>1. [op |-> "parts", order |-> o] \in Call
      BY DEF Call
    <3> QED BY <2>1, <3>1 DEF CreateOrder, TypeOK, OrderStatus
  <2>2. CASE PlanCheck(r, o)
    <3>1. [op |-> "plan", order |-> o] \in Call
      BY DEF Call
    <3> QED BY <2>2, <3>1, BeginType DEF PlanCheck
  <2>3. CASE StartCheck(r, o)
    <3>1. [op |-> "start", order |-> o] \in Call
      BY DEF Call
    <3> QED BY <2>3, <3>1, BeginType DEF StartCheck
  <2>4. CASE CompleteCheck(r, o)
    <3>1. [op |-> "complete", order |-> o] \in Call
      BY DEF Call
    <3> QED BY <2>4, <3>1, BeginType DEF CompleteCheck
  <2>5. CASE CloseCheck(r, o)
    <3>1. [op |-> "close", order |-> o] \in Call
      BY DEF Call
    <3> QED BY <2>5, <3>1, BeginType DEF CloseCheck
  <2>6. ASSUME NEW d \in 1 .. MaxDozens, NEW all \in BOOLEAN, ReleaseCheck(r, o, d, all)
        PROVE  TypeOK'
    <3>1. [op |-> "release", order |-> o, dozens |-> d, all |-> all] \in Call
      BY DEF Call
    <3> QED BY <2>6, <3>1, BeginType DEF ReleaseCheck
  <2>7. ASSUME NEW s \in Stages, StartStageCheck(r, o, s)
        PROVE  TypeOK'
    <3>1. [op |-> "stage", order |-> o, stage |-> s, input |-> StageInput(o, s)] \in Call
      BY StageInputType DEF Call
    <3> QED BY <2>7, <3>1, BeginType DEF StartStageCheck
  <2>8. ASSUME NEW s \in Stages, NEW output \in Amounts, NEW scrap \in Records,
               NEW incomplete \in {0} \union {a \in Amounts : a >= Fine}, OutputCheck(r, o, s, output, scrap, incomplete)
        PROVE  TypeOK'
    <3>1. [op |-> "output", order |-> o, stage |-> s,
           output |-> output, scrap |-> scrap, incomplete |-> incomplete] \in Call
      BY RequestedAmounts DEF Call
    <3> QED BY <2>8, <3>1, BeginType DEF OutputCheck
  <2> QED BY <1>1, <2>1, <2>2, <2>3, <2>4, <2>5, <2>6, <2>7, <2>8 DEF OrderNext
<1>2. ASSUME NEW r \in Requests, WriteNext(r)
      PROVE  TypeOK'
  <2>1. CASE CreateParts(r)
    BY <2>1, CallOf, FinishType DEF CreateParts, TypeOK
  <2>2. CASE PlanWrite(r)
    BY <2>2, CallOf, FinishType DEF PlanWrite, SetStatus, TypeOK, OrderStatus
  <2>3. CASE StartWrite(r)
    <3>1. [NoLog EXCEPT !.status = "PENDING"] \in StageLog
      BY DEF NoLog, StageLog
    <3>2. log' \in [Orders \X Stages -> StageLog]
      BY <2>3, <3>1 DEF StartWrite, TypeOK
    <3> QED BY <2>3, <3>2, CallOf, FinishType DEF StartWrite, SetStatus, TypeOK, OrderStatus
  <2>4. CASE CompleteWrite(r)
    BY <2>4, CallOf, FinishType DEF CompleteWrite, SetStatus, TypeOK, OrderStatus
  <2>5. CASE CloseWrite(r)
    BY <2>5, CallOf, FinishType DEF CloseWrite, SetStatus, TypeOK, OrderStatus
  <2>6. CASE ReleaseCommit(r)
    <3>1. call[r].order \in Orders /\ call[r].dozens \in Nat
      BY <2>6, CallOf, CallShape DEF ReleaseCommit
    <3> QED BY <2>6, <3>1, FinishType DEF ReleaseCommit, TypeOK
  <2>7. CASE StartStageWrite(r)
    <3>1. call[r].order \in Orders /\ call[r].stage \in Stages /\ call[r].input \in Nat
      BY <2>7, CallOf, CallShape DEF StartStageWrite
    <3> DEFINE k == <<call[r].order, call[r].stage>>
               row == [log[k] EXCEPT !.status = "IN_PROGRESS", !.input = call[r].input]
    <3>2. k \in Orders \X Stages /\ log[k] \in StageLog
      BY <3>1 DEF TypeOK
    <3>3. row \in StageLog
      BY <3>1, <3>2 DEF StageLog
    <3>4. log' = [log EXCEPT ![k] = row]
      BY <2>7 DEF StartStageWrite
    <3>5. log' \in [Orders \X Stages -> StageLog]
      <4> HIDE DEF row, k
      <4> QED BY <3>2, <3>3, <3>4 DEF TypeOK
    <3> QED BY <2>7, <3>5, FinishType DEF StartStageWrite, TypeOK
  <2>8. CASE OutputWrite(r)
    <3> DEFINE c == call[r]
               k == <<c.order, c.stage>>
    <3>1. /\ c.order \in Orders /\ c.stage \in Stages
          /\ c.output \in Nat /\ c.scrap \in Seq(Nat) /\ c.incomplete \in Nat
      BY <2>8, CallOf, CallShape DEF OutputWrite
    <3>2. k \in Orders \X Stages
      BY <3>1
    <3>3. /\ Rounded(c.output) \in Nat /\ Rounded(Total(c.scrap)) \in Nat /\ Rounded(c.incomplete) \in Nat
          /\ Len(c.scrap) \in Nat /\ Total(InRows(c.scrap)) \in Nat
      BY <3>1, RowsAreNear, RoundedIs
    <3>4. log' \in [Orders \X Stages -> StageLog]
      BY <2>8, <3>1, <3>2, <3>3 DEF OutputWrite, TypeOK, StageLog
    <3>5. scrapped' \in [Orders \X Stages -> ScrapRows]
      <4> DEFINE rows == [records |-> scrapped[k].records + Len(c.scrap),
                          dozens |-> scrapped[k].dozens + Total(InRows(c.scrap))]
      <4>1. scrapped[k].records \in Nat /\ scrapped[k].dozens \in Nat
        BY <3>2 DEF TypeOK, ScrapRows
      <4>2. rows \in ScrapRows
        BY <3>3, <4>1 DEF ScrapRows
      <4>3. scrapped' = [scrapped EXCEPT ![k] = rows]
        BY <2>8 DEF OutputWrite
      <4> HIDE DEF rows, k
      <4> QED BY <3>2, <4>2, <4>3 DEF TypeOK
    <3> QED BY <2>8, <3>4, <3>5, FinishType DEF OutputWrite, TypeOK
  <2>9. CASE Fail(r)
    BY <2>9, FinishType DEF Fail, TypeOK
  <2> QED BY <1>2, <2>1, <2>2, <2>3, <2>4, <2>5, <2>6, <2>7, <2>8, <2>9 DEF WriteNext
<1>3. ASSUME NEW o \in Orders, OpenPacking(o) \/ PostPacking(o)
      PROVE  TypeOK'
  BY <1>3 DEF OpenPacking, PostPacking, TypeOK
<1>4. ASSUME NEW s \in Stages, NEW q \in 1 .. MaxSequence, CreateStage(s, q) \/ UpdateStage(s, q)
      PROVE  TypeOK'
  BY <1>4 DEF CreateStage, UpdateStage, TypeOK
<1>5. ASSUME NEW s \in Stages, DeleteStage(s)
      PROVE  TypeOK'
  BY <1>5 DEF DeleteStage, TypeOK
<1>6. CASE UNCHANGED vars
  BY <1>6 DEF vars, TypeOK
<1> QED BY <1>1, <1>2, <1>3, <1>4, <1>5, <1>6 DEF Next

\* The tables and the calls are well typed in every interleaving.
THEOREM LifecycleTypeCorrect == Spec => []TypeOK
BY TypeInit, TypeStep, PTL DEF Spec

-----------------------------------------------------------------------------
(* The parts of an order.                                                  *)
(*                                                                         *)
(* Creation leaves an order without parts until its second write, and a    *)
(* status is written from an old check; the parts, though, only go from    *)
(* none to PENDING to RELEASED, so what a request read of them still holds *)
(* when it writes.                                                         *)

\* What the requests under way have read of the parts and may rely on.
CallsKnowParts ==
    \A r \in Requests : call[r] # None =>
        /\ call[r].op = "parts" => parts[call[r].order] = "none" /\ status[call[r].order] # "none"
        /\ call[r].op \in {"plan", "release"} => parts[call[r].order] # "none"
        /\ call[r].op \in {"start", "complete", "close"} => parts[call[r].order] = "RELEASED"

\* An order is created once, so one request writes its parts.
PartsWrittenOnce ==
    \A r, q \in Requests :
        At(r, "parts") /\ At(q, "parts") /\ call[r].order = call[q].order => r = q

NoOrderNoParts == \A o \in Orders : status[o] = "none" => parts[o] = "none"

PartsInv == PartsJustifyStatus /\ CallsKnowParts /\ PartsWrittenOnce /\ NoOrderNoParts

\* A new request that knows what it relies on disturbs nothing.
LEMMA BeginKeepsParts ==
    ASSUME TypeOK, PartsInv, NEW r \in Requests, NEW c \in Call, Begin(r, c), c.op # "parts",
           c.op \in {"plan", "release"} => parts[c.order] # "none",
           c.op \in {"start", "complete", "close"} => parts[c.order] = "RELEASED"
    PROVE  PartsInv'
<1>1. /\ UNCHANGED <<status, parts>>
      /\ call'[r] = c
      /\ \A q \in Requests : q # r => call'[q] = call[q]
  BY DEF Begin, TypeOK
<1>2. PartsJustifyStatus' /\ NoOrderNoParts'
  BY <1>1 DEF PartsInv, PartsJustifyStatus, NoOrderNoParts
<1>3. CallsKnowParts'
  BY <1>1 DEF PartsInv, CallsKnowParts
<1>4. PartsWrittenOnce'
  BY <1>1 DEF PartsInv, PartsWrittenOnce, At
<1> QED BY <1>2, <1>3, <1>4 DEF PartsInv

\* A request that ends leaves nothing to rely on.
LEMMA FinishKeepsParts ==
    ASSUME TypeOK, PartsInv, NEW r \in Requests, Finish(r), UNCHANGED parts,
           PartsJustifyStatus', NoOrderNoParts',
           \A o \in Orders : status[o] # "none" => status'[o] # "none"
    PROVE  PartsInv'
<1>1. /\ call'[r] = None
      /\ \A q \in Requests : q # r => call'[q] = call[q]
  BY DEF Finish, TypeOK
<1>2. \A q \in Requests : call[q] # None => call[q].order \in Orders
  BY CallShape DEF TypeOK
<1>3. CallsKnowParts'
  BY <1>1, <1>2 DEF PartsInv, CallsKnowParts
<1>4. PartsWrittenOnce'
  BY <1>1 DEF PartsInv, PartsWrittenOnce, At
<1> QED BY <1>3, <1>4 DEF PartsInv

\* A status that the parts allow may be written.
LEMMA SetStatusKeepsParts ==
    ASSUME TypeOK, PartsInv, NEW r \in Requests, call[r] \in Call,
           NEW s \in OrderStatus, SetStatus(r, s), s # "none",
           s # "DRAFT" => parts[call[r].order] # "none",
           s \in {"IN_PRODUCTION", "PRODUCTION_COMPLETE", "CLOSED"} => parts[call[r].order] = "RELEASED"
    PROVE  PartsInv'
<1>1. call[r].order \in Orders
  BY CallShape
<1>2. /\ status' = [status EXCEPT ![call[r].order] = s]
      /\ Finish(r) /\ UNCHANGED parts
  BY DEF SetStatus
<1>3. PartsJustifyStatus'
  BY <1>1, <1>2 DEF PartsInv, PartsJustifyStatus, TypeOK
<1>4. NoOrderNoParts'
  BY <1>1, <1>2 DEF PartsInv, NoOrderNoParts, TypeOK
<1>5. \A o \in Orders : status[o] # "none" => status'[o] # "none"
  BY <1>1, <1>2 DEF TypeOK
<1> QED BY <1>2, <1>3, <1>4, <1>5, FinishKeepsParts

LEMMA PartsInit == Init => PartsInv
BY DEF Init, PartsInv, PartsJustifyStatus, CallsKnowParts, PartsWrittenOnce, NoOrderNoParts, At

LEMMA PartsStep == TypeOK /\ PartsInv /\ [Next]_vars => PartsInv'
<1> SUFFICES ASSUME TypeOK, PartsInv, [Next]_vars PROVE PartsInv'
  OBVIOUS
<1>0. MaxDozens \in Nat
  BY LifecycleConstants
<1>1. ASSUME NEW r \in Requests, NEW o \in Orders, OrderNext(r, o)
      PROVE  PartsInv'
  <2>1. CASE CreateOrder(r, o)
    <3>1. /\ UNCHANGED parts
          /\ status' = [status EXCEPT ![o] = "DRAFT"] /\ status[o] = "none"
          /\ call[r] = None /\ call'[r] = [op |-> "parts", order |-> o]
          /\ \A q \in Requests : q # r => call'[q] = call[q]
      BY <2>1 DEF CreateOrder, MayBegin, Idle, TypeOK
    <3>2. \A q \in Requests : call[q] # None => call[q].order \in Orders
      BY CallShape DEF TypeOK
    <3>3. PartsJustifyStatus' /\ NoOrderNoParts'
      BY <3>1 DEF PartsInv, PartsJustifyStatus, NoOrderNoParts, TypeOK
    <3>4. CallsKnowParts'
      BY <3>1, <3>2 DEF PartsInv, CallsKnowParts, NoOrderNoParts, TypeOK
    <3>5. PartsWrittenOnce'
      BY <3>1 DEF PartsInv, PartsWrittenOnce, CallsKnowParts, At
    <3> QED BY <3>3, <3>4, <3>5 DEF PartsInv
  <2>2. CASE PlanCheck(r, o)
    <3>1. [op |-> "plan", order |-> o] \in Call
      BY DEF Call
    <3> QED BY <2>2, <3>1, BeginKeepsParts DEF PlanCheck
  <2>3. CASE StartCheck(r, o)
    <3>1. [op |-> "start", order |-> o] \in Call
      BY DEF Call
    <3>2. parts[o] = "RELEASED"
      BY <2>3 DEF StartCheck, PartsInv, PartsJustifyStatus, TypeOK
    <3> QED BY <2>3, <3>1, <3>2, BeginKeepsParts DEF StartCheck
  <2>4. CASE CompleteCheck(r, o)
    <3>1. [op |-> "complete", order |-> o] \in Call
      BY DEF Call
    <3>2. parts[o] = "RELEASED"
      BY <2>4 DEF CompleteCheck, PartsInv, PartsJustifyStatus
    <3> QED BY <2>4, <3>1, <3>2, BeginKeepsParts DEF CompleteCheck
  <2>5. CASE CloseCheck(r, o)
    <3>1. [op |-> "close", order |-> o] \in Call
      BY DEF Call
    <3>2. parts[o] = "RELEASED"
      BY <2>5 DEF CloseCheck, PartsInv, PartsJustifyStatus
    <3> QED BY <2>5, <3>1, <3>2, BeginKeepsParts DEF CloseCheck
  <2>6. ASSUME NEW d \in 1 .. MaxDozens, NEW all \in BOOLEAN, ReleaseCheck(r, o, d, all)
        PROVE  PartsInv'
    <3>1. [op |-> "release", order |-> o, dozens |-> d, all |-> all] \in Call
      BY <1>0 DEF Call
    <3> QED BY <2>6, <3>1, BeginKeepsParts DEF ReleaseCheck
  <2>7. ASSUME NEW s \in Stages, StartStageCheck(r, o, s)
        PROVE  PartsInv'
    <3>1. [op |-> "stage", order |-> o, stage |-> s, input |-> StageInput(o, s)] \in Call
      BY StageInputType DEF Call
    <3> QED BY <2>7, <3>1, BeginKeepsParts DEF StartStageCheck
  <2>8. ASSUME NEW s \in Stages, NEW output \in Amounts, NEW scrap \in Records,
               NEW incomplete \in {0} \union {a \in Amounts : a >= Fine}, OutputCheck(r, o, s, output, scrap, incomplete)
        PROVE  PartsInv'
    <3>1. [op |-> "output", order |-> o, stage |-> s,
           output |-> output, scrap |-> scrap, incomplete |-> incomplete] \in Call
      BY RequestedAmounts DEF Call
    <3> QED BY <2>8, <3>1, BeginKeepsParts DEF OutputCheck
  <2> QED BY <1>1, <2>1, <2>2, <2>3, <2>4, <2>5, <2>6, <2>7, <2>8 DEF OrderNext
<1>2. ASSUME NEW r \in Requests, WriteNext(r)
      PROVE  PartsInv'
  <2>1. CASE CreateParts(r)
    <3>1. At(r, "parts") /\ call[r] \in Call /\ call[r].order \in Orders
      BY <2>1, CallOf DEF CreateParts
    <3>2. /\ parts' = [parts EXCEPT ![call[r].order] = "PENDING"]
          /\ parts[call[r].order] = "none" /\ UNCHANGED status
          /\ call'[r] = None
          /\ \A q \in Requests : q # r => call'[q] = call[q]
      BY <2>1, <3>1 DEF CreateParts, Finish, PartsInv, CallsKnowParts, At, TypeOK
    <3>3. \A q \in Requests : call[q] # None => call[q].order \in Orders
      BY CallShape DEF TypeOK
    <3>4. PartsJustifyStatus' /\ NoOrderNoParts'
      BY <3>1, <3>2 DEF PartsInv, PartsJustifyStatus, NoOrderNoParts, CallsKnowParts, At, TypeOK
    <3>5. CallsKnowParts'
      BY <3>1, <3>2, <3>3 DEF PartsInv, CallsKnowParts, PartsWrittenOnce, At, TypeOK
    <3>6. PartsWrittenOnce'
      BY <3>2 DEF PartsInv, PartsWrittenOnce, At
    <3> QED BY <3>4, <3>5, <3>6 DEF PartsInv
  <2>2. CASE PlanWrite(r)
    <3>1. call[r] \in Call /\ parts[call[r].order] # "none"
      BY <2>2, CallOf DEF PlanWrite, PartsInv, CallsKnowParts, At
    <3> QED BY <2>2, <3>1, SetStatusKeepsParts DEF PlanWrite, OrderStatus
  <2>3. CASE StartWrite(r)
    <3>1. call[r] \in Call /\ parts[call[r].order] = "RELEASED"
      BY <2>3, CallOf DEF StartWrite, PartsInv, CallsKnowParts, At
    <3> QED BY <2>3, <3>1, SetStatusKeepsParts DEF StartWrite, OrderStatus
  <2>4. CASE CompleteWrite(r)
    <3>1. call[r] \in Call /\ parts[call[r].order] = "RELEASED"
      BY <2>4, CallOf DEF CompleteWrite, PartsInv, CallsKnowParts, At
    <3> QED BY <2>4, <3>1, SetStatusKeepsParts DEF CompleteWrite, OrderStatus
  <2>5. CASE CloseWrite(r)
    <3>1. call[r] \in Call /\ parts[call[r].order] = "RELEASED"
      BY <2>5, CallOf DEF CloseWrite, PartsInv, CallsKnowParts, At
    <3> QED BY <2>5, <3>1, SetStatusKeepsParts DEF CloseWrite, OrderStatus
  <2>6. CASE ReleaseCommit(r)
    <3>1. At(r, "release") /\ call[r] \in Call /\ call[r].order \in Orders
      BY <2>6, CallOf DEF ReleaseCommit
    <3>2. CASE call[r].all
      <4>1. /\ parts' = [parts EXCEPT ![call[r].order] = "RELEASED"]
            /\ parts[call[r].order] # "none" /\ UNCHANGED status
            /\ call'[r] = None
            /\ \A q \in Requests : q # r => call'[q] = call[q]
        BY <2>6, <3>1, <3>2 DEF ReleaseCommit, Finish, PartsInv, CallsKnowParts, At, TypeOK
      <4>2. \A q \in Requests : call[q] # None => call[q].order \in Orders
        BY CallShape DEF TypeOK
      <4>3. PartsJustifyStatus' /\ NoOrderNoParts'
        BY <3>1, <4>1 DEF PartsInv, PartsJustifyStatus, NoOrderNoParts, TypeOK
      <4>4. CallsKnowParts'
        BY <3>1, <4>1, <4>2 DEF PartsInv, CallsKnowParts, TypeOK
      <4>5. PartsWrittenOnce'
        BY <4>1 DEF PartsInv, PartsWrittenOnce, At
      <4> QED BY <4>3, <4>4, <4>5 DEF PartsInv
    <3>3. CASE ~call[r].all
      <4>1. Finish(r) /\ UNCHANGED <<status, parts>>
        BY <2>6, <3>3 DEF ReleaseCommit
      <4>2. PartsJustifyStatus' /\ NoOrderNoParts'
        BY <4>1 DEF PartsInv, PartsJustifyStatus, NoOrderNoParts
      <4> QED BY <4>1, <4>2, FinishKeepsParts
    <3> QED BY <3>2, <3>3
  <2>7. CASE StartStageWrite(r) \/ OutputWrite(r) \/ Fail(r)
    <3>1. Finish(r) /\ UNCHANGED <<status, parts>>
      BY <2>7 DEF StartStageWrite, OutputWrite, Fail
    <3>2. PartsJustifyStatus' /\ NoOrderNoParts'
      BY <3>1 DEF PartsInv, PartsJustifyStatus, NoOrderNoParts
    <3> QED BY <3>1, <3>2, FinishKeepsParts
  <2> QED BY <1>2, <2>1, <2>2, <2>3, <2>4, <2>5, <2>6, <2>7 DEF WriteNext
<1>3. CASE UNCHANGED <<status, parts, call>>
  BY <1>3 DEF PartsInv, PartsJustifyStatus, CallsKnowParts, PartsWrittenOnce, NoOrderNoParts, At
<1> QED
  BY <1>1, <1>2, <1>3 DEF Next, vars, OpenPacking, PostPacking, CreateStage, UpdateStage, DeleteStage

\* BR-O02 and BR-O03 in every interleaving: an order past DRAFT has parts and
\* one past PLANNED has released all of them, although creation is two writes
\* and may die between them, and every status is written from an old check.
THEOREM PartsJustifyStatusCorrect == Spec => []PartsJustifyStatus
<1>1. Init => TypeOK /\ PartsInv
  BY TypeInit, PartsInit
<1>2. TypeOK /\ PartsInv /\ [Next]_vars => (TypeOK /\ PartsInv)'
  BY TypeStep, PartsStep
<1>3. PartsInv => PartsJustifyStatus
  BY DEF PartsInv
<1> QED BY <1>1, <1>2, <1>3, PTL DEF Spec

-----------------------------------------------------------------------------
(* One request at a time, and no stage moved during production.            *)

OneCall == \A r, q \in Requests : call[r] # None /\ call[q] # None => r = q

\* What a request checked still holds when it writes.
StillTrue(c) ==
    /\ c.op \in {"parts", "plan"} => status[c.order] = "DRAFT"
    /\ c.op \in {"start", "release"} => status[c.order] = "PLANNED"
    /\ c.op = "complete" => status[c.order] = "IN_PRODUCTION" /\ AllStagesComplete(c.order)
    /\ c.op = "close" => status[c.order] = "PRODUCTION_COMPLETE"
    /\ c.op = "stage" =>
          StageMayStart(c.order, c.stage) /\ c.input = StageInput(c.order, c.stage)
    /\ c.op = "output" =>
          /\ OutputMayBeRecorded(c.order, c.stage)
          /\ Balanced(log[<<c.order, c.stage>>].input, c.output, c.scrap, c.incomplete)

CallsStillTrue == \A r \in Requests : call[r] # None => StillTrue(call[r])

UniquePlaces == \A s, t \in Stages : Exists(s) /\ seq[s] = seq[t] => s = t

LoggedExist == \A o \in Orders : \A s \in LogsOf(o) : Exists(s)

LogsFromStart ==
    \A o \in Orders :
        LogsOf(o) # {} => status[o] \in {"IN_PRODUCTION", "PRODUCTION_COMPLETE", "CLOSED"}

\* The stages of an order in production are done in their order: those before
\* a stage that was started are complete, and let no less through.
InOrderOf(o) ==
    \A s, p \in LogsOf(o) :
        log[<<o, p>>].status # "PENDING" /\ seq[s] < seq[p] =>
            /\ log[<<o, s>>].status = "COMPLETE"
            /\ log[<<o, p>>].status = "COMPLETE" => log[<<o, p>>].output <= log[<<o, s>>].output

StagesInOrder == \A o \in Orders : status[o] = "IN_PRODUCTION" => InOrderOf(o)

\* A stage under way has taken in what the order still holds.
InputIsMaterial ==
    \A o \in Orders : status[o] = "IN_PRODUCTION" =>
        \A s \in Stages : log[<<o, s>>].status = "IN_PROGRESS" => log[<<o, s>>].input = Material(o)

NoScrap == [records |-> 0, dozens |-> 0]

ScrapRecorded ==
    \A k \in Orders \X Stages :
        /\ Near(scrapped[k], log[k].scrap)
        /\ log[k].status # "COMPLETE" =>
              log[k].scrap = 0 /\ log[k].incomplete = 0 /\ scrapped[k] = NoScrap

Places == UniquePlaces /\ LoggedExist

SerialInv ==
    /\ OneCall /\ CallsStillTrue
    /\ Places /\ LogsFromStart
    /\ StagesInOrder /\ InputIsMaterial /\ ScrapRecorded

-----------------------------------------------------------------------------
(* The material in an order.                                               *)

\* The logs of an order, one by one.
LEMMA LogStatus ==
    ASSUME TypeOK, NEW o \in Orders, NEW s \in Stages
    PROVE  /\ log[<<o, s>>] \in StageLog
           /\ s \in LogsOf(o) <=> log[<<o, s>>].status # "none"
           /\ s \in NonComplete(o) <=> log[<<o, s>>].status \in {"PENDING", "IN_PROGRESS"}
           /\ s \in CompleteStages(o) <=> log[<<o, s>>].status = "COMPLETE"
<1>1. log[<<o, s>>] \in StageLog
  BY DEF TypeOK
<1>2. log[<<o, s>>].status \in {"none", "PENDING", "IN_PROGRESS", "COMPLETE"}
  BY <1>1 DEF StageLog
<1> QED BY <1>1, <1>2 DEF LogsOf, NonComplete, CompleteStages

\* The material is the least output of the complete stages.
LEMMA MaterialIs ==
    ASSUME TypeOK, NEW o \in Orders, NEW m \in CompleteStages(o),
           \A t \in CompleteStages(o) : log[<<o, m>>].output <= log[<<o, t>>].output
    PROVE  Material(o) = log[<<o, m>>].output
<1>1. PICK S : S = {log[<<o, s>>].output : s \in CompleteStages(o)}
  OBVIOUS
<1>2. \A t \in CompleteStages(o) : log[<<o, t>>].output \in Int
  <2> TAKE t \in CompleteStages(o)
  <2>1. t \in Stages
    BY DEF CompleteStages, LogsOf
  <2> QED BY <2>1, LogStatus DEF StageLog
<1>3. S \subseteq Int
  BY <1>1, <1>2
<1>4. log[<<o, m>>].output \in S /\ \A x \in S : log[<<o, m>>].output <= x
  BY <1>1
<1>5. Min(S) = log[<<o, m>>].output
  BY <1>3, <1>4, MinIsLeast
<1> QED BY <1>1, <1>5 DEF Material

LEMMA MaterialBounds ==
    ASSUME TypeOK, NEW o \in Orders
    PROVE  /\ Material(o) \in Nat
           /\ \A t \in CompleteStages(o) : Material(o) <= log[<<o, t>>].output
<1>1. CASE CompleteStages(o) = {}
  BY <1>1 DEF Material, TypeOK
<1>2. CASE CompleteStages(o) # {}
  <2>1. CompleteStages(o) \subseteq Stages
    BY DEF CompleteStages, LogsOf
  <2>2. IsFiniteSet(CompleteStages(o))
    BY <2>1, LifecycleConstants, FS_Subset
  <2>3. \A t \in CompleteStages(o) : log[<<o, t>>].output \in Nat
    BY <2>1, LogStatus DEF StageLog
  <2>4. PICK m \in CompleteStages(o) :
               \A t \in CompleteStages(o) : log[<<o, m>>].output <= log[<<o, t>>].output
    <3>1. PICK place : place = [t \in CompleteStages(o) |-> log[<<o, t>>].output]
      OBVIOUS
    <3>2. \A t \in CompleteStages(o) : place[t] \in Int /\ place[t] = log[<<o, t>>].output
      BY <2>3, <3>1
    <3>3. PICK C : C = CompleteStages(o)
      OBVIOUS
    <3>4. C # {} /\ IsFiniteSet(C) /\ \A t \in C : place[t] \in Int
      BY <1>2, <2>2, <3>2, <3>3
    <3>5. \E m \in C : \A t \in C : place[m] <= place[t]
      BY ONLY <3>4, FirstAndLastExist
    <3> QED BY <3>2, <3>3, <3>5
  <2> QED BY <2>3, <2>4, MaterialIs
<1> QED BY <1>1, <1>2

\* An order whose logs and releases a step leaves alone is as it was.
LEMMA OrderUntouched ==
    ASSUME NEW o \in Orders, \A s \in Stages : log'[<<o, s>>] = log[<<o, s>>],
           released'[o] = released[o]
    PROVE  /\ LogsOf(o)' = LogsOf(o)
           /\ NonComplete(o)' = NonComplete(o)
           /\ CompleteStages(o)' = CompleteStages(o)
           /\ Material(o)' = Material(o)
           /\ \A s \in Stages : Lost(o, s)' = Lost(o, s)
<1>1. LogsOf(o)' = LogsOf(o) /\ LogsOf(o) \subseteq Stages
  BY DEF LogsOf
<1>2. NonComplete(o)' = NonComplete(o)
  BY <1>1 DEF NonComplete
<1>3. CompleteStages(o)' = CompleteStages(o) /\ CompleteStages(o) \subseteq Stages
  BY <1>1, <1>2 DEF CompleteStages
<1>4. {log'[<<o, s>>].output : s \in CompleteStages(o)} = {log[<<o, s>>].output : s \in CompleteStages(o)}
  BY <1>3
<1>5. Material(o)' = Material(o)
  BY <1>3, <1>4 DEF Material
<1> QED BY <1>1, <1>2, <1>3, <1>5 DEF Lost

\* A stage under way: those before it are complete, those after it are not begun.
LEMMA AroundStarted ==
    ASSUME TypeOK, Places, NEW o \in Orders, InOrderOf(o),
           NEW s \in Stages, log[<<o, s>>].status = "IN_PROGRESS",
           NEW t \in Stages, t # s, log[<<o, t>>].status # "none"
    PROVE  \/ seq[t] < seq[s] /\ log[<<o, t>>].status = "COMPLETE"
           \/ seq[s] < seq[t] /\ log[<<o, t>>].status = "PENDING"
<1>1. s \in LogsOf(o) /\ t \in LogsOf(o)
  BY LogStatus
<1>2. seq[s] \in Int /\ seq[t] \in Int /\ seq[s] # seq[t]
  BY <1>1, LifecycleConstants DEF Places, UniquePlaces, LoggedExist, TypeOK
<1> QED BY <1>1, <1>2 DEF InOrderOf

\* A stage that may start: likewise, and it takes in the material of the order.
LEMMA AroundStarting ==
    ASSUME TypeOK, Places, NEW o \in Orders, InOrderOf(o),
           NEW s \in Stages, StageMayStart(o, s)
    PROVE  /\ \A t \in Stages : t # s /\ log[<<o, t>>].status # "none" =>
                  \/ seq[t] < seq[s] /\ log[<<o, t>>].status = "COMPLETE"
                  \/ seq[s] < seq[t] /\ log[<<o, t>>].status = "PENDING"
           /\ StageInput(o, s) = Material(o)
<1>1. log[<<o, s>>].status = "PENDING" /\ s \in LogsOf(o)
  BY LogStatus DEF StageMayStart
<1>2. \A t \in Stages : seq[t] \in Int
  BY LifecycleConstants DEF TypeOK
<1>3. \A t \in Stages : t # s /\ log[<<o, t>>].status # "none" => Exists(t) /\ seq[s] # seq[t]
  BY <1>1, LogStatus DEF Places, UniquePlaces, LoggedExist
<1>4. CASE IsFirst(s)
  <2>1. \A t \in Stages : t # s /\ log[<<o, t>>].status # "none" => seq[s] < seq[t]
    BY <1>2, <1>3, <1>4 DEF IsFirst
  <2>2. \A t \in Stages : t # s /\ log[<<o, t>>].status # "none" => log[<<o, t>>].status = "PENDING"
    BY <1>1, <2>1, LogStatus DEF InOrderOf
  <2>3. CompleteStages(o) = {}
    <3> SUFFICES ASSUME NEW t \in CompleteStages(o) PROVE FALSE
      OBVIOUS
    <3>1. t \in Stages
      BY DEF CompleteStages, LogsOf
    <3> QED BY <1>1, <2>2, <3>1, LogStatus
  <2> QED BY <1>4, <2>1, <2>2, <2>3 DEF StageInput, Material
<1>5. CASE ~IsFirst(s)
  <2> DEFINE p == Previous(s)
  <2>1. /\ p \in Stages /\ Exists(p) /\ seq[p] < seq[s]
        /\ \A u \in Stages : Exists(u) /\ seq[u] < seq[s] => seq[u] <= seq[p]
    BY <1>5, PreviousIsLastEarlier DEF Earlier, TypeOK
  <2>2. log[<<o, p>>].status = "COMPLETE"
    BY <1>5 DEF StageMayStart
  <2> HIDE DEF p
  <2>3. p \in LogsOf(o) /\ p \in CompleteStages(o)
    BY <2>1, <2>2, LogStatus
  <2>4. ASSUME NEW t \in Stages, t # s, log[<<o, t>>].status # "none"
        PROVE  \/ /\ seq[t] < seq[s] /\ log[<<o, t>>].status = "COMPLETE"
                  /\ log[<<o, p>>].output <= log[<<o, t>>].output
               \/ seq[s] < seq[t] /\ log[<<o, t>>].status = "PENDING"
    <3>1. t \in LogsOf(o) /\ Exists(t) /\ seq[t] # seq[s]
      BY <1>3, <2>4, LogStatus
    <3>2. CASE seq[s] < seq[t]
      BY <1>1, <3>1, <3>2 DEF InOrderOf
    <3>3. CASE seq[t] < seq[s]
      <4>1. t = p \/ seq[t] < seq[p]
        BY <1>2, <2>1, <3>1, <3>3 DEF Places, UniquePlaces
      <4>2. log[<<o, p>>].output \in Nat
        BY <2>1, LogStatus DEF StageLog
      <4> QED BY <2>2, <2>3, <3>1, <3>3, <4>1, <4>2 DEF InOrderOf
    <3> QED BY <1>2, <3>1, <3>2, <3>3
  <2>5. \A t \in CompleteStages(o) : log[<<o, p>>].output <= log[<<o, t>>].output
    <3> TAKE t \in CompleteStages(o)
    <3>1. t \in Stages
      BY DEF CompleteStages, LogsOf
    <3>2. log[<<o, t>>].status = "COMPLETE"
      BY <3>1, LogStatus
    <3> QED BY <1>1, <2>4, <3>1, <3>2
  <2>6. Material(o) = log[<<o, p>>].output
    BY <2>3, <2>5, MaterialIs
  <2> QED BY <1>5, <2>4, <2>6 DEF StageInput, p
<1> QED BY <1>4, <1>5

-----------------------------------------------------------------------------
(* The invariant is kept.                                                  *)

\* The last request that ends leaves none.
LEMMA FinishLeavesNone ==
    ASSUME TypeOK, OneCall, NEW r \in Requests, call[r] # None, Finish(r)
    PROVE  OneCall' /\ CallsStillTrue'
<1>1. \A q \in Requests : call'[q] = None
  BY DEF OneCall, Finish, TypeOK
<1> QED BY <1>1 DEF OneCall, CallsStillTrue

\* A request that begins with a fresh check disturbs nothing.
LEMMA BeginKeepsSerial ==
    ASSUME Serial, TypeOK, SerialInv, NEW r \in Requests, NEW c \in Call, Begin(r, c), StillTrue(c)
    PROVE  SerialInv'
<1>1. UNCHANGED <<status, parts, released, seq, log, scrapped, packing>>
  BY DEF Begin
<1>2. call'[r] = c /\ \A q \in Requests : q # r => call'[q] = None
  BY DEF Begin, MayBegin, Idle, TypeOK
<1>3. StillTrue(c)'
  BY <1>1 DEF StillTrue, AllStagesComplete, LogsOf, NonComplete, StageMayStart, IsFirst, Exists, Previous,
              Earlier, StageInput, OutputMayBeRecorded, Balanced
<1>4. OneCall' /\ CallsStillTrue'
  BY <1>2, <1>3 DEF OneCall, CallsStillTrue
<1>5. \A o \in Orders : LogsOf(o)' = LogsOf(o) /\ Material(o)' = Material(o)
  BY <1>1, OrderUntouched
<1>6. Places' /\ LogsFromStart' /\ StagesInOrder' /\ InputIsMaterial' /\ ScrapRecorded'
  BY <1>1, <1>5 DEF SerialInv, Places, UniquePlaces, LoggedExist, LogsFromStart, StagesInOrder, InOrderOf,
                    InputIsMaterial, ScrapRecorded, Exists
<1> QED BY <1>4, <1>6 DEF SerialInv

\* A status other than IN_PRODUCTION may be written, if the order has no log
\* or is past its start.
LEMMA SetStatusKeepsSerial ==
    ASSUME TypeOK, SerialInv, NEW r \in Requests, call[r] # None, call[r].order \in Orders,
           NEW s \in OrderStatus, SetStatus(r, s), UNCHANGED log, s # "IN_PRODUCTION",
           LogsOf(call[r].order) # {} => s \in {"PRODUCTION_COMPLETE", "CLOSED"}
    PROVE  SerialInv'
<1>1. /\ status' = [status EXCEPT ![call[r].order] = s] /\ Finish(r)
      /\ UNCHANGED <<released, seq, log, scrapped>>
  BY DEF SetStatus
<1>2. OneCall' /\ CallsStillTrue'
  BY <1>1, FinishLeavesNone DEF SerialInv
<1>3. \A o \in Orders : LogsOf(o)' = LogsOf(o) /\ Material(o)' = Material(o)
  BY <1>1, OrderUntouched
<1>4. \A o \in Orders : o # call[r].order => status'[o] = status[o]
  BY <1>1 DEF TypeOK
<1>5. status'[call[r].order] = s
  BY <1>1 DEF TypeOK
<1>6. Places' /\ ScrapRecorded'
  BY <1>1, <1>3 DEF SerialInv, Places, UniquePlaces, LoggedExist, ScrapRecorded, Exists
<1>7. LogsFromStart'
  BY <1>3, <1>4, <1>5 DEF SerialInv, LogsFromStart
<1>8. StagesInOrder'
  BY <1>1, <1>3, <1>4, <1>5 DEF SerialInv, StagesInOrder, InOrderOf
<1>9. InputIsMaterial'
  BY <1>1, <1>3, <1>4, <1>5 DEF SerialInv, InputIsMaterial
<1> QED BY <1>2, <1>6, <1>7, <1>8, <1>9 DEF SerialInv

LEMMA StartWriteKeepsSerial ==
    ASSUME TypeOK, SerialInv, NEW r \in Requests, StartWrite(r)
    PROVE  SerialInv'
<1>1. PICK b \in Orders : b = call[r].order /\ call[r] # None /\ status[b] = "PLANNED"
  BY CallOf DEF StartWrite, SerialInv, CallsStillTrue, StillTrue, At
<1>2. /\ status' = [status EXCEPT ![b] = "IN_PRODUCTION"] /\ Finish(r)
      /\ UNCHANGED <<released, seq, scrapped>>
  BY <1>1 DEF StartWrite, SetStatus
<1>3. OneCall' /\ CallsStillTrue'
  BY <1>1, <1>2, FinishLeavesNone DEF SerialInv
<1>4. \A t \in Stages : log[<<b, t>>].status = "none"
  BY <1>1, LogStatus DEF SerialInv, LogsFromStart
<1>5. \A o \in Orders, t \in Stages :
         log'[<<o, t>>] = IF o = b /\ Exists(t) THEN [NoLog EXCEPT !.status = "PENDING"] ELSE log[<<o, t>>]
  BY <1>1, <1>4 DEF StartWrite, TypeOK
<1>6. \A o \in Orders : o # b =>
         LogsOf(o)' = LogsOf(o) /\ Material(o)' = Material(o) /\ status'[o] = status[o]
  BY <1>1, <1>2, <1>5, OrderUntouched DEF TypeOK
<1>7. \A t \in Stages : log'[<<b, t>>].status = IF Exists(t) THEN "PENDING" ELSE "none"
  BY <1>1, <1>4, <1>5 DEF NoLog
<1>8. \A t \in Stages : t \in LogsOf(b)' <=> Exists(t)
  BY <1>7 DEF LogsOf
<1>9. Places'
  <2>1. UniquePlaces'
    BY <1>2 DEF SerialInv, Places, UniquePlaces, Exists
  <2>2. LoggedExist'
    <3> SUFFICES ASSUME NEW o \in Orders, NEW s \in LogsOf(o)' PROVE Exists(s)'
      BY DEF LoggedExist
    <3>1. s \in Stages
      BY DEF LogsOf
    <3>2. Exists(s)
      BY <1>6, <1>8, <3>1 DEF SerialInv, Places, LoggedExist
    <3> QED BY <1>2, <3>2 DEF Exists
  <2> QED BY <2>1, <2>2 DEF Places
<1>10. LogsFromStart'
  BY <1>1, <1>2, <1>6 DEF SerialInv, LogsFromStart, TypeOK
<1>11. StagesInOrder'
  <2> SUFFICES ASSUME NEW o \in Orders, status'[o] = "IN_PRODUCTION" PROVE InOrderOf(o)'
    BY DEF StagesInOrder
  <2>1. CASE o = b
    <3>1. \A t \in LogsOf(b)' : log'[<<b, t>>].status = "PENDING"
      BY <1>7, <1>8 DEF LogsOf
    <3> QED BY <2>1, <3>1 DEF InOrderOf
  <2>2. CASE o # b
    <3>1. InOrderOf(o) /\ LogsOf(o)' = LogsOf(o)
      BY <1>6, <2>2 DEF SerialInv, StagesInOrder
    <3>2. \A t \in LogsOf(o) : log'[<<o, t>>] = log[<<o, t>>]
      BY <1>5, <2>2 DEF LogsOf
    <3> QED BY <1>2, <3>1, <3>2 DEF InOrderOf
  <2> QED BY <2>1, <2>2
<1>12. InputIsMaterial'
  BY <1>1, <1>5, <1>6, <1>7 DEF SerialInv, InputIsMaterial
<1>13. ScrapRecorded'
  <2> SUFFICES ASSUME NEW o \in Orders, NEW t \in Stages
               PROVE  /\ Near(scrapped'[<<o, t>>], log'[<<o, t>>].scrap)
                      /\ log'[<<o, t>>].status # "COMPLETE" =>
                            /\ log'[<<o, t>>].scrap = 0 /\ log'[<<o, t>>].incomplete = 0
                            /\ scrapped'[<<o, t>>] = NoScrap
    BY DEF ScrapRecorded
  <2>1. /\ Near(scrapped[<<o, t>>], log[<<o, t>>].scrap)
        /\ log[<<o, t>>].status # "COMPLETE" =>
              log[<<o, t>>].scrap = 0 /\ log[<<o, t>>].incomplete = 0 /\ scrapped[<<o, t>>] = NoScrap
    BY DEF SerialInv, ScrapRecorded
  <2> QED BY <1>2, <1>4, <1>5, <2>1 DEF NoLog
<1> QED BY <1>3, <1>9, <1>10, <1>11, <1>12, <1>13 DEF SerialInv

LEMMA ReleaseCommitKeepsSerial ==
    ASSUME TypeOK, SerialInv, NEW r \in Requests, ReleaseCommit(r)
    PROVE  SerialInv'
<1>1. PICK b \in Orders : b = call[r].order /\ call[r] # None /\ status[b] = "PLANNED"
  BY CallOf DEF ReleaseCommit, SerialInv, CallsStillTrue, StillTrue, At
<1>2. Finish(r) /\ UNCHANGED <<status, seq, log, scrapped>>
  BY DEF ReleaseCommit
<1>3. OneCall' /\ CallsStillTrue'
  BY <1>1, <1>2, FinishLeavesNone DEF SerialInv
<1>4. \A o \in Orders : o # b => released'[o] = released[o]
  BY <1>1 DEF ReleaseCommit, TypeOK
<1>5. \A o \in Orders : o # b => Material(o)' = Material(o)
  BY <1>2, <1>4, OrderUntouched
<1>6. Places' /\ LogsFromStart' /\ StagesInOrder' /\ ScrapRecorded'
  BY <1>2 DEF SerialInv, Places, UniquePlaces, LoggedExist, LogsFromStart, StagesInOrder, InOrderOf,
              ScrapRecorded, Exists, LogsOf
<1>7. InputIsMaterial'
  BY <1>1, <1>2, <1>5 DEF SerialInv, InputIsMaterial
<1> QED BY <1>3, <1>6, <1>7 DEF SerialInv

\* What the start of a stage does to the logs.
LEMMA StageStarted ==
    ASSUME TypeOK, SerialInv, NEW r \in Requests, StartStageWrite(r)
    PROVE  \E o \in Orders, s \in Stages :
              /\ call[r] # None /\ Finish(r)
              /\ StageMayStart(o, s) /\ InOrderOf(o)
              /\ log'[<<o, s>>] = [log[<<o, s>>] EXCEPT !.status = "IN_PROGRESS", !.input = Material(o)]
              /\ \A p \in Orders, t \in Stages : p # o \/ t # s => log'[<<p, t>>] = log[<<p, t>>]
              /\ UNCHANGED <<status, released, seq, scrapped>>
<1>1. At(r, "stage")
  BY DEF StartStageWrite
<1>2. call[r] \in Call /\ call[r] # None /\ call[r].op = "stage"
  BY <1>1, CallOf DEF At
<1>3. PICK o \in Orders, s \in Stages : o = call[r].order /\ s = call[r].stage
  BY <1>2, CallShape
<1>4. StageMayStart(o, s) /\ call[r].input = StageInput(o, s)
  BY <1>2, <1>3 DEF SerialInv, CallsStillTrue, StillTrue
<1>5. InOrderOf(o)
  BY <1>4 DEF SerialInv, StagesInOrder, StageMayStart
<1>6. call[r].input = Material(o)
  BY <1>4, <1>5, AroundStarting DEF SerialInv
<1> DEFINE row == [log[<<o, s>>] EXCEPT !.status = "IN_PROGRESS", !.input = Material(o)]
<1>7. log' = [log EXCEPT ![<<o, s>>] = row]
  BY <1>3, <1>6 DEF StartStageWrite
<1>8. log'[<<o, s>>] = row /\ \A p \in Orders, t \in Stages : p # o \/ t # s => log'[<<p, t>>] = log[<<p, t>>]
  <2> HIDE DEF row
  <2> QED BY <1>7 DEF TypeOK
<1>9. Finish(r) /\ UNCHANGED <<status, released, seq, scrapped>>
  BY DEF StartStageWrite
<1> QED BY <1>2, <1>4, <1>5, <1>8, <1>9

\* It leaves the stages to complete, the material and the losses as they were.
LEMMA StageStartedKeepsOrders ==
    ASSUME TypeOK, SerialInv, NEW r \in Requests, StartStageWrite(r), NEW p \in Orders
    PROVE  /\ LogsOf(p)' = LogsOf(p)
           /\ NonComplete(p)' = NonComplete(p)
           /\ CompleteStages(p)' = CompleteStages(p)
           /\ Material(p)' = Material(p)
           /\ \A t \in Stages : Lost(p, t)' = Lost(p, t)
<1>1. PICK o \in Orders, s \in Stages :
              /\ StageMayStart(o, s)
              /\ log'[<<o, s>>] = [log[<<o, s>>] EXCEPT !.status = "IN_PROGRESS", !.input = Material(o)]
              /\ \A q \in Orders, t \in Stages : q # o \/ t # s => log'[<<q, t>>] = log[<<q, t>>]
              /\ UNCHANGED released
  BY StageStarted
<1>2. CASE p # o
  BY <1>1, <1>2, OrderUntouched
<1>3. CASE p = o
  <2>1. log[<<o, s>>] \in StageLog /\ log[<<o, s>>].status = "PENDING"
    BY <1>1, LogStatus DEF StageMayStart
  <2>2. /\ log'[<<o, s>>].status = "IN_PROGRESS" /\ log'[<<o, s>>].output = log[<<o, s>>].output
        /\ log'[<<o, s>>].scrap = log[<<o, s>>].scrap /\ log'[<<o, s>>].incomplete = log[<<o, s>>].incomplete
    BY <1>1, <2>1 DEF StageLog
  <2>3. \A t \in Stages :
            /\ log'[<<o, t>>].output = log[<<o, t>>].output
            /\ log'[<<o, t>>].scrap = log[<<o, t>>].scrap
            /\ log'[<<o, t>>].incomplete = log[<<o, t>>].incomplete
            /\ log'[<<o, t>>].status = "none" <=> log[<<o, t>>].status = "none"
            /\ log'[<<o, t>>].status = "COMPLETE" <=> log[<<o, t>>].status = "COMPLETE"
    BY <1>1, <2>1, <2>2
  <2>4. LogsOf(o)' = LogsOf(o) /\ LogsOf(o) \subseteq Stages
    BY <2>3 DEF LogsOf
  <2>5. NonComplete(o)' = NonComplete(o)
    BY <2>3, <2>4 DEF NonComplete
  <2>6. CompleteStages(o)' = CompleteStages(o) /\ CompleteStages(o) \subseteq Stages
    BY <2>4, <2>5 DEF CompleteStages
  <2>7. {log'[<<o, t>>].output : t \in CompleteStages(o)} = {log[<<o, t>>].output : t \in CompleteStages(o)}
    BY <2>3, <2>6
  <2>8. Material(o)' = Material(o)
    BY <1>1, <2>6, <2>7 DEF Material
  <2>9. \A t \in Stages : Lost(o, t)' = Lost(o, t)
    BY <2>3 DEF Lost
  <2> QED BY <1>3, <2>4, <2>5, <2>6, <2>8, <2>9
<1> QED BY <1>2, <1>3

LEMMA StartStageKeepsSerial ==
    ASSUME TypeOK, SerialInv, NEW r \in Requests, StartStageWrite(r)
    PROVE  SerialInv'
<1>1. PICK o \in Orders, s \in Stages :
              /\ call[r] # None /\ Finish(r)
              /\ StageMayStart(o, s) /\ InOrderOf(o)
              /\ log'[<<o, s>>] = [log[<<o, s>>] EXCEPT !.status = "IN_PROGRESS", !.input = Material(o)]
              /\ \A p \in Orders, t \in Stages : p # o \/ t # s => log'[<<p, t>>] = log[<<p, t>>]
              /\ UNCHANGED <<status, released, seq, scrapped>>
  BY StageStarted
<1>2. \A p \in Orders : LogsOf(p)' = LogsOf(p) /\ Material(p)' = Material(p)
  BY StageStartedKeepsOrders
<1>3. OneCall' /\ CallsStillTrue'
  BY <1>1, FinishLeavesNone DEF SerialInv
<1>4. log[<<o, s>>] \in StageLog /\ log[<<o, s>>].status = "PENDING" /\ s \in LogsOf(o)
  BY <1>1, LogStatus DEF StageMayStart
<1>5. /\ log'[<<o, s>>].status = "IN_PROGRESS" /\ log'[<<o, s>>].input = Material(o)
      /\ log'[<<o, s>>].scrap = log[<<o, s>>].scrap /\ log'[<<o, s>>].incomplete = log[<<o, s>>].incomplete
  BY <1>1, <1>4 DEF StageLog
<1>6. \A t \in Stages : t # s /\ log[<<o, t>>].status # "none" =>
                  \/ seq[t] < seq[s] /\ log[<<o, t>>].status = "COMPLETE"
                  \/ seq[s] < seq[t] /\ log[<<o, t>>].status = "PENDING"
  BY <1>1, AroundStarting DEF SerialInv
<1>7. Places' /\ LogsFromStart'
  BY <1>1, <1>2 DEF SerialInv, Places, UniquePlaces, LoggedExist, LogsFromStart, Exists
<1>8. StagesInOrder'
  <2> SUFFICES ASSUME NEW q \in Orders, status'[q] = "IN_PRODUCTION" PROVE InOrderOf(q)'
    BY DEF StagesInOrder
  <2>1. CASE q # o
    <3>1. InOrderOf(q)
      BY <1>1 DEF SerialInv, StagesInOrder
    <3>2. \A t \in LogsOf(q) : log'[<<q, t>>] = log[<<q, t>>]
      BY <1>1, <2>1 DEF LogsOf
    <3> QED BY <1>1, <1>2, <3>1, <3>2 DEF InOrderOf
  <2>2. CASE q = o
    <3> SUFFICES ASSUME NEW a \in LogsOf(o), NEW p \in LogsOf(o),
                        log'[<<o, p>>].status # "PENDING", seq[a] < seq[p]
                 PROVE  /\ log'[<<o, a>>].status = "COMPLETE"
                        /\ log'[<<o, p>>].status = "COMPLETE" => log'[<<o, p>>].output <= log'[<<o, a>>].output
      BY <1>1, <1>2, <2>2 DEF InOrderOf
    <3>1. a \in Stages /\ p \in Stages /\ log[<<o, a>>].status # "none" /\ log[<<o, p>>].status # "none"
      BY DEF LogsOf
    <3>2. seq[a] \in Int /\ seq[p] \in Int /\ seq[s] \in Int
      BY <3>1, LifecycleConstants DEF TypeOK
    <3>3. CASE p = s
      <4>1. a # s /\ ~(seq[s] < seq[a])
        BY <3>2, <3>3
      <4>2. log[<<o, a>>].status = "COMPLETE" /\ log'[<<o, a>>] = log[<<o, a>>]
        BY <1>1, <1>6, <3>1, <4>1
      <4> QED BY <1>5, <3>3, <4>2
    <3>4. CASE p # s
      <4>1. log'[<<o, p>>] = log[<<o, p>>]
        BY <1>1, <3>1, <3>4
      <4>2. seq[p] < seq[s]
        BY <1>6, <3>1, <3>4, <4>1
      <4>3. a # s /\ log'[<<o, a>>] = log[<<o, a>>]
        BY <1>1, <3>1, <3>2, <4>2
      <4> QED BY <1>1, <4>1, <4>3 DEF InOrderOf
    <3> QED BY <3>3, <3>4
  <2> QED BY <2>1, <2>2
<1>9. InputIsMaterial'
  <2> SUFFICES ASSUME NEW p \in Orders, status'[p] = "IN_PRODUCTION",
                      NEW t \in Stages, log'[<<p, t>>].status = "IN_PROGRESS"
               PROVE  log'[<<p, t>>].input = Material(p)
    BY <1>2 DEF InputIsMaterial
  <2>1. CASE p = o /\ t = s
    BY <1>5, <2>1
  <2>2. CASE p # o \/ t # s
    <3>1. log'[<<p, t>>] = log[<<p, t>>] /\ status[p] = "IN_PRODUCTION"
      BY <1>1, <2>2
    <3> QED BY <3>1 DEF SerialInv, InputIsMaterial
  <2> QED BY <2>1, <2>2
<1>10. ScrapRecorded'
  <2> SUFFICES ASSUME NEW p \in Orders, NEW t \in Stages
               PROVE  /\ Near(scrapped'[<<p, t>>], log'[<<p, t>>].scrap)
                      /\ log'[<<p, t>>].status # "COMPLETE" =>
                            /\ log'[<<p, t>>].scrap = 0 /\ log'[<<p, t>>].incomplete = 0
                            /\ scrapped'[<<p, t>>] = NoScrap
    BY DEF ScrapRecorded
  <2>1. /\ Near(scrapped[<<p, t>>], log[<<p, t>>].scrap)
        /\ log[<<p, t>>].status # "COMPLETE" =>
              log[<<p, t>>].scrap = 0 /\ log[<<p, t>>].incomplete = 0 /\ scrapped[<<p, t>>] = NoScrap
    BY DEF SerialInv, ScrapRecorded
  <2>2. CASE p = o /\ t = s
    BY <1>1, <1>4, <1>5, <2>1, <2>2
  <2>3. CASE p # o \/ t # s
    BY <1>1, <2>1, <2>3
  <2> QED BY <2>2, <2>3
<1> QED BY <1>3, <1>7, <1>8, <1>9, <1>10 DEF SerialInv

\* What is lost between two amounts, to within a unit.
IsLoss(lost, before, after) == before - after - 1 <= lost /\ lost <= before - after + 1

\* What the recording of an output does to the logs: the stage is complete,
\* and what it did not let through is its scrap and what it left incomplete.
LEMMA OutputRecorded ==
    ASSUME TypeOK, SerialInv, NEW r \in Requests, OutputWrite(r)
    PROVE  \E o \in Orders, s \in Stages, output, scrap, incomplete \in Nat :
              /\ call[r] # None /\ Finish(r)
              /\ status[o] = "IN_PRODUCTION" /\ log[<<o, s>>].status = "IN_PROGRESS"
              /\ output <= Material(o) /\ IsLoss(scrap + incomplete, Material(o), output)
              /\ log'[<<o, s>>].status = "COMPLETE" /\ log'[<<o, s>>].output = output
              /\ log'[<<o, s>>].scrap = scrap /\ log'[<<o, s>>].incomplete = incomplete
              /\ Near(scrapped'[<<o, s>>], scrap)
              /\ \A p \in Orders, t \in Stages : p # o \/ t # s =>
                    log'[<<p, t>>] = log[<<p, t>>] /\ scrapped'[<<p, t>>] = scrapped[<<p, t>>]
              /\ UNCHANGED <<status, released, seq>>
<1>1. At(r, "output")
  BY DEF OutputWrite
<1>2. call[r] \in Call /\ call[r] # None /\ call[r].op = "output"
  BY <1>1, CallOf DEF At
<1> DEFINE c == call[r]
<1>3. PICK o \in Orders, s \in Stages, output, scrap, incomplete \in Nat :
              /\ o = c.order /\ s = c.stage
              /\ output = Rounded(c.output) /\ scrap = Rounded(Total(c.scrap)) /\ incomplete = Rounded(c.incomplete)
  BY <1>2, CallShape, RowsAreNear, RoundedIs
<1>4. /\ status[o] = "IN_PRODUCTION" /\ log[<<o, s>>].status = "IN_PROGRESS"
      /\ Balanced(log[<<o, s>>].input, c.output, c.scrap, c.incomplete)
  BY <1>2, <1>3 DEF SerialInv, CallsStillTrue, StillTrue, OutputMayBeRecorded
<1>5. log[<<o, s>>].input = Material(o) /\ Material(o) \in Nat
  BY <1>4, MaterialBounds DEF SerialInv, InputIsMaterial
<1>12. output <= Material(o) /\ IsLoss(scrap + incomplete, Material(o), output)
  <2>1. c.output \in Nat /\ c.scrap \in Seq(Nat) /\ c.incomplete \in Nat
    BY <1>2, CallShape
  <2> HIDE DEF c
  <2>2. /\ output <= Material(o) /\ output + scrap + incomplete <= Material(o) + 1
        /\ Material(o) <= output + scrap + incomplete + 1
    BY <1>3, <1>4, <1>5, <2>1, BalancedRows
  <2> QED BY <1>5, <2>2 DEF IsLoss
<1> DEFINE row == [status |-> "COMPLETE", input |-> log[<<o, s>>].input,
                   output |-> output, scrap |-> scrap, incomplete |-> incomplete]
<1>6. log' = [log EXCEPT ![<<o, s>>] = row]
  BY <1>3 DEF OutputWrite
<1>7. log'[<<o, s>>] = row /\ \A p \in Orders, t \in Stages : p # o \/ t # s => log'[<<p, t>>] = log[<<p, t>>]
  <2> HIDE DEF row
  <2> QED BY <1>6 DEF TypeOK
<1> DEFINE rows == [records |-> scrapped[<<o, s>>].records + Len(c.scrap),
                    dozens |-> scrapped[<<o, s>>].dozens + Total(InRows(c.scrap))]
<1>8. scrapped' = [scrapped EXCEPT ![<<o, s>>] = rows]
  BY <1>3 DEF OutputWrite
<1>9. Near(rows, scrap)
  <2>1. scrapped[<<o, s>>] = NoScrap
    BY <1>4 DEF SerialInv, ScrapRecorded
  <2>2. c.scrap \in Seq(Nat)
    BY <1>2, CallShape
  <2>3. Len(c.scrap) \in Nat /\ Total(InRows(c.scrap)) \in Nat
    BY <2>2, RowsAreNear
  <2>4. rows = [records |-> Len(c.scrap), dozens |-> Total(InRows(c.scrap))]
    BY <2>1, <2>3 DEF NoScrap
  <2> HIDE DEF rows, c
  <2> QED BY <1>3, <2>2, <2>4, RowsAreNear
<1>10. /\ Near(scrapped'[<<o, s>>], scrap)
       /\ \A p \in Orders, t \in Stages : p # o \/ t # s => scrapped'[<<p, t>>] = scrapped[<<p, t>>]
  <2> HIDE DEF rows
  <2> QED BY <1>8, <1>9 DEF TypeOK
<1>11. Finish(r) /\ UNCHANGED <<status, released, seq>>
  BY DEF OutputWrite
<1> QED BY <1>2, <1>4, <1>7, <1>10, <1>11, <1>12

\* It completes that stage and no other, and leaves its output in the order.
LEMMA OutputRecordedInOrders ==
    ASSUME TypeOK, SerialInv, NEW r \in Requests, OutputWrite(r),
           NEW o \in Orders, NEW s \in Stages, NEW output \in Nat,
           log[<<o, s>>].status = "IN_PROGRESS", output <= Material(o),
           log'[<<o, s>>].status = "COMPLETE", log'[<<o, s>>].output = output,
           \A p \in Orders, t \in Stages : p # o \/ t # s => log'[<<p, t>>] = log[<<p, t>>]
    PROVE  /\ LogsOf(o)' = LogsOf(o)
           /\ NonComplete(o)' = NonComplete(o) \ {s}
           /\ CompleteStages(o)' = CompleteStages(o) \union {s}
           /\ Material(o)' = output
<1>1. s \in LogsOf(o) /\ s \in NonComplete(o)
  BY LogStatus
<1>2. \A t \in Stages : t # s => log'[<<o, t>>] = log[<<o, t>>]
  OBVIOUS
<1>3. LogsOf(o)' = LogsOf(o) /\ LogsOf(o) \subseteq Stages
  BY <1>1, <1>2 DEF LogsOf
<1>4. NonComplete(o)' = NonComplete(o) \ {s}
  BY <1>1, <1>2, <1>3 DEF NonComplete
<1>5. CompleteStages(o)' = CompleteStages(o) \union {s} /\ CompleteStages(o) \subseteq Stages
  BY <1>1, <1>3, <1>4 DEF CompleteStages
<1>6. \A t \in CompleteStages(o) : Material(o) <= log[<<o, t>>].output /\ log[<<o, t>>].output \in Nat
  BY <1>5, MaterialBounds, LogStatus DEF StageLog
<1>7. Material(o) \in Nat /\ s \notin CompleteStages(o)
  BY <1>1, MaterialBounds DEF CompleteStages
<1>8. \A t \in CompleteStages(o)' : output <= log'[<<o, t>>].output /\ log'[<<o, t>>].output \in Int
  <2> TAKE t \in CompleteStages(o)'
  <2>1. CASE t = s
    BY <2>1
  <2>2. CASE t # s
    <3>1. t \in CompleteStages(o) /\ log'[<<o, t>>] = log[<<o, t>>]
      BY <1>2, <1>5, <2>2
    <3> QED BY <1>6, <1>7, <3>1
  <2> QED BY <2>1, <2>2
<1>9. PICK S : S = {log'[<<o, t>>].output : t \in CompleteStages(o)'}
  OBVIOUS
<1>10. S \subseteq Int /\ output \in S /\ \A x \in S : output <= x
  BY <1>5, <1>8, <1>9
<1>11. Min(S) = output
  BY ONLY <1>10, MinIsLeast
<1>12. CompleteStages(o)' # {}
  BY <1>5
<1>13. Material(o)' = output
  BY <1>9, <1>11, <1>12 DEF Material
<1> QED BY <1>3, <1>4, <1>5, <1>13

LEMMA OutputKeepsSerial ==
    ASSUME TypeOK, SerialInv, NEW r \in Requests, OutputWrite(r)
    PROVE  SerialInv'
<1>1. PICK o \in Orders, s \in Stages, output, scrap, incomplete \in Nat :
              /\ call[r] # None /\ Finish(r)
              /\ status[o] = "IN_PRODUCTION" /\ log[<<o, s>>].status = "IN_PROGRESS"
              /\ output <= Material(o) /\ IsLoss(scrap + incomplete, Material(o), output)
              /\ log'[<<o, s>>].status = "COMPLETE" /\ log'[<<o, s>>].output = output
              /\ log'[<<o, s>>].scrap = scrap /\ log'[<<o, s>>].incomplete = incomplete
              /\ Near(scrapped'[<<o, s>>], scrap)
              /\ \A p \in Orders, t \in Stages : p # o \/ t # s =>
                    log'[<<p, t>>] = log[<<p, t>>] /\ scrapped'[<<p, t>>] = scrapped[<<p, t>>]
              /\ UNCHANGED <<status, released, seq>>
  BY OutputRecorded
<1>2. output <= Material(o)
  BY <1>1
<1>3. LogsOf(o)' = LogsOf(o) /\ CompleteStages(o)' = CompleteStages(o) \union {s}
  BY <1>1, <1>2, OutputRecordedInOrders
<1>4. \A p \in Orders : p # o => LogsOf(p)' = LogsOf(p) /\ Material(p)' = Material(p)
  BY <1>1, OrderUntouched
<1>5. InOrderOf(o)
  BY <1>1 DEF SerialInv, StagesInOrder
<1>6. \A t \in Stages : t # s /\ log[<<o, t>>].status # "none" =>
                  \/ seq[t] < seq[s] /\ log[<<o, t>>].status = "COMPLETE"
                  \/ seq[s] < seq[t] /\ log[<<o, t>>].status = "PENDING"
  BY <1>1, <1>5, AroundStarted DEF SerialInv
<1>7. OneCall' /\ CallsStillTrue'
  BY <1>1, FinishLeavesNone DEF SerialInv
<1>8. Places' /\ LogsFromStart'
  BY <1>1, <1>3, <1>4 DEF SerialInv, Places, UniquePlaces, LoggedExist, LogsFromStart, Exists
<1>9. StagesInOrder'
  <2> SUFFICES ASSUME NEW q \in Orders, status'[q] = "IN_PRODUCTION" PROVE InOrderOf(q)'
    BY DEF StagesInOrder
  <2>1. CASE q # o
    <3>1. InOrderOf(q)
      BY <1>1 DEF SerialInv, StagesInOrder
    <3>2. \A t \in LogsOf(q) : log'[<<q, t>>] = log[<<q, t>>]
      BY <1>1, <2>1 DEF LogsOf
    <3> QED BY <1>1, <1>4, <2>1, <3>1, <3>2 DEF InOrderOf
  <2>2. CASE q = o
    <3> SUFFICES ASSUME NEW a \in LogsOf(o), NEW p \in LogsOf(o),
                        log'[<<o, p>>].status # "PENDING", seq[a] < seq[p]
                 PROVE  /\ log'[<<o, a>>].status = "COMPLETE"
                        /\ log'[<<o, p>>].output <= log'[<<o, a>>].output \/ log'[<<o, p>>].status # "COMPLETE"
      BY <1>1, <1>3, <2>2 DEF InOrderOf
    <3>1. a \in Stages /\ p \in Stages /\ log[<<o, a>>].status # "none" /\ log[<<o, p>>].status # "none"
      BY DEF LogsOf
    <3>2. seq[a] \in Int /\ seq[p] \in Int /\ seq[s] \in Int
      BY <3>1, LifecycleConstants DEF TypeOK
    <3>3. CASE p = s
      <4>1. a # s /\ ~(seq[s] < seq[a])
        BY <3>2, <3>3
      <4>2. log[<<o, a>>].status = "COMPLETE" /\ log'[<<o, a>>] = log[<<o, a>>]
        BY <1>1, <1>6, <3>1, <4>1
      <4>3. a \in CompleteStages(o) /\ log[<<o, a>>].output \in Nat
        BY <3>1, <4>2, LogStatus DEF StageLog
      <4>4. Material(o) \in Nat /\ Material(o) <= log[<<o, a>>].output
        BY <4>3, MaterialBounds
      <4>5. output <= log[<<o, a>>].output
        BY <1>2, <4>3, <4>4
      <4> QED BY <1>1, <3>3, <4>2, <4>5
    <3>4. CASE p # s
      <4>1. log'[<<o, p>>] = log[<<o, p>>]
        BY <1>1, <3>1, <3>4
      <4>2. seq[p] < seq[s]
        BY <1>6, <3>1, <3>4, <4>1
      <4>3. a # s /\ log'[<<o, a>>] = log[<<o, a>>]
        BY <1>1, <3>1, <3>2, <4>2
      <4> QED BY <1>5, <4>1, <4>3 DEF InOrderOf
    <3> QED BY <3>3, <3>4
  <2> QED BY <2>1, <2>2
<1>10. InputIsMaterial'
  <2> SUFFICES ASSUME NEW p \in Orders, status'[p] = "IN_PRODUCTION",
                      NEW t \in Stages, log'[<<p, t>>].status = "IN_PROGRESS"
               PROVE  log'[<<p, t>>].input = Material(p)'
    BY DEF InputIsMaterial
  <2>1. ~(p = o /\ t = s)
    BY <1>1
  <2>2. log'[<<p, t>>] = log[<<p, t>>] /\ status[p] = "IN_PRODUCTION"
    BY <1>1, <2>1
  <2>3. p # o
    BY <1>6, <2>1, <2>2
  <2> QED BY <1>4, <2>2, <2>3 DEF SerialInv, InputIsMaterial
<1>11. ScrapRecorded'
  <2> SUFFICES ASSUME NEW p \in Orders, NEW t \in Stages
               PROVE  /\ Near(scrapped'[<<p, t>>], log'[<<p, t>>].scrap)
                      /\ log'[<<p, t>>].status # "COMPLETE" =>
                            /\ log'[<<p, t>>].scrap = 0 /\ log'[<<p, t>>].incomplete = 0
                            /\ scrapped'[<<p, t>>] = NoScrap
    BY DEF ScrapRecorded
  <2>1. /\ Near(scrapped[<<p, t>>], log[<<p, t>>].scrap)
        /\ log[<<p, t>>].status # "COMPLETE" =>
              log[<<p, t>>].scrap = 0 /\ log[<<p, t>>].incomplete = 0 /\ scrapped[<<p, t>>] = NoScrap
    BY DEF SerialInv, ScrapRecorded
  <2>2. CASE p = o /\ t = s
    BY <1>1, <2>2
  <2>3. CASE p # o \/ t # s
    BY <1>1, <2>1, <2>3
  <2> QED BY <2>2, <2>3
<1> QED BY <1>7, <1>8, <1>9, <1>10, <1>11 DEF SerialInv

\* The administration of the stages: no request is under way, a new place is
\* free, a deleted stage has no log, and none moves during production.
LEMMA AdministrationKeepsSerial ==
    ASSUME Serial, ~Resequencing, TypeOK, SerialInv,
           \/ \E s \in Stages, q \in 1 .. MaxSequence : CreateStage(s, q) \/ UpdateStage(s, q)
           \/ \E s \in Stages : DeleteStage(s)
    PROVE  SerialInv'
<1>0. MaxSequence \in Nat
  BY LifecycleConstants
<1>1. UNCHANGED <<status, released, log, scrapped, call>> /\ \A r \in Requests : call[r] = None
  BY DEF CreateStage, UpdateStage, DeleteStage, Quiet, Idle
<1>2. \A p \in Orders : LogsOf(p)' = LogsOf(p) /\ Material(p)' = Material(p)
  BY <1>1, OrderUntouched
<1>3. OneCall' /\ CallsStillTrue' /\ LogsFromStart' /\ InputIsMaterial' /\ ScrapRecorded'
  BY <1>1, <1>2 DEF OneCall, CallsStillTrue, SerialInv, LogsFromStart, InputIsMaterial, ScrapRecorded
<1>4. ASSUME NEW s \in Stages, NEW q \in 1 .. MaxSequence, CreateStage(s, q) \/ UpdateStage(s, q)
      PROVE  UniquePlaces'
  <2>1. seq' = [seq EXCEPT ![s] = q] /\ \A t \in Stages : seq[t] # q
    BY <1>4 DEF CreateStage, UpdateStage, PlaceIsFree
  <2> QED BY <1>0, <2>1 DEF SerialInv, Places, UniquePlaces, Exists, TypeOK
<1>5. ASSUME NEW s \in Stages, NEW q \in 1 .. MaxSequence, CreateStage(s, q) \/ UpdateStage(s, q)
      PROVE  LoggedExist'
  <2>1. seq' = [seq EXCEPT ![s] = q]
    BY <1>5 DEF CreateStage, UpdateStage
  <2>2. \A t \in Stages : Exists(t) => Exists(t)'
    BY <1>0, <2>1 DEF Exists, TypeOK
  <2> QED BY <1>2, <2>2 DEF SerialInv, Places, LoggedExist, LogsOf
<1>6. ASSUME NEW s \in Stages, NEW q \in 1 .. MaxSequence, CreateStage(s, q)
      PROVE  StagesInOrder'
  <2>1. seq' = [seq EXCEPT ![s] = q] /\ ~Exists(s)
    BY <1>6 DEF CreateStage
  <2>2. \A p \in Orders : \A t \in LogsOf(p) : t \in Stages /\ seq'[t] = seq[t]
    BY <2>1 DEF SerialInv, Places, LoggedExist, LogsOf, TypeOK
  <2> QED BY <1>1, <1>2, <2>2 DEF SerialInv, StagesInOrder, InOrderOf
<1>7. ASSUME NEW s \in Stages, NEW q \in 1 .. MaxSequence, UpdateStage(s, q)
      PROVE  StagesInOrder'
  BY <1>1, <1>7 DEF UpdateStage, StagesInOrder
<1>8. ASSUME NEW s \in Stages, DeleteStage(s)
      PROVE  UniquePlaces' /\ LoggedExist' /\ StagesInOrder'
  <2>1. seq' = [seq EXCEPT ![s] = 0] /\ \A p \in Orders : log[<<p, s>>].status = "none"
    BY <1>8 DEF DeleteStage
  <2>2. UniquePlaces'
    BY <2>1 DEF SerialInv, Places, UniquePlaces, Exists, TypeOK
  <2>3. \A p \in Orders : \A t \in LogsOf(p) : t \in Stages /\ seq'[t] = seq[t]
    BY <2>1 DEF LogsOf, TypeOK
  <2> QED BY <1>1, <1>2, <2>2, <2>3 DEF SerialInv, Places, LoggedExist, StagesInOrder, InOrderOf, Exists
<1>9. UniquePlaces' /\ LoggedExist' /\ StagesInOrder'
  BY <1>4, <1>5, <1>6, <1>7, <1>8
<1> QED BY <1>3, <1>9 DEF SerialInv, Places

LEMMA SerialInit == Init => SerialInv
<1> SUFFICES ASSUME Init PROVE SerialInv
  OBVIOUS
<1>1. \A o \in Orders, s \in Stages : log[<<o, s>>] = NoLog
  BY DEF Init
<1>2. \A o \in Orders : LogsOf(o) = {}
  BY <1>1 DEF LogsOf, NoLog
<1>3. OneCall /\ CallsStillTrue /\ UniquePlaces /\ LoggedExist /\ LogsFromStart
  BY <1>2 DEF Init, OneCall, CallsStillTrue, UniquePlaces, LoggedExist, LogsFromStart, Exists
<1>4. StagesInOrder /\ InputIsMaterial
  BY <1>1 DEF Init, StagesInOrder, InputIsMaterial, NoLog
<1>5. Near(NoScrap, 0)
  BY DEF Near, NoScrap
<1>6. ScrapRecorded
  BY <1>1, <1>5 DEF Init, ScrapRecorded, NoLog, NoScrap
<1> QED BY <1>3, <1>4, <1>6 DEF SerialInv, Places

\* A request that begins has just checked what it relies on.
LEMMA BeginStep ==
    ASSUME Serial, TypeOK, SerialInv, NEW r \in Requests, NEW o \in Orders,
           OrderNext(r, o), ~CreateOrder(r, o)
    PROVE  SerialInv'
<1>0. MaxDozens \in Nat
  BY LifecycleConstants
<1>1. CASE PlanCheck(r, o)
  <2>1. [op |-> "plan", order |-> o] \in Call
    BY DEF Call
  <2>2. StillTrue([op |-> "plan", order |-> o])
    BY <1>1 DEF PlanCheck, StillTrue
  <2> QED BY <1>1, <2>1, <2>2, BeginKeepsSerial DEF PlanCheck
<1>2. CASE StartCheck(r, o)
  <2>1. [op |-> "start", order |-> o] \in Call
    BY DEF Call
  <2>2. StillTrue([op |-> "start", order |-> o])
    BY <1>2 DEF StartCheck, StillTrue
  <2> QED BY <1>2, <2>1, <2>2, BeginKeepsSerial DEF StartCheck
<1>3. CASE CompleteCheck(r, o)
  <2>1. [op |-> "complete", order |-> o] \in Call
    BY DEF Call
  <2>2. StillTrue([op |-> "complete", order |-> o])
    BY <1>3 DEF CompleteCheck, StillTrue
  <2> QED BY <1>3, <2>1, <2>2, BeginKeepsSerial DEF CompleteCheck
<1>4. CASE CloseCheck(r, o)
  <2>1. [op |-> "close", order |-> o] \in Call
    BY DEF Call
  <2>2. StillTrue([op |-> "close", order |-> o])
    BY <1>4 DEF CloseCheck, StillTrue
  <2> QED BY <1>4, <2>1, <2>2, BeginKeepsSerial DEF CloseCheck
<1>5. ASSUME NEW d \in 1 .. MaxDozens, NEW all \in BOOLEAN, ReleaseCheck(r, o, d, all)
      PROVE  SerialInv'
  <2> DEFINE c == [op |-> "release", order |-> o, dozens |-> d, all |-> all]
  <2>1. c \in Call
    BY <1>0 DEF Call
  <2>2. StillTrue(c)
    BY <1>5 DEF ReleaseCheck, StillTrue
  <2>3. Begin(r, c)
    BY <1>5 DEF ReleaseCheck
  <2> HIDE DEF c
  <2> QED BY <2>1, <2>2, <2>3, BeginKeepsSerial
<1>6. ASSUME NEW s \in Stages, StartStageCheck(r, o, s)
      PROVE  SerialInv'
  <2> DEFINE c == [op |-> "stage", order |-> o, stage |-> s, input |-> StageInput(o, s)]
  <2>1. c \in Call
    BY StageInputType DEF Call
  <2>2. c.op = "stage" /\ c.order = o /\ c.stage = s /\ c.input = StageInput(o, s)
    OBVIOUS
  <2>3. Begin(r, c) /\ StageMayStart(o, s)
    BY <1>6 DEF StartStageCheck
  <2>4. PICK d \in Call : d = c
    BY <2>1
  <2> HIDE DEF c
  <2>5. StillTrue(d)
    BY <2>2, <2>3, <2>4 DEF StillTrue
  <2> QED BY <2>3, <2>4, <2>5, BeginKeepsSerial
<1>7. ASSUME NEW s \in Stages, NEW output \in Amounts, NEW scrap \in Records,
             NEW incomplete \in {0} \union {a \in Amounts : a >= Fine}, OutputCheck(r, o, s, output, scrap, incomplete)
      PROVE  SerialInv'
  <2> DEFINE c == [op |-> "output", order |-> o, stage |-> s,
                   output |-> output, scrap |-> scrap, incomplete |-> incomplete]
  <2>1. c \in Call
    BY RequestedAmounts DEF Call
  <2>2. StillTrue(c)
    BY <1>7 DEF OutputCheck, StillTrue
  <2>3. Begin(r, c)
    BY <1>7 DEF OutputCheck
  <2> HIDE DEF c
  <2> QED BY <2>1, <2>2, <2>3, BeginKeepsSerial
<1> QED BY <1>1, <1>2, <1>3, <1>4, <1>5, <1>6, <1>7 DEF OrderNext

LEMMA CreateOrderKeepsSerial ==
    ASSUME Serial, TypeOK, SerialInv, NEW r \in Requests, NEW o \in Orders, CreateOrder(r, o)
    PROVE  SerialInv'
<1>1. /\ status' = [status EXCEPT ![o] = "DRAFT"] /\ status[o] = "none"
      /\ UNCHANGED <<released, seq, log, scrapped>>
  BY DEF CreateOrder
<1>2. /\ call'[r] = [op |-> "parts", order |-> o]
      /\ \A q \in Requests : q # r => call'[q] = None
  BY DEF CreateOrder, MayBegin, Idle, TypeOK
<1>3. status'[o] = "DRAFT" /\ \A p \in Orders : p # o => status'[p] = status[p]
  BY <1>1 DEF TypeOK
<1>4. StillTrue([op |-> "parts", order |-> o])'
  BY <1>3 DEF StillTrue
<1>5. OneCall' /\ CallsStillTrue'
  BY <1>2, <1>4 DEF OneCall, CallsStillTrue
<1>6. \A p \in Orders : LogsOf(p)' = LogsOf(p) /\ Material(p)' = Material(p)
  BY <1>1, OrderUntouched
<1>7. LogsOf(o) = {}
  BY <1>1 DEF SerialInv, LogsFromStart
<1>8. Places' /\ ScrapRecorded'
  BY <1>1, <1>6 DEF SerialInv, Places, UniquePlaces, LoggedExist, Exists, ScrapRecorded
<1>9. LogsFromStart'
  BY <1>3, <1>6, <1>7 DEF SerialInv, LogsFromStart
<1>10. StagesInOrder'
  BY <1>1, <1>3, <1>6 DEF SerialInv, StagesInOrder, InOrderOf
<1>11. InputIsMaterial'
  BY <1>1, <1>3, <1>6 DEF SerialInv, InputIsMaterial
<1> QED BY <1>5, <1>8, <1>9, <1>10, <1>11 DEF SerialInv

\* A step that writes neither an order nor a stage.
LEMMA OthersKeepSerial ==
    ASSUME TypeOK, SerialInv, UNCHANGED <<status, released, seq, log, scrapped>>,
           \/ UNCHANGED call
           \/ \E r \in Requests : call[r] # None /\ Finish(r)
    PROVE  SerialInv'
<1>1. \A p \in Orders : LogsOf(p)' = LogsOf(p) /\ Material(p)' = Material(p)
  BY OrderUntouched
<1>2. Places' /\ LogsFromStart' /\ StagesInOrder' /\ InputIsMaterial' /\ ScrapRecorded'
  BY <1>1 DEF SerialInv, Places, UniquePlaces, LoggedExist, LogsFromStart, StagesInOrder, InOrderOf,
              InputIsMaterial, ScrapRecorded, Exists
<1>3. CASE UNCHANGED call
  <2>1. \A r \in Requests : call[r] # None => StillTrue(call[r])'
    BY <1>3 DEF SerialInv, CallsStillTrue, StillTrue, AllStagesComplete, LogsOf, NonComplete, StageMayStart,
                IsFirst, Exists, Previous, Earlier, StageInput, OutputMayBeRecorded, Balanced
  <2>2. OneCall' /\ CallsStillTrue'
    BY <1>3, <2>1 DEF SerialInv, OneCall, CallsStillTrue
  <2> QED BY <1>2, <2>2 DEF SerialInv
<1>4. ASSUME NEW r \in Requests, call[r] # None, Finish(r)
      PROVE  SerialInv'
  BY <1>2, <1>4, FinishLeavesNone DEF SerialInv
<1> QED BY <1>3, <1>4

LEMMA SerialStep ==
    ASSUME Serial, ~Resequencing
    PROVE  TypeOK /\ SerialInv /\ [Next]_vars => SerialInv'
<1> SUFFICES ASSUME TypeOK, SerialInv, [Next]_vars PROVE SerialInv'
  OBVIOUS
<1>1. ASSUME NEW r \in Requests, NEW o \in Orders, OrderNext(r, o)
      PROVE  SerialInv'
  BY <1>1, BeginStep, CreateOrderKeepsSerial
<1>2. ASSUME NEW r \in Requests, WriteNext(r)
      PROVE  SerialInv'
  <2>1. CASE CreateParts(r)
    BY <2>1, OthersKeepSerial DEF CreateParts, At
  <2>2. CASE PlanWrite(r)
    <3>1. /\ call[r].order \in Orders /\ call[r] # None /\ LogsOf(call[r].order) = {}
          /\ SetStatus(r, "PLANNED") /\ UNCHANGED log
      BY <2>2, CallOf DEF PlanWrite, SerialInv, CallsStillTrue, StillTrue, LogsFromStart, At
    <3> QED BY <3>1, SetStatusKeepsSerial DEF OrderStatus
  <2>3. CASE StartWrite(r)
    BY <2>3, StartWriteKeepsSerial
  <2>4. CASE CompleteWrite(r)
    <3>1. /\ call[r].order \in Orders /\ call[r] # None
          /\ SetStatus(r, "PRODUCTION_COMPLETE") /\ UNCHANGED log
      BY <2>4, CallOf DEF CompleteWrite, At
    <3> QED BY <3>1, SetStatusKeepsSerial DEF OrderStatus
  <2>5. CASE CloseWrite(r)
    <3>1. call[r].order \in Orders /\ call[r] # None /\ SetStatus(r, "CLOSED") /\ UNCHANGED log
      BY <2>5, CallOf DEF CloseWrite, At
    <3> QED BY <3>1, SetStatusKeepsSerial DEF OrderStatus
  <2>6. CASE ReleaseCommit(r)
    BY <2>6, ReleaseCommitKeepsSerial
  <2>7. CASE StartStageWrite(r)
    BY <2>7, StartStageKeepsSerial
  <2>8. CASE OutputWrite(r)
    BY <2>8, OutputKeepsSerial
  <2>9. CASE Fail(r)
    BY <2>9, OthersKeepSerial DEF Fail, Idle
  <2> QED BY <1>2, <2>1, <2>2, <2>3, <2>4, <2>5, <2>6, <2>7, <2>8, <2>9 DEF WriteNext
<1>3. ASSUME NEW o \in Orders, OpenPacking(o) \/ PostPacking(o)
      PROVE  SerialInv'
  BY <1>3, OthersKeepSerial DEF OpenPacking, PostPacking
<1>4. CASE \/ \E s \in Stages, q \in 1 .. MaxSequence : CreateStage(s, q) \/ UpdateStage(s, q)
           \/ \E s \in Stages : DeleteStage(s)
  BY <1>4, AdministrationKeepsSerial
<1>5. CASE UNCHANGED vars
  BY <1>5, OthersKeepSerial DEF vars
<1> QED BY <1>1, <1>2, <1>3, <1>4, <1>5 DEF Next

\* The invariant of serial requests.
THEOREM SerialInvariant ==
    ASSUME Serial, ~Resequencing
    PROVE  Spec => [](TypeOK /\ SerialInv)
<1>1. Init => TypeOK /\ SerialInv
  BY TypeInit, SerialInit
<1>2. TypeOK /\ SerialInv /\ [Next]_vars => (TypeOK /\ SerialInv)'
  BY TypeStep, SerialStep
<1> QED BY <1>1, <1>2, PTL DEF Spec

\* BR-S07: the scrap of a complete stage is the sum of its scrap records.
THEOREM ScrapRecordsAddUpCorrect ==
    ASSUME Serial, ~Resequencing
    PROVE  Spec => []ScrapRecordsAddUp
<1>1. TypeOK /\ SerialInv => ScrapRecordsAddUp
  BY DEF SerialInv, ScrapRecorded, ScrapRecordsAddUp
<1> QED BY <1>1, SerialInvariant, PTL

-----------------------------------------------------------------------------
(* An order in production can always go on.                                *)

\* The first stage that is not complete is under way or may start: the stage
\* before it has a log, since none was put before it without, and is complete.
LEMMA FirstNonCompleteGoesOn ==
    ASSUME TypeOK, NEW o \in Orders, status[o] = "IN_PRODUCTION", ~Overtaken(o),
           NEW s \in NonComplete(o), \A t \in NonComplete(o) : seq[s] <= seq[t]
    PROVE  OutputMayBeRecorded(o, s) \/ StageMayStart(o, s)
<1>1. s \in Stages /\ log[<<o, s>>].status \in {"PENDING", "IN_PROGRESS"}
  BY LogStatus DEF NonComplete, LogsOf
<1>2. CASE log[<<o, s>>].status = "IN_PROGRESS"
  BY <1>2 DEF OutputMayBeRecorded
<1>3. CASE log[<<o, s>>].status = "PENDING" /\ IsFirst(s)
  BY <1>3 DEF StageMayStart
<1>4. CASE log[<<o, s>>].status = "PENDING" /\ ~IsFirst(s)
  <2> DEFINE p == Previous(s)
  <2>1. p \in Earlier(s)
    BY <1>1, <1>4, PreviousIsLastEarlier DEF TypeOK
  <2>2. p \in Stages /\ seq[p] < seq[s] /\ seq[p] \in Int /\ seq[s] \in Int
    BY <1>1, <2>1, LifecycleConstants DEF Earlier, TypeOK
  <2>3. log[<<o, p>>].status # "none"
    BY <2>1 DEF Overtaken
  <2>4. p \notin NonComplete(o)
    BY <2>2
  <2>5. log[<<o, p>>].status = "COMPLETE"
    <3> HIDE DEF p
    <3>1. log[<<o, p>>] \in StageLog
      BY <2>2 DEF TypeOK
    <3> QED BY <2>2, <2>3, <2>4, <3>1, LogStatus DEF StageLog
  <2> QED BY <1>4, <2>5 DEF StageMayStart
<1> QED BY <1>1, <1>2, <1>3, <1>4

\* BR-S01 in every interleaving: an order in production that started with a
\* stage, and that no stage has overtaken, can go on.
THEOREM NeverStuckCorrect == Spec => []NeverStuck
<1>1. TypeOK => NeverStuck
  <2> SUFFICES ASSUME TypeOK, NEW o \in Orders,
                      status[o] = "IN_PRODUCTION", LogsOf(o) # {}, ~Overtaken(o), NonComplete(o) # {}
               PROVE  \E s \in Stages : OutputMayBeRecorded(o, s) \/ StageMayStart(o, s)
    BY DEF NeverStuck, AllStagesComplete
  <2>1. NonComplete(o) \subseteq Stages
    BY DEF NonComplete, LogsOf
  <2>2. IsFiniteSet(NonComplete(o))
    BY <2>1, LifecycleConstants, FS_Subset
  <2>3. \A s \in NonComplete(o) : seq[s] \in Int
    BY <2>1, LifecycleConstants DEF TypeOK
  <2>4. PICK s \in NonComplete(o) : \A t \in NonComplete(o) : seq[s] <= seq[t]
    BY <2>2, <2>3, FirstAndLastExist
  <2> QED BY <2>1, <2>4, FirstNonCompleteGoesOn
<1> QED BY <1>1, LifecycleTypeCorrect, PTL

-----------------------------------------------------------------------------
(* The refinement.                                                         *)

\* A function that changes at one place.
LEMMA ChangedAt ==
    ASSUME NEW f, NEW g, NEW D, f = [x \in D |-> f[x]], g = [x \in D |-> g[x]], NEW d \in D, NEW v,
           g[d] = v, \A x \in D : x # d => g[x] = f[x]
    PROVE  g = [f EXCEPT ![d] = v]
OBVIOUS

\* A step that leaves the logs and the releases of every order alone leaves
\* what the workflow sees of them.
LEMMA MappingUntouched ==
    ASSUME UNCHANGED <<log, released>>
    PROVE  UNCHANGED <<Left, MaterialOf, Losses>>
<1>1. \A o \in Orders : /\ NonComplete(o)' = NonComplete(o) /\ Material(o)' = Material(o)
                        /\ \A s \in Stages : Lost(o, s)' = Lost(o, s)
  BY OrderUntouched
<1> QED BY <1>1 DEF Left, MaterialOf, Losses

\* A new status alone is an advance of the workflow.
LEMMA SetStatusAdvances ==
    ASSUME TypeOK, NEW r \in Requests, call[r] \in Call, NEW from, NEW to,
           status[call[r].order] = from, SetStatus(r, to), UNCHANGED log
    PROVE  \E o \in Orders : Workflow!Advance(o, from, to) /\ o = call[r].order
<1>1. call[r].order \in Orders
  BY CallShape
<1>2. PICK o \in Orders : o = call[r].order
  BY <1>1
<1>3. status' = [status EXCEPT ![o] = to] /\ UNCHANGED <<log, released>>
  BY <1>2 DEF SetStatus
<1> QED BY <1>2, <1>3, MappingUntouched DEF Workflow!Advance, Workflow!Step

\* The start of an order completes no stage.
LEMMA StartKeepsComplete ==
    ASSUME TypeOK, SerialInv, NEW r \in Requests, StartWrite(r), NEW o \in Orders
    PROVE  CompleteStages(o)' = CompleteStages(o)
<1>1. \A t \in Stages : \/ log'[<<o, t>>] = log[<<o, t>>]
                        \/ log[<<o, t>>].status = "none" /\ log'[<<o, t>>].status = "PENDING"
  BY DEF StartWrite, NoLog
<1>2. \A t \in Stages : log'[<<o, t>>].status = "COMPLETE" <=> log[<<o, t>>].status = "COMPLETE"
  BY <1>1
<1>3. CompleteStages(o) = {t \in Stages : log[<<o, t>>].status = "COMPLETE"}
  BY DEF CompleteStages, LogsOf, NonComplete
<1>4. CompleteStages(o)' = {t \in Stages : log'[<<o, t>>].status = "COMPLETE"}
  BY DEF CompleteStages, LogsOf, NonComplete
<1> QED BY <1>2, <1>3, <1>4

LEMMA StartStarts ==
    ASSUME TypeOK, SerialInv, NEW r \in Requests, StartWrite(r)
    PROVE  \E o \in Orders : Workflow!Start(o)
<1>1. PICK b \in Orders : b = call[r].order /\ status[b] = "PLANNED"
  BY CallOf DEF StartWrite, SerialInv, CallsStillTrue, StillTrue, At
<1>2. status' = [status EXCEPT ![b] = "IN_PRODUCTION"] /\ UNCHANGED released
  BY <1>1 DEF StartWrite, SetStatus
<1>3. \A t \in Stages : log[<<b, t>>].status = "none"
  BY <1>1, LogStatus DEF SerialInv, LogsFromStart
<1>4. \A o \in Orders, t \in Stages :
         log'[<<o, t>>] = IF o = b /\ Exists(t) THEN [NoLog EXCEPT !.status = "PENDING"] ELSE log[<<o, t>>]
  BY <1>1, <1>3 DEF StartWrite, TypeOK
<1>5. \A o \in Orders : o # b =>
         /\ NonComplete(o)' = NonComplete(o) /\ Material(o)' = Material(o)
         /\ \A t \in Stages : Lost(o, t)' = Lost(o, t)
  BY <1>2, <1>4, OrderUntouched
<1>6. \A t \in Stages : /\ log[<<b, t>>].scrap = 0 /\ log[<<b, t>>].incomplete = 0
                        /\ log'[<<b, t>>].status # "COMPLETE"
                        /\ log'[<<b, t>>].scrap = 0 /\ log'[<<b, t>>].incomplete = 0
  BY <1>3, <1>4 DEF SerialInv, ScrapRecorded, NoLog
<1>7. CompleteStages(b) = {} /\ CompleteStages(b)' = {}
  BY <1>3, <1>6 DEF CompleteStages, NonComplete, LogsOf
<1>8. Material(b)' = Material(b)
  BY <1>2, <1>7 DEF Material
<1>9. \A t \in Stages : Lost(b, t)' = Lost(b, t)
  BY <1>6 DEF Lost
<1>10. UNCHANGED <<MaterialOf, Losses>>
  BY <1>5, <1>8, <1>9 DEF MaterialOf, Losses
<1>11. PICK S \in SUBSET Stages : S = NonComplete(b)'
  BY DEF NonComplete, LogsOf
<1>12. Left' = [Left EXCEPT ![b] = S]
  BY <1>5, <1>11 DEF Left
<1> QED BY <1>1, <1>2, <1>10, <1>11, <1>12 DEF Workflow!Start, Workflow!Step

LEMMA ReleaseAdds ==
    ASSUME TypeOK, SerialInv, NEW r \in Requests, ReleaseCommit(r)
    PROVE  \E o \in Orders : Workflow!AddMaterial(o)
<1>1. PICK b \in Orders : b = call[r].order /\ status[b] = "PLANNED"
  BY CallOf DEF ReleaseCommit, SerialInv, CallsStillTrue, StillTrue, At
<1>2. call[r].dozens \in Nat
  BY CallOf, CallShape DEF ReleaseCommit
<1>3. released' = [released EXCEPT ![b] = @ + call[r].dozens] /\ UNCHANGED <<status, log>>
  BY <1>1 DEF ReleaseCommit
<1>4. \A o \in Orders : o # b => Material(o)' = Material(o)
  BY <1>3, OrderUntouched DEF TypeOK
<1>5. \A o \in Orders : NonComplete(o)' = NonComplete(o) /\ \A t \in Stages : Lost(o, t)' = Lost(o, t)
  BY <1>3 DEF NonComplete, LogsOf, Lost
<1>6. CompleteStages(b) = {} /\ CompleteStages(b)' = {}
  BY <1>1, <1>3 DEF SerialInv, LogsFromStart, CompleteStages, LogsOf, NonComplete
<1>7. Material(b)' >= Material(b)
  BY <1>2, <1>3, <1>6 DEF Material, TypeOK
<1>8. UNCHANGED <<Left, Losses>>
  BY <1>5 DEF Left, Losses
<1>9. MaterialOf' = [MaterialOf EXCEPT ![b] = MaterialOf'[b]] /\ MaterialOf'[b] >= MaterialOf[b]
  BY <1>4, <1>7 DEF MaterialOf
<1> QED BY <1>1, <1>3, <1>8, <1>9 DEF Workflow!AddMaterial

LEMMA StageStartIsInvisible ==
    ASSUME TypeOK, SerialInv, NEW r \in Requests, StartStageWrite(r)
    PROVE  UNCHANGED Workflow!workflowVars
<1>1. \A o \in Orders : /\ NonComplete(o)' = NonComplete(o) /\ Material(o)' = Material(o)
                        /\ \A s \in Stages : Lost(o, s)' = Lost(o, s)
  BY StageStartedKeepsOrders
<1>2. UNCHANGED <<Left, MaterialOf, Losses>>
  BY <1>1 DEF Left, MaterialOf, Losses
<1> QED BY <1>2 DEF Workflow!workflowVars, StartStageWrite

LEMMA OutputFinishes ==
    ASSUME TypeOK, SerialInv, NEW r \in Requests, OutputWrite(r)
    PROVE  \E o \in Orders, s \in Stages : Workflow!FinishStage(o, s)
<1>1. PICK o \in Orders, s \in Stages, output, scrap, incomplete \in Nat :
              /\ call[r] # None /\ Finish(r)
              /\ status[o] = "IN_PRODUCTION" /\ log[<<o, s>>].status = "IN_PROGRESS"
              /\ output <= Material(o) /\ IsLoss(scrap + incomplete, Material(o), output)
              /\ log'[<<o, s>>].status = "COMPLETE" /\ log'[<<o, s>>].output = output
              /\ log'[<<o, s>>].scrap = scrap /\ log'[<<o, s>>].incomplete = incomplete
              /\ Near(scrapped'[<<o, s>>], scrap)
              /\ \A p \in Orders, t \in Stages : p # o \/ t # s =>
                    log'[<<p, t>>] = log[<<p, t>>] /\ scrapped'[<<p, t>>] = scrapped[<<p, t>>]
              /\ UNCHANGED <<status, released, seq>>
  BY OutputRecorded
<1>2. output <= Material(o)
  BY <1>1
<1>3. NonComplete(o)' = NonComplete(o) \ {s} /\ Material(o)' = output
  BY <1>1, <1>2, OutputRecordedInOrders
<1>4. \A p \in Orders : p # o => /\ NonComplete(p)' = NonComplete(p) /\ Material(p)' = Material(p)
                                 /\ \A t \in Stages : Lost(p, t)' = Lost(p, t)
  BY <1>1, OrderUntouched
<1>5. PICK lost, d : lost \in Nat /\ lost = scrap + incomplete /\ d = Material(o) - output
  OBVIOUS
<1>6. d \in 0 .. Material(o) /\ output = Material(o) - d /\ lost \in Nat \cap (d - 1 .. d + 1)
  BY <1>1, <1>5, MaterialBounds DEF IsLoss
<1>7. Lost(o, s)' = lost /\ \A t \in Stages : t # s => Lost(o, t)' = Lost(o, t)
  BY <1>1, <1>5 DEF Lost
<1>8. Left' = [Left EXCEPT ![o] = @ \ {s}] /\ s \in Left[o]
  <2>1. s \in NonComplete(o)
    BY <1>1, LogStatus
  <2> QED BY <1>3, <1>4, <2>1 DEF Left
<1>9. MaterialOf' = [MaterialOf EXCEPT ![o] = @ - d] /\ MaterialOf[o] = Material(o)
  BY <1>3, <1>4, <1>6 DEF MaterialOf
<1>10. Losses' = [Losses EXCEPT ![o][s] = lost]
  BY <1>4, <1>7 DEF Losses
<1> QED BY <1>1, <1>6, <1>8, <1>9, <1>10 DEF Workflow!FinishStage

LEMMA WorkflowStarts == Init => Workflow!WorkflowInit
<1> SUFFICES ASSUME Init PROVE Workflow!WorkflowInit
  OBVIOUS
<1>1. \A o \in Orders, s \in Stages : log[<<o, s>>] = NoLog
  BY DEF Init
<1>2. \A o \in Orders : LogsOf(o) = {} /\ NonComplete(o) = {} /\ CompleteStages(o) = {}
  BY <1>1 DEF LogsOf, NonComplete, CompleteStages, NoLog
<1>3. \A o \in Orders : Material(o) = 0 /\ \A s \in Stages : Lost(o, s) = 0
  BY <1>1, <1>2 DEF Init, Material, Lost, NoLog
<1>4. /\ Left = [o \in Orders |-> {}]
      /\ MaterialOf = [o \in Orders |-> 0]
      /\ Losses = [o \in Orders |-> [s \in Stages |-> 0]]
  BY <1>2, <1>3 DEF Left, MaterialOf, Losses
<1> QED BY <1>4 DEF Init, Workflow!WorkflowInit

LEMMA WorkflowSteps ==
    ASSUME Serial, ~Resequencing
    PROVE  TypeOK /\ SerialInv /\ [Next]_vars => [Workflow!WorkflowNext]_(Workflow!workflowVars)
<1> SUFFICES ASSUME TypeOK, SerialInv, [Next]_vars
             PROVE  [Workflow!WorkflowNext]_(Workflow!workflowVars)
  OBVIOUS
<1>1. ASSUME UNCHANGED <<status, released, log>>
      PROVE  UNCHANGED Workflow!workflowVars
  BY <1>1, MappingUntouched DEF Workflow!workflowVars
<1>2. ASSUME NEW r \in Requests, NEW o \in Orders, OrderNext(r, o), ~CreateOrder(r, o)
      PROVE  UNCHANGED Workflow!workflowVars
  BY <1>1, <1>2 DEF OrderNext, PlanCheck, StartCheck, CompleteCheck, CloseCheck, ReleaseCheck,
                    StartStageCheck, OutputCheck, Begin
<1>3. ASSUME NEW r \in Requests, NEW o \in Orders, CreateOrder(r, o)
      PROVE  Workflow!WorkflowNext
  <2>1. Workflow!Advance(o, "none", "DRAFT")
    BY <1>3, MappingUntouched DEF CreateOrder, Workflow!Advance, Workflow!Step
  <2> QED BY <2>1 DEF Workflow!WorkflowNext
<1>4. ASSUME NEW r \in Requests, WriteNext(r)
      PROVE  [Workflow!WorkflowNext]_(Workflow!workflowVars)
  <2>1. CASE CreateParts(r) \/ Fail(r)
    BY <1>1, <2>1 DEF CreateParts, Fail
  <2>2. CASE PlanWrite(r)
    <3>1. /\ call[r] \in Call /\ status[call[r].order] = "DRAFT"
          /\ SetStatus(r, "PLANNED") /\ UNCHANGED log
      BY <2>2, CallOf DEF PlanWrite, SerialInv, CallsStillTrue, StillTrue, At
    <3>2. \E o \in Orders : Workflow!Advance(o, "DRAFT", "PLANNED")
      BY <3>1, SetStatusAdvances
    <3> QED BY <3>2 DEF Workflow!WorkflowNext
  <2>3. CASE StartWrite(r)
    BY <2>3, StartStarts DEF Workflow!WorkflowNext
  <2>4. CASE CompleteWrite(r)
    <3>1. /\ call[r] \in Call /\ status[call[r].order] = "IN_PRODUCTION"
          /\ NonComplete(call[r].order) = {} /\ call[r].order \in Orders
          /\ SetStatus(r, "PRODUCTION_COMPLETE") /\ UNCHANGED log
      BY <2>4, CallOf DEF CompleteWrite, SerialInv, CallsStillTrue, StillTrue, AllStagesComplete, At
    <3>2. PICK o \in Orders : Workflow!Advance(o, "IN_PRODUCTION", "PRODUCTION_COMPLETE") /\ o = call[r].order
      BY <3>1, SetStatusAdvances
    <3>3. Left[o] = {}
      BY <3>1, <3>2 DEF Left
    <3> QED BY <3>2, <3>3 DEF Workflow!WorkflowNext
  <2>5. CASE CloseWrite(r)
    <3>1. /\ call[r] \in Call /\ status[call[r].order] = "PRODUCTION_COMPLETE"
          /\ SetStatus(r, "CLOSED") /\ UNCHANGED log
      BY <2>5, CallOf DEF CloseWrite, SerialInv, CallsStillTrue, StillTrue, At
    <3>2. \E o \in Orders : Workflow!Advance(o, "PRODUCTION_COMPLETE", "CLOSED")
      BY <3>1, SetStatusAdvances
    <3> QED BY <3>2 DEF Workflow!WorkflowNext
  <2>6. CASE ReleaseCommit(r)
    BY <2>6, ReleaseAdds DEF Workflow!WorkflowNext
  <2>7. CASE StartStageWrite(r)
    BY <2>7, StageStartIsInvisible
  <2>8. CASE OutputWrite(r)
    BY <2>8, OutputFinishes DEF Workflow!WorkflowNext
  <2> QED BY <1>4, <2>1, <2>2, <2>3, <2>4, <2>5, <2>6, <2>7, <2>8 DEF WriteNext
<1>5. CASE \/ \E o \in Orders : OpenPacking(o) \/ PostPacking(o)
           \/ \E s \in Stages, q \in 1 .. MaxSequence : CreateStage(s, q) \/ UpdateStage(s, q)
           \/ \E s \in Stages : DeleteStage(s)
           \/ UNCHANGED vars
  BY <1>1, <1>5 DEF OpenPacking, PostPacking, CreateStage, UpdateStage, DeleteStage, vars
<1> QED BY <1>2, <1>3, <1>4, <1>5 DEF Next

\* When requests do not overlap and no stage is moved during production, the
\* production module implements the workflow: every step of an order is one
\* that OrderWorkflow allows, or leaves what it describes as it was.
THEOREM ImplementsWorkflowCorrect ==
    ASSUME Serial, ~Resequencing
    PROVE  Spec => ImplementsWorkflow
<1>1. Spec => [](TypeOK /\ SerialInv)
  BY SerialInvariant
<1>2. TypeOK /\ SerialInv /\ [Next]_vars => [Workflow!WorkflowNext]_(Workflow!workflowVars)
  BY WorkflowSteps
<1> QED BY <1>1, <1>2, WorkflowStarts, PTL DEF Spec, ImplementsWorkflow, Workflow!WorkflowSpec

-----------------------------------------------------------------------------
(* What the reports rest on.                                               *)

\* An order past its production has left no stage undone.
EndComplete ==
    \A o \in Orders : status[o] \in {"PRODUCTION_COMPLETE", "CLOSED"} => AllStagesComplete(o)

\* What was released to an order is in it, or lost in one of its stages, but for
\* a unit in the rounding of each of them.
KeysOf(o) == {k \in Orders \X Stages : k[1] = o}

LostOf(o) == SumFunctionOnSet([k \in Orders \X Stages |-> Lost(k[1], k[2])], KeysOf(o))

Conserved == \A o \in Orders : Material(o) + LostOf(o) <= released[o] + Cardinality(CompleteStages(o))

LEMMA KeysFinite ==
    /\ IsFiniteSet(Orders \X Stages)
    /\ \A o : IsFiniteSet(KeysOf(o))
<1>1. IsFiniteSet(Orders \X Stages)
  BY ReportConstants, LifecycleConstants, FS_Product
<1>2. \A o : KeysOf(o) \in SUBSET (Orders \X Stages)
  BY DEF KeysOf
<1> QED BY <1>1, <1>2, FS_Subset

\* What is lost is a number of dozens.
LEMMA LostType ==
    ASSUME TypeOK
    PROVE  /\ \A o \in Orders, s \in Stages : Lost(o, s) \in Nat
           /\ \A o \in Orders : LostOf(o) \in Nat
<1>1. ASSUME NEW o \in Orders, NEW s \in Stages PROVE Lost(o, s) \in Nat
  BY LogStatus DEF Lost, StageLog
<1>2. ASSUME NEW o \in Orders PROVE LostOf(o) \in Nat
  <2> DEFINE f == [k \in Orders \X Stages |-> Lost(k[1], k[2])]
  <2>1. \A k \in KeysOf(o) : f[k] \in Nat
    BY <1>1 DEF KeysOf
  <2>2. IsFiniteSet(KeysOf(o))
    BY KeysFinite
  <2> HIDE DEF f
  <2>3. SumFunctionOnSet(f, KeysOf(o)) \in Nat
    BY <2>1, <2>2, SumNat
  <2> QED BY <2>3 DEF LostOf, f
<1> QED BY <1>1, <1>2

\* An order loses nothing where none of its stages does.
LEMMA LostUntouched ==
    ASSUME NEW o \in Orders, \A s \in Stages : Lost(o, s)' = Lost(o, s)
    PROVE  LostOf(o)' = LostOf(o)
<1>1. PICK f : f = [k \in Orders \X Stages |-> Lost(k[1], k[2])]
  OBVIOUS
<1>2. PICK g : g = [k \in Orders \X Stages |-> Lost(k[1], k[2])']
  OBVIOUS
<1>3. \A k \in KeysOf(o) : f[k] = g[k]
  BY <1>1, <1>2 DEF KeysOf
<1>4. SumFunctionOnSet(f, KeysOf(o)) = SumFunctionOnSet(g, KeysOf(o))
  BY <1>3, KeysFinite, SumAgrees
<1>5. LostOf(o) = SumFunctionOnSet(f, KeysOf(o))
  BY <1>1 DEF LostOf
<1>6. LostOf(o)' = SumFunctionOnSet(g, KeysOf(o))
  BY <1>2 DEF LostOf, KeysOf
<1> QED BY <1>4, <1>5, <1>6

\* What the first loss of a stage adds to those of its order.
LEMMA LostInStage ==
    ASSUME TypeOK, TypeOK', NEW o \in Orders, NEW s \in Stages, Lost(o, s) = 0,
           \A t \in Stages : t # s => Lost(o, t)' = Lost(o, t)
    PROVE  LostOf(o)' = LostOf(o) + Lost(o, s)'
<1>1. PICK f : f = [k \in Orders \X Stages |-> Lost(k[1], k[2])]
  OBVIOUS
<1>2. PICK g : g = [k \in Orders \X Stages |-> Lost(k[1], k[2])']
  OBVIOUS
<1>3. \A k \in KeysOf(o) : f[k] \in Int /\ g[k] \in Int
  <2>1. \A p \in Orders, t \in Stages : Lost(p, t) \in Nat
    BY LostType
  <2>2. \A p \in Orders, t \in Stages : Lost(p, t)' \in Nat
    <3> TAKE p \in Orders, t \in Stages
    <3>1. log'[<<p, t>>] \in StageLog
      BY DEF TypeOK
    <3> QED BY <3>1 DEF Lost, StageLog
  <2> QED BY <1>1, <1>2, <2>1, <2>2 DEF KeysOf
<1>4. \A k \in KeysOf(o) \ {<<o, s>>} : f[k] = g[k]
  BY <1>1, <1>2 DEF KeysOf
<1>5. <<o, s>> \in KeysOf(o) /\ f[<<o, s>>] = 0 /\ g[<<o, s>>] = Lost(o, s)'
  BY <1>1, <1>2 DEF KeysOf
<1>6. SumFunctionOnSet(g, KeysOf(o)) = SumFunctionOnSet(f, KeysOf(o)) - f[<<o, s>>] + g[<<o, s>>]
  <2> DEFINE k == <<o, s>>
  <2>1. k \in KeysOf(o)
    BY <1>5
  <2> HIDE DEF k
  <2>2. SumFunctionOnSet(g, KeysOf(o)) = SumFunctionOnSet(f, KeysOf(o)) - f[k] + g[k]
    <3>1. \A y \in KeysOf(o) \ {k} : f[y] = g[y]
      BY <1>4 DEF k
    <3>2. IsFiniteSet(KeysOf(o))
      BY KeysFinite
    <3> QED BY ONLY <1>3, <2>1, <3>1, <3>2, SumChange
  <2> QED BY <2>2 DEF k
<1>7. SumFunctionOnSet(f, KeysOf(o)) \in Int
  BY <1>3, KeysFinite, SumInt
<1>8. LostOf(o) = SumFunctionOnSet(f, KeysOf(o))
  BY <1>1 DEF LostOf
<1>9. LostOf(o)' = SumFunctionOnSet(g, KeysOf(o))
  BY <1>2 DEF LostOf, KeysOf
<1>10. g[<<o, s>>] \in Int
  BY <1>3, <1>5
<1> QED BY <1>5, <1>6, <1>7, <1>8, <1>9, <1>10

\* At first no order has a log, and none has lost anything.
LEMMA ReportInit == Init => EndComplete /\ Conserved
<1> SUFFICES ASSUME Init PROVE EndComplete /\ Conserved
  OBVIOUS
<1>1. \A o \in Orders, s \in Stages : log[<<o, s>>] = NoLog
  BY DEF Init
<1>2. \A o \in Orders : CompleteStages(o) = {} /\ \A s \in Stages : Lost(o, s) = 0
  BY <1>1 DEF LogsOf, NonComplete, CompleteStages, NoLog, Lost
<1>3. ASSUME NEW o \in Orders PROVE LostOf(o) = 0
  <2>1. PICK f : f = [k \in Orders \X Stages |-> Lost(k[1], k[2])]
    OBVIOUS
  <2>2. \A k \in KeysOf(o) : f[k] = 0
    BY <1>2, <2>1 DEF KeysOf
  <2>3. SumFunctionOnSet(f, KeysOf(o)) = 0
    BY <2>2, KeysFinite, SumOfZeros
  <2> QED BY <2>1, <2>3 DEF LostOf
<1>4. \A o \in Orders : Cardinality(CompleteStages(o)) = 0 /\ Material(o) = released[o] /\ released[o] = 0
  BY <1>2, FS_EmptySet DEF Init, Material
<1> QED BY <1>3, <1>4 DEF Init, EndComplete, Conserved

\* The writes that change the logs or the releases of an order.
LogWrite(r) == StartWrite(r) \/ ReleaseCommit(r) \/ StartStageWrite(r) \/ OutputWrite(r)

LEMMA LogWrites ==
    ASSUME [Next]_vars
    PROVE  UNCHANGED <<log, released>> \/ \E r \in Requests : LogWrite(r)
<1>1. ASSUME NEW r \in Requests, NEW o \in Orders, OrderNext(r, o)
      PROVE  UNCHANGED <<log, released>>
  BY <1>1 DEF OrderNext, CreateOrder, PlanCheck, StartCheck, CompleteCheck, CloseCheck,
              ReleaseCheck, StartStageCheck, OutputCheck, Begin
<1>2. ASSUME NEW r \in Requests, WriteNext(r)
      PROVE  UNCHANGED <<log, released>> \/ LogWrite(r)
  BY <1>2 DEF WriteNext, CreateParts, PlanWrite, CompleteWrite, CloseWrite, SetStatus, Fail, LogWrite
<1>3. ASSUME NEW o \in Orders, OpenPacking(o) \/ PostPacking(o)
      PROVE  UNCHANGED <<log, released>>
  BY <1>3 DEF OpenPacking, PostPacking
<1>4. ASSUME NEW s \in Stages, NEW q \in 1 .. MaxSequence, CreateStage(s, q) \/ UpdateStage(s, q)
      PROVE  UNCHANGED <<log, released>>
  BY <1>4 DEF CreateStage, UpdateStage
<1>5. ASSUME NEW s \in Stages, DeleteStage(s)
      PROVE  UNCHANGED <<log, released>>
  BY <1>5 DEF DeleteStage
<1>6. CASE UNCHANGED vars
  BY <1>6 DEF vars
<1> QED BY <1>1, <1>2, <1>3, <1>4, <1>5, <1>6 DEF Next

\* The logs of an order change only while it is started or in production.
LEMMA LogsUnchanged ==
    ASSUME TypeOK, SerialInv, UNCHANGED <<log, released>> \/ \E r \in Requests : LogWrite(r),
           NEW o \in Orders, status[o] \notin {"PLANNED", "IN_PRODUCTION"}
    PROVE  (\A s \in Stages : log'[<<o, s>>] = log[<<o, s>>]) /\ released'[o] = released[o]
<1>1. ASSUME NEW r \in Requests, StartWrite(r)
      PROVE  (\A s \in Stages : log'[<<o, s>>] = log[<<o, s>>]) /\ released'[o] = released[o]
  <2>1. call[r].order # o
    BY <1>1 DEF StartWrite, At, SerialInv, CallsStillTrue, StillTrue
  <2>2. \A s \in Stages : log'[<<o, s>>] = log[<<o, s>>]
    BY <1>1, <2>1 DEF StartWrite, TypeOK
  <2> QED BY <1>1, <2>2 DEF StartWrite, SetStatus
<1>2. ASSUME NEW r \in Requests, ReleaseCommit(r)
      PROVE  (\A s \in Stages : log'[<<o, s>>] = log[<<o, s>>]) /\ released'[o] = released[o]
  <2>1. call[r].order # o
    BY <1>2 DEF ReleaseCommit, At, SerialInv, CallsStillTrue, StillTrue
  <2> QED BY <1>2, <2>1 DEF ReleaseCommit, TypeOK
<1>3. ASSUME NEW r \in Requests, StartStageWrite(r)
      PROVE  (\A s \in Stages : log'[<<o, s>>] = log[<<o, s>>]) /\ released'[o] = released[o]
  <2>1. PICK b \in Orders, s \in Stages :
              /\ call[r] # None /\ Finish(r)
              /\ StageMayStart(b, s) /\ InOrderOf(b)
              /\ log'[<<b, s>>] = [log[<<b, s>>] EXCEPT !.status = "IN_PROGRESS", !.input = Material(b)]
              /\ \A p \in Orders, t \in Stages : p # b \/ t # s => log'[<<p, t>>] = log[<<p, t>>]
              /\ UNCHANGED <<status, released, seq, scrapped>>
    BY <1>3, StageStarted
  <2>2. b # o
    BY <2>1 DEF StageMayStart
  <2> QED BY <2>1, <2>2
<1>4. ASSUME NEW r \in Requests, OutputWrite(r)
      PROVE  (\A s \in Stages : log'[<<o, s>>] = log[<<o, s>>]) /\ released'[o] = released[o]
  <2>1. PICK b \in Orders, s \in Stages, output, scrap, incomplete \in Nat :
              /\ call[r] # None /\ Finish(r)
              /\ status[b] = "IN_PRODUCTION" /\ log[<<b, s>>].status = "IN_PROGRESS"
              /\ output <= Material(b) /\ IsLoss(scrap + incomplete, Material(b), output)
              /\ log'[<<b, s>>].status = "COMPLETE" /\ log'[<<b, s>>].output = output
              /\ log'[<<b, s>>].scrap = scrap /\ log'[<<b, s>>].incomplete = incomplete
              /\ Near(scrapped'[<<b, s>>], scrap)
              /\ \A p \in Orders, t \in Stages : p # b \/ t # s =>
                    log'[<<p, t>>] = log[<<p, t>>] /\ scrapped'[<<p, t>>] = scrapped[<<p, t>>]
              /\ UNCHANGED <<status, released, seq>>
    BY <1>4, OutputRecorded
  <2>2. b # o
    BY <2>1
  <2> QED BY <2>1, <2>2
<1> QED BY <1>1, <1>2, <1>3, <1>4 DEF LogWrite

\* The writes that change a status.
StatusWrite(r) == PlanWrite(r) \/ StartWrite(r) \/ CompleteWrite(r) \/ CloseWrite(r)

LEMMA StatusWrites ==
    ASSUME [Next]_vars
    PROVE  \/ UNCHANGED status
           \/ \E r \in Requests, o \in Orders : CreateOrder(r, o)
           \/ \E r \in Requests : StatusWrite(r)
<1>1. ASSUME NEW r \in Requests, NEW o \in Orders, OrderNext(r, o)
      PROVE  UNCHANGED status \/ CreateOrder(r, o)
  BY <1>1 DEF OrderNext, PlanCheck, StartCheck, CompleteCheck, CloseCheck,
              ReleaseCheck, StartStageCheck, OutputCheck, Begin
<1>2. ASSUME NEW r \in Requests, WriteNext(r)
      PROVE  UNCHANGED status \/ StatusWrite(r)
  BY <1>2 DEF WriteNext, CreateParts, ReleaseCommit, StartStageWrite, OutputWrite, Fail, StatusWrite
<1>3. ASSUME NEW o \in Orders, OpenPacking(o) \/ PostPacking(o)
      PROVE  UNCHANGED status
  BY <1>3 DEF OpenPacking, PostPacking
<1>4. ASSUME NEW s \in Stages, NEW q \in 1 .. MaxSequence, CreateStage(s, q) \/ UpdateStage(s, q)
      PROVE  UNCHANGED status
  BY <1>4 DEF CreateStage, UpdateStage
<1>5. ASSUME NEW s \in Stages, DeleteStage(s)
      PROVE  UNCHANGED status
  BY <1>5 DEF DeleteStage
<1>6. CASE UNCHANGED vars
  BY <1>6 DEF vars
<1> QED BY <1>1, <1>2, <1>3, <1>4, <1>5, <1>6 DEF Next

\* Only the two writes that end a production change what EndComplete says.
LEMMA EndStep ==
    ASSUME Serial, TypeOK, SerialInv, EndComplete, [Next]_vars
    PROVE  EndComplete'
<1> SUFFICES ASSUME NEW o \in Orders, status'[o] \in {"PRODUCTION_COMPLETE", "CLOSED"}
             PROVE  AllStagesComplete(o)'
  BY DEF EndComplete
<1>1. CASE UNCHANGED log /\ AllStagesComplete(o)
  BY <1>1 DEF AllStagesComplete, LogsOf, NonComplete
<1>2. CASE status[o] \in {"PRODUCTION_COMPLETE", "CLOSED"}
  <2>1. (\A s \in Stages : log'[<<o, s>>] = log[<<o, s>>]) /\ released'[o] = released[o]
    BY <1>2, LogWrites, LogsUnchanged
  <2>2. LogsOf(o)' = LogsOf(o) /\ NonComplete(o)' = NonComplete(o)
    BY <2>1, OrderUntouched
  <2>3. AllStagesComplete(o)
    BY <1>2 DEF EndComplete
  <2> QED BY <2>2, <2>3 DEF AllStagesComplete
<1>3. CASE status[o] \notin {"PRODUCTION_COMPLETE", "CLOSED"}
  <2>1. PICK r \in Requests : /\ CompleteWrite(r) \/ CloseWrite(r)
                              /\ call[r].order = o
    <3>1. \/ UNCHANGED status
          \/ \E r \in Requests, b \in Orders : CreateOrder(r, b)
          \/ \E r \in Requests : StatusWrite(r)
      BY StatusWrites
    <3>2. ASSUME NEW r \in Requests, NEW b \in Orders, CreateOrder(r, b)
          PROVE  FALSE
      BY <1>3, <3>2 DEF CreateOrder, TypeOK
    <3>3. ASSUME NEW r \in Requests, PlanWrite(r) \/ StartWrite(r)
          PROVE  FALSE
      BY <1>3, <3>3 DEF PlanWrite, StartWrite, SetStatus, TypeOK
    <3>4. ASSUME NEW r \in Requests, CompleteWrite(r) \/ CloseWrite(r)
          PROVE  call[r].order = o
      BY <1>3, <3>4 DEF CompleteWrite, CloseWrite, SetStatus, TypeOK
    <3> QED BY <1>3, <3>1, <3>2, <3>3, <3>4 DEF StatusWrite
  <2>2. CASE CompleteWrite(r)
    BY <1>1, <2>1, <2>2 DEF CompleteWrite, At, SerialInv, CallsStillTrue, StillTrue
  <2>3. CASE CloseWrite(r)
    BY <1>3, <2>1, <2>3 DEF CloseWrite, At, SerialInv, CallsStillTrue, StillTrue
  <2> QED BY <2>1, <2>2, <2>3
<1> QED BY <1>2, <1>3

\* A step leaves the balance of each order as it was, adds as much to the
\* material as it releases, or loses in a stage what the material decreases by.
LEMMA ConservedStep ==
    ASSUME TypeOK, TypeOK', SerialInv, Conserved,
           UNCHANGED <<log, released>> \/ \E r \in Requests : LogWrite(r)
    PROVE  Conserved'
<1> SUFFICES ASSUME NEW o \in Orders PROVE Material(o)' + LostOf(o)' <= released'[o] + Cardinality(CompleteStages(o)')
  BY DEF Conserved
<1>1. Material(o) + LostOf(o) <= released[o] + Cardinality(CompleteStages(o))
  BY DEF Conserved
<1>2. CASE (\A s \in Stages : log'[<<o, s>>] = log[<<o, s>>]) /\ released'[o] = released[o]
  BY <1>1, <1>2, OrderUntouched, LostUntouched
<1>3. ASSUME NEW r \in Requests, StartWrite(r), status[o] \in {"PLANNED", "IN_PRODUCTION"}
      PROVE  Material(o)' + LostOf(o)' <= released'[o] + Cardinality(CompleteStages(o)')
  <2>1. UNCHANGED <<MaterialOf, Losses, released>>
    BY <1>3, StartStarts DEF Workflow!Start, Workflow!Step, StartWrite, SetStatus
  <2>2. Material(o)' = Material(o) /\ \A s \in Stages : Lost(o, s)' = Lost(o, s)
    BY <2>1 DEF MaterialOf, Losses
  <2>3. LostOf(o)' = LostOf(o)
    BY <2>2, LostUntouched
  <2>4. CompleteStages(o)' = CompleteStages(o)
    BY <1>3, StartKeepsComplete
  <2> QED BY <1>1, <2>1, <2>2, <2>3, <2>4
<1>4. ASSUME NEW r \in Requests, ReleaseCommit(r), status[o] \in {"PLANNED", "IN_PRODUCTION"}
      PROVE  Material(o)' + LostOf(o)' <= released'[o] + Cardinality(CompleteStages(o)')
  <2>1. UNCHANGED log
    BY <1>4 DEF ReleaseCommit
  <2>2. CASE call[r].order # o
    <3>1. released'[o] = released[o]
      BY <1>4, <2>2 DEF ReleaseCommit, TypeOK
    <3> QED BY <1>2, <2>1, <3>1
  <2>3. CASE call[r].order = o
    <3>1. status[o] = "PLANNED"
      BY <1>4, <2>3 DEF ReleaseCommit, At, SerialInv, CallsStillTrue, StillTrue
    <3>2. CompleteStages(o) = {} /\ CompleteStages(o)' = {}
      BY <2>1, <3>1 DEF SerialInv, LogsFromStart, CompleteStages, LogsOf, NonComplete
    <3>3. Material(o) = released[o] /\ Material(o)' = released'[o]
      BY <3>2 DEF Material
    <3>6. Cardinality(CompleteStages(o)) = 0 /\ Cardinality(CompleteStages(o)') = 0
      BY <3>2, FS_EmptySet
    <3>4. LostOf(o)' = LostOf(o)
      BY <2>1, LostUntouched DEF Lost
    <3>5. LostOf(o) \in Nat /\ released[o] \in Nat /\ released'[o] \in Nat
      BY LostType DEF TypeOK
    <3> QED BY <1>1, <3>3, <3>4, <3>5, <3>6
  <2> QED BY <2>2, <2>3
<1>5. ASSUME NEW r \in Requests, StartStageWrite(r), status[o] \in {"PLANNED", "IN_PRODUCTION"}
      PROVE  Material(o)' + LostOf(o)' <= released'[o] + Cardinality(CompleteStages(o)')
  <2>1. /\ Material(o)' = Material(o) /\ CompleteStages(o)' = CompleteStages(o)
        /\ \A t \in Stages : Lost(o, t)' = Lost(o, t)
    BY <1>5, StageStartedKeepsOrders
  <2>2. UNCHANGED released
    BY <1>5 DEF StartStageWrite
  <2>3. LostOf(o)' = LostOf(o)
    BY <2>1, LostUntouched
  <2> QED BY <1>1, <2>1, <2>2, <2>3
<1>6. ASSUME NEW r \in Requests, OutputWrite(r), status[o] \in {"PLANNED", "IN_PRODUCTION"}
      PROVE  Material(o)' + LostOf(o)' <= released'[o] + Cardinality(CompleteStages(o)')
  <2>1. PICK b \in Orders, s \in Stages, output, scrap, incomplete \in Nat :
              /\ call[r] # None /\ Finish(r)
              /\ status[b] = "IN_PRODUCTION" /\ log[<<b, s>>].status = "IN_PROGRESS"
              /\ output <= Material(b) /\ IsLoss(scrap + incomplete, Material(b), output)
              /\ log'[<<b, s>>].status = "COMPLETE" /\ log'[<<b, s>>].output = output
              /\ log'[<<b, s>>].scrap = scrap /\ log'[<<b, s>>].incomplete = incomplete
              /\ Near(scrapped'[<<b, s>>], scrap)
              /\ \A p \in Orders, t \in Stages : p # b \/ t # s =>
                    log'[<<p, t>>] = log[<<p, t>>] /\ scrapped'[<<p, t>>] = scrapped[<<p, t>>]
              /\ UNCHANGED <<status, released, seq>>
    BY <1>6, OutputRecorded
  <2>2. CASE b # o
    BY <1>2, <2>1, <2>2
  <2>3. CASE b = o
    <3>1. output <= Material(o)
      BY <2>1, <2>3
    <3>2. Material(o)' = output
      BY <1>6, <2>1, <2>3, <3>1, OutputRecordedInOrders
    <3>3. Lost(o, s) = 0
      BY <2>1, <2>3 DEF Lost, SerialInv, ScrapRecorded
    <3>4. Lost(o, s)' = scrap + incomplete /\ \A t \in Stages : t # s => Lost(o, t)' = Lost(o, t)
      BY <2>1, <2>3 DEF Lost
    <3>5. LostOf(o)' = LostOf(o) + Lost(o, s)'
      BY <3>3, <3>4, LostInStage
    <3>6. LostOf(o) \in Nat /\ Material(o) \in Nat /\ released[o] \in Nat
      BY LostType, MaterialBounds DEF TypeOK
    <3>7. /\ Cardinality(CompleteStages(o)') = Cardinality(CompleteStages(o)) + 1
          /\ Cardinality(CompleteStages(o)) \in Nat
      <4>1. CompleteStages(o)' = CompleteStages(o) \union {s}
        BY <1>6, <2>1, <2>3, <3>1, OutputRecordedInOrders
      <4>2. s \notin CompleteStages(o) /\ CompleteStages(o) \in SUBSET Stages
        BY <2>1, <2>3, LogStatus DEF CompleteStages, LogsOf
      <4>3. PICK C : C = CompleteStages(o)
        OBVIOUS
      <4>4. IsFiniteSet(C) /\ Cardinality(C) \in Nat
        BY <4>2, <4>3, LifecycleConstants, FS_Subset, FS_CardinalityType
      <4>5. Cardinality(C \union {s}) = Cardinality(C) + 1
        BY <4>2, <4>3, <4>4, FS_AddElement
      <4> QED BY <4>1, <4>3, <4>4, <4>5
    <3>8. scrap + incomplete <= Material(o) - output + 1
      BY <2>1, <2>3 DEF IsLoss
    <3>9. released'[o] = released[o]
      BY <2>1
    <3> HIDE DEF IsLoss
    <3> QED BY <1>1, <3>2, <3>4, <3>5, <3>6, <3>7, <3>8, <3>9
  <2> QED BY <2>2, <2>3
<1>7. CASE status[o] \notin {"PLANNED", "IN_PRODUCTION"}
  BY <1>2, <1>7, LogsUnchanged
<1> QED BY <1>2, <1>3, <1>4, <1>5, <1>6, <1>7 DEF LogWrite

-----------------------------------------------------------------------------
(* The figures of a report.                                                *)

\* Short of 20000 rows, a rounded percentage is 100 only when it is exact.
LEMMA PercentFull ==
    ASSUME NEW n \in Nat, NEW c \in Nat, c <= n, n < 20000
    PROVE  Percent(c, n) = 10000 <=> n > 0 /\ c = n
<1>1. CASE n = 0
  BY <1>1 DEF Percent
<1>2. CASE n > 0
  <2> DEFINE a == 20000 * c + n
             b == 2 * n
             q == a \div b
  <2>1. a \in Nat /\ b \in Nat /\ b > 0 /\ Percent(c, n) = q
    BY <1>2 DEF Percent
  <2>2. q \in Int /\ b * q <= a /\ a < b * q + b
    <3> HIDE DEF a, b
    <3> QED BY <2>1
  <2>3. CASE c = n
    <3>1. a = 10000 * b + n /\ n < b
      BY <1>2, <2>3
    <3>2. q = 10000
      <4> HIDE DEF a, b, q
      <4>1. CASE q < 10000
        <5>1. b * (q + 1) <= b * 10000
          BY <2>1, <2>2, <4>1
        <5> QED BY <2>1, <2>2, <3>1, <5>1
      <4>2. CASE q > 10000
        <5>1. b * 10001 <= b * q
          BY <2>1, <2>2, <4>2
        <5> QED BY <2>1, <2>2, <3>1, <5>1
      <4> QED BY <2>2, <4>1, <4>2
    <3> QED BY <1>2, <2>1, <2>3, <3>2
  <2>4. CASE c < n
    <3>1. a < 10000 * b
      BY <1>2, <2>4
    <3>2. q # 10000
      <4> HIDE DEF a, b, q
      <4> QED BY <2>1, <2>2, <3>1
    <3> QED BY <2>1, <2>4, <3>2
  <2> QED BY <2>3, <2>4
<1> QED BY <1>1, <1>2

\* The rows of an order, by stage.
RowsOf(o) == Filtered(LogRows, o, None)

LEMMA RowsAre ==
    ASSUME NEW o \in Orders
    PROVE  /\ RowsOf(o) = {o} \X LogsOf(o)
           /\ RowsOf(o) = {k \in KeysOf(o) : log[k].status # "none"}
           /\ Filtered(Orders \X Stages, o, None) = KeysOf(o)
           /\ Filtered(LogRows, None, None) = LogRows
           /\ Filtered(Orders \X Stages, None, None) = Orders \X Stages
<1>1. o # None
  BY ReportConstants
<1>2. RowsOf(o) = {k \in Orders \X Stages : k[1] = o /\ log[k].status # "none"}
  BY <1>1 DEF RowsOf, Filtered, LogRows
<1>3. RowsOf(o) = {o} \X LogsOf(o)
  BY <1>2 DEF LogsOf
<1> QED BY <1>1, <1>2, <1>3 DEF KeysOf, Filtered

\* There are as many rows as stages.
LEMMA PairCount ==
    ASSUME NEW o, NEW S, IsFiniteSet(S)
    PROVE  Cardinality({o} \X S) = Cardinality(S)
<1>1. IsFiniteSet({o}) /\ Cardinality({o}) = 1
  BY FS_Singleton
<1>2. Cardinality({o} \X S) = Cardinality({o}) * Cardinality(S)
  BY <1>1, FS_Product
<1> QED BY <1>1, <1>2, FS_CardinalityType

\* The stages of an order with a log of that status.
StagesAt(o, t) == {s \in LogsOf(o) : log[<<o, s>>].status = t}

LEMMA StagesAtFinite ==
    ASSUME NEW o \in Orders, NEW t
    PROVE  IsFiniteSet(StagesAt(o, t)) /\ Cardinality(StagesAt(o, t)) \in Nat
<1>1. IsFiniteSet(StagesAt(o, t))
  BY LifecycleConstants, FS_Subset DEF StagesAt, LogsOf
<1> QED BY <1>1, FS_CardinalityType

LEMMA CountAt ==
    ASSUME NEW o \in Orders, NEW t
    PROVE  Cardinality({k \in RowsOf(o) : log[k].status = t}) = Cardinality(StagesAt(o, t))
<1>1. {k \in RowsOf(o) : log[k].status = t} = {o} \X StagesAt(o, t)
  BY RowsAre DEF StagesAt
<1>2. PICK S : S = StagesAt(o, t)
  OBVIOUS
<1>3. Cardinality({o} \X S) = Cardinality(S)
  BY <1>2, StagesAtFinite, PairCount
<1> QED BY <1>1, <1>2, <1>3

LEMMA RowCount ==
    ASSUME NEW o \in Orders
    PROVE  Cardinality(RowsOf(o)) = Cardinality(LogsOf(o))
<1>1. PICK S : S = LogsOf(o)
  OBVIOUS
<1>2. IsFiniteSet(S)
  BY <1>1, LifecycleConstants, FS_Subset DEF LogsOf
<1>3. Cardinality({o} \X S) = Cardinality(S)
  BY <1>2, PairCount
<1> QED BY <1>1, <1>3, RowsAre

\* Every stage with a log is pending, under way or complete.
LEMMA CountsAddUp ==
    ASSUME TypeOK, NEW o \in Orders
    PROVE  /\ Cardinality(LogsOf(o)) \in Nat /\ IsFiniteSet(LogsOf(o))
           /\ Cardinality(LogsOf(o)) = Cardinality(StagesAt(o, "PENDING"))
                 + Cardinality(StagesAt(o, "IN_PROGRESS")) + Cardinality(StagesAt(o, "COMPLETE"))
<1> DEFINE P == StagesAt(o, "PENDING")
           I == StagesAt(o, "IN_PROGRESS")
           C == StagesAt(o, "COMPLETE")
<1>1. LogsOf(o) = (P \union I) \union C
  <2>1. \A s \in LogsOf(o) : log[<<o, s>>].status \in {"PENDING", "IN_PROGRESS", "COMPLETE"}
    <3> TAKE s \in LogsOf(o)
    <3>1. s \in Stages /\ log[<<o, s>>].status # "none"
      BY DEF LogsOf
    <3> QED BY <3>1, LogStatus DEF StageLog
  <2> QED BY <2>1 DEF StagesAt
<1>2. P \intersect I = {} /\ (P \union I) \intersect C = {}
  BY DEF StagesAt
<1>3. /\ IsFiniteSet(P) /\ IsFiniteSet(I) /\ IsFiniteSet(C)
      /\ Cardinality(P) \in Nat /\ Cardinality(I) \in Nat /\ Cardinality(C) \in Nat
  BY StagesAtFinite
<1> HIDE DEF P, I, C
<1>4. IsFiniteSet(P \union I) /\ Cardinality(P \union I) = Cardinality(P) + Cardinality(I)
  BY <1>2, <1>3, FS_Union, FS_EmptySet
<1>5. /\ IsFiniteSet((P \union I) \union C)
      /\ Cardinality((P \union I) \union C) = Cardinality(P \union I) + Cardinality(C)
  <2>1. PICK D : D = P \union I
    OBVIOUS
  <2>2. IsFiniteSet(D) /\ D \intersect C = {} /\ Cardinality(D) \in Nat
    BY <1>2, <1>4, <2>1, FS_CardinalityType
  <2>3. IsFiniteSet(D \union C) /\ Cardinality(D \union C) = Cardinality(D) + Cardinality(C)
    <3>1. Cardinality(D \intersect C) = 0 /\ Cardinality(C) \in Nat
      BY <1>3, <2>2, FS_EmptySet
    <3>2. /\ IsFiniteSet(D \union C)
          /\ Cardinality(D \union C) = Cardinality(D) + Cardinality(C) - Cardinality(D \intersect C)
      BY <1>3, <2>2, FS_Union
    <3> QED BY <2>2, <3>1, <3>2
  <2> QED BY <2>1, <2>3
<1> QED BY <1>1, <1>3, <1>4, <1>5 DEF P, I, C

\* The records and their dozens under some keys, as the scrap report sums them.
RowsUnder(K) ==
    [records |-> SumFunctionOnSet([k \in K |-> scrapped[k].records], K),
     dozens |-> SumFunctionOnSet([k \in K |-> scrapped[k].dozens], K)]

\* The scrap of the logs that a filter lets through is that of the records, to
\* half a unit for each record.
LEMMA ScrapIsRecorded ==
    ASSUME TypeOK, ScrapRecorded, NEW K \in SUBSET (Orders \X Stages)
    PROVE  Near(RowsUnder(K), ScrapOf({k \in K : log[k].status # "none"}))
<1> DEFINE L == {k \in K : log[k].status # "none"}
           n == [k \in K |-> scrapped[k].records]
           d == [k \in K |-> scrapped[k].dozens]
           f == [k \in K |-> log[k].scrap]
           l == [k \in L |-> log[k].scrap]
           d2 == [k \in K |-> d[k] + d[k]]
           f2 == [k \in K |-> f[k] + f[k]]
           above == [k \in K |-> n[k] + f2[k]]
           below == [k \in K |-> n[k] + d2[k]]
           Sum(g) == SumFunctionOnSet(g, K)
<1>1. IsFiniteSet(K) /\ IsFiniteSet(L) /\ L \in SUBSET K
  BY KeysFinite, FS_Subset
<1>2. \A k \in K : n[k] \in Nat /\ d[k] \in Nat /\ f[k] \in Nat
  BY DEF TypeOK, ScrapRows, StageLog
<1>3. \A k \in K : 2 * (d[k] - f[k]) <= n[k] /\ 2 * (f[k] - d[k]) <= n[k]
  BY DEF ScrapRecorded, Near
<1>4. \A k \in K \ L : f[k] = 0
  BY DEF ScrapRecorded
<1>5. \A k \in L : f[k] = l[k]
  OBVIOUS
<1>6. ScrapOf(L) = SumFunctionOnSet(l, L) /\ RowsUnder(K) = [records |-> Sum(n), dozens |-> Sum(d)]
  BY DEF ScrapOf, RowsUnder
<1>7. \A k \in K : /\ d2[k] = d[k] + d[k] /\ f2[k] = f[k] + f[k]
                   /\ above[k] = n[k] + f2[k] /\ below[k] = n[k] + d2[k]
  OBVIOUS
<1> HIDE DEF L, n, d, f, l, d2, f2, above, below
<1>8. \A k \in K : /\ n[k] \in Int /\ d[k] \in Int /\ f[k] \in Int /\ d2[k] \in Int /\ f2[k] \in Int
                   /\ above[k] \in Int /\ below[k] \in Int
                   /\ d2[k] <= above[k] /\ f2[k] <= below[k]
  BY <1>2, <1>3, <1>7
<1>9. Sum(n) \in Int /\ Sum(d) \in Int /\ Sum(f) \in Int
  BY <1>1, <1>8, SumInt
<1>10. Sum(d2) = Sum(d) + Sum(d) /\ Sum(f2) = Sum(f) + Sum(f)
  BY <1>1, <1>7, <1>8, SumOfSums
<1>11. Sum(above) = Sum(n) + Sum(f2) /\ Sum(below) = Sum(n) + Sum(d2)
  BY <1>1, <1>7, <1>8, SumOfSums
<1>12. Sum(d2) <= Sum(above) /\ Sum(f2) <= Sum(below)
  BY <1>1, <1>8, SumMonotone
<1>13. SumFunctionOnSet(l, L) = Sum(f)
  <2>1. Sum(f) = SumFunctionOnSet(f, L)
    BY <1>1, <1>4, <1>8, SumOfNonZero
  <2>2. SumFunctionOnSet(f, L) = SumFunctionOnSet(l, L)
    BY <1>1, <1>5, SumAgrees
  <2> QED BY <2>1, <2>2
<1> HIDE DEF Sum
<1>14. 2 * (Sum(d) - Sum(f)) <= Sum(n) /\ 2 * (Sum(f) - Sum(d)) <= Sum(n)
  BY <1>9, <1>10, <1>11, <1>12
<1>15. Near([records |-> Sum(n), dozens |-> Sum(d)], Sum(f))
  BY <1>14 DEF Near
<1> QED BY <1>6, <1>13, <1>15 DEF L

\* In particular of those of an order.
LEMMA OrderScrapIsRecorded ==
    ASSUME TypeOK, ScrapRecorded, NEW o \in Orders
    PROVE  Reported(ScrapReport(o, None), ScrapOf(RowsOf(o)))
<1>1. PICK K \in SUBSET (Orders \X Stages) : K = KeysOf(o)
  BY DEF KeysOf
<1>2. Near(RowsUnder(K), ScrapOf({k \in K : log[k].status # "none"}))
  BY ScrapIsRecorded
<1>3. RowsOf(o) = {k \in K : log[k].status # "none"} /\ Filtered(Orders \X Stages, o, None) = K
  BY <1>1, RowsAre
<1>4. /\ ScrapReport(o, None).total = RowsUnder(K).records
      /\ ScrapReport(o, None).total_dozens = RowsUnder(K).dozens
  BY <1>3 DEF ScrapReport, RowsUnder
<1> QED BY <1>2, <1>3, <1>4 DEF Reported, Near

\* The scrap and the incomplete dozens in the summary are what an order lost.
LEMMA SummaryIsLoss ==
    ASSUME TypeOK, ScrapRecorded, NEW o \in Orders
    PROVE  ScrapOf(RowsOf(o)) + IncompleteOf(RowsOf(o)) = LostOf(o)
<1> DEFINE L == RowsOf(o)
           K == KeysOf(o)
           f == [k \in L |-> log[k].scrap]
           g == [k \in L |-> log[k].incomplete]
           h == [k \in Orders \X Stages |-> Lost(k[1], k[2])]
<1>1. IsFiniteSet(K) /\ IsFiniteSet(L) /\ L \in SUBSET K
  BY KeysFinite, RowsAre, FS_Subset
<1>2. \A k \in K : h[k] = log[k].scrap + log[k].incomplete /\ log[k].scrap \in Nat /\ log[k].incomplete \in Nat
  <2> TAKE k \in K
  <2>1. k \in Orders \X Stages /\ log[k] \in StageLog /\ k = <<k[1], k[2]>>
    BY DEF KeysOf, TypeOK
  <2> QED BY <2>1 DEF Lost, StageLog
<1>3. \A k \in K \ L : h[k] = 0
  BY <1>2, RowsAre DEF ScrapRecorded, KeysOf
<1>4. \A k \in L : f[k] \in Int /\ g[k] \in Int /\ h[k] = f[k] + g[k]
  BY <1>1, <1>2
<1>5. ScrapOf(L) = SumFunctionOnSet(f, L) /\ IncompleteOf(L) = SumFunctionOnSet(g, L)
  BY DEF ScrapOf, IncompleteOf
<1>6. LostOf(o) = SumFunctionOnSet(h, K)
  BY DEF LostOf
<1>7. \A k \in K : h[k] \in Int
  BY <1>2
<1> HIDE DEF f, g, h, K, L
<1>8. SumFunctionOnSet(h, K) = SumFunctionOnSet(h, L)
  BY <1>1, <1>3, <1>7, SumOfNonZero
<1>9. SumFunctionOnSet(h, L) = SumFunctionOnSet(f, L) + SumFunctionOnSet(g, L)
  BY <1>1, <1>4, SumOfSums
<1>10. LostOf(o) = ScrapOf(L) + IncompleteOf(L)
  BY <1>5, <1>6, <1>8, <1>9
<1> QED BY <1>10 DEF L

\* The orders by status are all the orders.
LEMMA DashboardCountsAll ==
    Dashboard.total_orders = Cardinality(OrderRows)
<1> DEFINE T == {status[o] : o \in OrderRows}
           one == [o \in OrderRows |-> 1]
           by == [t \in T |-> Cardinality(OrdersWith({t}))]
           sums == [t \in T |-> SumFunctionOnSet(one, {o \in OrderRows : status[o] = t})]
<1>1. IsFiniteSet(OrderRows)
  BY ReportConstants, FS_Subset DEF OrderRows
<1>2. IsFiniteSet(T)
  <2>1. [o \in OrderRows |-> status[o]] \in Surjection(OrderRows, T)
    BY DEF Surjection
  <2> HIDE DEF T
  <2> QED BY <1>1, <2>1, FS_Surjection
<1>3. Dashboard.total_orders = SumFunctionOnSet(by, T)
  BY DEF Dashboard, DashboardData
<1>4. \A t \in T : by[t] = sums[t]
  <2> TAKE t \in T
  <2>1. OrdersWith({t}) = {o \in OrderRows : status[o] = t}
    BY DEF OrdersWith
  <2>2. PICK S : S = {o \in OrderRows : status[o] = t}
    OBVIOUS
  <2>3. IsFiniteSet(S) /\ S \subseteq OrderRows
    BY <1>1, <2>2, FS_Subset
  <2>4. SumFunctionOnSet(one, S) = Cardinality(S)
    BY <2>3, CardinalityIsSum
  <2> QED BY <2>1, <2>2, <2>4
<1>5. by = sums
  BY <1>4
<1>6. SumFunctionOnSet(one, OrderRows) = SumFunctionOnSet(sums, T)
  <2>1. \A o \in OrderRows : one[o] \in Int /\ status[o] \in T
    OBVIOUS
  <2> HIDE DEF T, one
  <2> QED BY <1>1, <1>2, <2>1, SumByPlace
<1>7. SumFunctionOnSet(one, OrderRows) = Cardinality(OrderRows)
  <2>1. \A o \in OrderRows : one[o] = 1
    OBVIOUS
  <2> HIDE DEF one
  <2> QED BY <1>1, <2>1, CardinalityIsSum
<1> QED BY <1>3, <1>5, <1>6, <1>7

\* The reports about one order.
LEMMA OrderReports ==
    ASSUME TypeOK, ScrapRecorded, EndComplete, Conserved, Cardinality(Stages) < 20000, NEW o \in Orders
    PROVE  LET summary  == OrderSummaryData(o)
               progress == Progress(o)
           IN  /\ Reported(ScrapReport(o, None), summary.scrapDozens)
               /\ summary.total = progress.total_stages /\ summary.completed = progress.completed_stages
               /\ summary.pending = Cardinality(StageReport(o, None, {"PENDING"}))
               /\ summary.in_progress = Cardinality(progress.may_be_current)
               /\ status[o] \in {"PRODUCTION_COMPLETE", "CLOSED"} =>
                     /\ progress.progress_percent = 10000
                     /\ summary.scrapDozens + summary.incompleteDozens <= released[o] + summary.completed
               /\ progress.progress_percent = 10000 => AllStagesComplete(o)
<1> DEFINE summary  == OrderSummaryData(o)
           progress == Progress(o)
           total == Cardinality(LogsOf(o))
           done == Cardinality(StagesAt(o, "COMPLETE"))
           active == Cardinality(StagesAt(o, "IN_PROGRESS"))
           pending == Cardinality(StagesAt(o, "PENDING"))
<1>1. /\ total \in Nat /\ done \in Nat /\ active \in Nat /\ pending \in Nat
      /\ total = pending + active + done /\ IsFiniteSet(LogsOf(o))
  <2>1. done \in Nat /\ active \in Nat /\ pending \in Nat
    BY StagesAtFinite
  <2>2. total \in Nat /\ IsFiniteSet(LogsOf(o)) /\ total = pending + active + done
    BY CountsAddUp
  <2> QED BY <2>1, <2>2
<1>2. Cardinality(RowsOf(o)) = total
  BY RowCount
<1>3. /\ summary.total = total /\ summary.completed = done /\ summary.in_progress = active
      /\ summary.pending = total - done - active
      /\ summary.scrapDozens = ScrapOf(RowsOf(o)) /\ summary.incompleteDozens = IncompleteOf(RowsOf(o))
  BY <1>2, CountAt DEF OrderSummaryData, RowsOf
<1>4. /\ LogsOf(o) \ NonComplete(o) = StagesAt(o, "COMPLETE")
      /\ {s \in NonComplete(o) : log[<<o, s>>].status = "IN_PROGRESS"} = StagesAt(o, "IN_PROGRESS")
  BY DEF NonComplete, StagesAt
<1>5. /\ progress.total_stages = total /\ progress.completed_stages = done
      /\ progress.progress_percent = Percent(done, total)
      /\ Cardinality(progress.may_be_current) = active
  <2>1. progress.total_stages = total
    BY DEF Progress
  <2>2. progress.completed_stages = Cardinality(LogsOf(o) \ NonComplete(o))
    BY DEF Progress
  <2>3. progress.progress_percent = Percent(Cardinality(LogsOf(o) \ NonComplete(o)), total)
    BY DEF Progress
  <2>4. progress.may_be_current = {s \in NonComplete(o) : log[<<o, s>>].status = "IN_PROGRESS"}
    BY DEF Progress
  <2>5. Cardinality(progress.may_be_current) = active
    <3>1. progress.may_be_current = StagesAt(o, "IN_PROGRESS")
      BY <1>4, <2>4
    <3> HIDE DEF progress
    <3> QED BY <3>1
  <2>6. progress.completed_stages = done /\ progress.progress_percent = Percent(done, total)
    BY <1>4, <2>2, <2>3
  <2> QED BY <2>1, <2>5, <2>6
<1>6. Reported(ScrapReport(o, None), ScrapOf(RowsOf(o)))
  BY OrderScrapIsRecorded
<1>7. Cardinality(StageReport(o, None, {"PENDING"})) = pending
  <2>1. StageReport(o, None, {"PENDING"}) = {k \in RowsOf(o) : log[k].status = "PENDING"}
    BY DEF StageReport, RowsOf
  <2> QED BY <2>1, CountAt
<1>8. total < 20000 /\ done <= total
  <2>1. LogsOf(o) \in SUBSET Stages /\ IsFiniteSet(Stages)
    BY LifecycleConstants DEF LogsOf
  <2>2. total <= Cardinality(Stages) /\ Cardinality(Stages) \in Nat
    BY <2>1, FS_Subset, FS_CardinalityType
  <2> QED BY <1>1, <2>2
<1>9. Percent(done, total) = 10000 <=> total > 0 /\ done = total
  <2> HIDE DEF total, done
  <2> QED BY <1>1, <1>8, PercentFull
<1>10. AllStagesComplete(o) <=> total > 0 /\ done = total
  <2>1. AllStagesComplete(o) <=> LogsOf(o) # {} /\ StagesAt(o, "COMPLETE") = LogsOf(o)
    BY <1>4 DEF AllStagesComplete, NonComplete, StagesAt
  <2>2. StagesAt(o, "COMPLETE") \in SUBSET LogsOf(o)
    BY DEF StagesAt
  <2>3. total = done => StagesAt(o, "COMPLETE") = LogsOf(o)
    BY <1>1, <2>2, FS_Subset
  <2>4. total > 0 <=> LogsOf(o) # {}
    BY <1>1, FS_EmptySet
  <2> QED BY <2>1, <2>3, <2>4
<1>11. summary.scrapDozens + summary.incompleteDozens <= released[o] + summary.completed
  <2>1. summary.scrapDozens + summary.incompleteDozens = LostOf(o)
    BY <1>3, SummaryIsLoss
  <2>2. Material(o) + LostOf(o) <= released[o] + Cardinality(CompleteStages(o))
    BY DEF Conserved
  <2>3. Cardinality(CompleteStages(o)) = done
    BY <1>4 DEF CompleteStages
  <2>4. Material(o) \in Nat /\ LostOf(o) \in Nat /\ released[o] \in Nat
    BY MaterialBounds, LostType DEF TypeOK
  <2> HIDE DEF summary, done
  <2> QED BY <1>1, <1>3, <2>1, <2>2, <2>3, <2>4
<1>12. status[o] \in {"PRODUCTION_COMPLETE", "CLOSED"} => AllStagesComplete(o)
  BY DEF EndComplete
<1> HIDE DEF summary, progress, total, done, active, pending
<1>13. /\ Reported(ScrapReport(o, None), summary.scrapDozens)
       /\ summary.total = progress.total_stages /\ summary.completed = progress.completed_stages
       /\ summary.pending = Cardinality(StageReport(o, None, {"PENDING"}))
       /\ summary.in_progress = Cardinality(progress.may_be_current)
  BY <1>1, <1>3, <1>5, <1>6, <1>7
<1>14. status[o] \in {"PRODUCTION_COMPLETE", "CLOSED"} =>
          /\ progress.progress_percent = 10000
          /\ summary.scrapDozens + summary.incompleteDozens <= released[o] + summary.completed
  BY <1>5, <1>9, <1>10, <1>11, <1>12
<1>15. progress.progress_percent = 10000 => AllStagesComplete(o)
  BY <1>5, <1>9, <1>10
<1> QED BY <1>13, <1>14, <1>15 DEF summary, progress

\* The reports about all the orders.
LEMMA TotalReports ==
    ASSUME TypeOK, ScrapRecorded, Cardinality(Orders) < 20000
    PROVE  /\ Reported(ScrapReport(None, None), Dashboard.total_scrap_dozens)
           /\ {Dashboard.total_scrap_dozens, KPIs.total_scrap_dozens}
                = {ScrapOf(StageReport(None, None, {"PENDING", "IN_PROGRESS", "COMPLETE"}))}
           /\ Dashboard.total_orders = KPIs.total_orders /\ Dashboard.active_orders = KPIs.active_orders
           /\ KPIs.completed_orders = Cardinality(OrdersReport({"PRODUCTION_COMPLETE", "CLOSED"}))
           /\ KPIs.completion_rate_pct = 10000 <=>
                 (OrderRows # {} /\ OrderRows = OrdersReport({"PRODUCTION_COMPLETE", "CLOSED"}))
<1>1. Dashboard.total_scrap_dozens = ScrapOf(LogRows) /\ KPIs.total_scrap_dozens = ScrapOf(LogRows)
  BY DEF Dashboard, DashboardData, KPIs, KPIData
<1>2. StageReport(None, None, {"PENDING", "IN_PROGRESS", "COMPLETE"}) = LogRows
  <2>1. \A k \in LogRows : log[k].status \in {"PENDING", "IN_PROGRESS", "COMPLETE"}
    BY DEF LogRows, TypeOK, StageLog
  <2>2. Filtered(LogRows, None, None) = LogRows
    BY DEF Filtered
  <2> QED BY <2>1, <2>2 DEF StageReport
<1>3. Reported(ScrapReport(None, None), ScrapOf(LogRows))
  <2> DEFINE K == Filtered(Orders \X Stages, None, None)
  <2>1. K \in SUBSET (Orders \X Stages) /\ {k \in K : log[k].status # "none"} = LogRows
    BY DEF LogRows, Filtered
  <2>2. /\ ScrapReport(None, None).total = RowsUnder(K).records
        /\ ScrapReport(None, None).total_dozens = RowsUnder(K).dozens
    <3> DEFINE n == SumFunctionOnSet([k \in K |-> scrapped[k].records], K)
               d == SumFunctionOnSet([k \in K |-> scrapped[k].dozens], K)
    <3>1. ScrapReport(None, None) = [total |-> n, total_dozens |-> d]
      BY DEF ScrapReport
    <3>2. RowsUnder(K) = [records |-> n, dozens |-> d]
      BY DEF RowsUnder
    <3> HIDE DEF n, d, K
    <3> QED BY <3>1, <3>2
  <2> HIDE DEF K
  <2>3. Near(RowsUnder(K), ScrapOf(LogRows))
    BY <2>1, ScrapIsRecorded
  <2> QED BY <2>2, <2>3 DEF Reported, Near
<1>4. Dashboard.total_orders = KPIs.total_orders
  BY DashboardCountsAll DEF KPIs, KPIData
<1>5. Dashboard.active_orders = KPIs.active_orders
  <2> DEFINE T == {status[o] : o \in OrderRows}
  <2>1. CASE "IN_PRODUCTION" \in T
    BY <2>1 DEF Dashboard, DashboardData, KPIs, KPIData
  <2>2. CASE "IN_PRODUCTION" \notin T
    <3>1. OrdersWith({"IN_PRODUCTION"}) = {}
      BY <2>2 DEF OrdersWith
    <3>2. Dashboard.active_orders = 0 /\ KPIs.active_orders = 0
      BY <2>2, <3>1, FS_EmptySet DEF Dashboard, DashboardData, KPIs, KPIData
    <3> QED BY <3>2
  <2> QED BY <2>1, <2>2
<1> DEFINE ended == OrdersWith({"PRODUCTION_COMPLETE", "CLOSED"})
<1>6. KPIs.completed_orders = Cardinality(ended) /\ OrdersReport({"PRODUCTION_COMPLETE", "CLOSED"}) = ended
  BY DEF KPIs, KPIData, OrdersReport
<1>7. KPIs.completion_rate_pct = Percent(Cardinality(ended), Cardinality(OrderRows))
  BY DEF KPIs, KPIData
<1>8. KPIs.completion_rate_pct = 10000 <=> (OrderRows # {} /\ OrderRows = ended)
  <2>1. ended \in SUBSET OrderRows /\ OrderRows \in SUBSET Orders
    BY DEF OrdersWith, OrderRows
  <2>2. IsFiniteSet(Orders) /\ IsFiniteSet(OrderRows) /\ IsFiniteSet(ended)
    BY <2>1, ReportConstants, FS_Subset
  <2> HIDE DEF ended
  <2>3. PICK n, c : n = Cardinality(OrderRows) /\ c = Cardinality(ended)
    OBVIOUS
  <2>4. n \in Nat /\ c \in Nat /\ Cardinality(Orders) \in Nat
    BY <2>2, <2>3, FS_CardinalityType
  <2>5. c <= n /\ n <= Cardinality(Orders) /\ (n = c => OrderRows = ended)
    BY <2>1, <2>2, <2>3, FS_Subset
  <2>6. n > 0 <=> OrderRows # {}
    BY <2>2, <2>3, <2>4, FS_EmptySet
  <2>7. Percent(c, n) = 10000 <=> n > 0 /\ c = n
    BY <2>4, <2>5, PercentFull
  <2> QED BY <1>7, <2>3, <2>5, <2>6, <2>7
<1> QED BY <1>1, <1>2, <1>3, <1>4, <1>5, <1>6, <1>8

\* When requests do not overlap and no stage is moved during production, the
\* reports agree, with fewer than 20000 orders and stages: they round to a
\* hundredth of a percent, and 19999 of 20000 is 100.00.
THEOREM ReportsAgreeCorrect ==
    ASSUME Serial, ~Resequencing, Cardinality(Orders) < 20000, Cardinality(Stages) < 20000
    PROVE  Spec => []ReportsAgree
<1> DEFINE ReportInv == TypeOK /\ SerialInv /\ EndComplete /\ Conserved
<1>1. Init => ReportInv
  BY TypeInit, SerialInit, ReportInit
<1>2. ReportInv /\ [Next]_vars => ReportInv'
  <2> SUFFICES ASSUME ReportInv, [Next]_vars PROVE ReportInv'
    OBVIOUS
  <2>1. TypeOK' /\ SerialInv'
    BY TypeStep, SerialStep
  <2>2. EndComplete'
    BY EndStep
  <2>3. Conserved'
    BY <2>1, LogWrites, ConservedStep
  <2> QED BY <2>1, <2>2, <2>3
<1>3. ReportInv => ReportsAgree
  <2> SUFFICES ASSUME ReportInv PROVE ReportsAgree
    OBVIOUS
  <2>1. ScrapRecorded /\ ScrapRecordsAddUp
    BY DEF SerialInv, ScrapRecorded, ScrapRecordsAddUp
  <2> QED BY <2>1, OrderReports, TotalReports DEF ReportsAgree
<1> HIDE DEF ReportInv
<1> QED BY <1>1, <1>2, <1>3, PTL DEF Spec
===============================================================================
