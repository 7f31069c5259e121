------------------------- MODULE QualityPackingProofs -------------------------
(* Theorems about QualityPacking, for any orders, boxes and requests, any  *)
(* assemblies and any number of attempts.                                  *)
EXTENDS QualityPacking, SequenceTheorems, FiniteLemmas

-----------------------------------------------------------------------------
(* The inductive invariant.                                                *)

\* What was read of a box is no newer than its row, and still the row if the
\* version is.
ReadSound(b, seen) ==
    /\ seen.version <= box[b].version
    /\ seen.version = box[b].version => seen = box[b]

Fits(line, row) == 1000 * line.pieces <= 12 * row.dozens

RecordSound(r) == AtStep(r, "record", "write") => ReadSound(call[r].box, call[r].seen)

\* Once its boxes are locked, an assembly has nothing left to check.
AssemblySound(r) ==
    /\ AtStep(r, "assemble", "lock") =>
          \A i \in DOMAIN call[r].lines :
              LET line == call[r].lines[i]
              IN  ReadSound(line.box, call[r].seen[line.box]) /\ Fits(line, call[r].seen[line.box])
    /\ AtStep(r, "assemble", "commit") =>
          /\ NamedOnce(call[r].lines)
          /\ \A i \in DOMAIN call[r].lines :
                Fits(call[r].lines[i], box[call[r].lines[i].box])

Committing(r) == AtStep(r, "assemble", "commit")
Disjoint(r, q) == BoxesOf(call[r].lines) \intersect BoxesOf(call[q].lines) = {}

BoxesRead == \A r \in Requests : RecordSound(r) /\ AssemblySound(r)
LocksExclusive ==
    \A r, q \in Requests : r # q /\ Committing(r) /\ Committing(q) => Disjoint(r, q)

\* A packing order is verified from VERIFIED on, and never for more than what
\* is assembled.
OrderSound(o) ==
    packing[o] # None =>
        /\ packing[o].status \in {"VERIFIED", "POSTED"} <=> packing[o].verification # None
        /\ packing[o].verification # None => packing[o].verification <= packing[o].assembled

PackCall(r) == At(r, "assemble") \/ At(r, "verify") \/ At(r, "post")

\* What a request to pack has read of its order can only have grown.
PackCallSound(r) ==
    PackCall(r) =>
        LET o == call[r].order
        IN  /\ packing[o] # None
            /\ At(r, "verify") => call[r].dozens <= packing[o].assembled
            /\ At(r, "post") => /\ packing[o].verification # None
                                /\ packing[o].verification <= call[r].dozens
                                /\ call[r].dozens <= packing[o].assembled

PackSound == (\A o \in Orders : OrderSound(o)) /\ (\A r \in Requests : PackCallSound(r))

\* While the requests to pack o come one by one, what the only one has read is
\* still so.
CalmCall(r, o) ==
    Packing(r, o) =>
        /\ At(r, "assemble") => packing[o].status \in {"DRAFT", "IN_PROCESS"}
        /\ At(r, "verify") => packing[o].status = "IN_PROCESS" /\ call[r].dozens = packing[o].assembled
        /\ At(r, "post") => packing[o].status = "VERIFIED" /\ call[r].dozens = packing[o].assembled

CalmOrder(o) ==
    /\ packing[o] # None /\ packing[o].verification # None => packing[o].assembled = packing[o].verification
    /\ posted[o] # <<>> => posted[o] = <<packing[o].verification>>

CalmSound(o) ==
    calm[o] => /\ \A r, q \in Requests : Packing(r, o) /\ Packing(q, o) => r = q
               /\ \A r \in Requests : CalmCall(r, o)
               /\ CalmOrder(o)

AllCalmSound == \A o \in Orders : CalmSound(o)

IInv == /\ TypeOK /\ BoxesRead /\ LocksExclusive /\ BoxesAccounted
        /\ PackSound /\ PostingFollowsVerification /\ AllCalmSound

-----------------------------------------------------------------------------
(* Calls and lines.                                                        *)

RecordCall == [op : {"record"}, next : {"read", "write"}, box : Boxes, dozens : Nat,
               seen : BoxRow, attempt : Nat]
AssembleCall == [op : {"assemble"}, next : {"read", "lock", "commit"}, order : Orders,
                 lines : Assemblies, seen : [Boxes -> BoxRow], sequence : Nat, attempt : Nat]
WriteCall == [op : {"verify", "post"}, order : Orders, dozens : Nat]
CompleteCall == [op : {"complete"}, order : Orders, dozens : Nat]

\* A call is one of the four kinds, told apart by its op.
LEMMA CallKinds == Call = RecordCall \union AssembleCall \union WriteCall \union CompleteCall
  BY DEF Call, RecordCall, AssembleCall, WriteCall, CompleteCall

LEMMA CallOf ==
  ASSUME TypeOK, NEW r \in Requests, call[r] # None
  PROVE  \/ call[r] \in RecordCall /\ At(r, "record")
         \/ call[r] \in AssembleCall /\ At(r, "assemble")
         \/ call[r] \in WriteCall /\ (At(r, "verify") \/ At(r, "post"))
         \/ call[r] \in CompleteCall /\ At(r, "complete")
  BY CallKinds DEF TypeOK, At, RecordCall, AssembleCall, WriteCall, CompleteCall

LEMMA RecordOf ==
  ASSUME TypeOK, NEW r \in Requests, At(r, "record")
  PROVE  /\ call[r] # None
         /\ call[r] \in RecordCall
         /\ call[r].box \in Boxes /\ call[r].dozens \in Nat
         /\ call[r].seen \in BoxRow /\ call[r].attempt \in Nat
  BY CallOf DEF At, RecordCall, AssembleCall, WriteCall, CompleteCall

LEMMA AssembleOf ==
  ASSUME TypeOK, NEW r \in Requests, At(r, "assemble")
  PROVE  /\ call[r] # None
         /\ call[r] \in AssembleCall
         /\ call[r].order \in Orders /\ call[r].lines \in Assemblies
         /\ call[r].seen \in [Boxes -> BoxRow] /\ call[r].sequence \in Nat /\ call[r].attempt \in Nat
  BY CallOf DEF At, RecordCall, AssembleCall, WriteCall, CompleteCall

LEMMA WriteOf ==
  ASSUME TypeOK, NEW r \in Requests, At(r, "verify") \/ At(r, "post")
  PROVE  /\ call[r] # None
         /\ call[r] \in WriteCall
         /\ call[r].order \in Orders /\ call[r].dozens \in Nat
  BY CallOf DEF At, RecordCall, AssembleCall, WriteCall, CompleteCall

LEMMA CompleteOf ==
  ASSUME TypeOK, NEW r \in Requests, At(r, "complete")
  PROVE  /\ call[r] # None
         /\ call[r] \in CompleteCall
         /\ call[r].order \in Orders /\ call[r].dozens \in Nat
  BY CallOf DEF At, RecordCall, AssembleCall, WriteCall, CompleteCall

LEMMA PackCallOf ==
  ASSUME TypeOK, NEW r \in Requests, PackCall(r)
  PROVE  /\ call[r].order \in Orders
         /\ At(r, "assemble") \/ At(r, "verify") \/ At(r, "post")
  BY AssembleOf, WriteOf DEF PackCall

\* A step of request r touches no other call.
LEMMA CallSet ==
  ASSUME TypeOK, NEW r \in Requests, NEW x \in Call \union {None}, call' = [call EXCEPT ![r] = x]
  PROVE  /\ call' \in [Requests -> Call \union {None}]
         /\ call'[r] = x
         /\ \A q \in Requests : q # r => call'[q] = call[q]
  BY DEF TypeOK

LEMMA Finished ==
  ASSUME TypeOK, NEW r \in Requests, Finish(r)
  PROVE  /\ call' \in [Requests -> Call \union {None}]
         /\ call'[r] = None
         /\ \A q \in Requests : q # r => call'[q] = call[q]
  BY CallSet DEF Finish

\* After a conflict a request is at its read again, the same but for its
\* attempt, or it is over.
LEMMA TriedAgain ==
  ASSUME TypeOK, NEW r \in Requests, At(r, "record") \/ At(r, "assemble"), TryAgain(r)
  PROVE  /\ call' \in [Requests -> Call \union {None}]
         /\ \A q \in Requests : q # r => call'[q] = call[q]
         /\ call'[r] # None => /\ call'[r].op = call[r].op /\ call'[r].next = "read"
                               /\ At(r, "assemble") => call'[r].order = call[r].order
                               /\ At(r, "record") => /\ call'[r].box = call[r].box
                                                     /\ call'[r].dozens = call[r].dozens
  <1>1. CASE MayRetry(call[r].attempt)
    <2> DEFINE x == [call[r] EXCEPT !.next = "read", !.attempt = @ + 1]
    <2>1. call' = [call EXCEPT ![r] = x]
      BY <1>1 DEF TryAgain
    <2>2. CASE At(r, "record")
      <3>1. call[r] \in RecordCall /\ call[r].attempt + 1 \in Nat
        BY <2>2, RecordOf
      <3>2. /\ x \in RecordCall /\ x.op = call[r].op /\ x.next = "read"
            /\ x.box = call[r].box /\ x.dozens = call[r].dozens
        BY <3>1 DEF RecordCall
      <3>3. ~ At(r, "assemble")
        BY <2>2 DEF At
      <3> HIDE DEF x
      <3> QED BY <2>1, <3>2, <3>3, CallSet, CallKinds
    <2>3. CASE At(r, "assemble")
      <3>1. call[r] \in AssembleCall /\ call[r].attempt + 1 \in Nat
        BY <2>3, AssembleOf
      <3>2. x \in AssembleCall /\ x.op = call[r].op /\ x.next = "read" /\ x.order = call[r].order
        BY <3>1 DEF AssembleCall
      <3>3. ~ At(r, "record")
        BY <2>3 DEF At
      <3> HIDE DEF x
      <3> QED BY <2>1, <3>2, <3>3, CallSet, CallKinds
    <2> QED BY <2>2, <2>3
  <1>2. CASE ~ MayRetry(call[r].attempt)
    BY <1>2, Finished DEF TryAgain
  <1> QED BY <1>1, <1>2

LEMMA LineOf ==
  ASSUME NEW lines \in Assemblies, NEW i \in DOMAIN lines
  PROVE  lines[i].box \in Boxes /\ lines[i].pieces \in Nat
  <1> DEFINE L == [box : Boxes, pieces : Nat \ {0}]
  <1>1. lines \in Seq(L)
    BY QualityConstants
  <1>2. lines[i] \in L
    <2> HIDE DEF L
    <2> QED BY <1>1
  <1> QED BY <1>2

LEMMA BoxesOfType ==
  ASSUME NEW lines \in Assemblies
  PROVE  BoxesOf(lines) \subseteq Boxes
  BY LineOf DEF BoxesOf

\* The pieces taken from a box are those of a line that names it.
LEMMA PiecesOfLine ==
  ASSUME NEW lines \in Assemblies, NEW b \in BoxesOf(lines)
  PROVE  /\ \E i \in DOMAIN lines : lines[i].box = b /\ PiecesOf(lines, b) = lines[i].pieces
         /\ PiecesOf(lines, b) \in Nat
  <1>1. \E i \in DOMAIN lines : lines[i].box = b
    BY DEF BoxesOf
  <1> DEFINE j == CHOOSE i \in DOMAIN lines : lines[i].box = b
  <1>2. j \in DOMAIN lines /\ lines[j].box = b
    BY <1>1
  <1>3. PiecesOf(lines, b) = lines[j].pieces
    BY DEF PiecesOf
  <1> HIDE DEF j
  <1> QED BY <1>2, <1>3, LineOf

\* The lines of an assembly are finitely many.
LEMMA LinesFinite ==
  ASSUME NEW lines \in Assemblies
  PROVE  IsFiniteSet(DOMAIN lines)
  <1>1. lines \in Seq([box : Boxes, pieces : Nat \ {0}])
    BY QualityConstants
  <1>2. DOMAIN lines = 1 .. Len(lines) /\ Len(lines) \in Nat
    BY <1>1, LenProperties
  <1> QED BY <1>2, FS_Interval

LEMMA PiecesOfAllType ==
  ASSUME NEW lines \in Assemblies
  PROVE  PiecesOfAll(lines) \in Nat
  <1> DEFINE f == [i \in DOMAIN lines |-> lines[i].pieces]
  <1>1. \A i \in DOMAIN lines : f[i] \in Nat
    BY LineOf
  <1>2. PiecesOfAll(lines) = SumFunctionOnSet(f, DOMAIN lines)
    BY DEF PiecesOfAll
  <1> HIDE DEF f
  <1> QED BY <1>1, <1>2, LinesFinite, SumNat

\* The pieces of an assembly on o, by the variant they come from.
PiecesOfVariants(o, lines) ==
  [v \in Variants |-> IF <<o, v>> \in BoxesOf(lines) THEN PiecesOf(lines, <<o, v>>) ELSE 0]

LEMMA PiecesByVariant ==
  ASSUME NEW lines \in Assemblies, NEW o \in Orders, NamedOnce(lines),
         \A i \in DOMAIN lines : lines[i].box[1] = o
  PROVE  /\ PiecesOfVariants(o, lines) \in [Variants -> Nat]
         /\ PiecesOfAll(lines) = SumFunctionOnSet(PiecesOfVariants(o, lines), Variants)
  <1> DEFINE f == [i \in DOMAIN lines |-> lines[i].pieces]
             place == [i \in DOMAIN lines |-> lines[i].box[2]]
             from(v) == {i \in DOMAIN lines : place[i] = v}
             row == [v \in Variants |-> SumFunctionOnSet(f, from(v))]
             h == PiecesOfVariants(o, lines)
  <1>1. \A i \in DOMAIN lines : f[i] \in Nat /\ place[i] \in Variants /\ lines[i].box = <<o, place[i]>>
    BY LineOf DEF Boxes
  <1>2. PiecesOfAll(lines) = SumFunctionOnSet(row, Variants)
    <2>1. PiecesOfAll(lines) = SumFunctionOnSet(f, DOMAIN lines)
      BY DEF PiecesOfAll
    <2>2. \A i \in DOMAIN lines : f[i] \in Int /\ place[i] \in Variants
      BY <1>1
    <2>3. IsFiniteSet(Variants) /\ IsFiniteSet(DOMAIN lines)
      BY QualityConstants, LinesFinite
    <2>4. row = [v \in Variants |-> SumFunctionOnSet(f, {i \in DOMAIN lines : place[i] = v})]
      OBVIOUS
    <2> HIDE DEF f, place, row
    <2> QED BY ONLY <2>1, <2>2, <2>3, <2>4, SumByPlace
  <1>3. ASSUME NEW v \in Variants PROVE row[v] = h[v] /\ h[v] \in Nat
    <2>1. row[v] = SumFunctionOnSet(f, from(v))
      OBVIOUS
    <2>2. h[v] = IF <<o, v>> \in BoxesOf(lines) THEN PiecesOf(lines, <<o, v>>) ELSE 0
      BY DEF PiecesOfVariants
    <2>3. CASE <<o, v>> \in BoxesOf(lines)
      <3>1. PICK i \in DOMAIN lines : lines[i].box = <<o, v>> /\ PiecesOf(lines, <<o, v>>) = lines[i].pieces
        BY <2>3, PiecesOfLine
      <3>2. from(v) = {i}
        BY <1>1, <3>1 DEF NamedOnce
      <3>3. f[i] = h[v] /\ f[i] \in Nat
        BY <1>1, <2>2, <2>3, <3>1
      <3> HIDE DEF f, from, row, h
      <3> QED BY <2>1, <3>2, <3>3, SumOfOne
    <2>4. CASE <<o, v>> \notin BoxesOf(lines)
      <3>1. from(v) = {}
        BY <1>1, <2>4 DEF BoxesOf
      <3> HIDE DEF f, from, row, h
      <3> QED BY <2>1, <2>2, <2>4, <3>1, SumEmpty
    <2> QED BY <2>3, <2>4
  <1>4. h = [v \in Variants |-> h[v]]
    BY DEF PiecesOfVariants
  <1> HIDE DEF h, row
  <1>5. h \in [Variants -> Nat]
    BY <1>3, <1>4
  <1>6. SumFunctionOnSet(row, Variants) = SumFunctionOnSet(h, Variants)
    BY <1>3, QualityConstants, SumAgrees
  <1> QED BY <1>2, <1>5, <1>6 DEF h

LEMMA RoundedType ==
  ASSUME NEW n \in Int, n >= 0
  PROVE  /\ Rounded(n) \in Nat
         /\ 12 * Rounded(n) \in n - 6 .. n + 6
  BY DEF Rounded

LEMMA PackingOf ==
  ASSUME TypeOK, NEW o \in Orders, packing[o] # None
  PROVE  /\ packing[o] \in PackingOrder
         /\ packing[o].assembled \in Nat /\ packing[o].sequence \in Nat
         /\ packing[o].verification \in Nat \union {None}
         /\ packing[o].status \in {"DRAFT", "IN_PROCESS", "VERIFIED", "POSTED"}
  BY DEF TypeOK, PackingOrder

-----------------------------------------------------------------------------
(* What each action does to the calls.                                     *)

Began(r, c) ==
  /\ call[r] = None
  /\ call' \in [Requests -> Call \union {None}]
  /\ call'[r] = c
  /\ \A q \in Requests : q # r => call'[q] = call[q]

LEMMA BeganWith ==
  ASSUME TypeOK, NEW r \in Requests, NEW c \in Call, Begin(r, c)
  PROVE  Began(r, c)
  BY CallSet DEF Began, Begin, MayBegin

LEMMA RecordBegins ==
  ASSUME TypeOK, NEW r \in Requests, NEW b \in Boxes, NEW d \in Amounts, RecordCheck(r, b, d)
  PROVE  \E c \in RecordCall : /\ Began(r, c) /\ c.next = "read" /\ c.op = "record"
                               /\ c.box = b /\ c.dozens = d
  <1> DEFINE c == [op |-> "record", next |-> "read", box |-> b, dozens |-> d,
                   seen |-> [dozens |-> 0, version |-> 0], attempt |-> 0]
  <1>1. c \in RecordCall /\ c.next = "read" /\ c.op = "record" /\ c.box = b /\ c.dozens = d
    BY QualityConstants DEF RecordCall, BoxRow
  <1>2. Begin(r, c)
    BY DEF RecordCheck
  <1> HIDE DEF c
  <1> QED BY <1>1, <1>2, BeganWith, CallKinds

LEMMA AssemblyBegins ==
  ASSUME TypeOK, NEW r \in Requests, NEW o \in Orders, NEW lines \in Assemblies, AssemblyCheck(r, o, lines)
  PROVE  \E c \in AssembleCall : /\ Began(r, c) /\ c.next = "read" /\ c.op = "assemble" /\ c.order = o
                                 /\ BeginPacking(r, o, c)
  <1> DEFINE c == [op |-> "assemble", next |-> "read", order |-> o, lines |-> lines,
                   seen |-> box, sequence |-> 0, attempt |-> 0]
  <1>1. c \in AssembleCall /\ c.next = "read" /\ c.op = "assemble" /\ c.order = o
    BY DEF TypeOK, AssembleCall
  <1>2. BeginPacking(r, o, c)
    BY DEF AssemblyCheck
  <1> HIDE DEF c
  <1>3. Begin(r, c)
    BY <1>2 DEF BeginPacking
  <1> QED BY <1>1, <1>2, <1>3, BeganWith, CallKinds

LEMMA WriteBegins ==
  ASSUME TypeOK, NEW r \in Requests, NEW o \in Orders, VerifyCheck(r, o) \/ PostCheck(r, o)
  PROVE  \E c \in WriteCall : /\ Began(r, c) /\ c.order = o /\ c.dozens = packing[o].assembled
                              /\ BeginPacking(r, o, c)
                              /\ VerifyCheck(r, o) => c.op = "verify"
                              /\ PostCheck(r, o) => c.op = "post"
  <1> DEFINE c(x) == [op |-> x, order |-> o, dozens |-> packing[o].assembled]
  <1>1. packing[o].assembled \in Nat
    BY PackingOf DEF VerifyCheck, PostCheck, HasStatus
  <1>2. \A x \in {"verify", "post"} :
           c(x) \in WriteCall /\ c(x).op = x /\ c(x).order = o /\ c(x).dozens = packing[o].assembled
    BY <1>1 DEF WriteCall
  <1>3. /\ VerifyCheck(r, o) => BeginPacking(r, o, c("verify")) /\ Begin(r, c("verify"))
        /\ PostCheck(r, o) => BeginPacking(r, o, c("post")) /\ Begin(r, c("post"))
    BY DEF VerifyCheck, PostCheck, BeginPacking
  <1>4. ~ (VerifyCheck(r, o) /\ PostCheck(r, o))
    BY DEF VerifyCheck, PostCheck, HasStatus
  <1> HIDE DEF c
  <1> QED BY <1>2, <1>3, <1>4, BeganWith, CallKinds

LEMMA LastStageBegins ==
  ASSUME TypeOK, NEW r \in Requests, NEW o \in Orders, NEW d \in Outputs, LastStageCheck(r, o, d)
  PROVE  \E c \in CompleteCall : Began(r, c) /\ c.op = "complete"
  <1> DEFINE c == [op |-> "complete", order |-> o, dozens |-> d]
  <1>1. c \in CompleteCall /\ c.op = "complete"
    BY QualityConstants DEF CompleteCall
  <1>2. Begin(r, c)
    BY DEF LastStageCheck
  <1> HIDE DEF c
  <1> QED BY <1>1, <1>2, BeganWith, CallKinds

LEMMA UpsertReads ==
  ASSUME TypeOK, NEW r \in Requests, UpsertRead(r)
  PROVE  /\ call' \in [Requests -> Call \union {None}]
         /\ \A q \in Requests : q # r => call'[q] = call[q]
         /\ call'[r] # None /\ call'[r].op = "record" /\ call'[r].next = "write"
         /\ call'[r].box \in Boxes /\ call'[r].seen = box[call'[r].box]
         /\ call'[r].box = call[r].box /\ call'[r].dozens = call[r].dozens
  <1> DEFINE x == [call[r] EXCEPT !.next = "write", !.seen = box[call[r].box]]
  <1>1. At(r, "record") /\ call' = [call EXCEPT ![r] = x]
    BY DEF UpsertRead, AtStep
  <1>2. call[r] \in RecordCall /\ call[r].box \in Boxes /\ box[call[r].box] \in BoxRow
    BY <1>1, RecordOf DEF TypeOK
  <1>3. /\ x \in RecordCall /\ x.next = "write" /\ x.op = "record" /\ x.box \in Boxes /\ x.seen = box[x.box]
        /\ x.box = call[r].box /\ x.dozens = call[r].dozens
    BY <1>2 DEF RecordCall
  <1> HIDE DEF x
  <1> QED BY <1>1, <1>3, CallSet, CallKinds, NoneIsNoRow

LEMMA AssemblyReads ==
  ASSUME TypeOK, NEW r \in Requests, AssemblyRead(r)
  PROVE  /\ call' \in [Requests -> Call \union {None}]
         /\ \A q \in Requests : q # r => call'[q] = call[q]
         /\ call'[r] # None =>
              /\ call'[r].op = "assemble" /\ call'[r].next = "lock"
              /\ call'[r].order = call[r].order /\ call'[r].lines = call[r].lines
              /\ call'[r].seen = box
              /\ \A i \in DOMAIN call[r].lines : Covers(call[r].order, call[r].lines[i])
  <1>1. At(r, "assemble")
    BY DEF AssemblyRead, AtStep
  <1>2. CASE \A i \in DOMAIN call[r].lines : Covers(call[r].order, call[r].lines[i])
    <2> DEFINE x == [call[r] EXCEPT !.next = "lock", !.seen = box]
    <2>1. call' = [call EXCEPT ![r] = x]
      BY <1>2 DEF AssemblyRead
    <2>2. call[r] \in AssembleCall /\ box \in [Boxes -> BoxRow]
      BY <1>1, AssembleOf DEF TypeOK
    <2>3. /\ x \in AssembleCall /\ x.op = "assemble" /\ x.next = "lock" /\ x.order = call[r].order
          /\ x.lines = call[r].lines /\ x.seen = box
      BY <2>2 DEF AssembleCall
    <2> HIDE DEF x
    <2> QED BY <1>2, <2>1, <2>3, CallSet, CallKinds
  <1>3. CASE ~ \A i \in DOMAIN call[r].lines : Covers(call[r].order, call[r].lines[i])
    BY <1>3, Finished DEF AssemblyRead
  <1> QED BY <1>2, <1>3

LEMMA AssemblyLocks ==
  ASSUME TypeOK, NEW r \in Requests, AssemblyLock(r), PackCallSound(r)
  PROVE  /\ call' \in [Requests -> Call \union {None}]
         /\ \A q \in Requests : q # r => call'[q] = call[q]
         /\ call'[r] # None =>
              /\ call'[r].op = "assemble" /\ call'[r].order = call[r].order
              /\ \/ call'[r].next = "read"
                 \/ /\ call'[r].next = "commit" /\ call'[r].lines = call[r].lines
                    /\ \A b \in BoxesOf(call[r].lines) : ~ Locked(b) /\ VersionMatches(b, call[r].seen[b])
                    /\ NamedOnce(call[r].lines)
  <1>1. At(r, "assemble")
    BY DEF AssemblyLock, AtStep
  <1> DEFINE Wins == /\ \A b \in BoxesOf(call[r].lines) : VersionMatches(b, call[r].seen[b])
                     /\ NamedOnce(call[r].lines)
  <1>2. CASE Wins
    <2> DEFINE x == [call[r] EXCEPT !.next = "commit", !.sequence = packing[call[r].order].sequence + 1]
    <2>1. call' = [call EXCEPT ![r] = x]
      BY <1>2 DEF AssemblyLock
    <2>2. call[r] \in AssembleCall /\ call[r].order \in Orders /\ packing[call[r].order] # None
      BY <1>1, AssembleOf DEF PackCallSound, PackCall, At
    <2>3. packing[call[r].order].sequence + 1 \in Nat
      BY <2>2 DEF TypeOK, PackingOrder
    <2>4. /\ x \in AssembleCall /\ x.op = "assemble" /\ x.next = "commit" /\ x.order = call[r].order
          /\ x.lines = call[r].lines
      BY <2>2, <2>3 DEF AssembleCall
    <2> HIDE DEF x
    <2> QED BY <1>2, <2>1, <2>4, CallSet, CallKinds DEF AssemblyLock
  <1>3. CASE ~ Wins
    <2>1. TryAgain(r)
      BY <1>3 DEF AssemblyLock
    <2> QED BY <1>1, <2>1, TriedAgain DEF At
  <1> QED BY <1>2, <1>3

-----------------------------------------------------------------------------
(* What each action does to the boxes.                                     *)

BoxKept(b) ==
  box'[b] = box[b] /\ recorded'[b] = recorded[b] /\ packed'[b] = packed[b]

BoxFilled(b) ==
  \E d \in Nat : /\ box'[b].dozens = box[b].dozens + d
                 /\ box'[b].version = box[b].version + 1
                 /\ recorded'[b] = recorded[b] + d
                 /\ packed'[b] = packed[b]

BoxDrawn(b) ==
  \E n \in Nat : /\ 12 * box'[b].dozens \in 12 * box[b].dozens - 1000 * n - 6 .. 12 * box[b].dozens - 1000 * n + 6
                 /\ box'[b].version = box[b].version + 1
                 /\ recorded'[b] = recorded[b]
                 /\ packed'[b].pieces = packed[b].pieces + n
                 /\ packed'[b].lines = packed[b].lines + 1

BoxTypes ==
  /\ box \in [Boxes -> BoxRow]
  /\ recorded \in [Boxes -> Nat]
  /\ packed \in [Boxes -> [pieces : Nat, lines : Nat]]

LEMMA RowOf ==
  ASSUME TypeOK, NEW b \in Boxes
  PROVE  /\ box[b] \in BoxRow /\ box[b].dozens \in Nat /\ box[b].version \in Nat
         /\ recorded[b] \in Nat
         /\ packed[b].pieces \in Nat /\ packed[b].lines \in Nat
  BY DEF TypeOK, BoxRow

\* A successful upsert adds the recorded dozens to the row as it is.
LEMMA UpsertFills ==
  ASSUME TypeOK, NEW r \in Requests, RecordSound(r), UpsertWrite(r)
  PROVE  /\ BoxTypes'
         /\ \A b \in Boxes : BoxKept(b) \/ (BoxFilled(b) /\ ~ Locked(b))
  <1>1. At(r, "record") /\ AtStep(r, "record", "write")
    BY DEF UpsertWrite, AtStep
  <1> DEFINE c == call[r]
             row == [dozens |-> c.seen.dozens + c.dozens, version |-> c.seen.version + 1]
  <1>2. c.box \in Boxes /\ c.dozens \in Nat /\ c.seen \in BoxRow
    BY <1>1, RecordOf
  <1>3. BoxTypes
    BY DEF TypeOK, BoxTypes
  <1>4. CASE VersionMatches(c.box, c.seen)
    <2>1. /\ box' = [box EXCEPT ![c.box] = row]
          /\ recorded' = [recorded EXCEPT ![c.box] = @ + c.dozens]
          /\ packed' = packed
          /\ ~ Locked(c.box)
      BY <1>4 DEF UpsertWrite, packVars
    <2>2. c.seen = box[c.box]
      BY <1>1, <1>4 DEF RecordSound, ReadSound, VersionMatches
    <2>3. row \in BoxRow /\ row.dozens = box[c.box].dozens + c.dozens /\ row.version = box[c.box].version + 1
      BY <1>2, <2>2 DEF BoxRow
    <2>4. \A b \in Boxes : b # c.box => BoxKept(b)
      BY <2>1, <1>3 DEF BoxKept, BoxTypes
    <2>5. BoxFilled(c.box)
      <3>1. box'[c.box] = row /\ recorded'[c.box] = recorded[c.box] + c.dozens /\ packed'[c.box] = packed[c.box]
        BY <2>1, <1>2, <1>3 DEF BoxTypes
      <3> HIDE DEF c, row
      <3> QED BY <3>1, <2>3, <1>2 DEF BoxFilled
    <2>6. BoxTypes'
      <3>1. recorded[c.box] + c.dozens \in Nat
        BY <1>2, <1>3 DEF BoxTypes
      <3> HIDE DEF c, row
      <3> QED BY <2>1, <2>3, <1>3, <3>1 DEF BoxTypes
    <2> QED BY <2>1, <2>4, <2>5, <2>6
  <1>5. CASE ~ VersionMatches(c.box, c.seen)
    <2>1. UNCHANGED <<box, recorded, packed>>
      BY <1>5 DEF UpsertWrite, boxVars, packVars
    <2> QED BY <2>1, <1>3 DEF BoxTypes, BoxKept
  <1> QED BY <1>4, <1>5

\* A commit takes the pieces of its lines out of the boxes it has locked.
LEMMA CommitDraws ==
  ASSUME TypeOK, NEW r \in Requests, AssemblySound(r), AssemblyCommit(r)
  PROVE  /\ BoxTypes'
         /\ \A b \in Boxes : BoxKept(b) \/ (BoxDrawn(b) /\ b \in BoxesOf(call[r].lines))
  <1>1. At(r, "assemble") /\ Committing(r)
    BY DEF AssemblyCommit, AtStep, Committing
  <1> DEFINE c == call[r]
             n(b) == PiecesOf(c.lines, b)
             m(b) == 12 * box[b].dozens - 1000 * n(b)
  <1>2. c.lines \in Assemblies
    BY <1>1, AssembleOf
  <1>3. BoxTypes
    BY DEF TypeOK, BoxTypes
  <1>4. recorded' = recorded
    BY DEF AssemblyCommit
  <1>5. CASE c.sequence = packing[c.order].sequence + 1
    <2>1. \A b \in Boxes :
            /\ box'[b] = IF b \in BoxesOf(c.lines)
                           THEN [dozens |-> Rounded(m(b)), version |-> box[b].version + 1] ELSE box[b]
            /\ packed'[b] = IF b \in BoxesOf(c.lines)
                              THEN [pieces |-> packed[b].pieces + n(b), lines |-> packed[b].lines + 1]
                              ELSE packed[b]
      BY <1>5 DEF AssemblyCommit
    <2>2. DOMAIN box' = Boxes /\ box' = [b \in Boxes |-> box'[b]] /\ packed' = [b \in Boxes |-> packed'[b]]
      BY <1>5 DEF AssemblyCommit
    <2>3. \A b \in BoxesOf(c.lines) :
            b \in Boxes /\ n(b) \in Nat /\ Rounded(m(b)) \in Nat /\ 12 * Rounded(m(b)) \in m(b) - 6 .. m(b) + 6
      <3> TAKE b \in BoxesOf(c.lines)
      <3>1. PICK i \in DOMAIN c.lines : c.lines[i].box = b /\ n(b) = c.lines[i].pieces
        BY <1>2, PiecesOfLine
      <3>2. b \in Boxes /\ n(b) \in Nat
        BY <1>2, <3>1, LineOf
      <3>3. 1000 * n(b) <= 12 * box[b].dozens
        BY <1>1, <3>1 DEF AssemblySound, Committing, Fits
      <3>4. box[b].dozens \in Nat
        BY <3>2, RowOf
      <3>5. m(b) \in Int /\ m(b) >= 0
        <4> HIDE DEF n
        <4> QED BY <3>2, <3>3, <3>4
      <3> HIDE DEF m, n
      <3> QED BY <3>2, <3>5, RoundedType
    <2>4. ASSUME NEW b \in Boxes
          PROVE  /\ box'[b] \in BoxRow /\ packed'[b] \in [pieces : Nat, lines : Nat]
                 /\ BoxKept(b) \/ (BoxDrawn(b) /\ b \in BoxesOf(c.lines))
      <3>1. /\ box[b] \in BoxRow /\ box[b].version \in Nat /\ box[b].dozens \in Nat
            /\ packed[b] \in [pieces : Nat, lines : Nat] /\ packed[b].pieces \in Nat /\ packed[b].lines \in Nat
        BY RowOf DEF TypeOK
      <3>2. CASE b \in BoxesOf(c.lines)
        <4>1. /\ box'[b] = [dozens |-> Rounded(m(b)), version |-> box[b].version + 1]
              /\ packed'[b] = [pieces |-> packed[b].pieces + n(b), lines |-> packed[b].lines + 1]
          BY <2>1, <3>2
        <4>2. n(b) \in Nat /\ Rounded(m(b)) \in Nat /\ 12 * Rounded(m(b)) \in m(b) - 6 .. m(b) + 6
          BY <2>3, <3>2
        <4>3. /\ box'[b].dozens = Rounded(m(b)) /\ box'[b].version = box[b].version + 1
              /\ packed'[b].pieces = packed[b].pieces + n(b) /\ packed'[b].lines = packed[b].lines + 1
          BY <4>1
        <4>4. box'[b] \in BoxRow /\ packed'[b] \in [pieces : Nat, lines : Nat]
          <5> HIDE DEF m, n
          <5> QED BY <3>1, <4>1, <4>2 DEF BoxRow
        <4>5. 12 * box'[b].dozens \in m(b) - 6 .. m(b) + 6
          BY <4>2, <4>3
        <4>6. BoxDrawn(b)
          <5> HIDE DEF n
          <5> QED BY <4>2, <4>3, <4>5, <1>4 DEF BoxDrawn
        <4> QED BY <3>2, <4>4, <4>6
      <3>3. CASE b \notin BoxesOf(c.lines)
        BY <2>1, <1>4, <3>1, <3>3 DEF BoxKept
      <3> QED BY <3>2, <3>3
    <2> HIDE DEF c
    <2> QED BY <2>2, <2>4, <1>3, <1>4 DEF BoxTypes, c
  <1>6. CASE c.sequence # packing[c.order].sequence + 1
    <2>1. UNCHANGED <<box, recorded, packed>>
      BY <1>6 DEF AssemblyCommit
    <2> QED BY <2>1, <1>3 DEF BoxTypes, BoxKept
  <1> QED BY <1>5, <1>6

LEMMA BoxesKept ==
  ASSUME TypeOK, UNCHANGED <<box, recorded, packed>>
  PROVE  BoxTypes' /\ \A b \in Boxes : BoxKept(b)
  BY DEF TypeOK, BoxTypes, BoxKept

\* Nobody else writes to the boxes that a transaction has locked.
LEMMA BoxStep ==
  ASSUME TypeOK, BoxesRead, LocksExclusive, [Next]_vars
  PROVE  /\ BoxTypes'
         /\ \A b \in Boxes :
              \/ BoxKept(b)
              \/ BoxFilled(b) /\ ~ Locked(b)
              \/ BoxDrawn(b) /\ \E r \in Requests : /\ Committing(r) /\ b \in BoxesOf(call[r].lines)
                                                    /\ call'[r] = None
  <1> USE BoxesKept
  <1>1. CASE UNCHANGED vars
    BY <1>1 DEF vars, boxVars, packVars
  <1>2. ASSUME NEW o \in Orders, OrderStep(o) PROVE UNCHANGED <<box, recorded, packed>>
    BY <1>2 DEF OrderStep, CompleteOrder, CloseOrder, CreatePackingOrder, CreateFinishedGoods, boxVars, packVars
  <1>3. ASSUME NEW r \in Requests, Arrive(r) PROVE UNCHANGED <<box, recorded, packed>>
    BY <1>3 DEF Arrive, LastStageCheck, RecordCheck, AssemblyCheck, VerifyCheck, PostCheck, BeginPacking, boxVars, packVars
  <1>4. ASSUME NEW r \in Requests,
               LastStageWrite(r) \/ UpsertRead(r) \/ CreateFails(r) \/ AssemblyRead(r) \/ AssemblyLock(r)
                 \/ VerifyWrite(r) \/ PostWrite(r) \/ Fail(r)
        PROVE  UNCHANGED <<box, recorded, packed>>
    BY <1>4 DEF LastStageWrite, UpsertRead, CreateFails, AssemblyRead, AssemblyLock, VerifyWrite, PostWrite, Fail, boxVars, packVars
  <1>5. ASSUME NEW r \in Requests, UpsertWrite(r)
        PROVE  BoxTypes' /\ \A b \in Boxes : BoxKept(b) \/ (BoxFilled(b) /\ ~ Locked(b))
    BY <1>5, UpsertFills DEF BoxesRead
  <1>6. ASSUME NEW r \in Requests, AssemblyCommit(r)
        PROVE  /\ BoxTypes'
               /\ \A b \in Boxes : \/ BoxKept(b)
                                   \/ BoxDrawn(b) /\ Committing(r) /\ b \in BoxesOf(call[r].lines) /\ call'[r] = None
    BY <1>6, CommitDraws, Finished DEF BoxesRead, AssemblyCommit, Committing
  <1> QED BY <1>1, <1>2, <1>3, <1>4, <1>5, <1>6 DEF Next, Step, WaitingStep

\* BR-Q02 and BR-P02.
LEMMA BoxesAccountedStep ==
  ASSUME TypeOK, BoxesRead, LocksExclusive, BoxesAccounted, [Next]_vars
  PROVE  BoxesAccounted'
  <1> SUFFICES ASSUME NEW b \in Boxes
               PROVE  12 * recorded'[b] - 1000 * packed'[b].pieces - 12 * box'[b].dozens
                        \in -6 * packed'[b].lines .. 6 * packed'[b].lines
    BY DEF BoxesAccounted
  <1>1. /\ box[b].dozens \in Nat /\ recorded[b] \in Nat /\ packed[b].pieces \in Nat /\ packed[b].lines \in Nat
    BY RowOf
  <1>2. box'[b].dozens \in Nat /\ recorded'[b] \in Nat /\ packed'[b].pieces \in Nat /\ packed'[b].lines \in Nat
    BY BoxStep DEF BoxTypes, BoxRow
  <1>3. 12 * recorded[b] - 1000 * packed[b].pieces - 12 * box[b].dozens
          \in -6 * packed[b].lines .. 6 * packed[b].lines
    BY DEF BoxesAccounted
  <1>4. CASE BoxKept(b)
    BY <1>3, <1>4 DEF BoxKept
  <1>5. CASE BoxFilled(b)
    <2>1. PICK d \in Nat : /\ box'[b].dozens = box[b].dozens + d
                           /\ recorded'[b] = recorded[b] + d
                           /\ packed'[b] = packed[b]
      BY <1>5 DEF BoxFilled
    <2> QED BY <1>1, <1>3, <2>1
  <1>6. CASE BoxDrawn(b)
    <2>1. PICK n \in Nat :
             /\ 12 * box'[b].dozens \in 12 * box[b].dozens - 1000 * n - 6 .. 12 * box[b].dozens - 1000 * n + 6
             /\ recorded'[b] = recorded[b]
             /\ packed'[b].pieces = packed[b].pieces + n
             /\ packed'[b].lines = packed[b].lines + 1
      BY <1>6 DEF BoxDrawn
    <2> QED BY <1>1, <1>2, <1>3, <2>1
  <1> QED BY <1>4, <1>5, <1>6, BoxStep

-----------------------------------------------------------------------------
(* What each action does to the other requests, and to what was read.      *)

Acts(r) == Arrive(r) \/ Step(r) \/ WaitingStep(r) \/ CreateFails(r) \/ Fail(r)

\* A request changes no call but its own.
LEMMA CallStep ==
  ASSUME TypeOK, PackSound, NEW r \in Requests, Acts(r)
  PROVE  /\ call' \in [Requests -> Call \union {None}]
         /\ \A q \in Requests : q # r => call'[q] = call[q]
  <1>1. ASSUME NEW b \in Boxes, NEW d \in Amounts, RecordCheck(r, b, d)
        PROVE  /\ call' \in [Requests -> Call \union {None}]
               /\ \A q \in Requests : q # r => call'[q] = call[q]
    BY <1>1, RecordBegins DEF Began
  <1>2. ASSUME NEW o \in Orders, NEW lines \in Assemblies, AssemblyCheck(r, o, lines)
        PROVE  /\ call' \in [Requests -> Call \union {None}]
               /\ \A q \in Requests : q # r => call'[q] = call[q]
    BY <1>2, AssemblyBegins DEF Began
  <1>3. ASSUME NEW o \in Orders, VerifyCheck(r, o) \/ PostCheck(r, o)
        PROVE  /\ call' \in [Requests -> Call \union {None}]
               /\ \A q \in Requests : q # r => call'[q] = call[q]
    BY <1>3, WriteBegins DEF Began
  <1>4. CASE UpsertRead(r)
    BY <1>4, UpsertReads
  <1>5. CASE UpsertWrite(r) \/ CreateFails(r)
    <2>1. At(r, "record") /\ (Finish(r) \/ TryAgain(r))
      BY <1>5 DEF UpsertWrite, CreateFails, AtStep
    <2> QED BY <2>1, Finished, TriedAgain
  <1>6. CASE AssemblyRead(r)
    BY <1>6, AssemblyReads
  <1>7. CASE AssemblyLock(r)
    BY <1>7, AssemblyLocks DEF PackSound
  <1>8. CASE LastStageWrite(r) \/ AssemblyCommit(r) \/ VerifyWrite(r) \/ PostWrite(r) \/ Fail(r)
    BY <1>8, Finished DEF LastStageWrite, AssemblyCommit, VerifyWrite, PostWrite, Fail
  <1>9. ASSUME NEW o \in Orders, NEW d \in Outputs, LastStageCheck(r, o, d)
        PROVE  /\ call' \in [Requests -> Call \union {None}]
               /\ \A q \in Requests : q # r => call'[q] = call[q]
    BY <1>9, LastStageBegins DEF Began
  <1> QED BY <1>1, <1>2, <1>3, <1>4, <1>5, <1>6, <1>7, <1>8, <1>9 DEF Acts, Arrive, Step, WaitingStep

LEMMA NextActs ==
  ASSUME [Next]_vars
  PROVE  (\E r \in Requests : Acts(r)) \/ call' = call
  BY DEF Next, Acts, OrderStep, CompleteOrder, CloseOrder, CreatePackingOrder,
         CreateFinishedGoods, vars

\* Versions only grow, and a row changes with its version.
LEMMA ReadSoundKept ==
  ASSUME TypeOK, BoxesRead, LocksExclusive, [Next]_vars,
         NEW b \in Boxes, NEW seen \in BoxRow, ReadSound(b, seen)
  PROVE  ReadSound(b, seen)'
  <1>1. box[b].version \in Nat /\ seen.version \in Nat
    BY RowOf DEF BoxRow
  <1>2. box'[b] = box[b] \/ box'[b].version = box[b].version + 1
    BY BoxStep DEF BoxKept, BoxFilled, BoxDrawn
  <1> QED BY <1>1, <1>2 DEF ReadSound

\* A transaction that stays keeps the rows it has locked.
LEMMA LockedRowsKept ==
  ASSUME TypeOK, BoxesRead, LocksExclusive, [Next]_vars,
         NEW q \in Requests, Committing(q), call'[q] # None, NEW b \in BoxesOf(call[q].lines)
  PROVE  box'[b] = box[b]
  <1>1. b \in Boxes
    BY AssembleOf, BoxesOfType DEF Committing, AtStep
  <1>2. Locked(b)
    BY DEF Locked, Committing
  <1>3. ~ \E r \in Requests : Committing(r) /\ b \in BoxesOf(call[r].lines) /\ call'[r] = None
    BY DEF LocksExclusive, Disjoint
  <1> QED BY <1>1, <1>2, <1>3, BoxStep DEF BoxKept

\* What has been read of the boxes remains sound.
LEMMA BoxesReadStep ==
  ASSUME TypeOK, BoxesRead, LocksExclusive, PackSound, [Next]_vars
  PROVE  BoxesRead'
  <1> SUFFICES ASSUME NEW q \in Requests PROVE RecordSound(q)' /\ AssemblySound(q)'
    BY DEF BoxesRead
  <1>0. RecordSound(q) /\ AssemblySound(q)
    BY DEF BoxesRead
  <1>1. CASE call'[q] = call[q]
    <2>1. RecordSound(q)'
      <3>1. SUFFICES ASSUME AtStep(q, "record", "write")
                     PROVE  ReadSound(call[q].box, call[q].seen)'
        BY <1>1 DEF RecordSound, AtStep, At, ReadSound
      <3>2. call[q].box \in Boxes /\ call[q].seen \in BoxRow
        BY <3>1, RecordOf DEF AtStep
      <3>3. ReadSound(call[q].box, call[q].seen)
        BY <1>0, <3>1 DEF RecordSound
      <3>4. /\ call[q].seen.version <= box'[call[q].box].version
            /\ call[q].seen.version = box'[call[q].box].version => call[q].seen = box'[call[q].box]
        BY <3>2, <3>3, ReadSoundKept DEF ReadSound
      <3> QED BY <1>1, <3>4 DEF ReadSound
    <2>2. ASSUME AtStep(q, "assemble", "lock"), NEW i \in DOMAIN call[q].lines
          PROVE  LET line == call[q].lines[i]
                 IN  /\ call[q].seen[line.box].version <= box'[line.box].version
                     /\ call[q].seen[line.box].version = box'[line.box].version
                          => call[q].seen[line.box] = box'[line.box]
                     /\ Fits(line, call[q].seen[line.box])
      <3> DEFINE line == call[q].lines[i]
      <3>1. line.box \in Boxes
        BY <2>2, AssembleOf, LineOf DEF AtStep
      <3>2. call[q].seen[line.box] \in BoxRow
        BY <2>2, <3>1, AssembleOf DEF AtStep
      <3>3. ReadSound(line.box, call[q].seen[line.box]) /\ Fits(line, call[q].seen[line.box])
        BY <1>0, <2>2 DEF AssemblySound
      <3> HIDE DEF line
      <3>4. /\ call[q].seen[line.box].version <= box'[line.box].version
            /\ call[q].seen[line.box].version = box'[line.box].version => call[q].seen[line.box] = box'[line.box]
        BY <3>1, <3>2, <3>3, ReadSoundKept DEF ReadSound
      <3> QED BY <3>3, <3>4 DEF line
    <2>3. ASSUME AtStep(q, "assemble", "commit")
          PROVE  /\ NamedOnce(call[q].lines)
                 /\ \A i \in DOMAIN call[q].lines : Fits(call[q].lines[i], box'[call[q].lines[i].box])
      <3>1. ASSUME NEW i \in DOMAIN call[q].lines PROVE box'[call[q].lines[i].box] = box[call[q].lines[i].box]
        <4>1. call[q].lines[i].box \in BoxesOf(call[q].lines)
          BY DEF BoxesOf
        <4>2. call'[q] # None
          BY <1>1, <2>3 DEF AtStep, At
        <4> QED BY <2>3, <4>1, <4>2, LockedRowsKept DEF Committing
      <3> QED BY <1>0, <2>3, <3>1 DEF AssemblySound
    <2> QED BY <1>1, <2>1, <2>2, <2>3 DEF AssemblySound, AtStep, At, ReadSound, Fits, NamedOnce
  <1>2. CASE call'[q] # call[q]
    <2>1. Acts(q)
      BY <1>2, NextActs, CallStep
    <2> DEFINE Idle == call'[q] = None
               Reading == call'[q] # None /\ call'[q].op \in {"record", "assemble"} /\ call'[q].next = "read"
               Writing == call'[q] # None /\ call'[q].op \in {"verify", "post", "complete"}
    <2>2. Idle \/ Reading \/ Writing => RecordSound(q)' /\ AssemblySound(q)'
      BY DEF RecordSound, AssemblySound, AtStep, At
    <2>3. ASSUME NEW b \in Boxes, NEW d \in Amounts, RecordCheck(q, b, d) PROVE Reading
      BY <2>3, RecordBegins, CallKinds, NoneIsNoRow DEF Began
    <2>4. ASSUME NEW o \in Orders, NEW lines \in Assemblies, AssemblyCheck(q, o, lines) PROVE Reading
      BY <2>4, AssemblyBegins, CallKinds, NoneIsNoRow DEF Began
    <2>5. ASSUME NEW o \in Orders, VerifyCheck(q, o) \/ PostCheck(q, o) PROVE Writing
      BY <2>5, WriteBegins, CallKinds, NoneIsNoRow DEF Began
    <2>6. CASE UpsertRead(q)
      <3>1. /\ call'[q].op = "record" /\ call'[q].box \in Boxes /\ call'[q].seen = box[call'[q].box]
        BY <2>6, UpsertReads
      <3>2. box' = box
        BY <2>6 DEF UpsertRead, boxVars
      <3>3. box[call'[q].box].version \in Nat
        BY <3>1, RowOf
      <3> QED BY <3>1, <3>2, <3>3 DEF RecordSound, AssemblySound, ReadSound, AtStep, At
    <2>7. CASE UpsertWrite(q) \/ CreateFails(q)
      <3>1. At(q, "record") /\ (Finish(q) \/ TryAgain(q))
        BY <2>7 DEF UpsertWrite, CreateFails, AtStep
      <3>2. Idle \/ Reading
        BY <3>1, Finished, TriedAgain DEF At
      <3> QED BY <2>2, <3>2
    <2>8. CASE AssemblyRead(q)
      <3>1. CASE call'[q] # None
        <4>1. /\ call'[q].op = "assemble" /\ call'[q].next = "lock" /\ call'[q].lines = call[q].lines
              /\ call'[q].seen = box
              /\ \A i \in DOMAIN call[q].lines : Covers(call[q].order, call[q].lines[i])
          BY <2>8, <3>1, AssemblyReads
        <4>2. box' = box
          BY <2>8 DEF AssemblyRead, boxVars
        <4>3. \A i \in DOMAIN call[q].lines : call[q].lines[i].box \in Boxes
          BY <2>8, AssembleOf, LineOf DEF AssemblyRead, AtStep
        <4>4. \A i \in DOMAIN call[q].lines : box[call[q].lines[i].box].version \in Nat
          BY <4>3, RowOf
        <4> QED BY <4>1, <4>2, <4>4 DEF RecordSound, AssemblySound, ReadSound, AtStep, At, Covers, Fits
      <3> QED BY <2>2, <3>1
    <2>9. CASE AssemblyLock(q)
      <3>1. CASE call'[q] # None /\ call'[q].next # "read"
        <4>1. /\ call'[q].op = "assemble" /\ call'[q].next = "commit" /\ call'[q].lines = call[q].lines
              /\ \A b \in BoxesOf(call[q].lines) : VersionMatches(b, call[q].seen[b])
              /\ NamedOnce(call[q].lines)
          BY <2>9, <3>1, AssemblyLocks DEF PackSound
        <4>2. box' = box
          BY <2>9 DEF AssemblyLock, boxVars
        <4>3. ASSUME NEW i \in DOMAIN call[q].lines PROVE Fits(call[q].lines[i], box[call[q].lines[i].box])
          <5>1. call[q].lines[i].box \in BoxesOf(call[q].lines)
            BY DEF BoxesOf
          <5>2. /\ ReadSound(call[q].lines[i].box, call[q].seen[call[q].lines[i].box])
                /\ Fits(call[q].lines[i], call[q].seen[call[q].lines[i].box])
            BY <1>0, <2>9 DEF AssemblySound, AssemblyLock
          <5> QED BY <4>1, <5>1, <5>2 DEF ReadSound, VersionMatches
        <4> QED BY <4>1, <4>2, <4>3 DEF RecordSound, AssemblySound, AtStep, At
      <3>2. CASE call'[q] # None /\ call'[q].next = "read"
        <4>1. call'[q].op = "assemble"
          BY <2>9, <3>2, AssemblyLocks DEF PackSound
        <4> QED BY <2>2, <3>2, <4>1
      <3> QED BY <2>2, <3>1, <3>2
    <2>10. CASE LastStageWrite(q) \/ AssemblyCommit(q) \/ VerifyWrite(q) \/ PostWrite(q) \/ Fail(q)
      BY <2>2, <2>10, Finished DEF LastStageWrite, AssemblyCommit, VerifyWrite, PostWrite, Fail
    <2>11. ASSUME NEW o \in Orders, NEW d \in Outputs, LastStageCheck(q, o, d) PROVE Writing
      BY <2>11, LastStageBegins, CallKinds, NoneIsNoRow DEF Began
    <2> QED BY <2>1, <2>2, <2>3, <2>4, <2>5, <2>6, <2>7, <2>8, <2>9, <2>10, <2>11
            DEF Acts, Arrive, Step, WaitingStep
  <1> QED BY <1>1, <1>2

\* A transaction locks boxes only when nobody holds them.
LEMMA LocksExclusiveStep ==
  ASSUME TypeOK, BoxesRead, LocksExclusive, PackSound, [Next]_vars
  PROVE  LocksExclusive'
  <1>1. ASSUME NEW q \in Requests, Committing(q)', ~ (Committing(q) /\ call'[q] = call[q])
        PROVE  /\ call'[q].lines = call[q].lines
               /\ \A b \in BoxesOf(call[q].lines) : ~ Locked(b)
               /\ \A p \in Requests : p # q => call'[p] = call[p]
    <2>1. call'[q] # call[q] /\ call'[q] # None /\ call'[q].op = "assemble" /\ call'[q].next = "commit"
      BY <1>1 DEF Committing, AtStep, At
    <2>2. Acts(q)
      BY <2>1, NextActs, CallStep
    <2>3. ASSUME NEW b \in Boxes, NEW d \in Amounts, RecordCheck(q, b, d) PROVE FALSE
      BY <2>1, <2>3, RecordBegins DEF Began
    <2>4. ASSUME NEW o \in Orders, NEW lines \in Assemblies, AssemblyCheck(q, o, lines) PROVE FALSE
      BY <2>1, <2>4, AssemblyBegins DEF Began
    <2>5. ASSUME NEW o \in Orders, VerifyCheck(q, o) \/ PostCheck(q, o) PROVE FALSE
      BY <2>1, <2>5, WriteBegins DEF Began
    <2>6. ~ UpsertRead(q)
      BY <2>1, UpsertReads
    <2>7. ~ (UpsertWrite(q) \/ CreateFails(q))
      <3>1. UpsertWrite(q) \/ CreateFails(q) => At(q, "record") /\ (Finish(q) \/ TryAgain(q))
        BY DEF UpsertWrite, CreateFails, AtStep
      <3> QED BY <2>1, <3>1, Finished, TriedAgain
    <2>8. ~ AssemblyRead(q)
      BY <2>1, AssemblyReads
    <2>9. ~ (LastStageWrite(q) \/ AssemblyCommit(q) \/ VerifyWrite(q) \/ PostWrite(q) \/ Fail(q))
      BY <2>1, Finished DEF LastStageWrite, AssemblyCommit, VerifyWrite, PostWrite, Fail
    <2>10. ASSUME NEW o \in Orders, NEW d \in Outputs, LastStageCheck(q, o, d) PROVE FALSE
      BY <2>1, <2>10, LastStageBegins DEF Began
    <2>11. AssemblyLock(q)
      BY <2>2, <2>3, <2>4, <2>5, <2>6, <2>7, <2>8, <2>9, <2>10 DEF Acts, Arrive, Step, WaitingStep
    <2> QED BY <2>1, <2>11, AssemblyLocks DEF PackSound
  <1> SUFFICES ASSUME NEW r \in Requests, NEW q \in Requests, r # q, Committing(r)', Committing(q)'
               PROVE  BoxesOf(call'[r].lines) \intersect BoxesOf(call'[q].lines) = {}
    BY DEF LocksExclusive, Disjoint
  <1>2. CASE Committing(r) /\ call'[r] = call[r] /\ Committing(q) /\ call'[q] = call[q]
    BY <1>2 DEF LocksExclusive, Disjoint
  <1>3. CASE ~ (Committing(q) /\ call'[q] = call[q])
    <2>1. /\ call'[q].lines = call[q].lines /\ call'[r] = call[r]
          /\ \A b \in BoxesOf(call[q].lines) : ~ Locked(b)
      BY <1>1, <1>3
    <2>2. Committing(r)
      BY <2>1 DEF Committing, AtStep, At
    <2> QED BY <2>1, <2>2 DEF Locked, Committing
  <1>4. CASE ~ (Committing(r) /\ call'[r] = call[r])
    <2>1. /\ call'[r].lines = call[r].lines /\ call'[q] = call[q]
          /\ \A b \in BoxesOf(call[r].lines) : ~ Locked(b)
      BY <1>1, <1>4
    <2>2. Committing(q)
      BY <2>1 DEF Committing, AtStep, At
    <2> QED BY <2>1, <2>2 DEF Locked, Committing
  <1> QED BY <1>2, <1>3, <1>4

-----------------------------------------------------------------------------
(* What each action does to the packing orders.                            *)

PackTypes ==
  /\ packing \in [Orders -> PackingOrder \union {None}]
  /\ posted \in [Orders -> Seq(Nat)]
  /\ bags \in [Orders -> Nat]

PackKept(o) == packing'[o] = packing[o] /\ posted'[o] = posted[o]

PackCreated(o) ==
  /\ packing[o] = None /\ packing'[o] # None
  /\ packing'[o].status = "DRAFT" /\ packing'[o].verification = None
  /\ posted'[o] = posted[o]

\* n is what was assembled.
PackAssembled(o, r) ==
  /\ At(r, "assemble") /\ call[r].order = o /\ call'[r] = None
  /\ packing'[o] # None
  /\ \E n \in Nat : packing'[o].assembled = packing[o].assembled + n
  /\ packing'[o].status = IF packing[o].status = "DRAFT" THEN "IN_PROCESS" ELSE packing[o].status
  /\ packing'[o].verification = packing[o].verification
  /\ posted'[o] = posted[o]

PackVerified(o, r) ==
  /\ At(r, "verify") /\ call[r].order = o /\ call'[r] = None
  /\ packing'[o] # None
  /\ packing'[o].assembled = packing[o].assembled
  /\ packing[o].verification = None /\ packing'[o].verification = call[r].dozens
  /\ packing'[o].status = "VERIFIED"
  /\ posted'[o] = posted[o]

PackPosted(o, r) ==
  /\ At(r, "post") /\ call[r].order = o /\ call'[r] = None
  /\ packing'[o] # None
  /\ packing'[o].assembled = packing[o].assembled
  /\ packing'[o].verification = packing[o].verification
  /\ packing'[o].status = "POSTED"
  /\ posted'[o] = Append(posted[o], call[r].dozens)

\* A packing order is kept, or one request acts on it, and then on no other.
PackChange(o) ==
  \/ PackKept(o)
  \/ PackCreated(o) /\ call' = call
  \/ \E r \in Requests : PackAssembled(o, r) \/ PackVerified(o, r) \/ PackPosted(o, r)

LEMMA PackTyped ==
  ASSUME TypeOK
  PROVE  PackTypes
  BY DEF TypeOK, PackTypes

\* No packing order has the value None of a missing one.
LEMMA PackingNotNone ==
  ASSUME NEW x \in PackingOrder
  PROVE  x # None
  BY NoneIsNoRow

LEMMA CreatePacks ==
  ASSUME TypeOK, NEW o \in Orders, CreatePackingOrder(o)
  PROVE  PackTypes' /\ \A p \in Orders : PackChange(p)
  <1> DEFINE x == [status |-> "DRAFT", assembled |-> 0, sequence |-> 0, verification |-> None]
  <1>1. x \in PackingOrder /\ x.status = "DRAFT" /\ x.verification = None
    BY DEF PackingOrder
  <1>2. /\ packing[o] = None /\ packing' = [packing EXCEPT ![o] = x]
        /\ posted' = posted /\ bags' = bags /\ call' = call
    BY DEF CreatePackingOrder
  <1> HIDE DEF x
  <1>3. PackTypes'
    BY <1>1, <1>2, PackTyped DEF PackTypes
  <1>4. packing'[o] = x /\ \A p \in Orders : p # o => packing'[p] = packing[p]
    BY <1>2, PackTyped DEF PackTypes
  <1> QED BY <1>1, <1>2, <1>3, <1>4, PackingNotNone DEF PackChange, PackKept, PackCreated

LEMMA CommitPacks ==
  ASSUME TypeOK, NEW r \in Requests, PackCallSound(r), AssemblyCommit(r)
  PROVE  PackTypes' /\ \A p \in Orders : PackChange(p)
  <1> DEFINE o == call[r].order
  <1>1. At(r, "assemble") /\ posted' = posted /\ bags' = bags /\ call'[r] = None
    BY Finished DEF AssemblyCommit, AtStep
  <1>2. o \in Orders /\ call[r].lines \in Assemblies /\ packing[o] # None
    BY <1>1, AssembleOf DEF PackCallSound, PackCall, At
  <1>3. CASE call[r].sequence = packing[o].sequence + 1
    <2> DEFINE n == Rounded(1000 * PiecesOfAll(call[r].lines))
               t == IF packing[o].status = "DRAFT" THEN "IN_PROCESS" ELSE packing[o].status
               m == packing[o].assembled + n
               k == packing[o].sequence + 1
               x == [packing[o] EXCEPT !.assembled = m, !.sequence = k, !.status = t]
    <2>1. n \in Nat
      <3>1. PiecesOfAll(call[r].lines) \in Nat
        BY <1>2, PiecesOfAllType
      <3> QED BY <3>1, RoundedType
    <2>2. packing' = [packing EXCEPT ![o].assembled = m, ![o].sequence = k, ![o].status = t]
      BY <1>3, Zenon DEF AssemblyCommit, AddAssembly
    <2>3. packing[o] \in PackingOrder
      BY <1>2, PackingOf
    <2>4. m \in Nat /\ k \in Nat /\ t \in {"DRAFT", "IN_PROCESS", "VERIFIED", "POSTED"}
      <3> HIDE DEF n, o
      <3> QED BY <2>1, <2>3 DEF PackingOrder
    <2>5. m = packing[o].assembled + n /\ t = IF packing[o].status = "DRAFT" THEN "IN_PROCESS" ELSE packing[o].status
      OBVIOUS
    <2> HIDE DEF m, k, t, n, o
    <2>6. packing' = [packing EXCEPT ![o] = x]
      BY <2>2
    <2>7. /\ x \in PackingOrder /\ x.assembled = m /\ x.status = t
          /\ x.verification = packing[o].verification
      BY <2>3, <2>4 DEF PackingOrder
    <2> HIDE DEF x
    <2>8. PackTypes'
      BY <1>1, <2>6, <2>7, PackTyped DEF PackTypes
    <2>9. packing'[o] = x /\ \A p \in Orders : p # o => packing'[p] = packing[p]
      BY <1>2, <2>6, PackTyped DEF PackTypes
    <2>10. PackAssembled(o, r)
      <3>1. o = call[r].order
        BY DEF o
      <3> QED BY <1>1, <2>1, <2>5, <2>7, <2>9, <3>1, PackingNotNone DEF PackAssembled
    <2> QED BY <1>1, <2>8, <2>9, <2>10 DEF PackChange, PackKept
  <1>4. CASE call[r].sequence # packing[o].sequence + 1
    <2>1. UNCHANGED <<packing, posted, bags>>
      BY <1>1, <1>4 DEF AssemblyCommit
    <2> QED BY <2>1, PackTyped DEF PackTypes, PackChange, PackKept
  <1> QED BY <1>3, <1>4

LEMMA VerifyPacks ==
  ASSUME TypeOK, NEW r \in Requests, PackCallSound(r), VerifyWrite(r)
  PROVE  PackTypes' /\ \A p \in Orders : PackChange(p)
  <1> DEFINE o == call[r].order
  <1>1. At(r, "verify") /\ posted' = posted /\ bags' = bags /\ call'[r] = None
    BY Finished DEF VerifyWrite
  <1>2. o \in Orders /\ call[r].dozens \in Nat /\ packing[o] # None
    BY <1>1, WriteOf DEF PackCallSound, PackCall, At
  <1>3. CASE NotVerified(o)
    <2> DEFINE x == [packing[o] EXCEPT !.verification = call[r].dozens, !.status = "VERIFIED"]
    <2>1. packing' = [packing EXCEPT ![o] = x] /\ packing[o].verification = None
      BY <1>3 DEF VerifyWrite, NotVerified
    <2>2. packing[o] \in PackingOrder
      BY <1>2, PackingOf
    <2>3. /\ x \in PackingOrder /\ x.assembled = packing[o].assembled
          /\ x.status = "VERIFIED" /\ x.verification = call[r].dozens
      <3> HIDE DEF o
      <3> QED BY <1>2, <2>2 DEF PackingOrder
    <2> HIDE DEF x, o
    <2>4. PackTypes'
      BY <1>1, <2>1, <2>3, PackTyped DEF PackTypes
    <2>5. packing'[o] = x /\ \A p \in Orders : p # o => packing'[p] = packing[p]
      BY <1>2, <2>1, PackTyped DEF PackTypes
    <2>6. PackVerified(o, r)
      BY <1>1, <2>1, <2>3, <2>5, PackingNotNone DEF PackVerified, o
    <2> QED BY <1>1, <2>4, <2>5, <2>6 DEF PackChange, PackKept
  <1>4. CASE ~ NotVerified(o)
    <2>1. UNCHANGED <<packing, posted, bags>>
      BY <1>1, <1>4 DEF VerifyWrite
    <2> QED BY <2>1, PackTyped DEF PackTypes, PackChange, PackKept
  <1> QED BY <1>3, <1>4

LEMMA PostPacks ==
  ASSUME TypeOK, NEW r \in Requests, PackCallSound(r), PostWrite(r)
  PROVE  PackTypes' /\ \A p \in Orders : PackChange(p)
  <1> DEFINE o == call[r].order
             x == [packing[o] EXCEPT !.status = "POSTED"]
             s == Append(posted[o], call[r].dozens)
  <1>1. At(r, "post") /\ bags' = bags /\ call'[r] = None
    BY Finished DEF PostWrite
  <1>2. o \in Orders /\ call[r].dozens \in Nat /\ packing[o] # None
    BY <1>1, WriteOf DEF PackCallSound, PackCall, At
  <1>3. packing' = [packing EXCEPT ![o] = x] /\ posted' = [posted EXCEPT ![o] = s]
    BY DEF PostWrite
  <1>4. packing[o] \in PackingOrder
    BY <1>2, PackingOf
  <1>5. /\ x \in PackingOrder /\ x.assembled = packing[o].assembled
        /\ x.status = "POSTED" /\ x.verification = packing[o].verification
    <2> HIDE DEF o
    <2> QED BY <1>4 DEF PackingOrder
  <1>6. s \in Seq(Nat)
    BY <1>2 DEF TypeOK
  <1>7. s = Append(posted[o], call[r].dozens)
    OBVIOUS
  <1> HIDE DEF x, o, s
  <1>8. PackTypes'
    BY <1>1, <1>3, <1>5, <1>6, PackTyped DEF PackTypes
  <1>9. /\ packing'[o] = x /\ \A p \in Orders : p # o => packing'[p] = packing[p]
        /\ posted'[o] = s /\ \A p \in Orders : p # o => posted'[p] = posted[p]
    BY <1>2, <1>3, PackTyped DEF PackTypes
  <1>10. PackPosted(o, r)
    BY <1>1, <1>5, <1>7, <1>9, PackingNotNone DEF PackPosted, o
  <1> QED BY <1>1, <1>8, <1>9, <1>10 DEF PackChange, PackKept

LEMMA PacksKept ==
  ASSUME TypeOK, UNCHANGED <<packing, posted, bags>>
  PROVE  PackTypes' /\ \A p \in Orders : PackChange(p)
  BY PackTyped DEF PackTypes, PackChange, PackKept

LEMMA PackStep ==
  ASSUME TypeOK, PackSound, [Next]_vars
  PROVE  /\ PackTypes'
         /\ \A p \in Orders : PackChange(p)
         /\ \A p \in Orders : bags'[p] = bags[p] \/ (HasStatus(p, {"POSTED"}) /\ PackKept(p))
  <1> DEFINE Goal == /\ PackTypes'
                     /\ \A p \in Orders : PackChange(p)
                     /\ \A p \in Orders : bags'[p] = bags[p] \/ (HasStatus(p, {"POSTED"}) /\ PackKept(p))
  <1>1. UNCHANGED <<packing, posted, bags>> => Goal
    BY PacksKept
  <1>2. CASE UNCHANGED vars
    BY <1>1, <1>2 DEF vars, packVars
  <1>3. ASSUME NEW o \in Orders, OrderStep(o) PROVE Goal
    <2>1. CASE CompleteOrder(o) \/ CloseOrder(o)
      BY <1>1, <2>1 DEF CompleteOrder, CloseOrder, packVars
    <2>2. CASE CreatePackingOrder(o)
      BY <2>2, CreatePacks DEF CreatePackingOrder
    <2>3. CASE CreateFinishedGoods(o)
      <3>1. packing' = packing /\ posted' = posted /\ HasStatus(o, {"POSTED"}) /\ bags' = [bags EXCEPT ![o] = @ + 1]
        BY <2>3 DEF CreateFinishedGoods
      <3> QED BY <3>1, PackTyped DEF PackTypes, PackChange, PackKept
    <2> QED BY <1>3, <2>1, <2>2, <2>3 DEF OrderStep
  <1>4. ASSUME NEW r \in Requests, Arrive(r) PROVE Goal
    BY <1>1, <1>4 DEF Arrive, LastStageCheck, RecordCheck, AssemblyCheck, VerifyCheck, PostCheck, BeginPacking, packVars
  <1>5. ASSUME NEW r \in Requests,
               LastStageWrite(r) \/ UpsertRead(r) \/ UpsertWrite(r) \/ CreateFails(r) \/ AssemblyRead(r)
                 \/ AssemblyLock(r) \/ Fail(r)
        PROVE  Goal
    BY <1>1, <1>5 DEF LastStageWrite, UpsertRead, UpsertWrite, CreateFails, AssemblyRead, AssemblyLock, Fail, packVars
  <1>6. ASSUME NEW r \in Requests, AssemblyCommit(r) PROVE Goal
    BY <1>6, CommitPacks DEF PackSound, AssemblyCommit
  <1>7. ASSUME NEW r \in Requests, VerifyWrite(r) PROVE Goal
    BY <1>7, VerifyPacks DEF PackSound, VerifyWrite
  <1>8. ASSUME NEW r \in Requests, PostWrite(r) PROVE Goal
    BY <1>8, PostPacks DEF PackSound, PostWrite
  <1> QED BY <1>2, <1>3, <1>4, <1>5, <1>6, <1>7, <1>8 DEF Next, Step, WaitingStep

-----------------------------------------------------------------------------
(* What each action does to the requests to pack.                          *)

\* A request to pack o begins with what it has found the order to be.
PackBegins(q, o) ==
  /\ call[q] = None /\ PackCall(q)' /\ call'[q].order = o
  /\ packing' = packing /\ posted' = posted
  /\ calm'[o] => ~ \E p \in Requests : Packing(p, o)
  /\ packing[o] # None
  /\ At(q, "assemble")' => packing[o].status \in {"DRAFT", "IN_PROCESS"}
  /\ At(q, "verify")' => packing[o].status = "IN_PROCESS" /\ call'[q].dozens = packing[o].assembled
  /\ At(q, "post")' => /\ packing[o].status = "VERIFIED" /\ packing[o].verification # None
                       /\ call'[q].dozens = packing[o].assembled

\* It goes on with an assembly, or is over, or records an output.
CallChange(q) ==
  \/ call'[q] = call[q]
  \/ call'[q] = None
  \/ At(q, "record")' \/ At(q, "complete")'
  \/ /\ At(q, "assemble") /\ At(q, "assemble")' /\ call'[q].order = call[q].order
     /\ packing' = packing /\ posted' = posted
  \/ \E o \in Orders : PackBegins(q, o)

LEMMA CalmOnlyLost ==
  ASSUME TypeOK, [Next]_vars
  PROVE  /\ calm' \in [Orders -> BOOLEAN]
         /\ \A o \in Orders : calm'[o] => calm[o]
  <1>1. calm \in [Orders -> BOOLEAN]
    BY DEF TypeOK
  <1>2. CASE calm' = calm
    BY <1>1, <1>2
  <1>3. ASSUME NEW r \in Requests, NEW o \in Orders, NEW c, BeginPacking(r, o, c)
        PROVE  /\ calm' \in [Orders -> BOOLEAN]
               /\ \A p \in Orders : calm'[p] => calm[p]
    <2> DEFINE x == calm[o] /\ ~ \E q \in Requests : Packing(q, o)
    <2>1. calm' = [calm EXCEPT ![o] = x]
      BY <1>3 DEF BeginPacking
    <2>2. x \in BOOLEAN /\ (x => calm[o])
      OBVIOUS
    <2> HIDE DEF x
    <2> QED BY <1>1, <2>1, <2>2
  <1>4. ASSUME NEW o \in Orders, OrderStep(o) PROVE calm' = calm
    BY <1>4 DEF OrderStep, CompleteOrder, CloseOrder, CreatePackingOrder, CreateFinishedGoods
  <1>5. ASSUME NEW r \in Requests, Step(r) \/ WaitingStep(r) \/ CreateFails(r) \/ Fail(r) PROVE calm' = calm
    BY <1>5 DEF Step, WaitingStep, CreateFails, Fail, LastStageWrite, UpsertRead, UpsertWrite, AssemblyRead, AssemblyLock,
                AssemblyCommit, VerifyWrite, PostWrite
  <1>6. ASSUME NEW r \in Requests, Arrive(r)
        PROVE  calm' = calm \/ \E o \in Orders, c \in Call : BeginPacking(r, o, c)
    <2>1. ASSUME NEW b \in Boxes, NEW d \in Amounts, RecordCheck(r, b, d) PROVE calm' = calm
      BY <2>1 DEF RecordCheck
    <2>2. ASSUME NEW o \in Orders, NEW lines \in Assemblies, AssemblyCheck(r, o, lines)
          PROVE  \E c \in Call : BeginPacking(r, o, c)
      BY <2>2, AssemblyBegins, CallKinds
    <2>3. ASSUME NEW o \in Orders, VerifyCheck(r, o) \/ PostCheck(r, o)
          PROVE  \E c \in Call : BeginPacking(r, o, c)
      BY <2>3, WriteBegins, CallKinds
    <2>4. ASSUME NEW o \in Orders, NEW d \in Outputs, LastStageCheck(r, o, d) PROVE calm' = calm
      BY <2>4 DEF LastStageCheck
    <2> QED BY <1>6, <2>1, <2>2, <2>3, <2>4 DEF Arrive
  <1>7. UNCHANGED vars => calm' = calm
    BY DEF vars
  <1> QED BY <1>2, <1>3, <1>4, <1>5, <1>6, <1>7 DEF Next

LEMMA BeginningCalm ==
  ASSUME TypeOK, NEW r \in Requests, NEW o \in Orders, NEW c, BeginPacking(r, o, c)
  PROVE  /\ calm'[o] => ~ \E p \in Requests : Packing(p, o)
         /\ packing' = packing /\ posted' = posted
  <1>1. calm' = [calm EXCEPT ![o] = @ /\ ~ \E q \in Requests : Packing(q, o)]
    BY DEF BeginPacking
  <1>2. calm \in [Orders -> BOOLEAN]
    BY DEF TypeOK
  <1>3. packing' = packing /\ posted' = posted
    BY DEF BeginPacking, packVars
  <1> QED BY <1>1, <1>2, <1>3

LEMMA CallChanges ==
  ASSUME TypeOK, PackSound, [Next]_vars, NEW q \in Requests
  PROVE  CallChange(q)
  <1> SUFFICES ASSUME call'[q] # call[q] PROVE CallChange(q)
    BY DEF CallChange
  <1>1. Acts(q)
    BY NextActs, CallStep
  <1>2. ASSUME NEW b \in Boxes, NEW d \in Amounts, RecordCheck(q, b, d) PROVE CallChange(q)
    <2>1. PICK c \in RecordCall : Began(q, c) /\ c.op = "record"
      BY <1>2, RecordBegins
    <2>2. c # None
      BY CallKinds, NoneIsNoRow
    <2> QED BY <2>1, <2>2 DEF CallChange, Began, At
  <1>3. ASSUME NEW o \in Orders, NEW lines \in Assemblies, AssemblyCheck(q, o, lines) PROVE CallChange(q)
    <2>1. PICK c \in AssembleCall : Began(q, c) /\ c.op = "assemble" /\ c.order = o /\ BeginPacking(q, o, c)
      BY <1>3, AssemblyBegins
    <2>2. c # None
      BY CallKinds, NoneIsNoRow
    <2>3. HasStatus(o, {"DRAFT", "IN_PROCESS"})
      BY <1>3 DEF AssemblyCheck
    <2>4. PackBegins(q, o)
      BY <2>1, <2>2, <2>3, BeginningCalm DEF PackBegins, Began, PackCall, At, HasStatus
    <2> QED BY <2>4 DEF CallChange
  <1>4. ASSUME NEW o \in Orders, VerifyCheck(q, o) \/ PostCheck(q, o) PROVE CallChange(q)
    <2>1. PICK c \in WriteCall : /\ Began(q, c) /\ c.order = o /\ c.dozens = packing[o].assembled
                                 /\ BeginPacking(q, o, c)
                                 /\ VerifyCheck(q, o) => c.op = "verify"
                                 /\ PostCheck(q, o) => c.op = "post"
      BY <1>4, WriteBegins
    <2>2. c # None
      BY CallKinds, NoneIsNoRow
    <2>3. /\ VerifyCheck(q, o) => HasStatus(o, {"IN_PROCESS"})
          /\ PostCheck(q, o) => HasStatus(o, {"VERIFIED"}) /\ packing[o].verification # None
      BY DEF VerifyCheck, PostCheck
    <2>4. PackBegins(q, o)
      BY <1>4, <2>1, <2>2, <2>3, BeginningCalm DEF PackBegins, Began, PackCall, At, HasStatus
    <2> QED BY <2>4 DEF CallChange
  <1>5. CASE UpsertRead(q)
    BY <1>5, UpsertReads DEF CallChange, At
  <1>6. CASE UpsertWrite(q) \/ CreateFails(q)
    <2>1. At(q, "record") /\ (Finish(q) \/ TryAgain(q))
      BY <1>6 DEF UpsertWrite, CreateFails, AtStep
    <2> QED BY <2>1, Finished, TriedAgain DEF CallChange, At
  <1>7. CASE AssemblyRead(q)
    <2>1. At(q, "assemble") /\ packing' = packing /\ posted' = posted
      BY <1>7 DEF AssemblyRead, AtStep, packVars
    <2> QED BY <1>7, <2>1, AssemblyReads DEF CallChange, At
  <1>8. CASE AssemblyLock(q)
    <2>1. At(q, "assemble") /\ packing' = packing /\ posted' = posted
      BY <1>8 DEF AssemblyLock, AtStep, packVars
    <2> QED BY <1>8, <2>1, AssemblyLocks DEF CallChange, At, PackSound
  <1>9. CASE LastStageWrite(q) \/ AssemblyCommit(q) \/ VerifyWrite(q) \/ PostWrite(q) \/ Fail(q)
    BY <1>9, Finished DEF LastStageWrite, AssemblyCommit, VerifyWrite, PostWrite, Fail, CallChange
  <1>10. ASSUME NEW o \in Orders, NEW d \in Outputs, LastStageCheck(q, o, d) PROVE CallChange(q)
    <2>1. PICK c \in CompleteCall : Began(q, c) /\ c.op = "complete"
      BY <1>10, LastStageBegins
    <2>2. c # None
      BY CallKinds, NoneIsNoRow
    <2> QED BY <2>1, <2>2 DEF CallChange, Began, At
  <1> QED BY <1>1, <1>2, <1>3, <1>4, <1>5, <1>6, <1>7, <1>8, <1>9, <1>10 DEF Acts, Arrive, Step, WaitingStep

-----------------------------------------------------------------------------
(* The invariant is kept.                                                  *)

OrderTypes ==
  /\ status \in [Orders -> {"IN_PRODUCTION", "PRODUCTION_COMPLETE", "CLOSED"}]
  /\ output \in [Orders -> Nat \union {None}]
  /\ most \in [Orders -> Nat]

\* An output that is written is the greatest so far, or below it.
OutputWritten(o) ==
  \/ output'[o] = output[o] /\ most'[o] = most[o]
  \/ output'[o] \in Nat /\ output'[o] <= most'[o] /\ most[o] <= most'[o]

LEMMA LastStageWrites ==
  ASSUME TypeOK, NEW r \in Requests, LastStageWrite(r)
  PROVE  OrderTypes' /\ \A o \in Orders : OutputWritten(o)
  <1> DEFINE p == call[r].order
             d == call[r].dozens
             m == IF most[p] < d THEN d ELSE most[p]
  <1>1. /\ status' = status
        /\ output' = [output EXCEPT ![p] = d]
        /\ most' = [most EXCEPT ![p] = m]
    BY DEF LastStageWrite
  <1>2. p \in Orders /\ d \in Nat
    BY CompleteOf DEF LastStageWrite
  <1>3. OrderTypes /\ most[p] \in Nat
    BY <1>2 DEF TypeOK, OrderTypes
  <1> HIDE DEF p, d
  <1>4. m \in Nat /\ d <= m /\ most[p] <= m
    BY <1>2, <1>3
  <1> HIDE DEF m
  <1>5. OrderTypes'
    BY <1>1, <1>2, <1>3, <1>4 DEF OrderTypes
  <1>6. /\ output'[p] = d /\ most'[p] = m
        /\ \A o \in Orders : o # p => output'[o] = output[o] /\ most'[o] = most[o]
    BY <1>1, <1>2, <1>3 DEF OrderTypes
  <1> QED BY <1>2, <1>4, <1>5, <1>6 DEF OutputWritten

\* The outputs of an order are written by its last stage only.
LEMMA OrdersTyped ==
  ASSUME TypeOK, [Next]_vars
  PROVE  OrderTypes' /\ \A o \in Orders : OutputWritten(o)
  <1>1. UNCHANGED orderVars => OrderTypes' /\ \A o \in Orders : OutputWritten(o)
    BY DEF orderVars, TypeOK, OrderTypes, OutputWritten
  <1>2. CASE UNCHANGED vars
    BY <1>1, <1>2 DEF vars
  <1>3. ASSUME NEW o \in Orders, OrderStep(o) PROVE OrderTypes' /\ \A p \in Orders : OutputWritten(p)
    BY <1>3 DEF OrderStep, CompleteOrder, CloseOrder, CreatePackingOrder, CreateFinishedGoods,
                orderVars, TypeOK, OrderTypes, OutputWritten
  <1>4. ASSUME NEW r \in Requests, Acts(r), ~ LastStageWrite(r) PROVE UNCHANGED orderVars
    BY <1>4 DEF Acts, Arrive, Step, WaitingStep, LastStageCheck, RecordCheck, AssemblyCheck, VerifyCheck, PostCheck,
                BeginPacking, UpsertRead, UpsertWrite, CreateFails, AssemblyRead, AssemblyLock, AssemblyCommit,
                VerifyWrite, PostWrite, Fail
  <1> QED BY <1>1, <1>2, <1>3, <1>4, LastStageWrites DEF Next, Acts

LEMMA TypeStep ==
  ASSUME TypeOK, BoxesRead, LocksExclusive, PackSound, [Next]_vars
  PROVE  TypeOK'
  <1>1. BoxTypes' /\ PackTypes' /\ calm' \in [Orders -> BOOLEAN]
    BY BoxStep, PackStep, CalmOnlyLost
  <1>2. call' \in [Requests -> Call \union {None}]
    BY NextActs, CallStep DEF TypeOK
  <1>3. OrderTypes'
    BY OrdersTyped
  <1> QED BY <1>1, <1>2, <1>3 DEF TypeOK, BoxTypes, PackTypes, OrderTypes

LEMMA OrderSoundStep ==
  ASSUME TypeOK, PackSound, [Next]_vars, NEW o \in Orders
  PROVE  OrderSound(o)'
  <1>1. PackChange(o) /\ OrderSound(o) /\ \A r \in Requests : PackCallSound(r)
    BY PackStep DEF PackSound
  <1>2. CASE PackKept(o)
    BY <1>1, <1>2 DEF OrderSound, PackKept
  <1>3. CASE PackCreated(o)
    BY <1>3 DEF OrderSound, PackCreated
  <1>4. ASSUME NEW r \in Requests, PackAssembled(o, r) PROVE OrderSound(o)'
    <2>1. packing[o] # None
      BY <1>1, <1>4 DEF PackAssembled, PackCallSound, PackCall, At
    <2>2. PICK n \in Nat : packing'[o].assembled = packing[o].assembled + n
      BY <1>4 DEF PackAssembled
    <2>3. packing[o].assembled \in Nat /\ packing[o].verification \in Nat \union {None}
      BY <2>1, PackingOf
    <2>4. packing'[o].verification = packing[o].verification
      BY <1>4 DEF PackAssembled
    <2>5. packing[o].verification # None => packing[o].verification <= packing'[o].assembled
      BY <1>1, <2>1, <2>2, <2>3 DEF OrderSound
    <2>6. packing'[o].status \in {"VERIFIED", "POSTED"} <=> packing[o].status \in {"VERIFIED", "POSTED"}
      BY <1>4 DEF PackAssembled
    <2> QED BY <1>1, <2>1, <2>4, <2>5, <2>6 DEF OrderSound
  <1>5. ASSUME NEW r \in Requests, PackVerified(o, r) PROVE OrderSound(o)'
    <2>1. call[r].dozens \in Nat /\ call[r].dozens <= packing[o].assembled
      BY <1>1, <1>5, WriteOf DEF PackVerified, PackCallSound, PackCall, At
    <2>2. call[r].dozens # None
      BY <2>1, QualityConstants
    <2> QED BY <1>5, <2>1, <2>2 DEF PackVerified, OrderSound
  <1>6. ASSUME NEW r \in Requests, PackPosted(o, r) PROVE OrderSound(o)'
    BY <1>1, <1>6 DEF PackPosted, OrderSound, PackCallSound, PackCall, At
  <1> QED BY <1>1, <1>2, <1>3, <1>4, <1>5, <1>6 DEF PackChange

LEMMA PackCallSoundStep ==
  ASSUME TypeOK, PackSound, [Next]_vars, NEW q \in Requests
  PROVE  PackCallSound(q)'
  <1>1. \A o \in Orders : PackChange(o) /\ OrderSound(o)
    BY PackStep DEF PackSound
  <1>2. \A r \in Requests : PackCallSound(r)
    BY DEF PackSound
  <1>3. CASE call'[q] = call[q]
    <2>1. SUFFICES ASSUME PackCall(q)
                   PROVE  LET o == call[q].order
                          IN  /\ packing'[o] # None
                              /\ At(q, "verify") => call[q].dozens <= packing'[o].assembled
                              /\ At(q, "post") => /\ packing'[o].verification # None
                                                  /\ packing'[o].verification <= call[q].dozens
                                                  /\ call[q].dozens <= packing'[o].assembled
      BY <1>3 DEF PackCallSound, PackCall, At
    <2> DEFINE o == call[q].order
    <2>2. o \in Orders
      BY <2>1, PackCallOf
    <2>3. /\ packing[o] # None
          /\ At(q, "verify") => call[q].dozens <= packing[o].assembled
          /\ At(q, "post") => /\ packing[o].verification # None
                              /\ packing[o].verification <= call[q].dozens
                              /\ call[q].dozens <= packing[o].assembled
      BY <1>2, <2>1 DEF PackCallSound
    <2>4. packing[o].assembled \in Nat
      BY <2>2, <2>3, PackingOf
    <2>5. (At(q, "verify") \/ At(q, "post")) => call[q].dozens \in Nat
      BY WriteOf
    <2> HIDE DEF o
    <2>6. CASE PackKept(o)
      BY <2>3, <2>6 DEF PackKept, o
    <2>7. ASSUME NEW r \in Requests, PackAssembled(o, r)
          PROVE  /\ packing'[o] # None
                 /\ At(q, "verify") => call[q].dozens <= packing'[o].assembled
                 /\ At(q, "post") => /\ packing'[o].verification # None
                                     /\ packing'[o].verification <= call[q].dozens
                                     /\ call[q].dozens <= packing'[o].assembled
      <3>1. PICK n \in Nat : packing'[o].assembled = packing[o].assembled + n
        BY <2>7 DEF PackAssembled
      <3>2. packing'[o] # None /\ packing'[o].verification = packing[o].verification
        BY <2>7 DEF PackAssembled
      <3>3. (At(q, "verify") \/ At(q, "post")) => call[q].dozens <= packing'[o].assembled
        BY <2>3, <2>4, <2>5, <3>1
      <3> QED BY <2>3, <3>2, <3>3
    <2>8. ASSUME NEW r \in Requests, PackVerified(o, r) \/ PackPosted(o, r)
          PROVE  /\ packing'[o] # None
                 /\ At(q, "verify") => call[q].dozens <= packing'[o].assembled
                 /\ At(q, "post") => /\ packing'[o].verification # None
                                     /\ packing'[o].verification <= call[q].dozens
                                     /\ call[q].dozens <= packing'[o].assembled
      BY <2>3, <2>8 DEF PackVerified, PackPosted
    <2>9. ~ PackCreated(o)
      BY <2>3 DEF PackCreated
    <2> QED BY <1>1, <2>2, <2>6, <2>7, <2>8, <2>9 DEF PackChange, o
  <1>4. CASE call'[q] = None \/ At(q, "record")' \/ At(q, "complete")'
    BY <1>4 DEF PackCallSound, PackCall, At
  <1>5. CASE /\ At(q, "assemble") /\ At(q, "assemble")' /\ call'[q].order = call[q].order
             /\ packing' = packing
    BY <1>2, <1>5 DEF PackCallSound, PackCall, At
  <1>6. ASSUME NEW o \in Orders, PackBegins(q, o) PROVE PackCallSound(q)'
    <2>1. packing[o] # None /\ packing' = packing /\ call'[q].order = o
      BY <1>6 DEF PackBegins
    <2>2. packing[o].assembled \in Nat
      BY <2>1, PackingOf
    <2>3. At(q, "verify")' => call'[q].dozens = packing[o].assembled
      BY <1>6 DEF PackBegins
    <2>4. At(q, "post")' => /\ packing[o].verification # None
                            /\ packing[o].verification <= packing[o].assembled
                            /\ call'[q].dozens = packing[o].assembled
      BY <1>1, <1>6, <2>1 DEF PackBegins, OrderSound
    <2> QED BY <2>1, <2>2, <2>3, <2>4 DEF PackCallSound
  <1> QED BY <1>3, <1>4, <1>5, <1>6, CallChanges DEF CallChange

\* What is appended to a sequence is its last element.
LEMMA Appended ==
  ASSUME NEW s \in Seq(Nat), NEW d \in Nat
  PROVE  /\ Append(s, d) # <<>>
         /\ \A i \in DOMAIN Append(s, d) : Append(s, d)[i] = d \/ (i \in DOMAIN s /\ Append(s, d)[i] = s[i])
         /\ s = <<>> => Append(s, d) = <<d>>
  <1>1. /\ Append(s, d) \in Seq(Nat) /\ Append(s, d) # <<>> /\ Len(Append(s, d)) = Len(s) + 1
        /\ \A i \in 1 .. Len(s) : Append(s, d)[i] = s[i]
        /\ Append(s, d)[Len(s) + 1] = d
    BY AppendProperties
  <1> DEFINE t == Append(s, d)
  <1>2. DOMAIN t = 1 .. Len(s) + 1 /\ DOMAIN s = 1 .. Len(s) /\ Len(s) \in Nat
    BY <1>1, LenProperties
  <1>3. \A i \in DOMAIN t : t[i] = d \/ (i \in DOMAIN s /\ t[i] = s[i])
    <2> HIDE DEF t
    <2>1. \A i \in 1 .. Len(s) + 1 : i = Len(s) + 1 \/ i \in 1 .. Len(s)
      BY <1>2
    <2> QED BY <1>1, <1>2, <2>1 DEF t
  <1>4. s = <<>> => Append(s, d) = <<d>>
    OBVIOUS
  <1> QED BY <1>1, <1>3, <1>4

PostingFollows(o) ==
  /\ posted[o] # <<>> <=> HasStatus(o, {"POSTED"})
  /\ \A i \in DOMAIN posted[o] :
        /\ packing[o].verification # None
        /\ packing[o].verification <= posted[o][i]
        /\ posted[o][i] <= packing[o].assembled
  /\ bags[o] > 0 => HasStatus(o, {"POSTED"})

\* BR-P05.
LEMMA PostingStep ==
  ASSUME TypeOK, PackSound, PostingFollowsVerification, [Next]_vars
  PROVE  PostingFollowsVerification'
  <1> SUFFICES ASSUME NEW o \in Orders PROVE PostingFollows(o)'
    BY DEF PostingFollowsVerification, PostingFollows, HasStatus
  <1>1. /\ PackChange(o) /\ OrderSound(o) /\ PostingFollows(o)
        /\ bags'[o] = bags[o] \/ (HasStatus(o, {"POSTED"}) /\ PackKept(o))
        /\ \A r \in Requests : PackCallSound(r)
    BY PackStep DEF PackSound, PostingFollowsVerification, PostingFollows
  <1>2. CASE PackKept(o)
    BY <1>1, <1>2 DEF PackKept, PostingFollows, HasStatus
  <1>3. CASE ~ PackKept(o)
    <2>1. bags'[o] = bags[o]
      BY <1>1, <1>3
    <2>2. CASE PackCreated(o)
      BY <1>1, <2>1, <2>2 DEF PackCreated, PostingFollows, HasStatus
    <2>3. ASSUME NEW r \in Requests, PackAssembled(o, r) PROVE PostingFollows(o)'
      <3>1. packing[o] # None
        BY <1>1, <2>3 DEF PackAssembled, PackCallSound, PackCall, At
      <3>2. PICK n \in Nat : packing'[o].assembled = packing[o].assembled + n
        BY <2>3 DEF PackAssembled
      <3>3. packing[o].assembled \in Nat
        BY <3>1, PackingOf
      <3>4. /\ packing'[o] # None /\ posted'[o] = posted[o]
            /\ packing'[o].verification = packing[o].verification
            /\ packing'[o].status = "POSTED" <=> packing[o].status = "POSTED"
        BY <2>3 DEF PackAssembled
      <3>5. \A i \in DOMAIN posted[o] : posted[o][i] \in Nat
        BY DEF TypeOK
      <3>6. \A i \in DOMAIN posted[o] : posted[o][i] <= packing'[o].assembled
        BY <1>1, <3>2, <3>3, <3>5 DEF PostingFollows
      <3> QED BY <1>1, <2>1, <3>1, <3>4, <3>6 DEF PostingFollows, HasStatus
    <2>4. ASSUME NEW r \in Requests, PackVerified(o, r) PROVE PostingFollows(o)'
      <3>1. packing[o] # None /\ packing[o].status # "POSTED"
        BY <1>1, <2>4 DEF PackVerified, PackCallSound, PackCall, At, OrderSound
      <3>2. posted[o] = <<>> /\ ~ bags[o] > 0
        BY <1>1, <3>1 DEF PostingFollows, HasStatus
      <3> QED BY <2>1, <2>4, <3>2 DEF PackVerified, PostingFollows, HasStatus
    <2>5. ASSUME NEW r \in Requests, PackPosted(o, r) PROVE PostingFollows(o)'
      <3> DEFINE d == call[r].dozens
      <3>1. /\ d \in Nat /\ packing[o].verification # None
            /\ packing[o].verification <= d /\ d <= packing[o].assembled
        BY <1>1, <2>5, WriteOf DEF PackPosted, PackCallSound, PackCall, At
      <3>2. /\ packing'[o] # None /\ packing'[o].status = "POSTED"
            /\ packing'[o].verification = packing[o].verification /\ packing'[o].assembled = packing[o].assembled
            /\ posted'[o] = Append(posted[o], d)
        BY <2>5 DEF PackPosted
      <3>3. posted[o] \in Seq(Nat)
        BY DEF TypeOK
      <3> HIDE DEF d
      <3>4. /\ posted'[o] # <<>>
            /\ \A i \in DOMAIN posted'[o] :
                 posted'[o][i] = d \/ (i \in DOMAIN posted[o] /\ posted'[o][i] = posted[o][i])
        BY <3>1, <3>2, <3>3, Appended
      <3> QED BY <1>1, <2>1, <3>1, <3>2, <3>4 DEF PostingFollows, HasStatus
    <2> QED BY <1>1, <1>3, <2>2, <2>3, <2>4, <2>5 DEF PackChange
  <1> QED BY <1>2, <1>3

PackingGoesForward ==
  \A o \in Orders : packing[o] # None =>
      packing'[o] # None /\ Rank[packing[o].status] <= Rank[packing'[o].status]

LEMMA ForwardStep ==
  ASSUME TypeOK, PackSound, [Next]_vars
  PROVE  PackingGoesForward
  <1> SUFFICES ASSUME NEW o \in Orders, packing[o] # None
               PROVE  packing'[o] # None /\ Rank[packing[o].status] <= Rank[packing'[o].status]
    BY DEF PackingGoesForward
  <1>1. /\ PackChange(o) /\ OrderSound(o) /\ \A r \in Requests : PackCallSound(r)
        /\ packing[o].status \in {"DRAFT", "IN_PROCESS", "VERIFIED", "POSTED"}
    BY PackStep, PackingOf DEF PackSound
  <1>2. Rank["DRAFT"] = 1 /\ Rank["IN_PROCESS"] = 2 /\ Rank["VERIFIED"] = 3 /\ Rank["POSTED"] = 4
    BY DEF Rank
  <1>3. CASE PackKept(o)
    BY <1>1, <1>2, <1>3 DEF PackKept
  <1>4. ~ PackCreated(o)
    BY DEF PackCreated
  <1>5. ASSUME NEW r \in Requests, PackAssembled(o, r)
        PROVE  packing'[o] # None /\ Rank[packing[o].status] <= Rank[packing'[o].status]
    BY <1>1, <1>2, <1>5 DEF PackAssembled
  <1>6. ASSUME NEW r \in Requests, PackVerified(o, r)
        PROVE  packing'[o] # None /\ Rank[packing[o].status] <= Rank[packing'[o].status]
    <2>1. packing[o].status \notin {"VERIFIED", "POSTED"}
      BY <1>1, <1>6 DEF PackVerified, OrderSound
    <2> QED BY <1>1, <1>2, <1>6, <2>1 DEF PackVerified
  <1>7. ASSUME NEW r \in Requests, PackPosted(o, r)
        PROVE  packing'[o] # None /\ Rank[packing[o].status] <= Rank[packing'[o].status]
    BY <1>1, <1>2, <1>7 DEF PackPosted
  <1> QED BY <1>1, <1>3, <1>4, <1>5, <1>6, <1>7 DEF PackChange

\* Who packs o next either packed o before or begins.
LEMMA PackersOf ==
  ASSUME TypeOK, PackSound, [Next]_vars, NEW q \in Requests, NEW o \in Orders, Packing(q, o)'
  PROVE  \/ Packing(q, o) /\ call'[q] = call[q]
         \/ Packing(q, o) /\ At(q, "assemble") /\ At(q, "assemble")' /\ packing' = packing /\ posted' = posted
         \/ PackBegins(q, o)
  BY CallChanges DEF CallChange, Packing, PackBegins, At

LEMMA CalmStep ==
  ASSUME TypeOK, PackSound, PostingFollowsVerification, AllCalmSound, [Next]_vars, NEW o \in Orders
  PROVE  CalmSound(o)'
  <1> SUFFICES ASSUME calm'[o]
               PROVE  /\ \A r, q \in Requests : Packing(r, o)' /\ Packing(q, o)' => r = q
                      /\ \A r \in Requests : CalmCall(r, o)'
                      /\ CalmOrder(o)'
    BY DEF CalmSound
  <1>1. /\ calm[o] /\ PackChange(o) /\ OrderSound(o) /\ PostingFollows(o)
        /\ \A r \in Requests : PackCallSound(r)
    BY CalmOnlyLost, PackStep DEF PackSound, PostingFollowsVerification, PostingFollows
  <1>2. /\ \A r, q \in Requests : Packing(r, o) /\ Packing(q, o) => r = q
        /\ \A r \in Requests : CalmCall(r, o)
        /\ CalmOrder(o)
    BY <1>1 DEF AllCalmSound, CalmSound
  \* Of two that pack next, the one that did not begin packed before, which
  \* nobody who begins may find.
  <1>3. \A r, q \in Requests : Packing(r, o)' /\ Packing(q, o)' => r = q
    <2> SUFFICES ASSUME NEW r \in Requests, NEW q \in Requests, Packing(r, o)', Packing(q, o)', r # q
                 PROVE  FALSE
      OBVIOUS
    <2>1. ~ (Packing(r, o) /\ Packing(q, o))
      BY <1>2
    <2>2. ASSUME NEW p \in Requests, PackBegins(p, o)
          PROVE  Acts(p) /\ \A s \in Requests : s # p => ~ Packing(s, o)'
      <3>1. call'[p] # call[p]
        BY <2>2 DEF PackBegins, PackCall, At
      <3>2. Acts(p)
        BY <3>1, NextActs, CallStep
      <3>3. \A s \in Requests : s # p => call'[s] = call[s] /\ ~ Packing(s, o)
        BY <2>2, <3>2, CallStep DEF PackBegins
      <3> QED BY <3>2, <3>3 DEF Packing, At
    <2> QED BY <2>1, <2>2, PackersOf
  <1>4. CASE packing'[o] = packing[o] /\ posted'[o] = posted[o]
    <2>1. CalmOrder(o)'
      BY <1>2, <1>4 DEF CalmOrder
    <2>2. ASSUME NEW r \in Requests PROVE CalmCall(r, o)'
      <3>1. CASE ~ Packing(r, o)'
        BY <3>1 DEF CalmCall
      <3>2. CASE Packing(r, o) /\ call'[r] = call[r]
        BY <1>2, <1>4, <3>2 DEF CalmCall, At
      <3>3. CASE Packing(r, o) /\ At(r, "assemble") /\ At(r, "assemble")'
        BY <1>2, <1>4, <3>3 DEF CalmCall, At
      <3>4. CASE PackBegins(r, o)
        BY <1>4, <3>4 DEF PackBegins, CalmCall
      <3> QED BY <3>1, <3>2, <3>3, <3>4, PackersOf
    <2> QED BY <1>3, <2>1, <2>2
  <1>5. CASE PackCreated(o)
    <2>1. packing[o] = None /\ posted'[o] = <<>>
      BY <1>1, <1>5 DEF PackCreated, PostingFollows, HasStatus
    <2>2. ASSUME NEW r \in Requests PROVE ~ Packing(r, o)'
      <3>1. call' = call
        BY <1>1, <1>5, <2>1 DEF PackChange, PackKept, PackCreated, PackAssembled, PackVerified, PackPosted,
                                PackCallSound, PackCall, At
      <3>2. ~ Packing(r, o)
        BY <1>1, <2>1 DEF Packing, PackCallSound, PackCall
      <3> QED BY <3>1, <3>2 DEF Packing, At
    <2> QED BY <1>5, <2>1, <2>2 DEF PackCreated, CalmOrder, CalmCall
  <1>6. ASSUME NEW r \in Requests, PackAssembled(o, r) \/ PackVerified(o, r) \/ PackPosted(o, r),
               ~ (packing'[o] = packing[o] /\ posted'[o] = posted[o])
        PROVE  (\A q \in Requests : ~ Packing(q, o)') /\ CalmOrder(o)'
    <2>1. Packing(r, o) /\ call'[r] = None /\ CalmCall(r, o)
      BY <1>2, <1>6 DEF PackAssembled, PackVerified, PackPosted, Packing, At
    <2>2. ASSUME NEW q \in Requests PROVE ~ Packing(q, o)'
      <3>1. CASE q = r
        BY <2>1, <3>1 DEF Packing, At
      <3>2. CASE q # r
        <4>1. ~ Packing(q, o)
          BY <1>2, <2>1, <3>2
        <4>2. ~ PackBegins(q, o)
          BY <2>1 DEF PackBegins
        <4> QED BY <4>1, <4>2, PackersOf
      <3> QED BY <3>1, <3>2
    <2>3. packing[o] # None
      BY <1>1, <2>1 DEF Packing, PackCallSound, PackCall
    <2>4. CASE PackAssembled(o, r)
      <3>1. packing[o].status \in {"DRAFT", "IN_PROCESS"}
        BY <2>1, <2>4 DEF PackAssembled, CalmCall
      <3>2. packing[o].verification = None /\ posted[o] = <<>>
        BY <1>1, <2>3, <3>1 DEF OrderSound, PostingFollows, HasStatus
      <3> QED BY <2>2, <2>4, <3>2 DEF PackAssembled, CalmOrder
    <2>5. CASE PackVerified(o, r)
      <3>1. packing[o].status = "IN_PROCESS" /\ call[r].dozens = packing[o].assembled
        BY <2>1, <2>5 DEF PackVerified, CalmCall
      <3>2. posted[o] = <<>>
        BY <1>1, <2>3, <3>1 DEF PostingFollows, HasStatus
      <3> QED BY <2>2, <2>5, <3>1, <3>2 DEF PackVerified, CalmOrder
    <2>6. CASE PackPosted(o, r)
      <3>1. packing[o].status = "VERIFIED" /\ call[r].dozens = packing[o].assembled
        BY <2>1, <2>6 DEF PackPosted, CalmCall
      <3>2. posted[o] = <<>>
        BY <1>1, <2>3, <3>1 DEF PostingFollows, HasStatus
      <3>3. packing[o].verification = packing[o].assembled
        BY <1>1, <1>2, <2>3, <3>1 DEF OrderSound, CalmOrder
      <3>4. call[r].dozens \in Nat
        BY <2>6, WriteOf DEF PackPosted
      <3>5. posted'[o] = <<call[r].dozens>>
        BY <2>6, <3>2, <3>4 DEF PackPosted
      <3> QED BY <2>2, <2>6, <3>1, <3>3, <3>5 DEF PackPosted, CalmOrder
    <2> QED BY <1>6, <2>2, <2>4, <2>5, <2>6
  <1> QED BY <1>1, <1>3, <1>4, <1>5, <1>6 DEF PackChange, PackKept, CalmCall

LEMMA InitInvariant ==
  ASSUME Init
  PROVE  IInv
  <1>1. TypeOK
    BY DEF Init, TypeOK, BoxRow
  <1>2. \A r \in Requests : call[r] = None
    BY DEF Init
  <1>3. BoxesRead /\ LocksExclusive /\ PackSound
    BY <1>2 DEF Init, BoxesRead, RecordSound, AssemblySound, LocksExclusive, Committing, PackSound, OrderSound,
                PackCallSound, PackCall, AtStep, At
  <1>4. BoxesAccounted
    BY DEF Init, BoxesAccounted
  <1>5. PostingFollowsVerification
    BY DEF Init, PostingFollowsVerification, HasStatus
  <1>6. AllCalmSound
    BY <1>2 DEF Init, AllCalmSound, CalmSound, CalmCall, CalmOrder, Packing, At
  <1> QED BY <1>1, <1>3, <1>4, <1>5, <1>6 DEF IInv

LEMMA StepInvariant ==
  ASSUME IInv, [Next]_vars
  PROVE  IInv'
  <1> USE DEF IInv
  <1>1. TypeOK' /\ BoxesRead' /\ LocksExclusive' /\ BoxesAccounted'
    BY TypeStep, BoxesReadStep, LocksExclusiveStep, BoxesAccountedStep
  <1>2. PackSound'
    BY OrderSoundStep, PackCallSoundStep DEF PackSound
  <1>3. PostingFollowsVerification'
    BY PostingStep
  <1>4. AllCalmSound'
    BY CalmStep DEF AllCalmSound
  <1> QED BY <1>1, <1>2, <1>3, <1>4

-----------------------------------------------------------------------------
(* The account of the assemblies.                                          *)

\* An assembly that has passed its checks takes pieces of its own order only.
OwnLines(r) ==
  AtStep(r, "assemble", "lock") \/ AtStep(r, "assemble", "commit") =>
      \A i \in DOMAIN call[r].lines : call[r].lines[i].box[1] = call[r].order

Drift(o) == 1000 * PiecesPacked(o) - 12 * packing[o].assembled

\* Nothing is packed before there is a packing order, and then the packing
\* order knows of every piece.
OrderAccounted(o) ==
  /\ packing[o] = None => PiecesPacked(o) = 0
  /\ packing[o] # None => Drift(o) \in -6 * packing[o].sequence .. 6 * packing[o].sequence

AccountInv ==
  /\ \A r \in Requests : OwnLines(r)
  /\ \A o \in Orders : OrderAccounted(o)

LEMMA OwnLinesStep ==
  ASSUME IInv, AccountInv, [Next]_vars, NEW q \in Requests
  PROVE  OwnLines(q)'
  <1> USE DEF IInv
  <1>1. OwnLines(q)
    BY DEF AccountInv
  <1>2. CASE call'[q] = call[q]
    BY <1>1, <1>2 DEF OwnLines, AtStep, At
  <1>3. CASE call'[q] # call[q]
    <2> SUFFICES ASSUME call'[q] # None, call'[q].op = "assemble", call'[q].next \in {"lock", "commit"}
                 PROVE  \A i \in DOMAIN call'[q].lines : call'[q].lines[i].box[1] = call'[q].order
      BY DEF OwnLines, AtStep, At
    <2>1. Acts(q)
      BY <1>3, NextActs, CallStep
    <2>2. ASSUME NEW b \in Boxes, NEW d \in Amounts, RecordCheck(q, b, d) PROVE FALSE
      BY <2>2, RecordBegins DEF Began
    <2>3. ASSUME NEW o \in Orders, NEW lines \in Assemblies, AssemblyCheck(q, o, lines) PROVE FALSE
      BY <2>3, AssemblyBegins DEF Began
    <2>4. ASSUME NEW o \in Orders, VerifyCheck(q, o) \/ PostCheck(q, o) PROVE FALSE
      <3>1. \E c \in WriteCall : Began(q, c)
        BY <2>4, WriteBegins
      <3> QED BY <3>1 DEF Began, WriteCall
    <2>5. ~ UpsertRead(q)
      BY UpsertReads
    <2>6. ~ (UpsertWrite(q) \/ CreateFails(q))
      <3>1. UpsertWrite(q) \/ CreateFails(q) => At(q, "record") /\ (Finish(q) \/ TryAgain(q))
        BY DEF UpsertWrite, CreateFails, AtStep
      <3> QED BY <3>1, Finished, TriedAgain
    <2>7. ~ (LastStageWrite(q) \/ AssemblyCommit(q) \/ VerifyWrite(q) \/ PostWrite(q) \/ Fail(q))
      BY Finished DEF LastStageWrite, AssemblyCommit, VerifyWrite, PostWrite, Fail
    <2>8. CASE AssemblyRead(q)
      BY <2>8, AssemblyReads DEF Covers
    <2>9. CASE AssemblyLock(q)
      <3>1. AtStep(q, "assemble", "lock")
        BY <2>9 DEF AssemblyLock
      <3>2. call'[q].order = call[q].order /\ call'[q].lines = call[q].lines
        BY <2>9, AssemblyLocks DEF PackSound
      <3> QED BY <1>1, <3>1, <3>2 DEF OwnLines
    <2>10. ASSUME NEW o \in Orders, NEW d \in Outputs, LastStageCheck(q, o, d) PROVE FALSE
      BY <2>10, LastStageBegins DEF Began
    <2> QED BY <2>1, <2>2, <2>3, <2>4, <2>5, <2>6, <2>7, <2>8, <2>9, <2>10 DEF Acts, Arrive, Step, WaitingStep
  <1> QED BY <1>2, <1>3

\* What an order has had packed is added up.
LEMMA PiecesPackedType ==
  ASSUME TypeOK, NEW o \in Orders
  PROVE  PiecesPacked(o) \in Nat
  <1> DEFINE f == [v \in Variants |-> packed[<<o, v>>].pieces]
  <1>1. \A v \in Variants : f[v] \in Nat
    BY RowOf DEF Boxes
  <1>2. PiecesPacked(o) = SumFunctionOnSet(f, Variants)
    BY DEF PiecesPacked
  <1> HIDE DEF f
  <1> QED BY <1>1, <1>2, QualityConstants, SumNat

\* A packing order keeps its account, or opens an empty one.
AccountKept(o) ==
  /\ PiecesPacked(o)' = PiecesPacked(o)
  /\ \/ packing'[o] = packing[o]
     \/ /\ packing[o] = None /\ packing'[o] # None
        /\ packing'[o].assembled = 0 /\ packing'[o].sequence = 0
     \/ /\ packing[o] # None /\ packing'[o] # None
        /\ packing'[o].assembled = packing[o].assembled /\ packing'[o].sequence = packing[o].sequence

\* An assembly of n pieces enters both sides of it.
AccountGrows(o) ==
  \E n \in Nat : /\ PiecesPacked(o)' = PiecesPacked(o) + n
                 /\ packing[o] # None /\ packing'[o] # None
                 /\ packing'[o].assembled = packing[o].assembled + Rounded(1000 * n)
                 /\ packing'[o].sequence = packing[o].sequence + 1

LEMMA CommitAccounts ==
  ASSUME IInv, AccountInv, NEW r \in Requests, AssemblyCommit(r)
  PROVE  \A p \in Orders : AccountKept(p) \/ AccountGrows(p)
  <1> DEFINE lines == call[r].lines
  <1>1. AtStep(r, "assemble", "commit") /\ At(r, "assemble")
    BY DEF AssemblyCommit, AtStep
  <1>2. TypeOK /\ AssemblySound(r) /\ PackCallSound(r) /\ OwnLines(r)
    BY DEF IInv, BoxesRead, PackSound, AccountInv
  <1>3. PICK o \in Orders : o = call[r].order /\ lines \in Assemblies /\ packing[o] # None
    <2>1. call[r].order \in Orders /\ lines \in Assemblies /\ packing[call[r].order] # None
      BY <1>1, <1>2, AssembleOf DEF PackCallSound, PackCall, At
    <2> QED BY <2>1
  <1>4. NamedOnce(lines) /\ \A i \in DOMAIN lines : lines[i].box[1] = o
    BY <1>1, <1>2, <1>3 DEF AssemblySound, OwnLines
  <1>5. \A b \in BoxesOf(lines) : b[1] = o
    BY <1>4 DEF BoxesOf
  <1>6. CASE call[r].sequence = packing[o].sequence + 1
    <2> DEFINE n == PiecesOfAll(lines)
               m == packing[o].assembled + Rounded(1000 * n)
               k == packing[o].sequence + 1
               t == IF packing[o].status = "DRAFT" THEN "IN_PROCESS" ELSE packing[o].status
               x == [packing[o] EXCEPT !.assembled = m, !.sequence = k, !.status = t]
    <2>1. packing' = [packing EXCEPT ![o].assembled = m, ![o].sequence = k, ![o].status = t]
      <3>1. call[r].sequence = packing[call[r].order].sequence + 1
        BY <1>3, <1>6
      <3>2. packing' = [packing EXCEPT ![call[r].order].assembled = @ + Rounded(1000 * PiecesOfAll(call[r].lines)),
                                       ![call[r].order].sequence = @ + 1,
                                       ![call[r].order].status = IF @ = "DRAFT" THEN "IN_PROCESS" ELSE @]
        BY <3>1, Zenon DEF AssemblyCommit, AddAssembly
      <3> QED BY <1>3, <3>2
    <2>2. packing' = [packing EXCEPT ![o] = x]
      <3> HIDE DEF m, k, t, n
      <3> QED BY <2>1
    <2>3. packing[o] \in PackingOrder
      BY <1>2, <1>3, PackingOf
    <2>4. n \in Nat /\ m \in Nat /\ k \in Nat /\ t \in {"DRAFT", "IN_PROCESS", "VERIFIED", "POSTED"}
      <3>1. n \in Nat
        BY <1>3, PiecesOfAllType
      <3>2. Rounded(1000 * n) \in Nat
        <4> HIDE DEF n
        <4> QED BY <3>1, RoundedType
      <3> HIDE DEF n
      <3> QED BY <2>3, <3>1, <3>2 DEF PackingOrder
    <2>5. m = packing[o].assembled + Rounded(1000 * n) /\ k = packing[o].sequence + 1
      OBVIOUS
    <2>6. \A p \in Orders, v \in Variants :
            packed'[<<p, v>>].pieces = packed[<<p, v>>].pieces
                                         + (IF <<p, v>> \in BoxesOf(lines) THEN PiecesOf(lines, <<p, v>>) ELSE 0)
      <3> TAKE p \in Orders, v \in Variants
      <3>1. <<p, v>> \in Boxes
        BY DEF Boxes
      <3>2. packed[<<p, v>>].pieces \in Nat
        BY <1>2, <3>1, RowOf
      <3>3. packed'[<<p, v>>] = IF <<p, v>> \in BoxesOf(lines)
                                  THEN [pieces |-> packed[<<p, v>>].pieces + PiecesOf(lines, <<p, v>>),
                                        lines |-> packed[<<p, v>>].lines + 1]
                                  ELSE packed[<<p, v>>]
        BY <1>3, <1>6, <3>1 DEF AssemblyCommit
      <3> HIDE DEF lines
      <3> QED BY <3>2, <3>3
    <2> HIDE DEF m, k, t, n, x, lines
    <2>7. x.assembled = m /\ x.sequence = k /\ x \in PackingOrder
      BY <2>3, <2>4 DEF PackingOrder, x
    <2>8. packing'[o] = x /\ packing'[o] # None /\ \A p \in Orders : p # o => packing'[p] = packing[p]
      BY <1>2, <1>3, <2>2, <2>7, PackingNotNone DEF TypeOK
    <2>9. ASSUME NEW p \in Orders, p # o PROVE AccountKept(p)
      <3> DEFINE f == [v \in Variants |-> packed[<<p, v>>].pieces]
                 g == [v \in Variants |-> packed'[<<p, v>>].pieces]
      <3>1. \A v \in Variants : <<p, v>> \notin BoxesOf(lines)
        BY <1>5, <2>9
      <3>2. \A v \in Variants : f[v] = g[v]
        <4> TAKE v \in Variants
        <4>1. packed[<<p, v>>].pieces \in Nat
          BY <1>2, RowOf DEF Boxes
        <4> QED BY <2>6, <3>1, <4>1
      <3>3. PiecesPacked(p) = SumFunctionOnSet(f, Variants) /\ PiecesPacked(p)' = SumFunctionOnSet(g, Variants)
        BY DEF PiecesPacked
      <3> HIDE DEF f, g
      <3>4. PiecesPacked(p)' = PiecesPacked(p)
        BY <3>2, <3>3, QualityConstants, SumAgrees
      <3> QED BY <2>8, <2>9, <3>4 DEF AccountKept
    <2>10. AccountGrows(o)
      <3> DEFINE f == [v \in Variants |-> packed[<<o, v>>].pieces]
                 g == PiecesOfVariants(o, lines)
                 h == [v \in Variants |-> packed'[<<o, v>>].pieces]
      <3>1. g \in [Variants -> Nat] /\ n = SumFunctionOnSet(g, Variants)
        BY <1>3, <1>4, PiecesByVariant DEF n
      <3>2. ASSUME NEW v \in Variants PROVE f[v] \in Int /\ g[v] \in Int /\ h[v] = f[v] + g[v]
        <4>1. packed[<<o, v>>].pieces \in Nat
          BY <1>2, <1>3, RowOf DEF Boxes
        <4>2. g[v] = IF <<o, v>> \in BoxesOf(lines) THEN PiecesOf(lines, <<o, v>>) ELSE 0
          BY DEF PiecesOfVariants
        <4>3. g[v] \in Int
          BY <3>1
        <4> QED BY <1>3, <2>6, <4>1, <4>2, <4>3
      <3>3. PiecesPacked(o) = SumFunctionOnSet(f, Variants) /\ PiecesPacked(o)' = SumFunctionOnSet(h, Variants)
        BY DEF PiecesPacked
      <3> HIDE DEF f, g, h
      <3>4. PiecesPacked(o)' = PiecesPacked(o) + n
        BY <3>1, <3>2, <3>3, QualityConstants, SumOfSums
      <3> QED BY <1>3, <2>4, <2>5, <2>7, <2>8, <3>4 DEF AccountGrows
    <2> QED BY <2>9, <2>10
  <1>7. CASE call[r].sequence # packing[o].sequence + 1
    <2>1. UNCHANGED <<packing, packed>>
      BY <1>3, <1>7 DEF AssemblyCommit
    <2> QED BY <2>1 DEF AccountKept, PiecesPacked
  <1> QED BY <1>6, <1>7

LEMMA AccountStep ==
  ASSUME IInv, AccountInv, [Next]_vars
  PROVE  \A p \in Orders : AccountKept(p) \/ AccountGrows(p)
  <1> DEFINE Goal == \A p \in Orders : AccountKept(p) \/ AccountGrows(p)
  <1>1. UNCHANGED <<packing, packed>> => Goal
    BY DEF AccountKept, PiecesPacked
  <1>2. CASE UNCHANGED vars
    BY <1>1, <1>2 DEF vars, packVars
  <1>3. packed' = packed => \A p \in Orders : PiecesPacked(p)' = PiecesPacked(p)
    BY DEF PiecesPacked
  <1>4. packing \in [Orders -> PackingOrder \union {None}]
    BY DEF IInv, TypeOK
  <1>5. ASSUME NEW o \in Orders, OrderStep(o) PROVE Goal
    <2>1. CASE CompleteOrder(o) \/ CloseOrder(o) \/ CreateFinishedGoods(o)
      BY <1>1, <2>1 DEF CompleteOrder, CloseOrder, CreateFinishedGoods, packVars
    <2>2. CASE CreatePackingOrder(o)
      <3> DEFINE x == [status |-> "DRAFT", assembled |-> 0, sequence |-> 0, verification |-> None]
      <3>1. packing[o] = None /\ packing' = [packing EXCEPT ![o] = x] /\ packed' = packed
        BY <2>2 DEF CreatePackingOrder
      <3>2. x \in PackingOrder /\ x.assembled = 0 /\ x.sequence = 0
        BY DEF PackingOrder
      <3> HIDE DEF x
      <3>3. packing'[o] = x /\ packing'[o] # None /\ \A p \in Orders : p # o => packing'[p] = packing[p]
        BY <1>4, <3>1, <3>2, PackingNotNone
      <3> QED BY <1>3, <3>1, <3>2, <3>3 DEF AccountKept
    <2> QED BY <1>5, <2>1, <2>2 DEF OrderStep
  <1>6. ASSUME NEW r \in Requests, Arrive(r) PROVE Goal
    BY <1>1, <1>6 DEF Arrive, LastStageCheck, RecordCheck, AssemblyCheck, VerifyCheck, PostCheck, BeginPacking, packVars
  <1>7. ASSUME NEW r \in Requests,
               LastStageWrite(r) \/ UpsertRead(r) \/ UpsertWrite(r) \/ CreateFails(r) \/ AssemblyRead(r)
                 \/ AssemblyLock(r) \/ Fail(r)
        PROVE  Goal
    BY <1>1, <1>7 DEF LastStageWrite, UpsertRead, UpsertWrite, CreateFails, AssemblyRead, AssemblyLock, Fail, packVars
  <1>8. ASSUME NEW r \in Requests, AssemblyCommit(r) PROVE Goal
    BY <1>8, CommitAccounts
  <1>9. ASSUME NEW r \in Requests, VerifyWrite(r) \/ PostWrite(r) PROVE Goal
    <2> DEFINE o == call[r].order
    <2>1. o \in Orders /\ packing[o] # None /\ packed' = packed
      BY <1>9, WriteOf DEF VerifyWrite, PostWrite, IInv, PackSound, PackCallSound, PackCall, At
    <2>2. packing[o] \in PackingOrder
      BY <1>4, <2>1
    <2>3. \/ packing' = packing
          \/ \E x \in PackingOrder : /\ x.assembled = packing[o].assembled /\ x.sequence = packing[o].sequence
                                     /\ packing' = [packing EXCEPT ![o] = x]
      <3>1. CASE VerifyWrite(r) /\ NotVerified(o)
        <4> DEFINE x == [packing[o] EXCEPT !.verification = call[r].dozens, !.status = "VERIFIED"]
        <4>1. packing' = [packing EXCEPT ![o] = x]
          BY <3>1 DEF VerifyWrite
        <4>2. call[r].dozens \in Nat
          BY <3>1, WriteOf DEF VerifyWrite, IInv
        <4>3. x \in PackingOrder /\ x.assembled = packing[o].assembled /\ x.sequence = packing[o].sequence
          <5> HIDE DEF o
          <5> QED BY <2>2, <4>2 DEF PackingOrder
        <4> HIDE DEF x
        <4> QED BY <4>1, <4>3
      <3>2. CASE VerifyWrite(r) /\ ~ NotVerified(o)
        BY <3>2 DEF VerifyWrite
      <3>3. CASE PostWrite(r)
        <4> DEFINE x == [packing[o] EXCEPT !.status = "POSTED"]
        <4>1. packing' = [packing EXCEPT ![o] = x]
          BY <3>3 DEF PostWrite
        <4>2. x \in PackingOrder /\ x.assembled = packing[o].assembled /\ x.sequence = packing[o].sequence
          <5> HIDE DEF o
          <5> QED BY <2>2 DEF PackingOrder
        <4> HIDE DEF x
        <4> QED BY <4>1, <4>2
      <3> QED BY <1>9, <3>1, <3>2, <3>3
    <2> HIDE DEF o
    <2>4. CASE packing' = packing
      BY <1>1, <2>1, <2>4
    <2>5. ASSUME NEW x \in PackingOrder, x.assembled = packing[o].assembled, x.sequence = packing[o].sequence,
                 packing' = [packing EXCEPT ![o] = x]
          PROVE  Goal
      <3>1. packing'[o] = x /\ packing'[o] # None /\ \A p \in Orders : p # o => packing'[p] = packing[p]
        BY <1>4, <2>1, <2>5, PackingNotNone
      <3> QED BY <1>3, <2>1, <2>5, <3>1 DEF AccountKept
    <2> QED BY <2>3, <2>4, <2>5
  <1> QED BY <1>2, <1>5, <1>6, <1>7, <1>8, <1>9 DEF Next, Step, WaitingStep

\* Every assembly adds at most half a thousandth to the drift.
LEMMA OrderAccountedStep ==
  ASSUME IInv, AccountInv, [Next]_vars, NEW o \in Orders
  PROVE  OrderAccounted(o)'
  <1>1. OrderAccounted(o) /\ TypeOK
    BY DEF AccountInv, IInv
  <1>2. PiecesPacked(o) \in Nat
    BY <1>1, PiecesPackedType
  <1>3. packing[o] # None => packing[o].assembled \in Nat /\ packing[o].sequence \in Nat
    BY <1>1, PackingOf
  <1>4. CASE AccountKept(o)
    BY <1>1, <1>2, <1>3, <1>4 DEF AccountKept, OrderAccounted, Drift
  <1>5. ASSUME AccountGrows(o) PROVE OrderAccounted(o)'
    <2>1. PICK n \in Nat : /\ PiecesPacked(o)' = PiecesPacked(o) + n
                           /\ packing[o] # None /\ packing'[o] # None
                           /\ packing'[o].assembled = packing[o].assembled + Rounded(1000 * n)
                           /\ packing'[o].sequence = packing[o].sequence + 1
      BY <1>5 DEF AccountGrows
    <2>2. Rounded(1000 * n) \in Nat /\ 12 * Rounded(1000 * n) \in 1000 * n - 6 .. 1000 * n + 6
      BY RoundedType
    <2> DEFINE p == PiecesPacked(o)
               s == packing[o].sequence
               a == packing[o].assembled
               d == Rounded(1000 * n)
    <2>3. p \in Nat /\ s \in Nat /\ a \in Nat /\ d \in Nat /\ 12 * d \in 1000 * n - 6 .. 1000 * n + 6
      BY <1>2, <1>3, <2>1, <2>2
    <2>4. 1000 * p - 12 * a \in -6 * s .. 6 * s
      BY <1>1, <2>1 DEF OrderAccounted, Drift
    <2>5. Drift(o)' = 1000 * (p + n) - 12 * (a + d) /\ packing'[o].sequence = s + 1
      BY <2>1 DEF Drift
    <2> HIDE DEF p, s, a, d
    <2>6. 1000 * (p + n) - 12 * (a + d) \in -6 * (s + 1) .. 6 * (s + 1)
      BY <2>3, <2>4
    <2> QED BY <2>1, <2>5, <2>6 DEF OrderAccounted
  <1> QED BY <1>4, <1>5, AccountStep

LEMMA AccountInitially ==
  ASSUME Init
  PROVE  AccountInv
  <1>1. ASSUME NEW o \in Orders PROVE PiecesPacked(o) = 0
    <2> DEFINE f == [v \in Variants |-> packed[<<o, v>>].pieces]
    <2>1. \A v \in Variants : f[v] = 0
      BY DEF Init, Boxes
    <2>2. PiecesPacked(o) = SumFunctionOnSet(f, Variants)
      BY DEF PiecesPacked
    <2> HIDE DEF f
    <2> QED BY <2>1, <2>2, QualityConstants, SumOfZeros
  <1>2. \A r \in Requests : OwnLines(r)
    BY DEF Init, OwnLines, AtStep, At
  <1> QED BY <1>1, <1>2 DEF AccountInv, OrderAccounted, Init

\* The lines of an assembly and the account of every packing order hold in
\* every reachable state.
THEOREM AccountInvariant == Spec => [](IInv /\ AccountInv)
  <1>1. Init => IInv /\ AccountInv
    BY InitInvariant, AccountInitially
  <1>2. IInv /\ AccountInv /\ [Next]_vars => IInv' /\ AccountInv'
    BY StepInvariant, OwnLinesStep, OrderAccountedStep DEF AccountInv
  <1> QED BY <1>1, <1>2, PTL DEF Spec

\* add-assembly: the assembled dozens of a packing order are the pieces that
\* its assemblies have taken from the boxes, up to the rounding of each, for
\* any number of them at once.
THEOREM AssembledAccountedCorrect == Spec => []AssembledAccounted
  <1>1. AccountInv => AssembledAccounted
    BY DEF AccountInv, OrderAccounted, Drift, AssembledAccounted
  <1> QED BY <1>1, AccountInvariant, PTL

-----------------------------------------------------------------------------
(* What the recordings that have passed their check may still add.         *)

ClaimOf(c, o) == IF c # None /\ c.op = "record" /\ c.box[1] = o THEN c.dozens ELSE 0
Claims(calls, o) == [r \in Requests |-> ClaimOf(calls[r], o)]
Claimed(o) == SumFunctionOnSet(Claims(call, o), Requests)

Contents(boxes, o) == [v \in Variants |-> boxes[<<o, v>>].dozens]

\* A recording has been checked against an output that the last stage has had.
RecordFits(r) == At(r, "record") => call[r].dozens <= most[call[r].box[1]]

\* The output of a last stage is never above the greatest it has had.
OutputReached(o) == output[o] # None => output[o] <= most[o]

BoundInv ==
  /\ \A r \in Requests : RecordFits(r)
  /\ \A o \in Orders : OutputReached(o)
  /\ \A o \in Orders : TotalAvailable(o) + Claimed(o) <= Cardinality(Requests) * most[o]

\* The output of a last stage may be overwritten with a smaller one, but not
\* the greatest that it has had.
LEMMA MostStep ==
  ASSUME TypeOK, BoundInv, [Next]_vars, NEW o \in Orders
  PROVE  /\ most[o] \in Nat /\ most'[o] \in Nat /\ most[o] <= most'[o]
         /\ OutputReached(o)'
  <1>1. /\ most[o] \in Nat /\ most'[o] \in Nat /\ OutputWritten(o)
        /\ OutputReached(o)
    BY OrdersTyped DEF TypeOK, OrderTypes, BoundInv
  <1>2. CASE output'[o] = output[o] /\ most'[o] = most[o]
    BY <1>1, <1>2 DEF OutputReached
  <1>3. CASE output'[o] <= most'[o] /\ most[o] <= most'[o]
    BY <1>1, <1>3 DEF OutputReached
  <1> QED BY <1>1, <1>2, <1>3 DEF OutputWritten

LEMMA ClaimType ==
  ASSUME NEW c \in Call \union {None}, NEW o \in Orders
  PROVE  ClaimOf(c, o) \in Nat
  BY CallKinds DEF ClaimOf, RecordCall, AssembleCall, WriteCall, CompleteCall

LEMMA ClaimsType ==
  ASSUME NEW calls \in [Requests -> Call \union {None}], NEW o \in Orders
  PROVE  \A r \in Requests : Claims(calls, o)[r] \in Nat /\ Claims(calls, o)[r] = ClaimOf(calls[r], o)
  BY ClaimType DEF Claims

LEMMA ContentsType ==
  ASSUME NEW boxes \in [Boxes -> BoxRow], NEW o \in Orders
  PROVE  \A v \in Variants : Contents(boxes, o)[v] \in Nat /\ Contents(boxes, o)[v] = boxes[<<o, v>>].dozens
  BY DEF Contents, BoxRow, Boxes

\* A recording is checked: it claims its dozens of the order of its box.
ClaimMade(r, o) ==
  /\ box' = box
  /\ ClaimOf(call[r], o) = 0
  /\ most'[o] = most[o]
  /\ output[o] # None /\ TotalAvailable(o) + ClaimOf(call'[r], o) <= output[o]

\* It is written: what was claimed is now in a box.
ClaimFilled(r, o) ==
  /\ ClaimOf(call'[r], o) = 0
  /\ \E v \in Variants : /\ box'[<<o, v>>].dozens = box[<<o, v>>].dozens + ClaimOf(call[r], o)
                         /\ \A w \in Variants \ {v} : box'[<<o, w>>] = box[<<o, w>>]

\* Otherwise claims are only dropped and boxes only drawn.
ClaimDropped(r, o) ==
  /\ ClaimOf(call'[r], o) <= ClaimOf(call[r], o)
  /\ \A v \in Variants : box'[<<o, v>>].dozens <= box[<<o, v>>].dozens

Requested(o) ==
  \/ box' = box /\ call' = call
  \/ \E r \in Requests : /\ \A q \in Requests \ {r} : call'[q] = call[q]
                         /\ ClaimMade(r, o) \/ ClaimFilled(r, o) \/ ClaimDropped(r, o)

LEMMA RequestedStep ==
  ASSUME IInv, [Next]_vars, NEW o \in Orders
  PROVE  Requested(o)
  <1>1. TypeOK /\ PackSound /\ \A r \in Requests : RecordSound(r) /\ AssemblySound(r) /\ PackCallSound(r)
    BY DEF IInv, BoxesRead, PackSound
  <1>2. CASE UNCHANGED vars
    BY <1>2 DEF vars, boxVars, Requested
  <1>3. ASSUME NEW p \in Orders, OrderStep(p) PROVE Requested(o)
    BY <1>3 DEF OrderStep, CompleteOrder, CloseOrder, CreatePackingOrder, CreateFinishedGoods, boxVars, Requested
  <1>4. ASSUME NEW r \in Requests, Acts(r) PROVE Requested(o)
    <2> SUFFICES ClaimMade(r, o) \/ ClaimFilled(r, o) \/ ClaimDropped(r, o)
      BY <1>1, <1>4, CallStep DEF Requested
    <2>1. /\ \A v \in Variants : <<o, v>> \in Boxes /\ box[<<o, v>>].dozens \in Nat
          /\ call[r] \in Call \union {None}
          /\ ClaimOf(call[r], o) \in Nat
      BY <1>1, RowOf, ClaimType DEF Boxes, TypeOK
    <2>2. box' = box /\ ClaimOf(call'[r], o) \in {0, ClaimOf(call[r], o)} => ClaimDropped(r, o)
      BY <2>1 DEF ClaimDropped
    <2>3. call'[r] = None \/ call'[r].op # "record" => ClaimOf(call'[r], o) = 0
      BY DEF ClaimOf
    <2>4. ASSUME NEW b \in Boxes, NEW d \in Amounts, RecordCheck(r, b, d)
          PROVE  ClaimMade(r, o) \/ ClaimDropped(r, o)
      <3>1. PICK c \in RecordCall : Began(r, c) /\ c.op = "record" /\ c.box = b /\ c.dozens = d
        BY <1>1, <2>4, RecordBegins
      <3>2. c # None /\ call[r] = None /\ call'[r] = c
        BY <3>1, CallKinds, NoneIsNoRow DEF Began
      <3>3. ClaimOf(call[r], o) = 0
        BY <3>2 DEF ClaimOf
      <3>4. box' = box /\ most' = most
        BY <2>4 DEF RecordCheck, boxVars, orderVars
      <3>5. CASE b[1] = o
        <4>1. ClaimOf(call'[r], o) = d
          BY <3>1, <3>2, <3>5 DEF ClaimOf
        <4>2. output[o] # None /\ TotalAvailable(o) + d <= output[o]
          BY <2>4, <3>5 DEF RecordCheck, WithinStageOutput
        <4> QED BY <3>3, <3>4, <4>1, <4>2 DEF ClaimMade
      <3>6. CASE b[1] # o
        <4>1. ClaimOf(call'[r], o) = 0
          BY <3>1, <3>2, <3>6 DEF ClaimOf
        <4> QED BY <2>2, <3>4, <4>1
      <3> QED BY <3>5, <3>6
    <2>5. ASSUME NEW p \in Orders, NEW lines \in Assemblies, AssemblyCheck(r, p, lines) PROVE ClaimDropped(r, o)
      <3>1. PICK c \in AssembleCall : Began(r, c) /\ c.op = "assemble"
        BY <1>1, <2>5, AssemblyBegins
      <3>2. ClaimOf(call'[r], o) = 0
        BY <2>3, <3>1 DEF Began
      <3>3. box' = box
        BY <2>5 DEF AssemblyCheck, BeginPacking, boxVars
      <3> QED BY <2>2, <3>2, <3>3
    <2>6. ASSUME NEW p \in Orders, VerifyCheck(r, p) \/ PostCheck(r, p) PROVE ClaimDropped(r, o)
      <3>1. PICK c \in WriteCall : Began(r, c)
        BY <1>1, <2>6, WriteBegins
      <3>2. ClaimOf(call'[r], o) = 0
        BY <2>3, <3>1 DEF Began, WriteCall
      <3>3. box' = box
        BY <2>6 DEF VerifyCheck, PostCheck, BeginPacking, boxVars
      <3> QED BY <2>2, <3>2, <3>3
    <2>7. CASE UpsertRead(r)
      <3>1. /\ call'[r] # None /\ call'[r].op = "record"
            /\ call'[r].box = call[r].box /\ call'[r].dozens = call[r].dozens
            /\ At(r, "record") /\ box' = box
        BY <1>1, <2>7, UpsertReads DEF UpsertRead, AtStep, boxVars
      <3>2. ClaimOf(call'[r], o) = ClaimOf(call[r], o)
        BY <3>1 DEF ClaimOf, At
      <3> QED BY <2>2, <3>1, <3>2
    <2>8. TryAgain(r) /\ At(r, "record") /\ box' = box => ClaimDropped(r, o)
      <3> SUFFICES ASSUME TryAgain(r), At(r, "record"), box' = box PROVE ClaimDropped(r, o)
        OBVIOUS
      <3>1. call'[r] # None => /\ call'[r].op = call[r].op
                               /\ call'[r].box = call[r].box /\ call'[r].dozens = call[r].dozens
        BY <1>1, TriedAgain
      <3>2. ClaimOf(call'[r], o) \in {0, ClaimOf(call[r], o)}
        BY <3>1 DEF ClaimOf, At
      <3> QED BY <2>2, <3>2
    <2>9. CASE CreateFails(r)
      BY <2>8, <2>9 DEF CreateFails, AtStep, boxVars
    <2>10. CASE UpsertWrite(r) /\ ~ VersionMatches(call[r].box, call[r].seen)
      BY <2>8, <2>10 DEF UpsertWrite, AtStep, boxVars
    <2>11. CASE UpsertWrite(r) /\ VersionMatches(call[r].box, call[r].seen)
      <3>1. AtStep(r, "record", "write") /\ At(r, "record")
        BY <2>11 DEF UpsertWrite, AtStep
      <3>2. PICK b \in Boxes, d \in Nat : b = call[r].box /\ d = call[r].dozens
        BY <1>1, <3>1, RecordOf
      <3>3. call[r].seen = box[b] /\ call[r].seen \in BoxRow
        BY <1>1, <2>11, <3>1, <3>2, RecordOf DEF RecordSound, ReadSound, VersionMatches
      <3>4. /\ box' = [box EXCEPT ![b] = [dozens |-> box[b].dozens + d, version |-> box[b].version + 1]]
            /\ call'[r] = None
        BY <1>1, <2>11, <3>2, <3>3, Finished DEF UpsertWrite
      <3>5. /\ box'[b].dozens = box[b].dozens + d
            /\ \A a \in Boxes : a # b => box'[a] = box[a]
        BY <1>1, <3>4 DEF TypeOK
      <3>6. ClaimOf(call'[r], o) = 0
        BY <2>3, <3>4
      <3>7. CASE b[1] = o
        <4>1. ClaimOf(call[r], o) = d
          BY <3>1, <3>2, <3>7 DEF ClaimOf, At
        <4>2. PICK v \in Variants : b = <<o, v>>
          BY <3>7 DEF Boxes
        <4>3. \A w \in Variants \ {v} : box'[<<o, w>>] = box[<<o, w>>]
          BY <2>1, <3>5, <4>2
        <4> QED BY <3>5, <3>6, <4>1, <4>2, <4>3 DEF ClaimFilled
      <3>8. CASE b[1] # o
        <4>1. \A v \in Variants : box'[<<o, v>>] = box[<<o, v>>]
          BY <2>1, <3>5, <3>8
        <4> QED BY <2>1, <3>6, <4>1 DEF ClaimDropped
      <3> QED BY <3>7, <3>8
    <2>12. CASE AssemblyRead(r)
      <3>1. call'[r] = None \/ call'[r].op = "assemble"
        BY <1>1, <2>12, AssemblyReads
      <3>2. box' = box
        BY <2>12 DEF AssemblyRead, boxVars
      <3> QED BY <2>2, <2>3, <3>1, <3>2
    <2>13. CASE AssemblyLock(r)
      <3>1. call'[r] = None \/ call'[r].op = "assemble"
        BY <1>1, <2>13, AssemblyLocks
      <3>2. box' = box
        BY <2>13 DEF AssemblyLock, boxVars
      <3> QED BY <2>2, <2>3, <3>1, <3>2
    <2>14. CASE AssemblyCommit(r)
      <3>1. ClaimOf(call'[r], o) = 0
        BY <1>1, <2>3, <2>14, Finished DEF AssemblyCommit
      <3>2. ASSUME NEW v \in Variants PROVE box'[<<o, v>>].dozens <= box[<<o, v>>].dozens
        <4>1. <<o, v>> \in Boxes /\ box[<<o, v>>].dozens \in Nat
          BY <2>1
        <4>2. BoxKept(<<o, v>>) \/ BoxDrawn(<<o, v>>)
          BY <1>1, <2>14, <4>1, CommitDraws
        <4>3. box'[<<o, v>>].dozens \in Nat
          BY <1>1, <2>14, <4>1, CommitDraws DEF BoxTypes, BoxRow
        <4>4. CASE BoxKept(<<o, v>>)
          BY <4>1, <4>4 DEF BoxKept
        <4>5. CASE BoxDrawn(<<o, v>>)
          <5>1. PICK n \in Nat : 12 * box'[<<o, v>>].dozens <= 12 * box[<<o, v>>].dozens - 1000 * n + 6
            BY <4>1, <4>3, <4>5 DEF BoxDrawn
          <5> QED BY <4>1, <4>3, <5>1
        <4> QED BY <4>2, <4>4, <4>5
      <3> QED BY <2>1, <3>1, <3>2 DEF ClaimDropped
    <2>16. ASSUME NEW p \in Orders, NEW d \in Outputs, LastStageCheck(r, p, d) PROVE ClaimDropped(r, o)
      <3>1. PICK c \in CompleteCall : Began(r, c) /\ c.op = "complete"
        BY <1>1, <2>16, LastStageBegins
      <3>2. ClaimOf(call'[r], o) = 0
        BY <2>3, <3>1 DEF Began
      <3>3. box' = box
        BY <2>16 DEF LastStageCheck, boxVars
      <3> QED BY <2>2, <3>2, <3>3
    <2>15. CASE LastStageWrite(r) \/ VerifyWrite(r) \/ PostWrite(r) \/ Fail(r)
      <3>1. box' = box /\ call'[r] = None
        BY <1>1, <2>15, Finished DEF LastStageWrite, VerifyWrite, PostWrite, Fail, boxVars
      <3> QED BY <2>2, <2>3, <3>1
    <2> QED BY <1>4, <2>4, <2>5, <2>6, <2>7, <2>9, <2>10, <2>11, <2>12, <2>13, <2>14, <2>15, <2>16
            DEF Acts, Arrive, Step, WaitingStep
  <1> QED BY <1>2, <1>3, <1>4 DEF Next, Acts

\* A recording in flight fits an output that its order has had.
LEMMA RecordFitsStep ==
  ASSUME IInv, BoundInv, [Next]_vars, NEW q \in Requests
  PROVE  RecordFits(q)'
  <1>1. TypeOK /\ TypeOK' /\ RecordFits(q)
    BY StepInvariant DEF IInv, BoundInv
  <1> SUFFICES ASSUME At(q, "record")'
               PROVE  call'[q].dozens <= most'[call'[q].box[1]]
    BY DEF RecordFits
  <1>2. PICK o \in Orders, d \in Nat : o = call'[q].box[1] /\ d = call'[q].dozens
    <2>1. call'[q] \in Call /\ call'[q].op = "record"
      BY <1>1 DEF TypeOK, At
    <2>2. call'[q] \in RecordCall
      BY <2>1, CallKinds DEF AssembleCall, WriteCall, CompleteCall
    <2> QED BY <2>2 DEF RecordCall, Boxes
  <1>3. CASE At(q, "record") /\ call[q].box[1] = o /\ call[q].dozens = d
    <2>1. d <= most[o]
      BY <1>1, <1>3 DEF RecordFits
    <2> QED BY <1>1, <1>2, <2>1, MostStep
  <1>4. CASE \E b \in Boxes, e \in Amounts : RecordCheck(q, b, e)
    <2>1. PICK b \in Boxes, e \in Amounts : RecordCheck(q, b, e)
      BY <1>4
    <2>2. PICK c \in RecordCall : Began(q, c) /\ c.box = b /\ c.dozens = e
      BY <1>1, <2>1, RecordBegins
    <2>3. o = b[1] /\ d = e /\ most' = most
      BY <1>2, <2>1, <2>2 DEF Began, RecordCheck, orderVars
    <2>4. output[o] # None /\ TotalAvailable(o) + d <= output[o]
      BY <2>1, <2>3 DEF RecordCheck, WithinStageOutput
    <2>5. TotalAvailable(o) \in Nat /\ output[o] \in Nat /\ most[o] \in Nat
      <3>1. TotalAvailable(o) = SumFunctionOnSet(Contents(box, o), Variants)
        BY DEF TotalAvailable, Contents
      <3>2. \A v \in Variants : Contents(box, o)[v] \in Nat
        BY <1>1, ContentsType DEF TypeOK
      <3>3. TotalAvailable(o) \in Nat
        BY <3>1, <3>2, QualityConstants, SumNat
      <3> QED BY <1>1, <2>4, <3>3 DEF TypeOK
    <2>6. output[o] <= most[o]
      BY <2>4 DEF BoundInv, OutputReached
    <2> QED BY <1>2, <2>3, <2>4, <2>5, <2>6
  <1>5. At(q, "record") => /\ call[q].box[1] = o /\ call[q].dozens = d
                           \/ \E b \in Boxes, e \in Amounts : RecordCheck(q, b, e)
    <2> SUFFICES ASSUME At(q, "record") PROVE call[q].box = call'[q].box /\ call[q].dozens = call'[q].dozens
      BY <1>2
    <2>1. CASE call'[q] = call[q]
      BY <2>1
    <2>2. CASE call'[q] # call[q]
      <3>1. Acts(q)
        BY <1>1, <2>2, NextActs, CallStep DEF IInv
      <3>2. ~ Arrive(q)
        BY DEF Arrive, LastStageCheck, RecordCheck, AssemblyCheck, VerifyCheck, PostCheck, BeginPacking, Begin,
               MayBegin, At
      <3>3. ~ (LastStageWrite(q) \/ AssemblyRead(q) \/ AssemblyCommit(q) \/ VerifyWrite(q) \/ PostWrite(q)
                 \/ AssemblyLock(q) \/ Fail(q))
        <4>1. ~ (LastStageWrite(q) \/ AssemblyRead(q) \/ AssemblyCommit(q) \/ VerifyWrite(q) \/ PostWrite(q)
                   \/ AssemblyLock(q))
          BY DEF LastStageWrite, AssemblyRead, AssemblyCommit, VerifyWrite, PostWrite, AssemblyLock, AtStep, At
        <4>2. ~ Fail(q)
          BY <1>1, Finished DEF Fail, At
        <4> QED BY <4>1, <4>2
      <3>4. UpsertRead(q) => call[q].box = call'[q].box /\ call[q].dozens = call'[q].dozens
        BY <1>1, UpsertReads
      <3>5. UpsertWrite(q) \/ CreateFails(q) => Finish(q) \/ TryAgain(q)
        BY DEF UpsertWrite, CreateFails
      <3>6. ~ Finish(q)
        BY <1>1, Finished DEF At
      <3>7. TryAgain(q) => call[q].box = call'[q].box /\ call[q].dozens = call'[q].dozens
        BY <1>1, TriedAgain DEF At
      <3> QED BY <3>1, <3>2, <3>3, <3>4, <3>5, <3>6, <3>7 DEF Acts, Step, WaitingStep
    <2> QED BY <2>1, <2>2
  <1>6. CASE ~ At(q, "record")
    <2>1. call'[q] # call[q]
      BY <1>6 DEF At
    <2>2. Acts(q)
      BY <1>1, <2>1, NextActs, CallStep DEF IInv
    <2>3. ~ (UpsertRead(q) \/ UpsertWrite(q) \/ CreateFails(q))
      BY <1>6 DEF UpsertRead, UpsertWrite, CreateFails, AtStep
    <2>4. ASSUME NEW p \in Orders, NEW lines \in Assemblies, AssemblyCheck(q, p, lines) PROVE FALSE
      BY <1>1, <2>4, AssemblyBegins DEF Began, At
    <2>5. ASSUME NEW p \in Orders, VerifyCheck(q, p) \/ PostCheck(q, p) PROVE FALSE
      <3>1. \E c \in WriteCall : Began(q, c)
        BY <1>1, <2>5, WriteBegins
      <3> QED BY <3>1 DEF Began, WriteCall, At
    <2>6. ~ AssemblyRead(q)
      BY <1>1, AssemblyReads DEF At
    <2>7. ~ AssemblyLock(q)
      BY <1>1, AssemblyLocks DEF At, IInv, PackSound
    <2>8. ~ (LastStageWrite(q) \/ AssemblyCommit(q) \/ VerifyWrite(q) \/ PostWrite(q) \/ Fail(q))
      BY <1>1, Finished DEF LastStageWrite, AssemblyCommit, VerifyWrite, PostWrite, Fail, At
    <2>9. ASSUME NEW p \in Orders, NEW e \in Outputs, LastStageCheck(q, p, e) PROVE FALSE
      BY <1>1, <2>9, LastStageBegins DEF Began, At
    <2> QED BY <1>4, <2>2, <2>3, <2>4, <2>5, <2>6, <2>7, <2>8, <2>9 DEF Acts, Arrive, Step, WaitingStep
  <1> QED BY <1>3, <1>4, <1>5, <1>6

\* BR-Q03, as far as it goes: a check leaves the claims of the others, of
\* which there is one less, and a write turns a claim into what a box holds.
LEMMA BoundStep ==
  ASSUME IInv, BoundInv, [Next]_vars, NEW o \in Orders
  PROVE  TotalAvailable(o)' + Claimed(o)' <= Cardinality(Requests) * most'[o]
  <1>1. TypeOK /\ TypeOK' /\ IsFiniteSet(Requests) /\ IsFiniteSet(Variants)
    BY StepInvariant, QualityConstants DEF IInv
  <1> DEFINE f == Contents(box, o)
             g == Contents(box', o)
             c == Claims(call, o)
             e == Claims(call', o)
             n == Cardinality(Requests)
  <1>2. /\ TotalAvailable(o) = SumFunctionOnSet(f, Variants) /\ Claimed(o) = SumFunctionOnSet(c, Requests)
        /\ TotalAvailable(o)' = SumFunctionOnSet(g, Variants) /\ Claimed(o)' = SumFunctionOnSet(e, Requests)
    BY DEF TotalAvailable, Contents, Claimed
  <1>3. /\ \A v \in Variants : f[v] \in Nat /\ f[v] = box[<<o, v>>].dozens
        /\ \A v \in Variants : g[v] \in Nat /\ g[v] = box'[<<o, v>>].dozens
    BY <1>1, ContentsType DEF TypeOK
  <1>4. /\ \A r \in Requests : c[r] \in Nat /\ c[r] = ClaimOf(call[r], o)
        /\ \A r \in Requests : e[r] \in Nat /\ e[r] = ClaimOf(call'[r], o)
    BY <1>1, ClaimsType DEF TypeOK
  <1>5. n \in Nat /\ most[o] \in Nat /\ most'[o] \in Nat /\ most[o] <= most'[o]
    BY <1>1, MostStep, FS_CardinalityType
  <1> HIDE DEF f, g, c, e
  <1>0. \A v \in Variants : f[v] \in Int /\ g[v] \in Int /\ f[v] \in Nat /\ g[v] \in Nat
    <2> TAKE v \in Variants
    <2>1. f[v] \in Nat /\ g[v] \in Nat
      BY <1>3
    <2> QED BY <2>1
  <1>6. /\ SumFunctionOnSet(f, Variants) \in Nat /\ SumFunctionOnSet(g, Variants) \in Nat
        /\ SumFunctionOnSet(c, Requests) \in Nat /\ SumFunctionOnSet(e, Requests) \in Nat
    BY <1>1, <1>3, <1>4, SumNat
  <1>7. SumFunctionOnSet(f, Variants) + SumFunctionOnSet(c, Requests) <= n * most[o]
    BY <1>2 DEF BoundInv
  <1>8. n * most[o] <= n * most'[o] /\ n * most[o] \in Nat /\ n * most'[o] \in Nat
    BY <1>5, TimesGrows
  <1>9. ASSUME NEW r \in Requests, \A q \in Requests \ {r} : call'[q] = call[q]
        PROVE  /\ \A q \in Requests \ {r} : c[q] = e[q]
               /\ SumFunctionOnSet(e, Requests) = SumFunctionOnSet(c, Requests) - c[r] + e[r]
    <2>1. \A q \in Requests \ {r} : c[q] = e[q]
      BY <1>4, <1>9
    <2>2. \A q \in Requests : c[q] \in Int /\ e[q] \in Int
      BY <1>4
    <2> QED BY <1>1, <2>1, <2>2, SumChange
  <1>10. CASE box' = box /\ call' = call
    <2>1. g = f /\ e = c
      BY <1>10 DEF f, g, c, e
    <2> QED BY <1>2, <1>6, <1>7, <1>8, <2>1
  <1>11. ASSUME NEW r \in Requests, \A q \in Requests \ {r} : call'[q] = call[q], ClaimDropped(r, o)
         PROVE  SumFunctionOnSet(g, Variants) + SumFunctionOnSet(e, Requests) <= n * most'[o]
    <2>1. \A v \in Variants : g[v] \in Int /\ f[v] \in Int /\ g[v] <= f[v]
      <3> TAKE v \in Variants
      <3>1. g[v] <= f[v]
        BY <1>3, <1>11 DEF ClaimDropped
      <3> QED BY <1>0, <3>1
    <2>2. SumFunctionOnSet(g, Variants) <= SumFunctionOnSet(f, Variants)
      BY <1>1, <2>1, SumMonotone
    <2>3. e[r] <= c[r] /\ e[r] \in Nat /\ c[r] \in Nat
      BY <1>4, <1>11 DEF ClaimDropped
    <2>4. SumFunctionOnSet(e, Requests) = SumFunctionOnSet(c, Requests) - c[r] + e[r]
      BY <1>9, <1>11
    <2> QED BY <1>6, <1>7, <1>8, <2>2, <2>3, <2>4
  <1>12. ASSUME NEW r \in Requests, \A q \in Requests \ {r} : call'[q] = call[q], ClaimFilled(r, o)
         PROVE  SumFunctionOnSet(g, Variants) + SumFunctionOnSet(e, Requests) <= n * most'[o]
    <2>1. PICK v \in Variants : /\ box'[<<o, v>>].dozens = box[<<o, v>>].dozens + ClaimOf(call[r], o)
                                /\ \A w \in Variants \ {v} : box'[<<o, w>>] = box[<<o, w>>]
      BY <1>12 DEF ClaimFilled
    <2>2. g[v] = f[v] + c[r] /\ \A w \in Variants \ {v} : f[w] = g[w]
      BY <1>3, <1>4, <2>1
    <2>3. \A w \in Variants : f[w] \in Int /\ g[w] \in Int
      BY <1>0
    <2>4. SumFunctionOnSet(g, Variants) = SumFunctionOnSet(f, Variants) - f[v] + g[v]
      BY <1>1, <2>2, <2>3, SumChange
    <2>5. e[r] = 0 /\ c[r] \in Nat /\ f[v] \in Nat
      BY <1>3, <1>4, <1>12 DEF ClaimFilled
    <2>6. SumFunctionOnSet(e, Requests) = SumFunctionOnSet(c, Requests) - c[r] + e[r]
      BY <1>9, <1>12
    <2> QED BY <1>6, <1>7, <1>8, <2>2, <2>4, <2>5, <2>6
  <1>13. ASSUME NEW r \in Requests, \A q \in Requests \ {r} : call'[q] = call[q], ClaimMade(r, o)
         PROVE  SumFunctionOnSet(g, Variants) + SumFunctionOnSet(e, Requests) <= n * most'[o]
    <2> DEFINE rest == Requests \ {r}
               d == most[o]
    <2>1. /\ g = f /\ c[r] = 0 /\ most'[o] = d
          /\ output[o] # None /\ SumFunctionOnSet(f, Variants) + e[r] <= output[o]
      BY <1>2, <1>4, <1>13 DEF ClaimMade, f, g
    <2>2. d \in Nat /\ SumFunctionOnSet(f, Variants) + e[r] <= d
      <3>1. output[o] \in Nat /\ output[o] <= most[o]
        BY <1>1, <2>1 DEF TypeOK, BoundInv, OutputReached
      <3>2. e[r] \in Nat
        BY <1>4, <1>13
      <3> QED BY <1>5, <1>6, <2>1, <3>1, <3>2
    <2>3. ASSUME NEW q \in rest PROVE c[q] \in Int /\ c[q] <= d
      <3>1. c[q] \in Nat /\ c[q] = ClaimOf(call[q], o)
        BY <1>4
      <3>2. RecordFits(q)
        BY DEF BoundInv
      <3> QED BY <2>2, <3>1, <3>2 DEF ClaimOf, RecordFits, At
    <2>4. IsFiniteSet(rest)
      BY <1>1, FS_Difference
    <2>5. SumFunctionOnSet(c, rest) <= Cardinality(rest) * d
      <3> HIDE DEF d, rest
      <3> QED BY <2>2, <2>3, <2>4, SumBounded
    <2>6. /\ SumFunctionOnSet(c, rest) \in Int
          /\ SumFunctionOnSet(c, Requests) = c[r] + SumFunctionOnSet(c, rest)
      <3>1. \A q \in Requests : c[q] \in Int
        BY <1>4
      <3>2. IsFiniteSet(Requests)
        BY <1>1
      <3>3. r \in Requests
        BY <1>13
      <3>4. \A q \in Requests : /\ SumFunctionOnSet(c, Requests \ {q}) \in Int
                                /\ SumFunctionOnSet(c, Requests) = c[q] + SumFunctionOnSet(c, Requests \ {q})
        BY ONLY <3>1, <3>2, SumTakeOut, Z3
      <3> QED BY ONLY <3>3, <3>4
    <2>7. Cardinality(rest) \in Nat /\ n * d = Cardinality(rest) * d + d
      BY <1>1, <2>2, OneElementMore
    <2>8. PICK m \in Nat : m = Cardinality(rest) * d
      BY <2>2, <2>7, TimesGrows
    <2>9. SumFunctionOnSet(e, Requests) = SumFunctionOnSet(c, Requests) - c[r] + e[r] /\ e[r] \in Nat
      BY <1>4, <1>9, <1>13
    <2> HIDE DEF n, d, rest
    <2> QED BY <1>6, <2>1, <2>2, <2>5, <2>6, <2>7, <2>8, <2>9
  <1> HIDE DEF n
  <1> QED BY <1>2, <1>10, <1>11, <1>12, <1>13, RequestedStep DEF Requested, n

LEMMA BoundInitially ==
  ASSUME Init
  PROVE  BoundInv
  <1>1. TypeOK
    BY InitInvariant DEF IInv
  <1>2. ASSUME NEW o \in Orders
        PROVE  TotalAvailable(o) + Claimed(o) <= Cardinality(Requests) * most[o]
    <2> DEFINE f == Contents(box, o)
               c == Claims(call, o)
    <2>1. (\A v \in Variants : f[v] = 0) /\ (\A r \in Requests : c[r] = 0)
      BY DEF Init, Contents, Claims, ClaimOf, Boxes
    <2>2. TotalAvailable(o) = SumFunctionOnSet(f, Variants) /\ Claimed(o) = SumFunctionOnSet(c, Requests)
      BY DEF TotalAvailable, Contents, Claimed
    <2> HIDE DEF f, c
    <2>3. TotalAvailable(o) = 0 /\ Claimed(o) = 0
      BY <2>1, <2>2, QualityConstants, SumOfZeros
    <2>4. most[o] = 0 /\ Cardinality(Requests) \in Nat
      BY QualityConstants, FS_CardinalityType DEF Init
    <2> QED BY <2>3, <2>4
  <1>3. (\A r \in Requests : RecordFits(r)) /\ (\A o \in Orders : OutputReached(o))
    BY DEF Init, RecordFits, OutputReached, At
  <1> QED BY <1>2, <1>3 DEF BoundInv

\* The recordings in flight and the boxes together stay within the bound in
\* every reachable state.
THEOREM BoundInvariant == Spec => [](IInv /\ BoundInv)
  <1>1. Init => IInv /\ BoundInv
    BY InitInvariant, BoundInitially
  <1>2. IInv /\ BoundInv /\ [Next]_vars => IInv' /\ BoundInv'
    BY StepInvariant, RecordFitsStep, MostStep, BoundStep DEF BoundInv, IInv
  <1> QED BY <1>1, <1>2, PTL DEF Spec

\* record-quality-output: the boxes of an order never hold more than the greatest
\* output that its last stage has had, for every request that can pass the check
\* at once, whatever requests that record the output overwrite one another.
THEOREM AvailableBoundedCorrect == Spec => []AvailableBounded
  <1>1. IInv /\ BoundInv => AvailableBounded
    <2> SUFFICES ASSUME IInv, BoundInv, NEW o \in Orders
                 PROVE  TotalAvailable(o) <= Cardinality(Requests) * most[o]
      BY DEF AvailableBounded
    <2> DEFINE f == Contents(box, o)
               c == Claims(call, o)
    <2>1. (\A v \in Variants : f[v] \in Nat) /\ (\A r \in Requests : c[r] \in Nat)
      BY ContentsType, ClaimsType DEF IInv, TypeOK
    <2>2. TotalAvailable(o) = SumFunctionOnSet(f, Variants) /\ Claimed(o) = SumFunctionOnSet(c, Requests)
      BY DEF TotalAvailable, Contents, Claimed
    <2> HIDE DEF f, c
    <2>3. TotalAvailable(o) \in Nat /\ Claimed(o) \in Nat
      BY <2>1, <2>2, QualityConstants, SumNat
    <2>4. /\ Cardinality(Requests) \in Nat /\ most[o] \in Nat
          /\ TotalAvailable(o) + Claimed(o) <= Cardinality(Requests) * most[o]
      BY QualityConstants, FS_CardinalityType DEF BoundInv, IInv, TypeOK
    <2>5. Cardinality(Requests) * most[o] \in Nat
      BY <2>4, TimesGrows
    <2> QED BY <2>3, <2>4, <2>5
  <1> QED BY <1>1, BoundInvariant, PTL

-----------------------------------------------------------------------------
(* Theorems.                                                               *)

\* What the boxes, the locks, the packing orders and the requests in flight
\* know of each other holds in every reachable state.
THEOREM QualityInvariant == Spec => []IInv
  <1>1. Init => IInv
    BY InitInvariant
  <1>2. IInv /\ [Next]_vars => IInv'
    BY StepInvariant
  <1> QED BY <1>1, <1>2, PTL DEF Spec

\* Every row and every call has its type: no box is drawn below zero, whatever
\* assemblies and recordings run at once.
THEOREM QualityTypeCorrect == Spec => []TypeOK
  <1>1. IInv => TypeOK
    BY DEF IInv
  <1> QED BY <1>1, QualityInvariant, PTL

\* BR-Q02, BR-P02: the optimistic versions of the boxes lose no recording and
\* take no piece twice, up to the rounding of each write.
THEOREM BoxesAccountedCorrect == Spec => []BoxesAccounted
  <1>1. IInv => BoxesAccounted
    BY DEF IInv
  <1> QED BY <1>1, QualityInvariant, PTL

\* BR-P05: the journal has a PACKING row of exactly the orders that are POSTED,
\* for at least what was verified and at most what is assembled.
THEOREM PostingFollowsVerificationCorrect == Spec => []PostingFollowsVerification
  <1>1. IInv => PostingFollowsVerification
    BY DEF IInv
  <1> QED BY <1>1, QualityInvariant, PTL

\* Without requests that overlap, an order is posted once, for what was verified.
THEOREM CalmPostsOnceCorrect == Spec => []CalmPostsOnce
  <1>1. IInv => CalmPostsOnce
    <2> SUFFICES ASSUME IInv, NEW o \in Orders, calm[o], posted[o] # <<>>
                 PROVE  /\ posted[o] = <<packing[o].verification>>
                        /\ packing[o].assembled = packing[o].verification
      BY DEF CalmPostsOnce
    <2>1. CalmOrder(o) /\ OrderSound(o) /\ HasStatus(o, {"POSTED"})
      BY DEF IInv, AllCalmSound, CalmSound, PackSound, PostingFollowsVerification
    <2> QED BY <2>1 DEF CalmOrder, OrderSound, HasStatus
  <1> QED BY <1>1, QualityInvariant, PTL

\* The status of a packing order only moves forward, though it is written
\* without a look at what it is: what was checked before keeps it so.
THEOREM PackingForwardCorrect == Spec => PackingForward
  <1>1. IInv /\ [Next]_vars => [PackingGoesForward]_vars
    BY ForwardStep DEF IInv
  <1>2. [PackingGoesForward]_vars => [\A o \in Orders : packing[o] # None =>
          packing'[o] # None /\ Rank[packing[o].status] <= Rank[packing'[o].status]]_vars
    BY DEF PackingGoesForward
  <1> QED BY <1>1, <1>2, QualityInvariant, PTL DEF Spec, PackingForward

=============================================================================
