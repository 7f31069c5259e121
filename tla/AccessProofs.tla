------------------------------ MODULE AccessProofs ------------------------------
(* Theorems about Access, for any roles and rows, any number of requests   *)
(* and sessions, and any times to live.                                    *)
EXTENDS Access, FiniteLemmas, SequenceTheorems

-----------------------------------------------------------------------------
(* The handlers of a controller: they are routes, one role set each, and   *)
(* none of them stands before one whose requests it would take.            *)

Plain(s) == \E n \in Nat : DOMAIN s = 1 .. n /\ s = [i \in 1 .. n |-> s[i]]

RoleSets == {Unstated, Managers, Supervisors, Everyone}
IsRoute(a) ==
  /\ \E m, p, n, r, b : a = [method |-> m, path |-> p, name |-> n, roles |-> r, public |-> b]
  /\ Plain(a.path) /\ a.roles \in RoleSets
Routes(s) == Plain(s) /\ \A i \in DOMAIN s : IsRoute(s[i])

Method(s, i)  == s[i].method
Length(s, i)  == Len(s[i].path)
Word(s, i, k) == s[i].path[k]

\* Handler f of s takes the requests for handler h of t.
Takes(s, f, t, h) ==
  /\ Method(s, f) = Method(t, h)
  /\ Length(s, f) = Length(t, h)
  /\ \A k \in 1 .. Length(s, f) : Word(s, f, k) \in {Id, Word(t, h, k)}
InOrder(s) == \A f, h \in DOMAIN s : f < h => ~ Takes(s, f, s, h)
Apart(s, t) == \A f \in DOMAIN s, h \in DOMAIN t : ~ Takes(s, f, t, h)

\* The word at place k of every path is one of W.
WordsAt(s, k, W) == \A i \in DOMAIN s : Length(s, i) >= k /\ Word(s, i, k) \in W

\* Takes speaks of the handlers at two places, and of nothing else.
LEMMA TakesAt ==
  ASSUME NEW s, NEW f, NEW t, NEW h, NEW u, NEW i, NEW v, NEW j, s[f] = u[i], t[h] = v[j],
         Takes(s, f, t, h)
  PROVE  Takes(u, i, v, j)
  BY DEF Takes, Method, Length, Word

\* Paths and lists of handlers are sequences, those a controller states and those
\* that are put together from them.
LEMMA PlainEmpty == Plain(<< >>)
  <1> DEFINE s == << >>
  <1>1. DOMAIN s = 1 .. 0 /\ s = [i \in 1 .. 0 |-> s[i]]
    OBVIOUS
  <1> QED BY <1>1 DEF Plain

LEMMA Plain1 ==
  ASSUME NEW a
  PROVE  Plain(<<a>>)
  <1> DEFINE s == <<a>>
  <1>1. DOMAIN s = 1 .. 1 /\ s = [i \in 1 .. 1 |-> s[i]]
    OBVIOUS
  <1> QED BY <1>1 DEF Plain

LEMMA Plain2 ==
  ASSUME NEW a, NEW b
  PROVE  Plain(<<a, b>>)
  <1> DEFINE s == <<a, b>>
  <1>1. DOMAIN s = 1 .. 2 /\ s = [i \in 1 .. 2 |-> s[i]]
    OBVIOUS
  <1> QED BY <1>1 DEF Plain

LEMMA Plain3 ==
  ASSUME NEW a, NEW b, NEW c
  PROVE  Plain(<<a, b, c>>)
  <1> DEFINE s == <<a, b, c>>
  <1>1. DOMAIN s = 1 .. 3 /\ s = [i \in 1 .. 3 |-> s[i]]
    OBVIOUS
  <1> QED BY <1>1 DEF Plain

LEMMA Plain4 ==
  ASSUME NEW a, NEW b, NEW c, NEW d
  PROVE  Plain(<<a, b, c, d>>)
  <1> DEFINE s == <<a, b, c, d>>
  <1>1. DOMAIN s = 1 .. 4 /\ s = [i \in 1 .. 4 |-> s[i]]
    OBVIOUS
  <1> QED BY <1>1 DEF Plain

LEMMA Plain5 ==
  ASSUME NEW a, NEW b, NEW c, NEW d, NEW e
  PROVE  Plain(<<a, b, c, d, e>>)
  <1> DEFINE s == <<a, b, c, d, e>>
  <1>1. DOMAIN s = 1 .. 5 /\ s = [i \in 1 .. 5 |-> s[i]]
    OBVIOUS
  <1> QED BY <1>1 DEF Plain

\* In the terms of the library.
LEMMA PlainIsSeq ==
  ASSUME NEW s, Plain(s)
  PROVE  /\ s \in Seq({s[i] : i \in DOMAIN s})
         /\ Len(s) \in Nat /\ DOMAIN s = 1 .. Len(s)
  <1>1. PICK n \in Nat : DOMAIN s = 1 .. n /\ s = [i \in 1 .. n |-> s[i]]
    BY DEF Plain
  <1> DEFINE X == {s[i] : i \in DOMAIN s}
  <1>2. s \in [1 .. n -> X]
    BY <1>1
  <1>3. s \in Seq(X)
    BY <1>2, SeqDef
  <1> QED BY <1>3, LenProperties

\* A concatenation has the one sequence and then the other.
LEMMA ConcatPlain ==
  ASSUME NEW s, NEW t, Plain(s), Plain(t)
  PROVE  /\ Plain(s \o t)
         /\ Len(s) \in Nat /\ Len(t) \in Nat /\ DOMAIN s = 1 .. Len(s) /\ DOMAIN t = 1 .. Len(t)
         /\ Len(s \o t) = Len(s) + Len(t)
         /\ DOMAIN (s \o t) = 1 .. Len(s) + Len(t)
         /\ \A i \in 1 .. Len(s) : (s \o t)[i] = s[i]
         /\ \A i \in 1 .. Len(t) : (s \o t)[Len(s) + i] = t[i]
  <1> DEFINE X == {s[i] : i \in DOMAIN s} \union {t[i] : i \in DOMAIN t}
  <1>1. s \in Seq({s[i] : i \in DOMAIN s}) /\ t \in Seq({t[i] : i \in DOMAIN t})
    BY PlainIsSeq
  <1>2. s \in Seq(X) /\ t \in Seq(X)
    BY <1>1, SeqMonotonic
  <1> HIDE DEF X
  <1>3. /\ s \o t \in Seq(X) /\ Len(s \o t) = Len(s) + Len(t)
        /\ \A i \in 1 .. Len(s) + Len(t) : (s \o t)[i] = IF i <= Len(s) THEN s[i] ELSE t[i - Len(s)]
    BY <1>2, ConcatProperties
  <1>4. Len(s) \in Nat /\ Len(t) \in Nat /\ DOMAIN s = 1 .. Len(s) /\ DOMAIN t = 1 .. Len(t)
    BY <1>2, LenProperties
  <1>5. DOMAIN (s \o t) = 1 .. Len(s) + Len(t)
    BY <1>3, LenProperties
  <1>6. s \o t = [i \in 1 .. Len(s) + Len(t) |-> (s \o t)[i]]
    BY <1>3, <1>4, <1>5, LenProperties
  <1>7. \A i \in 1 .. Len(s) : (s \o t)[i] = s[i]
    BY <1>3, <1>4
  <1>8. \A i \in 1 .. Len(t) : (s \o t)[Len(s) + i] = t[i]
    BY <1>3, <1>4
  <1>9. Plain(s \o t)
    <2>1. Len(s) + Len(t) \in Nat
      BY <1>4
    <2> QED BY <1>5, <1>6, <2>1 DEF Plain
  <1> QED BY <1>3, <1>4, <1>5, <1>7, <1>8, <1>9

\* What stands in a concatenation stands in one of the two.
LEMMA ConcatFrom ==
  ASSUME NEW s, NEW t, Plain(s), Plain(t), NEW i \in DOMAIN (s \o t)
  PROVE  \/ i \in DOMAIN s /\ (s \o t)[i] = s[i]
         \/ i > Len(s) /\ \E j \in DOMAIN t : i = Len(s) + j /\ (s \o t)[i] = t[j]
  <1>1. CASE i \in 1 .. Len(s)
    BY <1>1, ConcatPlain
  <1>2. CASE i \notin 1 .. Len(s)
    <2>1. Len(s) \in Nat /\ Len(t) \in Nat /\ i \in 1 .. Len(s) + Len(t)
      BY ConcatPlain
    <2>2. i - Len(s) \in 1 .. Len(t) /\ i = Len(s) + (i - Len(s)) /\ i > Len(s)
      BY <1>2, <2>1
    <2> QED BY <2>2, ConcatPlain
  <1> QED BY <1>1, <1>2

\* Two groups of handlers in order, the first of which takes no request for the
\* second, are in order together.
LEMMA Joined ==
  ASSUME NEW s, NEW t, Routes(s), Routes(t)
  PROVE  /\ Routes(s \o t)
         /\ InOrder(s) /\ InOrder(t) /\ Apart(s, t) => InOrder(s \o t)
         /\ \A u : Apart(s, u) /\ Apart(t, u) => Apart(s \o t, u)
         /\ \A k, V, W : WordsAt(s, k, V) /\ WordsAt(t, k, W) => WordsAt(s \o t, k, V \union W)
  <1>1. Plain(s) /\ Plain(t)
    BY DEF Routes
  <1>2. Routes(s \o t)
    BY <1>1, ConcatPlain, ConcatFrom DEF Routes
  <1>3. ASSUME InOrder(s), InOrder(t), Apart(s, t), NEW f \in DOMAIN (s \o t), NEW h \in DOMAIN (s \o t), f < h
        PROVE  ~ Takes(s \o t, f, s \o t, h)
    <2>1. Len(s) \in Nat /\ DOMAIN s = 1 .. Len(s) /\ DOMAIN t = 1 .. Len(t) /\ Len(t) \in Nat
          /\ f \in 1 .. Len(s) + Len(t) /\ h \in 1 .. Len(s) + Len(t)
      BY <1>1, ConcatPlain
    <2>2. CASE f \in DOMAIN s /\ (s \o t)[f] = s[f]
      <3>1. CASE h \in DOMAIN s /\ (s \o t)[h] = s[h]
        BY <1>3, <2>2, <3>1, TakesAt DEF InOrder
      <3>2. CASE h > Len(s) /\ \E j \in DOMAIN t : h = Len(s) + j /\ (s \o t)[h] = t[j]
        BY <1>3, <2>2, <3>2, TakesAt DEF Apart
      <3> QED BY <1>1, <3>1, <3>2, ConcatFrom
    <2>3. CASE f > Len(s) /\ \E j \in DOMAIN t : f = Len(s) + j /\ (s \o t)[f] = t[j]
      <3>1. PICK j \in DOMAIN t : f = Len(s) + j /\ (s \o t)[f] = t[j]
        BY <2>3
      <3>2. h \notin DOMAIN s
        BY <1>3, <2>1, <2>3
      <3>3. PICK l \in DOMAIN t : h = Len(s) + l /\ (s \o t)[h] = t[l]
        BY <1>1, <3>2, ConcatFrom
      <3>4. j < l
        BY <1>3, <2>1, <3>1, <3>3
      <3>5. ~ Takes(t, j, t, l)
        BY <1>3, <3>4 DEF InOrder
      <3> QED BY <3>1, <3>3, <3>5, TakesAt
    <2> QED BY <1>1, <2>2, <2>3, ConcatFrom
  <1>4. ASSUME NEW u, Apart(s, u), Apart(t, u)
        PROVE  Apart(s \o t, u)
    <2> SUFFICES ASSUME NEW f \in DOMAIN (s \o t), NEW h \in DOMAIN u
                 PROVE  ~ Takes(s \o t, f, u, h)
      BY DEF Apart
    <2>1. CASE f \in DOMAIN s /\ (s \o t)[f] = s[f]
      BY <1>4, <2>1, TakesAt DEF Apart
    <2>2. CASE \E j \in DOMAIN t : f = Len(s) + j /\ (s \o t)[f] = t[j]
      BY <1>4, <2>2, TakesAt DEF Apart
    <2> QED BY <1>1, <2>1, <2>2, ConcatFrom
  <1>5. ASSUME NEW k, NEW V, NEW W, WordsAt(s, k, V), WordsAt(t, k, W)
        PROVE  WordsAt(s \o t, k, V \union W)
    BY <1>1, <1>5, ConcatFrom DEF WordsAt, Length, Word
  <1> QED BY <1>2, <1>3, <1>4, <1>5 DEF InOrder

\* Two groups of handlers are apart when a word tells their paths apart.
LEMMA ApartByWord ==
  ASSUME NEW s, NEW t, NEW k \in Nat \ {0}, NEW V, NEW W, Routes(s),
         WordsAt(s, k, V), WordsAt(t, k, W), Id \notin V, V \intersect W = {}
  PROVE  Apart(s, t)
  <1> SUFFICES ASSUME NEW f \in DOMAIN s, NEW h \in DOMAIN t, Takes(s, f, t, h)
               PROVE  FALSE
    BY DEF Apart
  <1>1. Length(s, f) \in Nat
    BY PlainIsSeq DEF Routes, IsRoute, Length
  <1>2. k \in 1 .. Length(s, f) /\ Word(s, f, k) \in V /\ Word(t, h, k) \in W
    BY <1>1 DEF WordsAt
  <1> QED BY <1>2 DEF Takes

\* What the prefix of a controller changes in its handlers.
LEMMA UnderAt ==
  ASSUME NEW prefix, Plain(prefix), NEW roles \in RoleSets, NEW s, Routes(s), NEW i \in DOMAIN s
  PROVE  LET U == Under(prefix, roles, s)
         IN  /\ IsRoute(U[i]) /\ Method(U, i) = Method(s, i)
             /\ Len(prefix) \in Nat /\ Length(s, i) \in Nat
             /\ Length(U, i) = Len(prefix) + Length(s, i)
             /\ \A k \in 1 .. Len(prefix) : Word(U, i, k) = prefix[k]
             /\ \A k \in 1 .. Length(s, i) : Word(U, i, Len(prefix) + k) = Word(s, i, k)
  <1> DEFINE U == Under(prefix, roles, s)
  <1>1. PICK m, p, n, r, b : s[i] = [method |-> m, path |-> p, name |-> n, roles |-> r, public |-> b]
    BY DEF Routes, IsRoute
  <1>2. Plain(p) /\ r \in RoleSets
    BY <1>1 DEF Routes, IsRoute
  <1>3. U[i] = [method |-> m, path |-> prefix \o p, name |-> n, public |-> b,
                roles |-> IF r = Unstated THEN roles ELSE r]
    <2>1. U[i] = [s[i] EXCEPT !.path = prefix \o s[i].path,
                              !.roles = IF s[i].roles = Unstated THEN roles ELSE s[i].roles]
      BY DEF Under
    <2>2. s[i].path = p /\ s[i].roles = r
      BY <1>1
    <2> HIDE DEF U
    <2> DEFINE q == prefix \o p
               z == IF r = Unstated THEN roles ELSE r
    <2>3. U[i] = [s[i] EXCEPT !.path = q, !.roles = z]
      BY <2>1, <2>2
    <2> HIDE DEF q, z
    <2>4. U[i] = [[[method |-> m, path |-> p, name |-> n, roles |-> r, public |-> b]
                      EXCEPT !.path = q] EXCEPT !.roles = z]
      BY <1>1, <2>3
    <2>5. U[i] = [method |-> m, path |-> q, name |-> n, public |-> b, roles |-> z]
      BY <2>4
    <2> QED BY <2>5 DEF q, z
  <1> HIDE DEF U
  <1>4. IsRoute(U[i])
    <2>1. Plain(U[i].path) /\ U[i].roles \in RoleSets
      BY <1>2, <1>3, ConcatPlain
    <2> QED BY <1>3, <2>1 DEF IsRoute
  <1>5. U[i].method = s[i].method /\ U[i].path = prefix \o p /\ s[i].path = p
    BY <1>1, <1>3
  <1> QED BY <1>2, <1>4, <1>5, ConcatPlain DEF U, Method, Length, Word

\* A prefix leaves the order of the handlers as it is, and adds its words.
LEMMA UnderKeeps ==
  ASSUME NEW prefix, Plain(prefix), NEW roles \in RoleSets, NEW s, Routes(s)
  PROVE  LET U == Under(prefix, roles, s)
         IN  /\ Routes(U) /\ DOMAIN U = DOMAIN s
             /\ InOrder(s) => InOrder(U)
             /\ \A k \in 1 .. Len(prefix) : WordsAt(U, k, {prefix[k]})
             /\ \A W : WordsAt(s, 1, W) => WordsAt(U, Len(prefix) + 1, W)
  <1> DEFINE U == Under(prefix, roles, s)
  <1>1. PICK n \in Nat : DOMAIN s = 1 .. n
    BY DEF Routes, Plain
  <1>2. DOMAIN U = 1 .. n /\ U = [i \in 1 .. n |-> U[i]]
    BY <1>1 DEF Under
  <1>3. \A i \in DOMAIN s :
             /\ IsRoute(U[i]) /\ Method(U, i) = Method(s, i)
             /\ Len(prefix) \in Nat /\ Length(s, i) \in Nat
             /\ Length(U, i) = Len(prefix) + Length(s, i)
             /\ \A k \in 1 .. Len(prefix) : Word(U, i, k) = prefix[k]
             /\ \A k \in 1 .. Length(s, i) : Word(U, i, Len(prefix) + k) = Word(s, i, k)
    BY UnderAt
  <1> HIDE DEF U
  <1>4. Routes(U)
    BY <1>1, <1>2, <1>3 DEF Routes, Plain
  <1>5. ASSUME InOrder(s), NEW f \in DOMAIN s, NEW h \in DOMAIN s, f < h, Takes(U, f, U, h)
        PROVE  FALSE
    <2>1. Method(s, f) = Method(s, h) /\ Length(s, f) = Length(s, h)
      BY <1>3, <1>5 DEF Takes
    <2>2. ASSUME NEW k \in 1 .. Length(s, f)
          PROVE  Word(s, f, k) \in {Id, Word(s, h, k)}
      <3>1. Len(prefix) + k \in 1 .. Length(U, f)
        BY <1>3
      <3>2. Word(U, f, Len(prefix) + k) \in {Id, Word(U, h, Len(prefix) + k)}
        BY <1>5, <3>1 DEF Takes
      <3> QED BY <1>3, <2>1, <3>2
    <2> QED BY <1>5, <2>1, <2>2 DEF InOrder, Takes
  <1>6. ASSUME NEW k \in 1 .. Len(prefix)
        PROVE  WordsAt(U, k, {prefix[k]})
    BY <1>1, <1>2, <1>3 DEF WordsAt
  <1>7. ASSUME NEW W, WordsAt(s, 1, W)
        PROVE  WordsAt(U, Len(prefix) + 1, W)
    <2> SUFFICES ASSUME NEW i \in DOMAIN s
                 PROVE  Length(U, i) >= Len(prefix) + 1 /\ Word(U, i, Len(prefix) + 1) \in W
      BY <1>1, <1>2 DEF WordsAt
    <2>1. Length(s, i) >= 1 /\ Word(s, i, 1) \in W
      BY <1>7 DEF WordsAt
    <2>2. 1 \in 1 .. Length(s, i) /\ Len(prefix) \in Nat /\ Length(s, i) \in Nat
      BY <1>3, <2>1
    <2> QED BY <1>3, <2>1, <2>2
  <1> QED BY <1>1, <1>2, <1>4, <1>5, <1>6, <1>7 DEF InOrder, U

\* The same for the prefixes of one word and of two.
LEMMA UnderOne ==
  ASSUME NEW w, NEW roles \in RoleSets, NEW s, Routes(s), InOrder(s)
  PROVE  LET U == Under(<<w>>, roles, s)
         IN  /\ Routes(U) /\ InOrder(U) /\ DOMAIN U = DOMAIN s
             /\ WordsAt(U, 1, {w})
             /\ \A W : WordsAt(s, 1, W) => WordsAt(U, 2, W)
  <1> DEFINE P == <<w>>
  <1>1. Plain(P) /\ Len(P) = 1 /\ P[1] = w
    BY Plain1
  <1> HIDE DEF P
  <1> QED BY <1>1, UnderKeeps DEF P

LEMMA UnderTwo ==
  ASSUME NEW v, NEW w, NEW roles \in RoleSets, NEW s, Routes(s), InOrder(s)
  PROVE  LET U == Under(<<v, w>>, roles, s)
         IN  /\ Routes(U) /\ InOrder(U) /\ DOMAIN U = DOMAIN s
             /\ WordsAt(U, 1, {v}) /\ WordsAt(U, 2, {w})
  <1> DEFINE P == <<v, w>>
  <1>1. Plain(P) /\ Len(P) = 2 /\ P[1] = v /\ P[2] = w
    BY Plain2
  <1> HIDE DEF P
  <1> QED BY <1>1, UnderKeeps DEF P

-----------------------------------------------------------------------------
(* The controllers.  What tells the handlers of one apart is their method, *)
(* the length of their paths, or a word.                                   *)

\* L is what a controller states.
Stated(L, n) ==
  /\ DOMAIN L = 1 .. n /\ L = [i \in 1 .. n |-> L[i]]
  /\ \A i \in 1 .. n : IsRoute(L[i])

\* A handler has the method and the path it states.
LEMMA HandlerIsRoute ==
  ASSUME NEW m, NEW p, NEW n, NEW r
  PROVE  /\ Plain(p) /\ r \in RoleSets => IsRoute(Handler(m, p, n, r))
         /\ Handler(m, p, n, r).method = m /\ Handler(m, p, n, r).path = p
  BY DEF IsRoute, Handler

\* So has one that is public.
LEMMA PublicIsRoute ==
  ASSUME NEW m, NEW p, NEW n, NEW r
  PROVE  /\ Plain(p) /\ r \in RoleSets => IsRoute(Public(Handler(m, p, n, r)))
         /\ Public(Handler(m, p, n, r)).method = m /\ Public(Handler(m, p, n, r)).path = p
  <1>1. ASSUME NEW b, NEW c
        PROVE  [[method |-> m, path |-> p, name |-> n, roles |-> r, public |-> b] EXCEPT !.public = c]
                  = [method |-> m, path |-> p, name |-> n, roles |-> r, public |-> c]
    OBVIOUS
  <1>2. Public(Handler(m, p, n, r)) = [method |-> m, path |-> p, name |-> n, roles |-> r, public |-> TRUE]
    BY <1>1, Zenon DEF Public, Handler
  <1> DEFINE a == Public(Handler(m, p, n, r))
  <1>3. a.method = m /\ a.path = p /\ a.roles = r
    BY <1>2
  <1> QED BY <1>2, <1>3 DEF IsRoute

\* Roles are stated in one of four ways.
LEMMA RolesAreSets ==
  Unstated \in RoleSets /\ Managers \in RoleSets /\ Supervisors \in RoleSets /\ Everyone \in RoleSets
  BY DEF RoleSets

\* What a controller states is a list of routes.
LEMMA StatedRoutes ==
  ASSUME NEW L, NEW n \in Nat, Stated(L, n)
  PROVE  Routes(L)
  BY DEF Stated, Routes, Plain

\* It has as many handlers as it states.
LEMMA StatedDomain ==
  ASSUME NEW L, NEW n, Stated(L, n)
  PROVE  DOMAIN L = 1 .. n
  BY DEF Stated

\* What two handlers must have in common for one to take the other's requests.
LEMMA TakesAlike ==
  ASSUME NEW s, NEW f, NEW t, NEW h, Takes(s, f, t, h)
  PROVE  Method(s, f) = Method(t, h) /\ Length(s, f) = Length(t, h)
  BY DEF Takes

\* The controller of the sessions.
LEMMA AuthInOrder ==
  /\ Routes(AuthController) /\ InOrder(AuthController)
  /\ WordsAt(AuthController, 1, {"auth"})
  <1>1. PICK L : /\ AuthController = Under(<<"auth">>, Unstated, L)
                 /\ Stated(L, 3)
                 /\ \A i \in 1 .. 3 : Length(L, i) = 1
                 /\ Word(L, 1, 1) = "login" /\ Word(L, 2, 1) = "refresh" /\ Word(L, 3, 1) = "logout"
    BY Plain1, HandlerIsRoute, PublicIsRoute, RolesAreSets
       DEF AuthController, Stated, Post, Length, Word
  <1>2. InOrder(L)
    BY <1>1, StatedDomain DEF InOrder, Takes, Id
  <1> QED BY <1>1, <1>2, StatedRoutes, UnderOne, RolesAreSets

\* The tables whose rows are deactivated.
LEMMA DeactivatedInOrder ==
  ASSUME NEW prefix, Plain(prefix)
  PROVE  /\ Routes(DeactivatedTable(prefix)) /\ InOrder(DeactivatedTable(prefix))
         /\ \A k \in 1 .. Len(prefix) : WordsAt(DeactivatedTable(prefix), k, {prefix[k]})
         /\ \A i \in DOMAIN DeactivatedTable(prefix) :
               \/ Length(DeactivatedTable(prefix), i) \in Len(prefix) .. Len(prefix) + 1
               \/ Length(DeactivatedTable(prefix), i) = Len(prefix) + 2
                  /\ Method(DeactivatedTable(prefix), i) = "PATCH"
  <1> DEFINE U == DeactivatedTable(prefix)
  <1>1. PICK L : /\ U = Under(prefix, Everyone, L)
                 /\ Stated(L, 6)
                 /\ Length(L, 1) = 0 /\ Length(L, 2) = 0 /\ Length(L, 3) = 1
                 /\ Length(L, 4) = 1 /\ Length(L, 5) = 1 /\ Length(L, 6) = 2
                 /\ Method(L, 1) = "POST" /\ Method(L, 2) = "GET" /\ Method(L, 3) = "GET"
                 /\ Method(L, 4) = "PATCH" /\ Method(L, 5) = "DELETE" /\ Method(L, 6) = "PATCH"
    BY PlainEmpty, Plain1, Plain2, HandlerIsRoute, RolesAreSets
       DEF DeactivatedTable, Stated, Get, Post, Patch, Delete, Method, Length
  <1> HIDE DEF U
  <1>2. Routes(L) /\ InOrder(L) /\ DOMAIN L = 1 .. 6
    <2>1. Routes(L) /\ DOMAIN L = 1 .. 6
      BY <1>1, StatedRoutes, StatedDomain
    <2>2. ASSUME NEW f \in 1 .. 6, NEW h \in 1 .. 6, f < h, Method(L, f) = Method(L, h), Length(L, f) = Length(L, h)
          PROVE  FALSE
      BY <1>1, <2>2
    <2> QED BY <2>1, <2>2, TakesAlike DEF InOrder
  <1>3. DOMAIN U = 1 .. 6
    BY <1>1, <1>2, UnderKeeps, RolesAreSets
  <1>4. ASSUME NEW i \in DOMAIN U
        PROVE  Length(U, i) \in Len(prefix) .. Len(prefix) + 1
               \/ (Length(U, i) = Len(prefix) + 2 /\ Method(U, i) = "PATCH")
    <2>1. Method(U, i) = Method(L, i) /\ Length(U, i) = Len(prefix) + Length(L, i) /\ Len(prefix) \in Nat
      BY <1>1, <1>2, <1>3, UnderAt, RolesAreSets
    <2>2. Length(L, i) \in {0, 1} \/ (Method(L, i) = "PATCH" /\ Length(L, i) = 2)
      <3>1. i \in 1 .. 6
        BY <1>3
      <3> QED BY <1>1, <3>1
    <2> QED BY <2>1, <2>2
  <1> QED BY <1>1, <1>2, <1>4, UnderKeeps, RolesAreSets DEF U

\* The tables whose rows are deleted.
LEMMA DeletedInOrder ==
  ASSUME NEW prefix, Plain(prefix)
  PROVE  /\ Routes(DeletedTable(prefix)) /\ InOrder(DeletedTable(prefix))
         /\ \A k \in 1 .. Len(prefix) : WordsAt(DeletedTable(prefix), k, {prefix[k]})
  <1>1. PICK L : /\ DeletedTable(prefix) = Under(prefix, Everyone, L)
                 /\ Stated(L, 5)
                 /\ Length(L, 1) = 0 /\ Length(L, 2) = 0 /\ Length(L, 3) = 1
                 /\ Length(L, 4) = 1 /\ Length(L, 5) = 1
                 /\ Method(L, 1) = "POST" /\ Method(L, 2) = "GET" /\ Method(L, 3) = "GET"
                 /\ Method(L, 4) = "PATCH" /\ Method(L, 5) = "DELETE"
    BY PlainEmpty, Plain1, HandlerIsRoute, RolesAreSets
       DEF DeletedTable, Stated, Get, Post, Patch, Delete, Method, Length
  <1>2. InOrder(L)
    BY <1>1, StatedDomain DEF InOrder, Takes
  <1> QED BY <1>1, <1>2, StatedRoutes, UnderKeeps, RolesAreSets

\* The controller of the warehouse locations.
LEMMA LocationsInOrder ==
  /\ Routes(WarehouseLocationsController) /\ InOrder(WarehouseLocationsController)
  /\ WordsAt(WarehouseLocationsController, 1, {"warehouse-locations"})
  <1>1. PICK L : /\ WarehouseLocationsController = Under(<<"warehouse-locations">>, Everyone, L)
                 /\ Stated(L, 6)
                 /\ Length(L, 1) = 0 /\ Length(L, 2) = 0 /\ Length(L, 3) = 3
                 /\ Length(L, 4) = 1 /\ Length(L, 5) = 2 /\ Length(L, 6) = 2
                 /\ Method(L, 1) = "POST" /\ Method(L, 2) = "GET"
                 /\ Method(L, 5) = "GET" /\ Method(L, 6) = "PATCH"
    BY PlainEmpty, Plain1, Plain2, Plain3, HandlerIsRoute, RolesAreSets
       DEF WarehouseLocationsController, Stated, Get, Post, Patch, Method, Length
  <1>2. InOrder(L)
    BY <1>1, StatedDomain DEF InOrder, Takes
  <1> QED BY <1>1, <1>2, StatedRoutes, UnderOne, RolesAreSets

\* The three controllers of the garment models, whose paths begin alike.
LEMMA GarmentModelsInOrder ==
  /\ Routes(GarmentModelsModule) /\ InOrder(GarmentModelsModule)
  /\ WordsAt(GarmentModelsModule, 1, {"garment-models"})
  <1> DEFINE P == <<"garment-models">>
             S == ModelsController
             T == ModelPartsController
             U == ModelColorsSizesController
  <1>1. Plain(P) /\ Len(P) = 1 /\ P[1] = "garment-models"
    BY Plain1
  <1> HIDE DEF P
  <1>2. /\ Routes(S) /\ InOrder(S) /\ WordsAt(S, 1, {"garment-models"})
        /\ \A i \in DOMAIN S : Length(S, i) \in 1 .. 2 \/ (Length(S, i) = 3 /\ Method(S, i) = "PATCH")
    <2> DEFINE D == DeactivatedTable(P)
    <2>1. /\ Routes(D) /\ InOrder(D) /\ WordsAt(D, 1, {"garment-models"})
          /\ \A i \in DOMAIN D : Length(D, i) \in 1 .. 2 \/ (Length(D, i) = 3 /\ Method(D, i) = "PATCH")
      <3>1. /\ Routes(D) /\ InOrder(D)
            /\ \A k \in 1 .. Len(P) : WordsAt(D, k, {P[k]})
            /\ \A i \in DOMAIN D : \/ Length(D, i) \in Len(P) .. Len(P) + 1
                                   \/ Length(D, i) = Len(P) + 2 /\ Method(D, i) = "PATCH"
        BY <1>1, DeactivatedInOrder
      <3> HIDE DEF D
      <3> QED BY <1>1, <3>1
    <2> QED BY <2>1 DEF ModelsController, P
  <1>3. PICK L : /\ T = Under(P, Everyone, L)
                 /\ Stated(L, 4)
                 /\ Length(L, 1) = 2 /\ Length(L, 2) = 2 /\ Length(L, 3) = 3 /\ Length(L, 4) = 3
                 /\ Method(L, 1) = "GET" /\ Method(L, 2) = "POST"
                 /\ Method(L, 3) = "PATCH" /\ Method(L, 4) = "DELETE"
                 /\ \A i \in 1 .. 4 : Word(L, i, 2) = "parts"
    BY Plain2, Plain3, HandlerIsRoute, RolesAreSets
       DEF ModelPartsController, Stated, Get, Post, Patch, Delete, P, Method, Length, Word
  <1>4. PICK M : /\ U = Under(P, Managers, M)
                 /\ Stated(M, 4)
                 /\ Length(M, 1) = 2 /\ Length(M, 2) = 3 /\ Length(M, 3) = 2 /\ Length(M, 4) = 3
                 /\ Method(M, 1) = "POST" /\ Method(M, 2) = "DELETE"
                 /\ Method(M, 3) = "POST" /\ Method(M, 4) = "DELETE"
                 /\ Word(M, 1, 2) = "colors" /\ Word(M, 2, 2) = "colors"
                 /\ Word(M, 3, 2) = "sizes" /\ Word(M, 4, 2) = "sizes"
    BY Plain2, Plain3, HandlerIsRoute, RolesAreSets
       DEF ModelColorsSizesController, Stated, Post, Delete, P, Method, Length, Word
  <1> HIDE DEF S, T, U
  <1>5. Routes(L) /\ InOrder(L) /\ Routes(M) /\ InOrder(M) /\ DOMAIN L = 1 .. 4 /\ DOMAIN M = 1 .. 4
    BY <1>3, <1>4, StatedRoutes, StatedDomain DEF InOrder, Takes, Id
  <1>6. /\ Routes(T) /\ InOrder(T) /\ WordsAt(T, 1, {"garment-models"}) /\ DOMAIN T = 1 .. 4
        /\ Routes(U) /\ InOrder(U) /\ WordsAt(U, 1, {"garment-models"}) /\ DOMAIN U = 1 .. 4
    BY <1>1, <1>3, <1>4, <1>5, UnderKeeps, RolesAreSets
  <1>7. ASSUME NEW i \in 1 .. 4
        PROVE  /\ Method(T, i) = Method(L, i) /\ Length(T, i) = 1 + Length(L, i)
               /\ Word(T, i, 3) = "parts" /\ Length(T, i) \in 3 .. 4
    <2>1. 2 \in 1 .. Length(L, i) /\ Word(L, i, 2) = "parts" /\ Length(L, i) \in 2 .. 3
      BY <1>3
    <2>2. /\ Method(T, i) = Method(L, i) /\ Length(T, i) = Len(P) + Length(L, i)
          /\ Word(T, i, Len(P) + 2) = Word(L, i, 2)
      <3>1. Plain(P) /\ T = Under(P, Everyone, L) /\ Everyone \in RoleSets /\ Routes(L) /\ i \in DOMAIN L
        BY <1>1, <1>3, <1>5, RolesAreSets
      <3>2. /\ Method(T, i) = Method(L, i) /\ Length(T, i) = Len(P) + Length(L, i)
            /\ \A k \in 1 .. Length(L, i) : Word(T, i, Len(P) + k) = Word(L, i, k)
        BY <3>1, UnderAt
      <3> QED BY <2>1, <3>2
    <2> QED BY <1>1, <2>1, <2>2
  <1>8. ASSUME NEW i \in 1 .. 4
        PROVE  /\ Method(U, i) \in {"POST", "DELETE"}
               /\ Word(U, i, 3) \in {"colors", "sizes"} /\ Length(U, i) \in 3 .. 4
    <2>1. /\ 2 \in 1 .. Length(M, i) /\ Word(M, i, 2) \in {"colors", "sizes"} /\ Length(M, i) \in 2 .. 3
          /\ Method(M, i) \in {"POST", "DELETE"}
      BY <1>4
    <2>2. /\ Method(U, i) = Method(M, i) /\ Length(U, i) = Len(P) + Length(M, i)
          /\ Word(U, i, Len(P) + 2) = Word(M, i, 2)
      <3>1. Plain(P) /\ U = Under(P, Managers, M) /\ Managers \in RoleSets /\ Routes(M) /\ i \in DOMAIN M
        BY <1>1, <1>4, <1>5, RolesAreSets
      <3>2. /\ Method(U, i) = Method(M, i) /\ Length(U, i) = Len(P) + Length(M, i)
            /\ \A k \in 1 .. Length(M, i) : Word(U, i, Len(P) + k) = Word(M, i, k)
        BY <3>1, UnderAt
      <3> QED BY <2>1, <3>2
    <2> QED BY <1>1, <2>1, <2>2
  <1>9. Apart(S, T)
    <2> SUFFICES ASSUME NEW f \in DOMAIN S, NEW h \in 1 .. 4, Takes(S, f, T, h)
                 PROVE  FALSE
      BY <1>6 DEF Apart
    <2>1. Method(S, f) = Method(T, h) /\ Length(S, f) = Length(T, h)
      BY DEF Takes
    <2>2. Length(T, h) \in 3 .. 4 /\ Length(T, h) = 1 + Length(L, h) /\ Method(T, h) = Method(L, h)
      BY <1>7
    <2>3. Length(L, h) \in 2 .. 3 /\ (Length(L, h) = 2 => Method(L, h) # "PATCH")
      BY <1>3
    <2>4. Length(S, f) \in 1 .. 2 \/ (Length(S, f) = 3 /\ Method(S, f) = "PATCH")
      BY <1>2
    <2> QED BY <2>1, <2>2, <2>3, <2>4
  <1>10. Apart(S, U)
    <2> SUFFICES ASSUME NEW f \in DOMAIN S, NEW h \in 1 .. 4, Takes(S, f, U, h)
                 PROVE  FALSE
      BY <1>6 DEF Apart
    <2>1. Method(S, f) = Method(U, h) /\ Length(S, f) = Length(U, h)
      BY DEF Takes
    <2> QED BY <1>2, <1>8, <2>1
  <1>11. Apart(T, U)
    <2>1. WordsAt(T, 3, {"parts"}) /\ WordsAt(U, 3, {"colors", "sizes"})
      BY <1>6, <1>7, <1>8 DEF WordsAt
    <2> QED BY <1>6, <2>1, ApartByWord DEF Id
  <1>12. Routes(S \o T) /\ InOrder(S \o T) /\ Apart(S \o T, U) /\ WordsAt(S \o T, 1, {"garment-models"})
    <2>1. {"garment-models"} \union {"garment-models"} = {"garment-models"}
      OBVIOUS
    <2> QED BY <1>2, <1>6, <1>9, <1>10, <1>11, <2>1, Joined
  <1>13. Routes((S \o T) \o U) /\ InOrder((S \o T) \o U) /\ WordsAt((S \o T) \o U, 1, {"garment-models"})
    <2>1. {"garment-models"} \union {"garment-models"} = {"garment-models"}
      OBVIOUS
    <2> QED BY <1>6, <1>12, <2>1, Joined
  <1> QED BY <1>13 DEF GarmentModelsModule, S, T, U

\* The groups of handlers of the inventory, one by one.
LEMMA MovementHandlersInOrder ==
  /\ Routes(MovementHandlers) /\ InOrder(MovementHandlers)
  /\ WordsAt(MovementHandlers, 1, {"bags"})
  <1> DEFINE L == MovementHandlers
  <1>1. Stated(L, 3)
    BY Plain3, HandlerIsRoute, RolesAreSets DEF MovementHandlers, Stated, Post
  <1>2. /\ Length(L, 1) = 3 /\ Length(L, 2) = 3
        /\ Length(L, 3) = 3
        /\ Word(L, 1, 3) = "transfer-warehouse"
        /\ Word(L, 2, 3) = "assign-order" /\ Word(L, 3, 3) = "return"
        /\ \A i \in 1 .. 3 : Word(L, i, 1) = "bags"
    BY HandlerIsRoute DEF MovementHandlers, Post, Method, Length, Word
  <1>3. Routes(L) /\ DOMAIN L = 1 .. 3
    BY <1>1, StatedRoutes, StatedDomain
  <1> HIDE DEF L
  <1>4. ASSUME NEW f \in 1 .. 3, NEW h \in 1 .. 3, f < h, Takes(L, f, L, h)
        PROVE  FALSE
    BY <1>2, <1>4 DEF Takes, Id
  <1>5. WordsAt(L, 1, {"bags"})
    BY <1>2, <1>3 DEF WordsAt
  <1> QED BY <1>3, <1>4, <1>5 DEF InOrder, L

LEMMA AvailabilityHandlersInOrder ==
  /\ Routes(AvailabilityHandlers) /\ InOrder(AvailabilityHandlers)
  /\ WordsAt(AvailabilityHandlers, 1, {"availability"})
  <1> DEFINE L == AvailabilityHandlers
  <1>1. Stated(L, 3)
    BY Plain3, HandlerIsRoute, RolesAreSets DEF AvailabilityHandlers, Stated, Get
  <1>2. /\ Length(L, 1) = 3 /\ Length(L, 2) = 3
        /\ Length(L, 3) = 3
        /\ Word(L, 1, 2) = "bags"
        /\ Word(L, 2, 2) = "warehouse"
        /\ Word(L, 3, 2) = "model"
        /\ \A i \in 1 .. 3 : Word(L, i, 1) = "availability"
    BY HandlerIsRoute DEF AvailabilityHandlers, Get, Method, Length, Word
  <1>3. Routes(L) /\ DOMAIN L = 1 .. 3
    BY <1>1, StatedRoutes, StatedDomain
  <1> HIDE DEF L
  <1>4. ASSUME NEW f \in 1 .. 3, NEW h \in 1 .. 3, f < h, Takes(L, f, L, h)
        PROVE  FALSE
    BY <1>2, <1>4 DEF Takes, Id
  <1>5. WordsAt(L, 1, {"availability"})
    BY <1>2, <1>3 DEF WordsAt
  <1> QED BY <1>3, <1>4, <1>5 DEF InOrder, L

LEMMA BalanceHandlersInOrder ==
  /\ Routes(BalanceHandlers) /\ InOrder(BalanceHandlers)
  /\ WordsAt(BalanceHandlers, 1, {"balance"})
  <1> DEFINE L == BalanceHandlers
  <1>1. Stated(L, 3)
    BY Plain2, Plain3, HandlerIsRoute, RolesAreSets DEF BalanceHandlers, Stated, Get
  <1>2. /\ Length(L, 1) = 3 /\ Length(L, 2) = 3
        /\ Length(L, 3) = 2
        /\ Word(L, 1, 2) = "warehouse" /\ Word(L, 2, 2) = "model"
        /\ \A i \in 1 .. 3 : Word(L, i, 1) = "balance"
    BY HandlerIsRoute DEF BalanceHandlers, Get, Method, Length, Word
  <1>3. Routes(L) /\ DOMAIN L = 1 .. 3
    BY <1>1, StatedRoutes, StatedDomain
  <1> HIDE DEF L
  <1>4. ASSUME NEW f \in 1 .. 3, NEW h \in 1 .. 3, f < h, Takes(L, f, L, h)
        PROVE  FALSE
    BY <1>2, <1>4 DEF Takes, Id
  <1>5. WordsAt(L, 1, {"balance"})
    BY <1>2, <1>3 DEF WordsAt
  <1> QED BY <1>3, <1>4, <1>5 DEF InOrder, L

LEMMA CountHandlersInOrder ==
  /\ Routes(CountHandlers) /\ InOrder(CountHandlers)
  /\ WordsAt(CountHandlers, 1, {"adjustments", "cycle-counts"})
  <1> DEFINE L == CountHandlers
  <1>1. Stated(L, 6)
    BY Plain1, Plain2, Plain3, HandlerIsRoute, RolesAreSets DEF CountHandlers, Stated, Get, Post, Patch
  <1>2. /\ Length(L, 1) = 1 /\ Length(L, 2) = 1
        /\ Length(L, 3) = 1 /\ Length(L, 4) = 2
        /\ Length(L, 5) = 3 /\ Length(L, 6) = 3
        /\ Method(L, 1) = "POST" /\ Method(L, 2) = "POST"
        /\ Method(L, 3) = "GET" /\ Method(L, 5) = "POST"
        /\ Method(L, 6) = "PATCH"
        /\ Word(L, 1, 1) = "adjustments" /\ Word(L, 2, 1) = "cycle-counts"
        /\ Word(L, 3, 1) = "cycle-counts" /\ Word(L, 4, 1) = "cycle-counts"
        /\ Word(L, 5, 1) = "cycle-counts" /\ Word(L, 6, 1) = "cycle-counts"
    BY HandlerIsRoute DEF CountHandlers, Get, Post, Patch, Method, Length, Word
  <1>3. Routes(L) /\ DOMAIN L = 1 .. 6
    BY <1>1, StatedRoutes, StatedDomain
  <1> HIDE DEF L
  <1>4. ASSUME NEW f \in 1 .. 6, NEW h \in 1 .. 6, f < h, Takes(L, f, L, h)
        PROVE  FALSE
    BY <1>2, <1>4 DEF Takes, Id
  <1>5. WordsAt(L, 1, {"adjustments", "cycle-counts"})
    BY <1>2, <1>3 DEF WordsAt
  <1> QED BY <1>3, <1>4, <1>5 DEF InOrder, L

LEMMA PerformanceHandlersInOrder ==
  /\ Routes(PerformanceHandlers) /\ InOrder(PerformanceHandlers)
  /\ WordsAt(PerformanceHandlers, 1, {"performance"})
  <1> DEFINE L == PerformanceHandlers
  <1>1. Stated(L, 2)
    BY Plain2, HandlerIsRoute, RolesAreSets DEF PerformanceHandlers, Stated, Get
  <1>2. /\ Length(L, 1) = 2 /\ Length(L, 2) = 2
        /\ Word(L, 1, 2) = "summary"
        /\ Word(L, 2, 2) = "bag-status"
        /\ \A i \in 1 .. 2 : Word(L, i, 1) = "performance"
    BY HandlerIsRoute DEF PerformanceHandlers, Get, Method, Length, Word
  <1>3. Routes(L) /\ DOMAIN L = 1 .. 2
    BY <1>1, StatedRoutes, StatedDomain
  <1> HIDE DEF L
  <1>4. ASSUME NEW f \in 1 .. 2, NEW h \in 1 .. 2, f < h, Takes(L, f, L, h)
        PROVE  FALSE
    BY <1>2, <1>4 DEF Takes, Id
  <1>5. WordsAt(L, 1, {"performance"})
    BY <1>2, <1>3 DEF WordsAt
  <1> QED BY <1>3, <1>4, <1>5 DEF InOrder, L

LEMMA ReportHandlersInOrder ==
  /\ Routes(ReportHandlers) /\ InOrder(ReportHandlers)
  /\ WordsAt(ReportHandlers, 1, {"reports"})
  <1> DEFINE L == ReportHandlers
  <1>1. Stated(L, 3)
    BY Plain2, HandlerIsRoute, RolesAreSets DEF ReportHandlers, Stated, Get
  <1>2. /\ Length(L, 1) = 2 /\ Length(L, 2) = 2
        /\ Length(L, 3) = 2
        /\ Word(L, 1, 2) = "transaction-volume"
        /\ Word(L, 2, 2) = "stock-position"
        /\ Word(L, 3, 2) = "variances"
        /\ \A i \in 1 .. 3 : Word(L, i, 1) = "reports"
    BY HandlerIsRoute DEF ReportHandlers, Get, Method, Length, Word
  <1>3. Routes(L) /\ DOMAIN L = 1 .. 3
    BY <1>1, StatedRoutes, StatedDomain
  <1> HIDE DEF L
  <1>4. ASSUME NEW f \in 1 .. 3, NEW h \in 1 .. 3, f < h, Takes(L, f, L, h)
        PROVE  FALSE
    BY <1>2, <1>4 DEF Takes, Id
  <1>5. WordsAt(L, 1, {"reports"})
    BY <1>2, <1>3 DEF WordsAt
  <1> QED BY <1>3, <1>4, <1>5 DEF InOrder, L

LEMMA IntegrationHandlersInOrder ==
  /\ Routes(IntegrationHandlers) /\ InOrder(IntegrationHandlers)
  /\ WordsAt(IntegrationHandlers, 1, {"integration"})
  <1> DEFINE L == IntegrationHandlers
  <1>1. Stated(L, 2)
    BY Plain2, Plain3, HandlerIsRoute, RolesAreSets DEF IntegrationHandlers, Stated, Get
  <1>2. /\ Length(L, 1) = 3 /\ Length(L, 2) = 2
        /\ \A i \in 1 .. 2 : Word(L, i, 1) = "integration"
    BY HandlerIsRoute DEF IntegrationHandlers, Get, Method, Length, Word
  <1>3. Routes(L) /\ DOMAIN L = 1 .. 2
    BY <1>1, StatedRoutes, StatedDomain
  <1> HIDE DEF L
  <1>4. ASSUME NEW f \in 1 .. 2, NEW h \in 1 .. 2, f < h, Takes(L, f, L, h)
        PROVE  FALSE
    BY <1>2, <1>4 DEF Takes, Id
  <1>5. WordsAt(L, 1, {"integration"})
    BY <1>2, <1>3 DEF WordsAt
  <1> QED BY <1>3, <1>4, <1>5 DEF InOrder, L

LEMMA TransactionHandlersInOrder ==
  /\ Routes(TransactionHandlers) /\ InOrder(TransactionHandlers)
  /\ WordsAt(TransactionHandlers, 1, {"bags", "transactions"})
  <1> DEFINE L == TransactionHandlers
  <1>1. Stated(L, 8)
    BY Plain1, Plain2, Plain3, HandlerIsRoute, RolesAreSets DEF TransactionHandlers, Stated, Get, Post
  <1>2. /\ Length(L, 1) = 1 /\ Length(L, 2) = 2
        /\ Length(L, 3) = 2 /\ Length(L, 4) = 2
        /\ Length(L, 5) = 2 /\ Length(L, 6) = 1
        /\ Length(L, 7) = 2 /\ Length(L, 8) = 3
        /\ Method(L, 1) = "POST" /\ Method(L, 2) = "POST"
        /\ Method(L, 3) = "POST" /\ Method(L, 4) = "POST"
        /\ Method(L, 5) = "POST" /\ Method(L, 6) = "GET"
        /\ Method(L, 7) = "GET"
        /\ Word(L, 1, 1) = "transactions"
        /\ Word(L, 2, 1) = "transactions"
        /\ Word(L, 2, 2) = "receive"
        /\ Word(L, 3, 1) = "transactions"
        /\ Word(L, 3, 2) = "issue"
        /\ Word(L, 4, 1) = "transactions"
        /\ Word(L, 4, 2) = "transfer"
        /\ Word(L, 5, 1) = "transactions"
        /\ Word(L, 5, 2) = "adjust"
        /\ Word(L, 6, 1) = "transactions"
        /\ Word(L, 7, 1) = "transactions"
        /\ Word(L, 8, 1) = "bags"
    BY HandlerIsRoute DEF TransactionHandlers, Get, Post, Method, Length, Word
  <1>3. Routes(L) /\ DOMAIN L = 1 .. 8
    BY <1>1, StatedRoutes, StatedDomain
  <1> HIDE DEF L
  <1>4. ASSUME NEW f \in 1 .. 8, NEW h \in 1 .. 8, f < h, Takes(L, f, L, h)
        PROVE  FALSE
    BY <1>2, <1>4 DEF Takes, Id
  <1>5. WordsAt(L, 1, {"bags", "transactions"})
    BY <1>2, <1>3 DEF WordsAt
  <1> QED BY <1>3, <1>4, <1>5 DEF InOrder, L

LEMMA ReservationHandlersInOrder ==
  /\ Routes(ReservationHandlers) /\ InOrder(ReservationHandlers)
  /\ WordsAt(ReservationHandlers, 1, {"bags", "orders", "reservations"})
  <1> DEFINE L == ReservationHandlers
  <1>1. Stated(L, 8)
    BY Plain1, Plain2, Plain3, HandlerIsRoute, RolesAreSets DEF ReservationHandlers, Stated, Get, Post
  <1>2. /\ Length(L, 1) = 1 /\ Length(L, 2) = 3
        /\ Length(L, 3) = 3 /\ Length(L, 4) = 3
        /\ Length(L, 5) = 1 /\ Length(L, 6) = 2
        /\ Length(L, 7) = 3 /\ Length(L, 8) = 3
        /\ Method(L, 1) = "POST" /\ Method(L, 2) = "POST"
        /\ Method(L, 3) = "POST" /\ Method(L, 4) = "POST"
        /\ Method(L, 5) = "GET" /\ Method(L, 7) = "GET"
        /\ Method(L, 8) = "GET"
        /\ Word(L, 1, 1) = "reservations"
        /\ Word(L, 2, 1) = "reservations"
        /\ Word(L, 2, 3) = "release"
        /\ Word(L, 3, 1) = "reservations"
        /\ Word(L, 3, 3) = "cancel"
        /\ Word(L, 4, 1) = "reservations"
        /\ Word(L, 4, 3) = "expire"
        /\ Word(L, 5, 1) = "reservations"
        /\ Word(L, 6, 1) = "reservations"
        /\ Word(L, 7, 1) = "bags" /\ Word(L, 8, 1) = "orders"
    BY HandlerIsRoute DEF ReservationHandlers, Get, Post, Method, Length, Word
  <1>3. Routes(L) /\ DOMAIN L = 1 .. 8
    BY <1>1, StatedRoutes, StatedDomain
  <1> HIDE DEF L
  <1>4. ASSUME NEW f \in 1 .. 8, NEW h \in 1 .. 8, f < h, Takes(L, f, L, h)
        PROVE  FALSE
    BY <1>2, <1>4 DEF Takes, Id
  <1>5. WordsAt(L, 1, {"bags", "orders", "reservations"})
    BY <1>2, <1>3 DEF WordsAt
  <1> QED BY <1>3, <1>4, <1>5 DEF InOrder, L

\* Groups are joined when a word tells their paths apart.
LEMMA JoinedByWord ==
  ASSUME NEW s, NEW t, NEW k \in Nat \ {0}, NEW V, NEW W, Routes(s), Routes(t), InOrder(s), InOrder(t),
         WordsAt(s, k, V), WordsAt(t, k, W), Id \notin V, V \intersect W = {}
  PROVE  Routes(s \o t) /\ InOrder(s \o t) /\ WordsAt(s \o t, k, V \union W)
  BY Joined, ApartByWord

\* Three groups have handlers for bags.
LEMMA BagPathsApart ==
  /\ Apart(MovementHandlers, TransactionHandlers)
  /\ Apart(MovementHandlers, ReservationHandlers)
  /\ Apart(TransactionHandlers, ReservationHandlers)
  <1> DEFINE L == MovementHandlers
             M == TransactionHandlers
             N == ReservationHandlers
  <1>1. /\ DOMAIN L = 1 .. 3
        /\ \A i \in 1 .. 3 : Length(L, i) = 3 /\ Method(L, i) = "POST" /\ Word(L, i, 1) = "bags"
    BY HandlerIsRoute DEF MovementHandlers, Post, Method, Length, Word
  <1>2. /\ DOMAIN M = 1 .. 8
        /\ Length(M, 1) = 1 /\ Length(M, 2) = 2 /\ Length(M, 3) = 2 /\ Length(M, 4) = 2
        /\ Length(M, 5) = 2 /\ Length(M, 6) = 1 /\ Length(M, 7) = 2 /\ Length(M, 8) = 3
        /\ \A i \in 1 .. 7 : Word(M, i, 1) = "transactions"
        /\ Method(M, 8) = "GET" /\ Word(M, 8, 1) = "bags" /\ Word(M, 8, 3) = "history"
    BY HandlerIsRoute DEF TransactionHandlers, Post, Get, Method, Length, Word
  <1>3. /\ DOMAIN N = 1 .. 8
        /\ Length(N, 7) = 3 /\ Method(N, 7) = "GET" /\ Word(N, 7, 3) = "reservations"
        /\ \A i \in 1 .. 6 : Word(N, i, 1) = "reservations"
        /\ Word(N, 8, 1) = "orders"
    BY HandlerIsRoute DEF ReservationHandlers, Post, Get, Method, Length, Word
  <1> HIDE DEF L, M, N
  <1>4. ASSUME NEW f \in 1 .. 3, NEW h \in 1 .. 8, Takes(L, f, M, h)
        PROVE  FALSE
    BY <1>1, <1>2, <1>4, TakesAlike
  <1>5. ASSUME NEW f \in 1 .. 3, NEW h \in 1 .. 8, Takes(L, f, N, h)
        PROVE  FALSE
    <2>1. Method(N, h) = "POST" /\ Word(N, h, 1) = "bags"
      BY <1>1, <1>5 DEF Takes, Id
    <2> QED BY <1>3, <2>1
  <1>6. ASSUME NEW f \in 1 .. 8, NEW h \in 1 .. 8, Takes(M, f, N, h)
        PROVE  FALSE
    <2>1. CASE f \in 1 .. 7
      <3>1. 1 \in 1 .. Length(M, f) /\ Word(M, f, 1) = "transactions"
        BY <1>2, <2>1
      <3>2. Word(N, h, 1) = "transactions"
        BY <1>6, <3>1 DEF Takes, Id
      <3>3. Word(N, h, 1) \in {"reservations", "orders"} \/ h = 7
        BY <1>3
      <3>4. h = 7 /\ Length(M, f) = 3
        BY <1>3, <1>6, <3>2, <3>3 DEF Takes
      <3> QED BY <1>2, <2>1, <3>4
    <2>2. CASE f = 8
      <3>1. Word(N, h, 1) = "bags" /\ Word(N, h, 3) = "history"
        BY <1>2, <1>6, <2>2 DEF Takes, Id
      <3> QED BY <1>3, <3>1
    <2> QED BY <2>1, <2>2
  <1> QED BY <1>1, <1>2, <1>3, <1>4, <1>5, <1>6 DEF Apart, L, M, N

\* The controller of the inventory.
LEMMA InventoryInOrder ==
  /\ Routes(InventoryController) /\ InOrder(InventoryController)
  /\ WordsAt(InventoryController, 1, {"inventory"})
  <1> DEFINE s1 == MovementHandlers \o AvailabilityHandlers
             s2 == s1 \o BalanceHandlers
             s3 == s2 \o CountHandlers
             s4 == s3 \o PerformanceHandlers
             s5 == s4 \o ReportHandlers
             s6 == s5 \o IntegrationHandlers
             s7 == s6 \o TransactionHandlers
             Good(s, V) == Routes(s) /\ InOrder(s) /\ WordsAt(s, 1, V)
             Joint(s) == Apart(s, TransactionHandlers) /\ Apart(s, ReservationHandlers)
  <1>1. ASSUME NEW s, NEW V, NEW t, NEW W, Good(s, V), Good(t, W), Id \notin V, V \intersect W = {}
        PROVE  Good(s \o t, V \union W)
    BY <1>1, JoinedByWord
  <1>2. ASSUME NEW t, NEW W, Good(t, W), Id \notin W,
               "bags" \notin W, "transactions" \notin W, "reservations" \notin W, "orders" \notin W
        PROVE  Joint(t)
    BY <1>2, ApartByWord, TransactionHandlersInOrder, ReservationHandlersInOrder
  <1>3. ASSUME NEW s, NEW t, Routes(s), Routes(t), Joint(s), Joint(t)
        PROVE  Joint(s \o t)
    BY <1>3, Joined
  <1>4. /\ Good(MovementHandlers, {"bags"}) /\ Good(AvailabilityHandlers, {"availability"})
        /\ Good(BalanceHandlers, {"balance"}) /\ Good(CountHandlers, {"adjustments", "cycle-counts"})
        /\ Good(PerformanceHandlers, {"performance"}) /\ Good(ReportHandlers, {"reports"})
        /\ Good(IntegrationHandlers, {"integration"})
    BY MovementHandlersInOrder, AvailabilityHandlersInOrder, BalanceHandlersInOrder, CountHandlersInOrder,
       PerformanceHandlersInOrder, ReportHandlersInOrder, IntegrationHandlersInOrder
  <1>5. /\ Joint(MovementHandlers) /\ Joint(AvailabilityHandlers) /\ Joint(BalanceHandlers)
        /\ Joint(CountHandlers) /\ Joint(PerformanceHandlers) /\ Joint(ReportHandlers)
        /\ Joint(IntegrationHandlers)
    <2>1. Joint(MovementHandlers)
      BY BagPathsApart
    <2> HIDE DEF Good, Joint
    <2> QED BY <1>2, <1>4, <2>1 DEF Id
  <1> DEFINE V1 == {"bags"} \union {"availability"}
             V2 == V1 \union {"balance"}
             V3 == V2 \union {"adjustments", "cycle-counts"}
             V4 == V3 \union {"performance"}
             V5 == V4 \union {"reports"}
  <1> HIDE DEF Good, Joint, s1, s2, s3, s4, s5, s6, s7
  <1>6. Good(s1, V1) /\ Joint(s1)
    BY <1>1, <1>3, <1>4, <1>5 DEF s1, Id, Good
  <1>7. Good(s2, V2) /\ Joint(s2)
    BY <1>1, <1>3, <1>4, <1>5, <1>6 DEF s2, Id, Good
  <1>8. Good(s3, V3) /\ Joint(s3)
    BY <1>1, <1>3, <1>4, <1>5, <1>7 DEF s3, Id, Good
  <1>9. Good(s4, V4) /\ Joint(s4)
    BY <1>1, <1>3, <1>4, <1>5, <1>8 DEF s4, Id, Good
  <1>10. Good(s5, V5) /\ Joint(s5)
    BY <1>1, <1>3, <1>4, <1>5, <1>9 DEF s5, Id, Good
  <1>11. Good(s6, V5 \union {"integration"}) /\ Joint(s6)
    BY <1>1, <1>3, <1>4, <1>5, <1>10 DEF s6, Id, Good
  <1>12. Routes(s7) /\ InOrder(s7) /\ Apart(s7, ReservationHandlers)
    BY <1>11, Joined, TransactionHandlersInOrder, BagPathsApart DEF s7, Good, Joint
  <1>13. Routes(InventoryHandlers) /\ InOrder(InventoryHandlers)
    <2>1. Routes(s7 \o ReservationHandlers) /\ InOrder(s7 \o ReservationHandlers)
      BY <1>12, Joined, ReservationHandlersInOrder
    <2> QED BY <2>1 DEF InventoryHandlers, s1, s2, s3, s4, s5, s6, s7
  <1> QED BY <1>13, UnderOne, RolesAreSets DEF InventoryController

\* The controllers of production that share no more than their first word.
LEMMA ProductionWipInOrder ==
  /\ Routes(ProductionWipController) /\ InOrder(ProductionWipController)
  /\ WordsAt(ProductionWipController, 1, {"production"})
  /\ WordsAt(ProductionWipController, 2, {"progress", "wip"})
  <1>1. PICK L : /\ ProductionWipController = Under(<<"production">>, Everyone, L)
                 /\ Stated(L, 4)
                 /\ Length(L, 1) = 1 /\ Length(L, 2) = 2 /\ Length(L, 3) = 2 /\ Length(L, 4) = 1
                 /\ Word(L, 1, 1) = "wip" /\ Word(L, 2, 1) = "wip" /\ Word(L, 2, 2) = "history"
                 /\ Word(L, 3, 1) = "wip" /\ Word(L, 3, 2) = Id /\ Word(L, 4, 1) = "progress"
    BY Plain1, Plain2, HandlerIsRoute, RolesAreSets
       DEF ProductionWipController, Stated, Get, Method, Length, Word, Id
  <1>2. Routes(L) /\ DOMAIN L = 1 .. 4
    BY <1>1, StatedRoutes, StatedDomain
  <1>3. ASSUME NEW f \in 1 .. 4, NEW h \in 1 .. 4, f < h, Takes(L, f, L, h)
        PROVE  FALSE
    BY <1>1, <1>3 DEF Takes, Id
  <1>4. WordsAt(L, 1, {"progress", "wip"})
    BY <1>1, <1>2 DEF WordsAt
  <1> QED BY <1>1, <1>2, <1>3, <1>4, UnderOne, RolesAreSets DEF InOrder

LEMMA ProductionQualityInOrder ==
  /\ Routes(ProductionQualityController) /\ InOrder(ProductionQualityController)
  /\ WordsAt(ProductionQualityController, 1, {"production"})
  /\ WordsAt(ProductionQualityController, 2, {"quality"})
  <1>1. PICK L : /\ ProductionQualityController = Under(<<"production">>, Unstated, L)
                 /\ Stated(L, 5)
                 /\ Length(L, 1) = 1 /\ Length(L, 2) = 1 /\ Length(L, 3) = 2 /\ Length(L, 4) = 2
                 /\ Length(L, 5) = 2
                 /\ Method(L, 1) = "POST" /\ Method(L, 2) = "GET"
                 /\ Word(L, 3, 2) = "summary" /\ Word(L, 4, 2) = "history" /\ Word(L, 5, 2) = Id
                 /\ \A i \in 1 .. 5 : Word(L, i, 1) = "quality"
    BY Plain1, Plain2, HandlerIsRoute, RolesAreSets
       DEF ProductionQualityController, Stated, Get, Post, Method, Length, Word, Id
  <1>2. Routes(L) /\ DOMAIN L = 1 .. 5
    BY <1>1, StatedRoutes, StatedDomain
  <1>3. ASSUME NEW f \in 1 .. 5, NEW h \in 1 .. 5, f < h, Takes(L, f, L, h)
        PROVE  FALSE
    BY <1>1, <1>3 DEF Takes, Id
  <1>4. WordsAt(L, 1, {"quality"})
    BY <1>1, <1>2 DEF WordsAt
  <1> QED BY <1>1, <1>2, <1>3, <1>4, UnderOne, RolesAreSets DEF InOrder

LEMMA ProductionReturnsInOrder ==
  /\ Routes(ProductionReturnsController) /\ InOrder(ProductionReturnsController)
  /\ WordsAt(ProductionReturnsController, 1, {"production"})
  /\ WordsAt(ProductionReturnsController, 2, {"returns"})
  <1>1. PICK L : /\ ProductionReturnsController = Under(<<"production">>, Unstated, L)
                 /\ Stated(L, 5)
                 /\ Length(L, 1) = 1 /\ Length(L, 2) = 1 /\ Length(L, 3) = 2 /\ Length(L, 4) = 2
                 /\ Length(L, 5) = 2
                 /\ Method(L, 1) = "POST" /\ Method(L, 2) = "GET"
                 /\ Word(L, 3, 2) = "summary" /\ Word(L, 4, 2) = "history" /\ Word(L, 5, 2) = Id
                 /\ \A i \in 1 .. 5 : Word(L, i, 1) = "returns"
    BY Plain1, Plain2, HandlerIsRoute, RolesAreSets
       DEF ProductionReturnsController, Stated, Get, Post, Method, Length, Word, Id
  <1>2. Routes(L) /\ DOMAIN L = 1 .. 5
    BY <1>1, StatedRoutes, StatedDomain
  <1>3. ASSUME NEW f \in 1 .. 5, NEW h \in 1 .. 5, f < h, Takes(L, f, L, h)
        PROVE  FALSE
    BY <1>1, <1>3 DEF Takes, Id
  <1>4. WordsAt(L, 1, {"returns"})
    BY <1>1, <1>2 DEF WordsAt
  <1> QED BY <1>1, <1>2, <1>3, <1>4, UnderOne, RolesAreSets DEF InOrder

LEMMA ProductionPackingInOrder ==
  /\ Routes(ProductionPackingController) /\ InOrder(ProductionPackingController)
  /\ WordsAt(ProductionPackingController, 1, {"production"})
  /\ WordsAt(ProductionPackingController, 2, {"packing"})
  <1>1. PICK L : /\ ProductionPackingController = Under(<<"production">>, Unstated, L)
                 /\ Stated(L, 8)
                 /\ Length(L, 1) = 1 /\ Length(L, 2) = 3 /\ Length(L, 3) = 3 /\ Length(L, 4) = 3
                 /\ Length(L, 5) = 2 /\ Length(L, 6) = 2 /\ Length(L, 7) = 1 /\ Length(L, 8) = 2
                 /\ Method(L, 1) = "POST" /\ Method(L, 2) = "POST" /\ Method(L, 3) = "PATCH"
                 /\ Method(L, 4) = "PATCH" /\ Method(L, 7) = "GET"
                 /\ Word(L, 3, 3) = "verify" /\ Word(L, 4, 3) = "post" /\ Word(L, 5, 2) = "summary"
                 /\ Word(L, 6, 2) = "history" /\ Word(L, 8, 2) = Id
                 /\ \A i \in 1 .. 8 : Word(L, i, 1) = "packing"
    BY Plain1, Plain2, Plain3, HandlerIsRoute, RolesAreSets
       DEF ProductionPackingController, Stated, Get, Post, Patch, Method, Length, Word, Id
  <1>2. Routes(L) /\ DOMAIN L = 1 .. 8
    BY <1>1, StatedRoutes, StatedDomain
  <1>3. ASSUME NEW f \in 1 .. 8, NEW h \in 1 .. 8, f < h, Takes(L, f, L, h)
        PROVE  FALSE
    BY <1>1, <1>3 DEF Takes, Id
  <1>4. WordsAt(L, 1, {"packing"})
    BY <1>1, <1>2 DEF WordsAt
  <1> QED BY <1>1, <1>2, <1>3, <1>4, UnderOne, RolesAreSets DEF InOrder

LEMMA ProductionFinishedGoodsInOrder ==
  /\ Routes(ProductionFinishedGoodsController) /\ InOrder(ProductionFinishedGoodsController)
  /\ WordsAt(ProductionFinishedGoodsController, 1, {"production"})
  /\ WordsAt(ProductionFinishedGoodsController, 2, {"finished-goods"})
  <1>1. PICK L : /\ ProductionFinishedGoodsController = Under(<<"production">>, Unstated, L)
                 /\ Stated(L, 6)
                 /\ Length(L, 1) = 1 /\ Length(L, 2) = 2 /\ Length(L, 3) = 2 /\ Length(L, 4) = 2
                 /\ Length(L, 5) = 1 /\ Length(L, 6) = 2
                 /\ Method(L, 1) = "POST" /\ Method(L, 5) = "GET"
                 /\ Word(L, 2, 2) = "summary" /\ Word(L, 3, 2) = "history"
                 /\ Word(L, 4, 2) = "dashboard" /\ Word(L, 6, 2) = Id
                 /\ \A i \in 1 .. 6 : Word(L, i, 1) = "finished-goods"
    BY Plain1, Plain2, HandlerIsRoute, RolesAreSets
       DEF ProductionFinishedGoodsController, Stated, Get, Post, Method, Length, Word, Id
  <1>2. Routes(L) /\ DOMAIN L = 1 .. 6
    BY <1>1, StatedRoutes, StatedDomain
  <1>3. ASSUME NEW f \in 1 .. 6, NEW h \in 1 .. 6, f < h, Takes(L, f, L, h)
        PROVE  FALSE
    BY <1>1, <1>3 DEF Takes, Id
  <1>4. WordsAt(L, 1, {"finished-goods"})
    BY <1>1, <1>2 DEF WordsAt
  <1> QED BY <1>1, <1>2, <1>3, <1>4, UnderOne, RolesAreSets DEF InOrder

LEMMA ProductionSupplementaryInOrder ==
  /\ Routes(ProductionSupplementaryController) /\ InOrder(ProductionSupplementaryController)
  /\ WordsAt(ProductionSupplementaryController, 1, {"production"})
  /\ WordsAt(ProductionSupplementaryController, 2, {"supplementary"})
  <1>1. PICK L : /\ ProductionSupplementaryController = Under(<<"production">>, Unstated, L)
                 /\ Stated(L, 10)
                 /\ Length(L, 1) = 1 /\ Length(L, 2) = 2 /\ Length(L, 3) = 2 /\ Length(L, 4) = 2
                 /\ Length(L, 5) = 1 /\ Length(L, 6) = 2 /\ Length(L, 7) = 3 /\ Length(L, 8) = 3
                 /\ Length(L, 9) = 3 /\ Length(L, 10) = 3
                 /\ Method(L, 1) = "POST" /\ Method(L, 5) = "GET"
                 /\ Word(L, 2, 2) = "summary" /\ Word(L, 3, 2) = "history"
                 /\ Word(L, 4, 2) = "dashboard" /\ Word(L, 6, 2) = Id /\ Word(L, 7, 3) = "approve"
                 /\ Word(L, 8, 3) = "reject" /\ Word(L, 9, 3) = "transfer"
                 /\ Word(L, 10, 3) = "cancel"
                 /\ \A i \in 1 .. 10 : Word(L, i, 1) = "supplementary"
    BY Plain1, Plain2, Plain3, HandlerIsRoute, RolesAreSets
       DEF ProductionSupplementaryController, Stated, Get, Post, Patch, Method, Length, Word, Id
  <1>2. Routes(L) /\ DOMAIN L = 1 .. 10
    BY <1>1, StatedRoutes, StatedDomain
  <1>3. ASSUME NEW f \in 1 .. 10, NEW h \in 1 .. 10, f < h, Takes(L, f, L, h)
        PROVE  FALSE
    BY <1>1, <1>3 DEF Takes, Id
  <1>4. WordsAt(L, 1, {"supplementary"})
    BY <1>1, <1>2 DEF WordsAt
  <1> QED BY <1>1, <1>2, <1>3, <1>4, UnderOne, RolesAreSets DEF InOrder

LEMMA ProductionReportingInOrder ==
  /\ Routes(ProductionReportingController) /\ InOrder(ProductionReportingController)
  /\ WordsAt(ProductionReportingController, 1, {"production"})
  /\ WordsAt(ProductionReportingController, 2, {"reports"})
  <1>1. PICK L : /\ ProductionReportingController = Under(<<"production", "reports">>, Unstated, L)
                 /\ Stated(L, 12)
                 /\ Length(L, 1) = 1 /\ Length(L, 2) = 1 /\ Length(L, 3) = 1 /\ Length(L, 4) = 1
                 /\ Length(L, 5) = 1 /\ Length(L, 6) = 1 /\ Length(L, 7) = 1 /\ Length(L, 8) = 1
                 /\ Length(L, 9) = 1 /\ Length(L, 10) = 1 /\ Length(L, 11) = 1 /\ Length(L, 12) = 1
                 /\ Word(L, 1, 1) = "dashboard" /\ Word(L, 2, 1) = "summary"
                 /\ Word(L, 3, 1) = "kpis" /\ Word(L, 4, 1) = "orders" /\ Word(L, 5, 1) = "stages"
                 /\ Word(L, 6, 1) = "wip" /\ Word(L, 7, 1) = "scrap" /\ Word(L, 8, 1) = "quality"
                 /\ Word(L, 9, 1) = "packing" /\ Word(L, 10, 1) = "finished-goods"
                 /\ Word(L, 11, 1) = "supplementary" /\ Word(L, 12, 1) = "historical"
    BY Plain1, HandlerIsRoute, RolesAreSets
       DEF ProductionReportingController, Stated, Get, Method, Length, Word
  <1>2. Routes(L) /\ DOMAIN L = 1 .. 12
    BY <1>1, StatedRoutes, StatedDomain
  <1>3. ASSUME NEW f \in 1 .. 12, NEW h \in 1 .. 12, f < h, Takes(L, f, L, h)
        PROVE  FALSE
    BY <1>1, <1>3 DEF Takes, Id
  <1> QED BY <1>1, <1>2, <1>3, UnderTwo, RolesAreSets DEF InOrder

\* The three controllers of the orders, whose paths begin alike: the fourth word
\* of a path, or the second, tells their handlers apart.
LEMMA ProductionOrdersAt ==
  /\ Routes(ProductionController) /\ InOrder(ProductionController)
  /\ WordsAt(ProductionController, 1, {"production"})
  /\ WordsAt(ProductionController, 2, {"orders"})
  /\ \A i \in DOMAIN ProductionController :
        /\ Length(ProductionController, i) \in 2 .. 4
        /\ Length(ProductionController, i) = 4 =>
              Word(ProductionController, i, 4) \in {"plan", "start", "complete", "close"}
  <1> DEFINE S == ProductionController
             P == <<"production", "orders">>
  <1>1. PICK L : /\ S = Under(P, Everyone, L)
                 /\ Stated(L, 8)
                 /\ Length(L, 1) = 0 /\ Length(L, 2) = 0 /\ Length(L, 3) = 1 /\ Length(L, 4) = 1
                 /\ Length(L, 5) = 2 /\ Length(L, 6) = 2 /\ Length(L, 7) = 2 /\ Length(L, 8) = 2
                 /\ Method(L, 1) = "POST" /\ Method(L, 2) = "GET" /\ Method(L, 3) = "GET"
                 /\ Method(L, 4) = "PATCH"
                 /\ Word(L, 5, 2) = "plan" /\ Word(L, 6, 2) = "start"
                 /\ Word(L, 7, 2) = "complete" /\ Word(L, 8, 2) = "close"
    BY PlainEmpty, Plain1, Plain2, HandlerIsRoute, RolesAreSets
       DEF ProductionController, Stated, Get, Post, Patch, Method, Length, Word
  <1>2. Routes(L) /\ DOMAIN L = 1 .. 8
    BY <1>1, StatedRoutes, StatedDomain
  <1>3. ASSUME NEW f \in 1 .. 8, NEW h \in 1 .. 8, f < h, Takes(L, f, L, h)
        PROVE  FALSE
    BY <1>1, <1>3 DEF Takes, Id
  <1>4. InOrder(L)
    BY <1>2, <1>3 DEF InOrder
  <1>5. Plain(P) /\ Len(P) = 2
    BY Plain2
  <1>6. /\ Routes(S) /\ InOrder(S) /\ DOMAIN S = 1 .. 8
        /\ WordsAt(S, 1, {"production"}) /\ WordsAt(S, 2, {"orders"})
    <2>1. S = Under(P, Everyone, L)
      BY <1>1
    <2> HIDE DEF S
    <2> QED BY <1>2, <1>4, <2>1, UnderTwo, RolesAreSets
  <1> HIDE DEF S, P
  <1>7. ASSUME NEW i \in DOMAIN S
        PROVE  /\ Length(S, i) \in 2 .. 4
               /\ Length(S, i) = 4 => Word(S, i, 4) \in {"plan", "start", "complete", "close"}
    <2>1. i \in 1 .. 8
      BY <1>6
    <2>2. /\ Length(L, i) \in 0 .. 2
          /\ Length(L, i) = 2 => Word(L, i, 2) \in {"plan", "start", "complete", "close"}
      BY <1>1, <2>1
    <2>3. Plain(P) /\ S = Under(P, Everyone, L) /\ Everyone \in RoleSets /\ Routes(L) /\ i \in DOMAIN L
      BY <1>1, <1>2, <1>5, <2>1, RolesAreSets
    <2>4. /\ Length(S, i) = Len(P) + Length(L, i)
          /\ \A k \in 1 .. Length(L, i) : Word(S, i, Len(P) + k) = Word(L, i, k)
      BY <2>3, UnderAt
    <2>5. Length(S, i) = 4 => 2 \in 1 .. Length(L, i) /\ Length(L, i) = 2
      BY <1>5, <2>2, <2>4
    <2>6. Length(S, i) = 4 => Word(S, i, Len(P) + 2) = Word(L, i, 2)
      BY <2>4, <2>5
    <2> QED BY <1>5, <2>2, <2>4, <2>5, <2>6
  <1> QED BY <1>6, <1>7 DEF S

\* The releases of an order, and a release.
LEMMA MaterialReleaseAt ==
  /\ Routes(MaterialReleaseController) /\ InOrder(MaterialReleaseController)
  /\ WordsAt(MaterialReleaseController, 1, {"production"})
  /\ WordsAt(MaterialReleaseController, 2, {"orders", "release-groups"})
  /\ \A i \in DOMAIN MaterialReleaseController :
        \/ (/\ Length(MaterialReleaseController, i) = 4
            /\ Word(MaterialReleaseController, i, 4) = "release-groups")
        \/ (/\ Length(MaterialReleaseController, i) = 3
            /\ Word(MaterialReleaseController, i, 2) = "release-groups")
  <1> DEFINE S == MaterialReleaseController
             P == <<"production">>
  <1>1. PICK L : /\ S = Under(P, Everyone, L)
                 /\ Stated(L, 3)
                 /\ Length(L, 1) = 3 /\ Length(L, 2) = 3 /\ Length(L, 3) = 2
                 /\ Method(L, 1) = "POST" /\ Method(L, 2) = "GET"
                 /\ Word(L, 1, 1) = "orders" /\ Word(L, 2, 1) = "orders" /\ Word(L, 3, 1) = "release-groups"
                 /\ Word(L, 1, 3) = "release-groups" /\ Word(L, 2, 3) = "release-groups"
    BY Plain2, Plain3, HandlerIsRoute, RolesAreSets
       DEF MaterialReleaseController, Stated, Get, Post, Method, Length, Word
  <1>2. Routes(L) /\ DOMAIN L = 1 .. 3
    BY <1>1, StatedRoutes, StatedDomain
  <1>3. ASSUME NEW f \in 1 .. 3, NEW h \in 1 .. 3, f < h, Takes(L, f, L, h)
        PROVE  FALSE
    BY <1>1, <1>3 DEF Takes
  <1>4. InOrder(L) /\ WordsAt(L, 1, {"orders", "release-groups"})
    BY <1>1, <1>2, <1>3 DEF InOrder, WordsAt
  <1>5. Plain(P) /\ Len(P) = 1
    BY Plain1
  <1>6. /\ Routes(S) /\ InOrder(S) /\ DOMAIN S = 1 .. 3
        /\ WordsAt(S, 1, {"production"}) /\ WordsAt(S, 2, {"orders", "release-groups"})
    BY <1>1, <1>2, <1>4, UnderOne, RolesAreSets
  <1> HIDE DEF S, P
  <1>7. ASSUME NEW i \in 1 .. 3
        PROVE  \/ (Length(S, i) = 4 /\ Word(S, i, 4) = "release-groups")
               \/ (Length(S, i) = 3 /\ Word(S, i, 2) = "release-groups")
    <2>1. \/ (Length(L, i) = 3 /\ Word(L, i, 3) = "release-groups")
          \/ (Length(L, i) = 2 /\ Word(L, i, 1) = "release-groups")
      BY <1>1
    <2>2. Plain(P) /\ S = Under(P, Everyone, L) /\ Everyone \in RoleSets /\ Routes(L) /\ i \in DOMAIN L
      BY <1>1, <1>2, <1>5, RolesAreSets
    <2>3. /\ Length(S, i) = Len(P) + Length(L, i)
          /\ \A k \in 1 .. Length(L, i) : Word(S, i, Len(P) + k) = Word(L, i, k)
      BY <2>2, UnderAt
    <2>4. CASE Length(L, i) = 3 /\ Word(L, i, 3) = "release-groups"
      <3>1. Word(S, i, Len(P) + 3) = Word(L, i, 3)
        BY <2>3, <2>4
      <3> QED BY <1>5, <2>3, <2>4, <3>1
    <2>5. CASE Length(L, i) = 2 /\ Word(L, i, 1) = "release-groups"
      <3>1. Word(S, i, Len(P) + 1) = Word(L, i, 1)
        BY <2>3, <2>5
      <3> QED BY <1>5, <2>3, <2>5, <3>1
    <2> QED BY <2>1, <2>4, <2>5
  <1> QED BY <1>6, <1>7 DEF S

\* The stages of an order.
LEMMA OrderStagesAt ==
  /\ Routes(ProductionOrderStagesController) /\ InOrder(ProductionOrderStagesController)
  /\ WordsAt(ProductionOrderStagesController, 1, {"production"})
  /\ WordsAt(ProductionOrderStagesController, 2, {"orders"})
  /\ WordsAt(ProductionOrderStagesController, 4, {"stages"})
  <1> DEFINE S == ProductionOrderStagesController
             P == <<"production">>
  <1>1. PICK L : /\ S = Under(P, Everyone, L)
                 /\ Stated(L, 4)
                 /\ Length(L, 1) = 3 /\ Length(L, 2) = 4 /\ Length(L, 3) = 5 /\ Length(L, 4) = 5
                 /\ Method(L, 3) = "PATCH" /\ Method(L, 4) = "POST"
                 /\ \A i \in 1 .. 4 : Word(L, i, 1) = "orders" /\ Word(L, i, 3) = "stages"
    BY Plain3, Plain4, Plain5, HandlerIsRoute, RolesAreSets
       DEF ProductionOrderStagesController, Stated, Get, Post, Patch, Method, Length, Word
  <1>2. Routes(L) /\ DOMAIN L = 1 .. 4
    BY <1>1, StatedRoutes, StatedDomain
  <1>3. ASSUME NEW f \in 1 .. 4, NEW h \in 1 .. 4, f < h, Takes(L, f, L, h)
        PROVE  FALSE
    BY <1>1, <1>3 DEF Takes
  <1>4. InOrder(L) /\ WordsAt(L, 1, {"orders"})
    BY <1>1, <1>2, <1>3 DEF InOrder, WordsAt
  <1>5. Plain(P) /\ Len(P) = 1
    BY Plain1
  <1>6. /\ Routes(S) /\ InOrder(S) /\ DOMAIN S = 1 .. 4
        /\ WordsAt(S, 1, {"production"}) /\ WordsAt(S, 2, {"orders"})
    BY <1>1, <1>2, <1>4, UnderOne, RolesAreSets
  <1> HIDE DEF S, P
  <1>7. ASSUME NEW i \in 1 .. 4
        PROVE  Length(S, i) >= 4 /\ Word(S, i, 4) = "stages"
    <2>1. Length(L, i) \in 3 .. 5 /\ 3 \in 1 .. Length(L, i) /\ Word(L, i, 3) = "stages"
      BY <1>1
    <2>2. Plain(P) /\ S = Under(P, Everyone, L) /\ Everyone \in RoleSets /\ Routes(L) /\ i \in DOMAIN L
      BY <1>1, <1>2, <1>5, RolesAreSets
    <2>3. /\ Length(S, i) = Len(P) + Length(L, i)
          /\ \A k \in 1 .. Length(L, i) : Word(S, i, Len(P) + k) = Word(L, i, k)
      BY <2>2, UnderAt
    <2>4. Word(S, i, Len(P) + 3) = Word(L, i, 3)
      BY <2>1, <2>3
    <2> QED BY <1>5, <2>1, <2>3, <2>4
  <1>8. WordsAt(S, 4, {"stages"})
    BY <1>6, <1>7 DEF WordsAt
  <1> QED BY <1>6, <1>8 DEF S

\* None of the three takes a request for another.
LEMMA OrderPathsApart ==
  /\ Apart(ProductionController, MaterialReleaseController)
  /\ Apart(ProductionController, ProductionOrderStagesController)
  /\ Apart(MaterialReleaseController, ProductionOrderStagesController)
  <1> DEFINE S == ProductionController
             T == MaterialReleaseController
             U == ProductionOrderStagesController
  <1>1. /\ WordsAt(S, 2, {"orders"})
        /\ \A i \in DOMAIN S :
              /\ Length(S, i) \in 2 .. 4
              /\ Length(S, i) = 4 => Word(S, i, 4) \in {"plan", "start", "complete", "close"}
    BY ProductionOrdersAt
  <1>2. \A i \in DOMAIN T : \/ (Length(T, i) = 4 /\ Word(T, i, 4) = "release-groups")
                            \/ (Length(T, i) = 3 /\ Word(T, i, 2) = "release-groups")
    BY MaterialReleaseAt
  <1>3. \A i \in DOMAIN U : Length(U, i) >= 4 /\ Word(U, i, 4) = "stages"
    BY OrderStagesAt DEF WordsAt
  <1> HIDE DEF S, T, U
  <1>4. ASSUME NEW f \in DOMAIN S, NEW h \in DOMAIN T, Takes(S, f, T, h)
        PROVE  FALSE
    <2>1. CASE Length(T, h) = 4 /\ Word(T, h, 4) = "release-groups"
      BY <1>1, <1>4, <2>1 DEF Takes, Id
    <2>2. CASE Length(T, h) = 3 /\ Word(T, h, 2) = "release-groups"
      BY <1>1, <1>4, <2>2 DEF Takes, Id, WordsAt
    <2> QED BY <1>2, <2>1, <2>2
  <1>5. ASSUME NEW f \in DOMAIN S, NEW h \in DOMAIN U, Takes(S, f, U, h)
        PROVE  FALSE
    <2>1. Length(S, f) = 4
      BY <1>1, <1>3, <1>5, TakesAlike
    <2> QED BY <1>1, <1>3, <1>5, <2>1 DEF Takes, Id
  <1>6. ASSUME NEW f \in DOMAIN T, NEW h \in DOMAIN U, Takes(T, f, U, h)
        PROVE  FALSE
    <2>1. Length(T, f) = 4 /\ Word(T, f, 4) = "release-groups"
      BY <1>2, <1>3, <1>6, TakesAlike
    <2> QED BY <1>3, <1>6, <2>1 DEF Takes, Id
  <1> QED BY <1>4, <1>5, <1>6 DEF Apart, S, T, U

\* The module of production.
LEMMA ProductionInOrder ==
  /\ Routes(ProductionModule) /\ InOrder(ProductionModule)
  /\ WordsAt(ProductionModule, 1, {"production"})
  <1> DEFINE s1 == ProductionController \o MaterialReleaseController
             s2 == s1 \o ProductionOrderStagesController
             s3 == s2 \o ProductionWipController
             s4 == s3 \o ProductionQualityController
             s5 == s4 \o ProductionReturnsController
             s6 == s5 \o ProductionPackingController
             s7 == s6 \o ProductionFinishedGoodsController
             s8 == s7 \o ProductionSupplementaryController
             s9 == s8 \o ProductionReportingController
             V2 == {"orders"} \union {"orders", "release-groups"} \union {"orders"}
             V3 == V2 \union {"progress", "wip"}
             V4 == V3 \union {"quality"}
             V5 == V4 \union {"returns"}
             V6 == V5 \union {"packing"}
             V7 == V6 \union {"finished-goods"}
             V8 == V7 \union {"supplementary"}
             Good(s, V) == /\ Routes(s) /\ InOrder(s)
                           /\ WordsAt(s, 1, {"production"}) /\ WordsAt(s, 2, V)
  <1>1. ASSUME NEW s, NEW V, NEW t, NEW W, Good(s, V), Good(t, W), Apart(s, t)
        PROVE  Good(s \o t, V \union W)
    <2>1. {"production"} \union {"production"} = {"production"}
      OBVIOUS
    <2>2. WordsAt(s \o t, 1, {"production"})
      BY <1>1, <2>1, Joined
    <2> QED BY <1>1, <2>2, Joined
  <1>2. ASSUME NEW s, NEW V, NEW t, NEW W, Good(s, V), Good(t, W), Id \notin V, V \intersect W = {}
        PROVE  Good(s \o t, V \union W)
    BY <1>1, <1>2, ApartByWord
  <1>3. /\ Good(ProductionController, {"orders"})
        /\ Good(MaterialReleaseController, {"orders", "release-groups"})
        /\ Good(ProductionOrderStagesController, {"orders"})
    BY ProductionOrdersAt, MaterialReleaseAt, OrderStagesAt
  <1>4. /\ Good(ProductionWipController, {"progress", "wip"})
        /\ Good(ProductionQualityController, {"quality"})
        /\ Good(ProductionReturnsController, {"returns"})
        /\ Good(ProductionPackingController, {"packing"})
        /\ Good(ProductionFinishedGoodsController, {"finished-goods"})
        /\ Good(ProductionSupplementaryController, {"supplementary"})
        /\ Good(ProductionReportingController, {"reports"})
    BY ProductionWipInOrder, ProductionQualityInOrder, ProductionReturnsInOrder, ProductionPackingInOrder,
       ProductionFinishedGoodsInOrder, ProductionSupplementaryInOrder, ProductionReportingInOrder
  <1>5. Good(s2, V2)
    <2>1. Good(s1, {"orders"} \union {"orders", "release-groups"})
      BY <1>1, <1>3, OrderPathsApart
    <2>2. Apart(s1, ProductionOrderStagesController)
      BY <1>3, OrderPathsApart, Joined
    <2> HIDE DEF s1, Good
    <2> QED BY <1>1, <1>3, <2>1, <2>2
  <1> HIDE DEF Good, s1, s2, s3, s4, s5, s6, s7, s8, s9
  <1>6. Good(s3, V3)
    BY <1>2, <1>4, <1>5 DEF s3, Id
  <1>7. Good(s4, V4)
    BY <1>2, <1>4, <1>6 DEF s4, Id
  <1>8. Good(s5, V5)
    BY <1>2, <1>4, <1>7 DEF s5, Id
  <1>9. Good(s6, V6)
    BY <1>2, <1>4, <1>8 DEF s6, Id
  <1>10. Good(s7, V7)
    BY <1>2, <1>4, <1>9 DEF s7, Id
  <1>11. Good(s8, V8)
    BY <1>2, <1>4, <1>10 DEF s8, Id
  <1>12. Good(s9, V8 \union {"reports"})
    BY <1>2, <1>4, <1>11 DEF s9, Id
  <1> QED BY <1>12 DEF ProductionModule, Good, s1, s2, s3, s4, s5, s6, s7, s8, s9

\* The controllers of master data.
LEMMA TablesInOrder ==
  /\ Routes(DepartmentsController) /\ InOrder(DepartmentsController)
  /\ WordsAt(DepartmentsController, 1, {"organization"}) /\ WordsAt(DepartmentsController, 2, {"departments"})
  /\ Routes(WorkingShiftsController) /\ InOrder(WorkingShiftsController)
  /\ WordsAt(WorkingShiftsController, 1, {"organization"}) /\ WordsAt(WorkingShiftsController, 2, {"working-shifts"})
  /\ Routes(ColorsController) /\ InOrder(ColorsController)
  /\ WordsAt(ColorsController, 1, {"measurements"}) /\ WordsAt(ColorsController, 2, {"colors"})
  /\ Routes(SizesController) /\ InOrder(SizesController)
  /\ WordsAt(SizesController, 1, {"measurements"}) /\ WordsAt(SizesController, 2, {"sizes"})
  /\ Routes(WarehousesController) /\ InOrder(WarehousesController)
  /\ WordsAt(WarehousesController, 1, {"warehouses"})
  /\ Routes(ProductionLinesController) /\ InOrder(ProductionLinesController)
  /\ WordsAt(ProductionLinesController, 1, {"production-setup"}) /\ WordsAt(ProductionLinesController, 2, {"lines"})
  /\ Routes(StageDefinitionsController) /\ InOrder(StageDefinitionsController)
  /\ WordsAt(StageDefinitionsController, 1, {"production-setup"}) /\ WordsAt(StageDefinitionsController, 2, {"stages"})
  /\ Routes(CustomersController) /\ InOrder(CustomersController)
  /\ WordsAt(CustomersController, 1, {"customers"})
  /\ Routes(SuppliersController) /\ InOrder(SuppliersController)
  /\ WordsAt(SuppliersController, 1, {"suppliers"})
  <1>1. ASSUME NEW v
        PROVE  /\ Routes(DeactivatedTable(<<v>>)) /\ InOrder(DeactivatedTable(<<v>>))
               /\ WordsAt(DeactivatedTable(<<v>>), 1, {v})
    <2> DEFINE P == <<v>>
    <2>1. Plain(P) /\ Len(P) = 1 /\ P[1] = v
      BY Plain1
    <2> HIDE DEF P
    <2> QED BY <2>1, DeactivatedInOrder DEF P
  <1>2. ASSUME NEW v, NEW w
        PROVE  /\ Routes(DeactivatedTable(<<v, w>>)) /\ InOrder(DeactivatedTable(<<v, w>>))
               /\ WordsAt(DeactivatedTable(<<v, w>>), 1, {v}) /\ WordsAt(DeactivatedTable(<<v, w>>), 2, {w})
               /\ Routes(DeletedTable(<<v, w>>)) /\ InOrder(DeletedTable(<<v, w>>))
               /\ WordsAt(DeletedTable(<<v, w>>), 1, {v}) /\ WordsAt(DeletedTable(<<v, w>>), 2, {w})
    <2> DEFINE P == <<v, w>>
    <2>1. Plain(P) /\ Len(P) = 2 /\ P[1] = v /\ P[2] = w
      BY Plain2
    <2> HIDE DEF P
    <2>2. 1 \in 1 .. Len(P) /\ 2 \in 1 .. Len(P)
      BY <2>1
    <2>3. /\ Routes(DeactivatedTable(P)) /\ InOrder(DeactivatedTable(P))
          /\ WordsAt(DeactivatedTable(P), 1, {v}) /\ WordsAt(DeactivatedTable(P), 2, {w})
      BY <2>1, <2>2, DeactivatedInOrder
    <2>4. /\ Routes(DeletedTable(P)) /\ InOrder(DeletedTable(P))
          /\ WordsAt(DeletedTable(P), 1, {v}) /\ WordsAt(DeletedTable(P), 2, {w})
      BY <2>1, <2>2, DeletedInOrder
    <2> QED BY <2>3, <2>4 DEF P
  <1> QED BY <1>1, <1>2
          DEF DepartmentsController, WorkingShiftsController, ColorsController, SizesController,
              WarehousesController, ProductionLinesController, StageDefinitionsController,
              CustomersController, SuppliersController

\* No handler of the application takes the requests for one registered after it.
LEMMA HandlersInOrder == Routes(Handlers) /\ InOrder(Handlers)
  <1> DEFINE s1 == DepartmentsController \o WorkingShiftsController
             s2 == s1 \o ColorsController
             s3 == s2 \o SizesController
             s4 == s3 \o WarehousesController
             s5 == s4 \o ProductionLinesController
             s6 == s5 \o StageDefinitionsController
             s7 == s6 \o CustomersController
             s8 == s7 \o SuppliersController
             s9 == s8 \o GarmentModelsModule
             s10 == s9 \o AuthController
             s11 == s10 \o InventoryController
             s12 == s11 \o WarehouseLocationsController
             s13 == s12 \o ProductionModule
             V1 == {"organization"} \union {"organization"}
             V2 == V1 \union {"measurements"}
             V3 == V2 \union {"measurements"}
             V4 == V3 \union {"warehouses"}
             V5 == V4 \union {"production-setup"}
             V6 == V5 \union {"production-setup"}
             V7 == V6 \union {"customers"}
             V8 == V7 \union {"suppliers"}
             V9 == V8 \union {"garment-models"}
             V10 == V9 \union {"auth"}
             V11 == V10 \union {"inventory"}
             V12 == V11 \union {"warehouse-locations"}
             Good(s, V) == Routes(s) /\ InOrder(s) /\ WordsAt(s, 1, V)
  <1>1. ASSUME NEW s, NEW V, NEW t, NEW W, Good(s, V), Good(t, W), Apart(s, t)
        PROVE  Good(s \o t, V \union W)
    BY <1>1, Joined
  <1>2. ASSUME NEW s, NEW V, NEW t, NEW W, Good(s, V), Good(t, W), Id \notin V, V \intersect W = {}
        PROVE  Good(s \o t, V \union W)
    BY <1>1, <1>2, ApartByWord
  <1>3. ASSUME NEW s, NEW V, NEW t, NEW W, NEW u, Good(s, V), Good(t, W), Good(u, W), Apart(t, u),
               Id \notin V, V \intersect W = {}
        PROVE  Good((s \o t) \o u, (V \union W) \union W)
    <2>1. Good(s \o t, V \union W)
      BY <1>2, <1>3
    <2>2. Apart(s \o t, u)
      BY <1>3, ApartByWord, Joined
    <2> HIDE DEF Good
    <2> QED BY <1>1, <1>3, <2>1, <2>2
  <1>4. /\ Good(DepartmentsController, {"organization"})
        /\ Good(WorkingShiftsController, {"organization"})
        /\ Good(ColorsController, {"measurements"})
        /\ Good(SizesController, {"measurements"})
        /\ Good(WarehousesController, {"warehouses"})
        /\ Good(ProductionLinesController, {"production-setup"})
        /\ Good(StageDefinitionsController, {"production-setup"})
        /\ Good(CustomersController, {"customers"})
        /\ Good(SuppliersController, {"suppliers"})
        /\ Good(GarmentModelsModule, {"garment-models"})
        /\ Good(AuthController, {"auth"})
        /\ Good(InventoryController, {"inventory"})
        /\ Good(WarehouseLocationsController, {"warehouse-locations"})
        /\ Good(ProductionModule, {"production"})
    BY TablesInOrder, GarmentModelsInOrder, AuthInOrder, InventoryInOrder, LocationsInOrder, ProductionInOrder
  <1>5. /\ Apart(DepartmentsController, WorkingShiftsController)
        /\ Apart(ColorsController, SizesController)
        /\ Apart(ProductionLinesController, StageDefinitionsController)
    <2>1. ASSUME NEW s, NEW v, NEW t, NEW w, Routes(s), WordsAt(s, 2, {v}), WordsAt(t, 2, {w}),
                 v # Id, v # w
          PROVE  Apart(s, t)
      <3>1. Id \notin {v} /\ {v} \intersect {w} = {}
        BY <2>1
      <3> QED BY <2>1, <3>1, ApartByWord
    <2> QED BY <2>1, TablesInOrder DEF Id
  <1> HIDE DEF Good, s1, s2, s3, s4, s5, s6, s7, s8, s9, s10, s11, s12, s13
  <1>6. Good(s1, V1)
    BY <1>1, <1>4, <1>5 DEF s1
  <1>7. Good(s3, V3)
    BY <1>3, <1>4, <1>5, <1>6 DEF s2, s3, Id
  <1>8. Good(s4, V4)
    BY <1>2, <1>4, <1>7 DEF s4, Id
  <1>9. Good(s6, V6)
    BY <1>3, <1>4, <1>5, <1>8 DEF s5, s6, Id
  <1>10. Good(s7, V7)
    BY <1>2, <1>4, <1>9 DEF s7, Id
  <1>11. Good(s8, V8)
    BY <1>2, <1>4, <1>10 DEF s8, Id
  <1>12. Good(s9, V9)
    BY <1>2, <1>4, <1>11 DEF s9, Id
  <1>13. Good(s10, V10)
    BY <1>2, <1>4, <1>12 DEF s10, Id
  <1>14. Good(s11, V11)
    BY <1>2, <1>4, <1>13 DEF s11, Id
  <1>15. Good(s12, V12)
    BY <1>2, <1>4, <1>14 DEF s12, Id
  <1>16. Good(s13, V12 \union {"production"})
    BY <1>2, <1>4, <1>15 DEF s13, Id
  <1> QED BY <1>16 DEF Handlers, Good, s1, s2, s3, s4, s5, s6, s7, s8, s9, s10, s11, s12, s13

\* The first handler that a request matches is the one it is for.
LEMMA ReachedIsSent ==
  ASSUME NEW h \in DOMAIN Handlers
  PROVE  Reached(h) = h
  <1>1. PICK n \in Nat : DOMAIN Handlers = 1 .. n
    BY HandlersInOrder DEF Routes, Plain
  <1>2. ASSUME NEW f, NEW g, Matches(f, g)
        PROVE  Takes(Handlers, f, Handlers, g)
    BY <1>2 DEF Matches, Takes, Method, Length, Word
  <1>3. Matches(h, h)
    <2>1. \A i \in 1 .. Len(Handlers[h].path) : Handlers[h].path[i] \in {Id, Handlers[h].path[i]}
      OBVIOUS
    <2> QED BY <2>1 DEF Matches
  <1>4. \A f, g \in DOMAIN Handlers : f < g => ~ Matches(f, g)
    BY <1>2, HandlersInOrder DEF InOrder
  <1>5. Matches(h, h) /\ \A f \in 1 .. h - 1 : ~ Matches(f, h)
    <2>1. ASSUME NEW f \in 1 .. h - 1
          PROVE  f \in DOMAIN Handlers /\ f < h
      BY <1>1
    <2> QED BY <1>3, <1>4, <2>1
  <1>6. ASSUME NEW g \in DOMAIN Handlers, Matches(g, h), \A f \in 1 .. g - 1 : ~ Matches(f, h)
        PROVE  g = h
    <2>1. ~ (g < h)
      BY <1>4, <1>6
    <2>2. ~ (h < g)
      BY <1>1, <1>3, <1>6
    <2> QED BY <1>1, <2>1, <2>2
  <1> QED BY <1>5, <1>6 DEF Reached

\* Where a role is let through, every role above it is.
LEMMA RolesRise ==
  ASSUME NEW h \in DOMAIN Handlers, NEW i \in 1 .. Len(RoleCodes) - 1,
         RoleCodes[i] \in Handlers[h].roles
  PROVE  RoleCodes[i + 1] \in Handlers[h].roles
  <1>1. Handlers[h].roles \in RoleSets
    BY HandlersInOrder DEF Routes, IsRoute
  <1>2. \A R \in RoleSets : RoleCodes[i] \in R => RoleCodes[i + 1] \in R
    <2>1. Len(RoleCodes) = 5 /\ i \in 1 .. 4
      BY DEF RoleCodes
    <2>2. /\ RoleCodes[1] = "STAFF" /\ RoleCodes[2] = "SUPERVISOR" /\ RoleCodes[3] = "MANAGER"
          /\ RoleCodes[4] = "ADMIN" /\ RoleCodes[5] = "SYSTEM_ADMIN"
      BY DEF RoleCodes
    <2> QED BY <2>1, <2>2 DEF RoleSets, Unstated, Managers, Supervisors, Everyone
  <1> QED BY <1>1, <1>2

-----------------------------------------------------------------------------
(* The inductive invariant.                                                *)

\* No refresh is under way that has found a session open after it had ended,
\* and the token it exchanges is of that session and no other.
ExchangeSound(c) ==
  /\ session[c.session] # None
  /\ ended[c.session] # None => c.begun <= ended[c.session]
  /\ c.token <= minted
  /\ \A s \in Sessions \ {c.session} : session[s] # None => session[s].hash # c.token

\* A token outlives neither its session nor the role it names by more than it
\* may: it was signed in a call that had found them so.
TokenSound(t) ==
  /\ session[t.session] # None
  /\ t.exp <= now + AccessTTL
  /\ t.role # user.role => t.exp <= changed.role + AccessTTL + CallTime
  /\ ended[t.session] # None => t.exp <= ended[t.session] + AccessTTL + CallTime

GuardSound(c) ==
  /\ TokenSound(c.token)
  /\ c.begun < c.token.exp
  /\ ~ Unlocked => c.begun <= changed.account

\* What a call has read was so at some time since it began.
CallSound(c) ==
  /\ c.begun <= now /\ now <= c.begun + CallTime
  /\ c.op = "login" => (c.role # user.role => c.begun <= changed.role)
  /\ c.op \in {"exchange", "rotate"} => ExchangeSound(c)
  /\ c.op = "rotate" => c.signed <= now /\ (c.role # user.role => c.signed <= changed.role)
                        /\ (ended[c.session] # None => c.signed <= ended[c.session] + CallTime)
  /\ c.op \in {"authenticated", "resolving", "resolved"} => GuardSound(c)
  /\ c.op = "resolved" => (c.row # roleRow[c.token.role] => c.begun <= changed.row[c.token.role])
  /\ c.op = "logout" => session[c.session] # None

\* An entry of the cache outlives the row it was read from by no more than its
\* time to live and the call that read it.
EntrySound(k) ==
  cache[k] # None =>
      /\ cache[k].expiresAt <= now + CacheTTL
      /\ cache[k].row # roleRow[k] => cache[k].expiresAt <= changed.row[k] + CacheTTL + CallTime

\* Sessions that have ended are revoked, and no two of the others, nor a token
\* that was exchanged, have the same refresh token.
SessionSound(s) ==
  /\ ended[s] # None <=> session[s] # None /\ session[s].status = "REVOKED"
  /\ session[s] # None =>
        /\ session[s].hash <= minted /\ session[s].hash \notin used
        /\ \A z \in Sessions \ {s} : session[z] # None => session[z].hash # session[s].hash

\* What the guard has just answered, as the properties put it.
AnswerSound ==
  answer # None =>
      /\ ended[answer.token.session] # None => now < ended[answer.token.session] + AccessTTL + 2 * CallTime
      /\ ~ Unlocked => now - changed.account <= CallTime
      /\ answer.token.role # user.role => now - changed.role < AccessTTL + 2 * CallTime
      /\ answer.allowed # MayCall(roleRow[answer.token.role], answer.reached) =>
            now - changed.row[answer.token.role] <= CacheTTL + CallTime

Calls == {call[r] : r \in Requests} \ {None}

IInv ==
  /\ TypeOK
  /\ \A c \in Calls : CallSound(c)
  /\ \A t \in access : TokenSound(t)
  /\ \A k \in Roles : EntrySound(k)
  /\ \A s \in Sessions : SessionSound(s)
  /\ \A k \in used : k <= minted
  /\ AnswerSound

-----------------------------------------------------------------------------
(* Calls.                                                                  *)

LoginCall == [op : {"login"}, role : Roles, begun : Time]
ExchangeCall == [op : {"exchange"}, session : Sessions, token : Minted, begun : Time]
RotateCall == [op : {"rotate"}, session : Sessions, token : Minted, role : Roles, signed : Time, begun : Time]
GuardCall == [op : {"authenticated", "resolving"}, token : AccessToken, sent : DOMAIN Handlers, begun : Time]
ResolvedCall == [op : {"resolved"}, token : AccessToken, sent : DOMAIN Handlers, row : RoleRow, begun : Time]
LogoutCall == [op : {"logout"}, session : Sessions, begun : Time]

LEMMA CallKinds ==
  Call = LoginCall \union ExchangeCall \union RotateCall \union GuardCall \union ResolvedCall \union LogoutCall
  BY DEF Call, LoginCall, ExchangeCall, RotateCall, GuardCall, ResolvedCall, LogoutCall

\* A call is of the kind that its op says.
LEMMA CallOf ==
  ASSUME NEW c \in Call
  PROVE  /\ c # None /\ c.begun \in Time
         /\ c.op \in {"login", "exchange", "rotate", "authenticated", "resolving", "resolved", "logout"}
         /\ c.op = "login" => c.role \in Roles
         /\ c.op \in {"exchange", "rotate"} => c.session \in Sessions /\ c.token \in Minted
         /\ c.op = "rotate" => c.role \in Roles /\ c.signed \in Time
         /\ c.op \in {"authenticated", "resolving", "resolved"} =>
              c.token \in AccessToken /\ c.sent \in DOMAIN Handlers
         /\ c.op = "resolved" => c.row \in RoleRow
         /\ c.op = "logout" => c.session \in Sessions
  BY CallKinds, NoneIsNoRow DEF LoginCall, ExchangeCall, RotateCall, GuardCall, ResolvedCall, LogoutCall

LEMMA Numbers ==
  /\ AccessTTL \in Nat /\ RefreshTTL \in Nat /\ CacheTTL \in Nat /\ CallTime \in Nat /\ MaxTime \in Nat
  /\ MaxSessions \in Nat /\ MaxMinted \in Nat /\ MaxChanges \in Nat
  /\ 1 \in Sessions /\ 1 \in Minted
  /\ Time \subseteq Nat /\ Sessions \subseteq Nat /\ Minted \subseteq Nat
  /\ None \notin Time /\ None \notin Roles
  <1>1. /\ AccessTTL \in Nat /\ RefreshTTL \in Nat /\ CacheTTL \in Nat /\ CallTime \in Nat /\ MaxTime \in Nat
        /\ MaxSessions \in Nat \ {0} /\ MaxMinted \in Nat \ {0} /\ MaxChanges \in Nat
        /\ None \notin Roles \union Nat
    BY AccessConstants
  <1>2. Time \subseteq Nat /\ Sessions \subseteq Nat /\ Minted \subseteq Nat /\ 1 \in Sessions /\ 1 \in Minted
    BY <1>1 DEF Time, Sessions, Minted
  <1> QED BY <1>1, <1>2

LEMMA TimeOf ==
  ASSUME NEW t \in 0 .. MaxTime
  PROVE  /\ t \in Time /\ t + AccessTTL \in Time /\ t + RefreshTTL \in Time /\ t + CacheTTL \in Time
  BY Numbers DEF Time

LEMMA Typed ==
  ASSUME TypeOK
  PROVE  /\ now \in Nat /\ now \in Time /\ user.role \in Roles
         /\ changed.account \in Nat /\ changed.role \in Nat /\ \A k \in Roles : changed.row[k] \in Nat
         /\ minted \in Nat
         /\ \A s \in Sessions : session[s] # None => session[s] \in SessionRow /\ session[s].hash \in Nat
         /\ \A s \in Sessions : ended[s] # None => ended[s] \in Nat
         /\ \A k \in Roles : cache[k] # None => cache[k] \in CacheEntry /\ cache[k].expiresAt \in Nat
         /\ \A t \in access : t \in AccessToken
  <1>1. now \in Nat /\ now \in Time
    BY TimeOf, Numbers DEF TypeOK
  <1>2. \A s \in Sessions : session[s] # None => session[s] \in SessionRow /\ session[s].hash \in Nat
    BY Numbers DEF TypeOK, SessionRow
  <1>3. \A k \in Roles : cache[k] # None => cache[k] \in CacheEntry /\ cache[k].expiresAt \in Nat
    BY Numbers DEF TypeOK, CacheEntry
  <1>4. changed.account \in Time /\ changed.role \in Time /\ \A k \in Roles : changed.row[k] \in Time
    <2>1. changed \in [account : Time, role : Time, row : [Roles -> Time]]
      BY DEF TypeOK
    <2>2. changed.account \in Time /\ changed.role \in Time
      BY <2>1
    <2>3. changed.row \in [Roles -> Time]
      BY <2>1
    <2>4. \A k \in Roles : changed.row[k] \in Time
      BY <2>3
    <2> QED BY <2>2, <2>4
  <1>5. \A s \in Sessions : ended[s] # None => ended[s] \in Time
    BY DEF TypeOK
  <1>6. user.role \in Roles /\ minted \in Nat /\ \A t \in access : t \in AccessToken
    BY Numbers DEF TypeOK
  <1>7. \A s \in Sessions : ended[s] # None => ended[s] \in Nat
    BY <1>5, Numbers
  <1>8. changed.account \in Nat /\ changed.role \in Nat /\ \A k \in Roles : changed.row[k] \in Nat
    BY <1>4, Numbers
  <1> QED BY <1>1, <1>2, <1>3, <1>6, <1>7, <1>8

LEMMA TokenOf ==
  ASSUME NEW t \in AccessToken
  PROVE  t.session \in Sessions /\ t.role \in Roles /\ t.exp \in Nat
  BY Numbers DEF AccessToken

\* A step of request r touches no other call.
LEMMA Gone ==
  ASSUME TypeOK, NEW r \in Requests, NEW x \in Call \union {None}, call' = [call EXCEPT ![r] = x]
  PROVE  /\ call' \in [Requests -> Call \union {None}]
         /\ \A c \in Calls' : c \in Calls \/ (c = x /\ c # None)
         /\ \A c \in Calls' : c \in Call
  <1>1. call \in [Requests -> Call \union {None}]
    BY DEF TypeOK
  <1>2. call' \in [Requests -> Call \union {None}]
    BY <1>1
  <1>3. \A q \in Requests : call'[q] = IF q = r THEN x ELSE call[q]
    BY <1>1
  <1> QED BY <1>2, <1>3 DEF Calls

LEMMA CallsTyped ==
  ASSUME TypeOK
  PROVE  \A c \in Calls : c \in Call
  BY DEF TypeOK, Calls

\* While what they speak of is not changed, calls, tokens and entries stay sound.
LEMMA SoundKept ==
  ASSUME UNCHANGED <<now, user, roleRow, changed, session, ended, minted>>
  PROVE  /\ \A c : CallSound(c) => CallSound(c)'
         /\ \A t : TokenSound(t) => TokenSound(t)'
  BY DEF CallSound, TokenSound, GuardSound, ExchangeSound, Unlocked

-----------------------------------------------------------------------------
(* The steps of a request that change neither rows nor tokens.             *)

\* Such a step replaces a call, and may fill the cache and answer.
LEMMA Reading ==
  ASSUME IInv, UNCHANGED <<scope, now, rows, tokens>>,
         NEW r \in Requests, NEW x \in Call \union {None}, call' = [call EXCEPT ![r] = x],
         x # None => CallSound(x),
         cache' \in [Roles -> CacheEntry \union {None}], \A k \in Roles : EntrySound(k)',
         answer' \in Answer \union {None}, AnswerSound'
  PROVE  IInv'
  <1>1. TypeOK'
    BY Gone DEF IInv, TypeOK, rows, tokens
  <1>2. ASSUME NEW c \in Calls' PROVE CallSound(c)'
    <2>1. c \in Calls \/ (c = x /\ c # None)
      BY Gone DEF IInv
    <2>2. CallSound(c)
      BY <2>1 DEF IInv
    <2> QED BY <2>2, SoundKept DEF rows, tokens
  <1>3. \A t \in access' : TokenSound(t)'
    BY SoundKept DEF IInv, rows, tokens
  <1>4. \A s \in Sessions : SessionSound(s)'
    BY DEF IInv, SessionSound, tokens
  <1>5. \A k \in used' : k <= minted'
    BY DEF IInv, tokens
  <1> QED BY <1>1, <1>2, <1>3, <1>4, <1>5 DEF IInv

\* Most leave the cache and say nothing.
LEMMA Going ==
  ASSUME IInv, UNCHANGED <<scope, now, rows, tokens, cache>>,
         NEW r \in Requests, NEW x \in Call \union {None}, Go(r, x), x # None => CallSound(x)
  PROVE  IInv'
  <1>1. \A k \in Roles : EntrySound(k)'
    BY DEF IInv, EntrySound, rows
  <1>2. AnswerSound'
    BY DEF Go, AnswerSound, Unlocked
  <1>3. cache' \in [Roles -> CacheEntry \union {None}]
    BY DEF IInv, TypeOK
  <1> QED BY <1>1, <1>2, <1>3, Reading DEF Go

LEMMA ValidateUserStep ==
  ASSUME IInv, NEW r \in Requests, ValidateUser(r)
  PROVE  IInv'
  <1> DEFINE x == [op |-> "login", role |-> user.role, begun |-> now]
  <1>1. TypeOK /\ Go(r, x) /\ UNCHANGED <<scope, now, rows, tokens, cache>>
    BY DEF IInv, ValidateUser
  <1>2. x \in LoginCall /\ x.op = "login" /\ x.role = user.role /\ x.begun = now
    BY <1>1, Typed DEF LoginCall
  <1> HIDE DEF x
  <1>3. CallSound(x)
    BY <1>1, <1>2, Typed, Numbers DEF CallSound
  <1> QED BY <1>1, <1>2, <1>3, CallKinds, Going

LEMMA CheckRefreshStep ==
  ASSUME IInv, NEW r \in Requests, NEW s \in Sessions, NEW token \in refresh[s], CheckRefresh(r, s, token)
  PROVE  IInv'
  <1> DEFINE x == [op |-> "exchange", session |-> s, token |-> token, begun |-> now]
  <1>1. /\ TypeOK /\ Go(r, x) /\ UNCHANGED <<scope, now, rows, tokens, cache>>
        /\ session[s] # None /\ session[s].status = "ACTIVE" /\ session[s].hash = token
    BY DEF IInv, CheckRefresh, ValidSession
  <1>2. token \in Minted
    BY <1>1 DEF TypeOK
  <1>3. /\ x \in ExchangeCall /\ x.op = "exchange" /\ x.begun = now
        /\ x.session = s /\ x.token = token
    BY <1>1, <1>2, Typed DEF ExchangeCall
  <1>4. SessionSound(s)
    BY DEF IInv
  <1> HIDE DEF x
  <1>5. ended[s] = None
    BY <1>1, <1>4 DEF SessionSound
  <1>6. ExchangeSound(x)
    BY <1>1, <1>3, <1>4, <1>5 DEF ExchangeSound, SessionSound
  <1>7. CallSound(x)
    BY <1>1, <1>3, <1>6, Typed, Numbers DEF CallSound
  <1> QED BY <1>1, <1>3, <1>7, CallKinds, Going

\* The call of a request that is at work is sound.
LEMMA AtCall ==
  ASSUME IInv, NEW r \in Requests, call[r] # None
  PROVE  /\ call[r] \in Call /\ CallSound(call[r])
         /\ call[r].begun \in Nat /\ call[r].begun <= now /\ now <= call[r].begun + CallTime
  <1>1. call[r] \in Call /\ CallSound(call[r])
    BY DEF IInv, TypeOK, Calls
  <1> QED BY <1>1, CallOf, Numbers DEF CallSound

LEMMA ReadUserStep ==
  ASSUME IInv, NEW r \in Requests, ReadUser(r)
  PROVE  IInv'
  <1> DEFINE c == call[r]
             x == [op |-> "rotate", session |-> c.session, token |-> c.token, role |-> user.role,
                   signed |-> now, begun |-> c.begun]
  <1>1. /\ TypeOK /\ c # None /\ c.op = "exchange" /\ UNCHANGED <<scope, now, rows, tokens, cache>>
        /\ Go(r, x) \/ Go(r, None)
    BY DEF IInv, ReadUser, At, Finish
  <1>2. /\ c \in Call /\ CallSound(c)
        /\ c.begun \in Nat /\ c.begun <= now /\ now <= c.begun + CallTime
    BY <1>1, AtCall
  <1>3. c.session \in Sessions /\ c.token \in Minted /\ c.begun \in Time
    BY <1>1, <1>2, CallOf
  <1>4. /\ x \in RotateCall /\ x.op = "rotate" /\ x.begun = c.begun /\ x.signed = now
        /\ x.role = user.role /\ x.session = c.session /\ x.token = c.token
    <2> HIDE DEF c
    <2> QED BY <1>1, <1>3, Typed DEF RotateCall
  <1>5. ExchangeSound(c)
    BY <1>1, <1>2 DEF CallSound
  <1> HIDE DEF x, c
  <1>6. ExchangeSound(x)
    BY <1>4, <1>5 DEF ExchangeSound
  <1>7. ended[x.session] # None => x.signed <= ended[x.session] + CallTime
    <2>1. ended[c.session] # None => c.begun <= ended[c.session] /\ ended[c.session] \in Nat
      BY <1>1, <1>3, <1>5, Typed DEF ExchangeSound
    <2> QED BY <1>1, <1>2, <1>4, <2>1, Typed, Numbers
  <1>8. CallSound(x)
    BY <1>1, <1>2, <1>4, <1>6, <1>7, Typed DEF CallSound
  <1> QED BY <1>1, <1>4, <1>8, CallKinds, Going

LEMMA AuthenticateStep ==
  ASSUME IInv, NEW r \in Requests, NEW t \in access, NEW h \in Asked[scope], Authenticate(r, t, h)
  PROVE  IInv'
  <1> DEFINE x == [op |-> "authenticated", token |-> t, sent |-> h, begun |-> now]
  <1>1. /\ TypeOK /\ Go(r, x) /\ UNCHANGED <<scope, now, rows, tokens, cache>>
        /\ now < t.exp /\ Unlocked /\ TokenSound(t)
    BY DEF IInv, Authenticate
  <1>2. h \in DOMAIN Handlers /\ t \in AccessToken
    BY <1>1, Typed, AccessConstants DEF TypeOK
  <1>3. x \in GuardCall /\ x.op = "authenticated" /\ x.token = t /\ x.begun = now
    BY <1>1, <1>2, Typed DEF GuardCall
  <1> HIDE DEF x
  <1>4. CallSound(x)
    BY <1>1, <1>3, Typed, Numbers DEF CallSound, GuardSound, Unlocked
  <1> QED BY <1>1, <1>3, <1>4, CallKinds, Going

LEMMA ReadRoleStep ==
  ASSUME IInv, NEW r \in Requests, ReadRole(r)
  PROVE  IInv'
  <1> DEFINE c == call[r]
             x == [op |-> "resolved", token |-> c.token, sent |-> c.sent, row |-> roleRow[c.token.role],
                   begun |-> c.begun]
  <1>1. /\ TypeOK /\ c # None /\ c.op = "resolving" /\ UNCHANGED <<scope, now, rows, tokens, cache>>
        /\ Go(r, x)
    BY DEF IInv, ReadRole, At
  <1>2. c \in Call /\ CallSound(c) /\ c.begun \in Time
    BY <1>1, AtCall, CallOf
  <1>3. c.token \in AccessToken /\ c.sent \in DOMAIN Handlers
    BY <1>1, <1>2, CallOf
  <1>4. roleRow[c.token.role] \in RoleRow
    BY <1>1, <1>3, TokenOf DEF TypeOK
  <1>5. /\ x \in ResolvedCall /\ x.op = "resolved" /\ x.token = c.token /\ x.begun = c.begun
        /\ x.row = roleRow[c.token.role]
    <2> HIDE DEF c
    <2> QED BY <1>2, <1>3, <1>4 DEF ResolvedCall
  <1> HIDE DEF x, c
  <1>6. CallSound(x)
    BY <1>1, <1>2, <1>5 DEF CallSound, GuardSound, Unlocked
  <1> QED BY <1>1, <1>5, <1>6, CallKinds, Going

-----------------------------------------------------------------------------
(* The guard answers.                                                      *)

LEMMA MayCallType ==
  ASSUME NEW row \in RoleRow, NEW h
  PROVE  MayCall(row, h) \in BOOLEAN
  <1>1. row.system \in BOOLEAN /\ (row.code \in Handlers[h].roles) \in BOOLEAN
    BY DEF RoleRow
  <1>2. CASE Handlers[h].roles = Unstated
    BY <1>1, <1>2, Zenon DEF MayCall
  <1>3. CASE Handlers[h].roles # Unstated
    BY <1>1, <1>3, Zenon DEF MayCall
  <1> QED BY <1>2, <1>3

\* It answers with a row that is that of the role, or was so in a CacheTTL and
\* a CallTime before.
LEMMA DecideStep ==
  ASSUME IInv, UNCHANGED <<scope, now, rows, tokens>>, NEW r \in Requests, call[r] # None,
         call[r].op \in {"authenticated", "resolved"}, NEW row \in RoleRow, Decide(r, row),
         row # roleRow[call[r].token.role] => now <= changed.row[call[r].token.role] + CacheTTL + CallTime,
         cache' \in [Roles -> CacheEntry \union {None}], \A k \in Roles : EntrySound(k)'
  PROVE  IInv'
  <1> DEFINE c == call[r]
             reached == Reached(c.sent)
             allowed == MayCall(row, reached)
             out == [op |-> "logout", session |-> c.token.session, begun |-> c.begun]
             x == IF allowed /\ Handlers[reached].name = "logout" THEN out ELSE None
             a == [token |-> c.token, sent |-> c.sent, reached |-> reached, allowed |-> allowed]
  <1>1. /\ TypeOK /\ c \in Call /\ CallSound(c)
        /\ c.begun \in Nat /\ c.begun \in Time /\ c.begun <= now /\ now <= c.begun + CallTime
    BY AtCall, CallOf DEF IInv
  <1>2. /\ c.token \in AccessToken /\ c.sent \in DOMAIN Handlers
        /\ GuardSound(c)
    BY <1>1, CallOf DEF CallSound
  <1>3. answer' = a /\ call' = [call EXCEPT ![r] = x]
    BY DEF Decide
  <1>4. reached \in DOMAIN Handlers /\ allowed \in BOOLEAN
    BY <1>2, ReachedIsSent, MayCallType
  <1>5. a \in Answer /\ a.token = c.token /\ a.allowed = allowed /\ a.reached = reached
    <2> HIDE DEF c, reached, allowed
    <2> QED BY <1>2, <1>4 DEF Answer
  <1>6. c.token.session \in Sessions /\ c.token.role \in Roles /\ c.token.exp \in Nat
    BY <1>2, TokenOf
  <1>7. out \in LogoutCall /\ out.op = "logout" /\ out.session = c.token.session /\ out.begun = c.begun
    <2> HIDE DEF c
    <2> QED BY <1>1, <1>6 DEF LogoutCall
  <1>8. x = out \/ x = None
    OBVIOUS
  <1>9. allowed = MayCall(row, reached)
    OBVIOUS
  <1> HIDE DEF x, out, a, c, reached, allowed
  <1>10. CallSound(out)
    BY <1>1, <1>2, <1>7 DEF CallSound, GuardSound, TokenSound, Unlocked
  <1>11. AnswerSound'
    <2>0. /\ row # roleRow[c.token.role] => now <= changed.row[c.token.role] + CacheTTL + CallTime
          /\ user' = user /\ now' = now /\ changed' = changed /\ roleRow' = roleRow /\ ended' = ended
      BY DEF c, rows, tokens
    <2>1. /\ now \in Nat /\ changed.account \in Nat /\ changed.role \in Nat
          /\ changed.row[c.token.role] \in Nat
          /\ ended[c.token.session] # None => ended[c.token.session] \in Nat
      BY <1>1, <1>6, Typed
    <2>2. ended[c.token.session] # None => now < ended[c.token.session] + AccessTTL + 2 * CallTime
      BY <1>1, <1>2, <1>6, <2>1, Numbers DEF GuardSound, TokenSound, Unlocked
    <2>3. ~ Unlocked => now - changed.account <= CallTime
      BY <1>1, <1>2, <2>1, Numbers DEF GuardSound, Unlocked
    <2>4. c.token.role # user.role => now - changed.role < AccessTTL + 2 * CallTime
      BY <1>1, <1>2, <1>6, <2>1, Numbers DEF GuardSound, TokenSound, Unlocked
    <2>5. allowed # MayCall(roleRow[c.token.role], reached) => now - changed.row[c.token.role] <= CacheTTL + CallTime
      BY <1>9, <2>0, <2>1, Numbers
    <2> QED BY <1>3, <1>5, <2>0, <2>2, <2>3, <2>4, <2>5 DEF AnswerSound, Unlocked
  <1>12. x \in Call \union {None} /\ (x # None => CallSound(x))
    BY <1>7, <1>8, <1>10, CallKinds
  <1> QED BY <1>3, <1>5, <1>11, <1>12, Reading

LEMMA ResolveStep ==
  ASSUME IInv, NEW r \in Requests, Resolve(r)
  PROVE  IInv'
  <1> DEFINE c == call[r]
             k == c.token.role
             entry == Cached(k)
  <1>1. /\ TypeOK /\ c # None /\ c.op = "authenticated" /\ UNCHANGED <<scope, now, rows, tokens>>
        /\ cache' = [cache EXCEPT ![k] = entry]
    BY DEF IInv, Resolve, At
  <1>2. c \in Call /\ CallSound(c)
    BY <1>1, AtCall
  <1>3. c.token \in AccessToken /\ c.sent \in DOMAIN Handlers /\ k \in Roles /\ c.begun \in Time
    BY <1>1, <1>2, CallOf, TokenOf
  <1>4. entry = None \/ (entry = cache[k] /\ cache[k] # None /\ now <= cache[k].expiresAt)
    BY DEF Cached
  <1>5. /\ cache \in [Roles -> CacheEntry \union {None}] /\ \A z \in Roles : EntrySound(z)
    BY DEF IInv, TypeOK
  <1>6. IF entry # None THEN Decide(r, entry.row) ELSE Go(r, [c EXCEPT !.op = "resolving"])
    BY DEF Resolve
  <1> HIDE DEF entry, c, k
  <1>7. cache' \in [Roles -> CacheEntry \union {None}]
    BY <1>1, <1>3, <1>4, <1>5
  <1>8. ASSUME NEW z \in Roles PROVE EntrySound(z)'
    <2>1. cache'[z] = cache[z] \/ cache'[z] = None
      BY <1>1, <1>3, <1>4, <1>5
    <2> QED BY <1>1, <1>5, <2>1 DEF EntrySound, rows
  <1>9. CASE entry # None
    <2>1. entry \in CacheEntry /\ entry = cache[k] /\ cache[k] # None /\ now <= cache[k].expiresAt
      BY <1>3, <1>4, <1>5, <1>9
    <2>2. entry.row \in RoleRow /\ entry.expiresAt \in Nat
      BY <2>1, Numbers DEF CacheEntry
    <2>3. entry.row # roleRow[k] => entry.expiresAt <= changed.row[k] + CacheTTL + CallTime
      BY <1>3, <1>5, <2>1 DEF EntrySound
    <2>4. now \in Nat /\ changed.row[k] \in Nat
      BY <1>1, <1>3, Typed
    <2>5. entry.row # roleRow[k] => now <= changed.row[k] + CacheTTL + CallTime
      BY <2>1, <2>2, <2>3, <2>4, Numbers
    <2> QED BY <1>1, <1>6, <1>7, <1>8, <1>9, <2>2, <2>5, DecideStep DEF c, k
  <1>10. CASE entry = None
    <2> DEFINE x == [c EXCEPT !.op = "resolving"]
    <2>1. c \in GuardCall
      BY <1>1, <1>2, CallKinds DEF LoginCall, ExchangeCall, RotateCall, ResolvedCall, LogoutCall
    <2>2. x \in GuardCall /\ x.op = "resolving" /\ x.token = c.token /\ x.begun = c.begun
      BY <2>1 DEF GuardCall
    <2>3. Go(r, x)
      BY <1>6, <1>10
    <2> HIDE DEF x
    <2>4. CallSound(x)
      BY <1>1, <1>2, <2>2 DEF CallSound, GuardSound, Unlocked
    <2>5. AnswerSound' /\ answer' \in Answer \union {None}
      BY <2>3 DEF Go, AnswerSound, Unlocked
    <2> QED BY <1>1, <1>7, <1>8, <2>2, <2>3, <2>4, <2>5, CallKinds, Reading DEF Go
  <1> QED BY <1>9, <1>10

LEMMA SetCacheStep ==
  ASSUME IInv, NEW r \in Requests, SetCache(r)
  PROVE  IInv'
  <1> DEFINE c == call[r]
             k == c.token.role
             e == [row |-> c.row, expiresAt |-> now + CacheTTL]
  <1>1. /\ TypeOK /\ c # None /\ c.op = "resolved" /\ UNCHANGED <<scope, now, rows, tokens>>
        /\ cache' = [cache EXCEPT ![k] = e] /\ Decide(r, c.row)
    BY DEF IInv, SetCache, At
  <1>2. /\ c \in Call /\ CallSound(c)
        /\ c.begun \in Nat /\ now <= c.begun + CallTime
    BY <1>1, AtCall
  <1>3. c.token \in AccessToken /\ c.row \in RoleRow /\ k \in Roles
    BY <1>1, <1>2, CallOf, TokenOf
  <1>4. now \in Nat /\ changed.row[k] \in Nat /\ now + CacheTTL \in Time
    BY <1>1, <1>3, Typed, TimeOf DEF TypeOK
  <1>5. e \in CacheEntry /\ e.row = c.row /\ e.expiresAt = now + CacheTTL
    <2> HIDE DEF c
    <2> QED BY <1>3, <1>4 DEF CacheEntry
  <1>6. c.row # roleRow[k] => c.begun <= changed.row[k]
    BY <1>1, <1>2 DEF CallSound
  <1>7. /\ cache \in [Roles -> CacheEntry \union {None}] /\ \A z \in Roles : EntrySound(z)
    BY DEF IInv, TypeOK
  <1> HIDE DEF e, c, k
  <1>8. cache' \in [Roles -> CacheEntry \union {None}]
    BY <1>1, <1>3, <1>5, <1>7
  <1>9. ASSUME NEW z \in Roles PROVE EntrySound(z)'
    <2>1. CASE z # k
      <3>1. cache'[z] = cache[z]
        BY <1>1, <1>7, <2>1
      <3> QED BY <1>1, <1>7, <3>1 DEF EntrySound, rows
    <2>2. CASE z = k
      <3>1. cache'[z] = e
        BY <1>1, <1>3, <1>7, <2>2
      <3>2. now + CacheTTL <= now + CacheTTL /\ (c.row # roleRow[k] => now + CacheTTL <= changed.row[k] + CacheTTL + CallTime)
        BY <1>2, <1>4, <1>6, Numbers
      <3>3. /\ e.expiresAt <= now + CacheTTL
            /\ e.row # roleRow[z] => e.expiresAt <= changed.row[z] + CacheTTL + CallTime
        BY <1>5, <2>2, <3>2
      <3> QED BY <1>1, <3>1, <3>3 DEF EntrySound, rows
    <2> QED BY <2>1, <2>2
  <1>10. c.row # roleRow[k] => now <= changed.row[k] + CacheTTL + CallTime
    BY <1>2, <1>4, <1>6, Numbers
  <1> QED BY <1>1, <1>3, <1>8, <1>9, <1>10, DecideStep DEF c, k

-----------------------------------------------------------------------------
(* The steps that write sessions.                                          *)

\* Such a step ends a call; what it writes must leave the others sound.
LEMMA Writing ==
  ASSUME IInv, UNCHANGED <<scope, now, rows, cache>>, NEW r \in Requests, Finish(r),
         session' \in [Sessions -> SessionRow \union {None}],
         \A s \in Sessions : session'[s] # None => ((session'[s].status = "ACTIVE") <=> (session'[s].endedAt = None)),
         minted' \in 0 .. MaxMinted, access' \subseteq AccessToken, refresh' \in [Sessions -> SUBSET Minted],
         ended' \in [Sessions -> Time \union {None}], used' \subseteq Minted,
         \A c \in Call : CallSound(c) => CallSound(c)',
         \A t \in access' : TokenSound(t)', \A s \in Sessions : SessionSound(s)', \A k \in used' : k <= minted'
  PROVE  IInv'
  <1>1. TypeOK /\ call' = [call EXCEPT ![r] = None] /\ answer' = None
    BY DEF IInv, Finish, Go
  <1>2. TypeOK'
    <2>1. call' \in [Requests -> Call \union {None}]
      BY <1>1, Gone
    <2> QED BY <1>1, <2>1 DEF TypeOK, rows
  <1>3. ASSUME NEW c \in Calls' PROVE CallSound(c)'
    <2>1. c \in Calls /\ c \in Call
      BY <1>1, Gone
    <2> QED BY <2>1 DEF IInv
  <1>4. \A k \in Roles : EntrySound(k)'
    BY DEF IInv, EntrySound, rows
  <1>5. AnswerSound'
    BY <1>1 DEF AnswerSound, Unlocked
  <1> QED BY <1>2, <1>3, <1>4, <1>5 DEF IInv

LEMMA CreateSessionStep ==
  ASSUME IInv, NEW r \in Requests, CreateSession(r)
  PROVE  IInv'
  <1> DEFINE c == call[r]
             Row(made) == [status |-> "ACTIVE", hash |-> minted + 1, expires |-> made + RefreshTTL, endedAt |-> None]
             Token(s) == [session |-> s, role |-> c.role, exp |-> now + AccessTTL]
  <1>1. /\ TypeOK /\ c # None /\ c.op = "login" /\ minted < MaxMinted /\ minted' = minted + 1
        /\ Finish(r) /\ UNCHANGED <<scope, now, rows, cache, ended, used>>
    BY DEF IInv, CreateSession, At
  <1>2. PICK s \in Sessions, made \in c.begun .. now :
           /\ session[s] = None
           /\ session' = [session EXCEPT ![s] = Row(made)]
           /\ refresh' = [refresh EXCEPT ![s] = {minted + 1}]
           /\ access' = access \union {Token(s)}
    BY DEF CreateSession
  <1> DEFINE row == Row(made)
             token == Token(s)
  <1>3. /\ c \in Call /\ CallSound(c)
        /\ c.begun \in Nat /\ c.begun <= now /\ now <= c.begun + CallTime /\ c.role \in Roles
    BY <1>1, AtCall, CallOf
  <1>4. /\ now \in Nat /\ now <= MaxTime /\ made \in 0 .. MaxTime /\ now + AccessTTL \in Time /\ made + RefreshTTL \in Time
        /\ minted \in Nat /\ minted + 1 \in Minted /\ minted' \in 0 .. MaxMinted
    BY <1>1, <1>2, <1>3, Typed, TimeOf, Numbers DEF TypeOK, Minted
  <1>5. row \in SessionRow /\ row.status = "ACTIVE" /\ row.hash = minted + 1 /\ row.endedAt = None
    BY <1>4 DEF SessionRow
  <1>6. token \in AccessToken /\ token.session = s /\ token.role = c.role /\ token.exp = now + AccessTTL
    <2> HIDE DEF c
    <2> QED BY <1>3, <1>4 DEF AccessToken
  <1>7. row # None
    BY <1>5, NoneIsNoRow
  <1>8. session' = [session EXCEPT ![s] = row] /\ access' = access \union {token}
    BY <1>2
  <1> HIDE DEF Row, Token, row, token, c
  <1>9. /\ session' \in [Sessions -> SessionRow \union {None}]
        /\ \A z \in Sessions : session'[z] = IF z = s THEN row ELSE session[z]
    BY <1>1, <1>5, <1>8 DEF TypeOK
  <1>10. /\ \A z \in Sessions : session'[z] # None => ((session'[z].status = "ACTIVE") <=> (session'[z].endedAt = None))
         /\ access' \subseteq AccessToken /\ refresh' \in [Sessions -> SUBSET Minted]
         /\ ended' \in [Sessions -> Time \union {None}] /\ used' \subseteq Minted
    BY <1>1, <1>2, <1>4, <1>5, <1>6, <1>8, <1>9 DEF TypeOK
  <1>11. \A z \in Sessions : session[z] # None => z # s /\ session[z] \in SessionRow /\ session[z].hash \in Nat
                                                /\ session[z].hash <= minted
    BY <1>1, <1>2, Typed DEF IInv, SessionSound
  <1>12. ended[s] = None
    BY <1>2 DEF IInv, SessionSound
  <1>13. ASSUME NEW d \in Call, CallSound(d) PROVE CallSound(d)'
    <2>1. d.op \in {"exchange", "rotate"} => d.session \in Sessions /\ d.token \in Nat
      BY CallOf, Numbers
    <2>2. ASSUME d.op \in {"exchange", "rotate"}, ExchangeSound(d) PROVE ExchangeSound(d)'
      <3>1. d.token <= minted' /\ d.token # minted + 1
        BY <1>1, <1>4, <2>1, <2>2 DEF ExchangeSound
      <3> QED BY <1>1, <1>5, <1>9, <1>11, <2>1, <2>2, <3>1 DEF ExchangeSound
    <2>3. ASSUME d.op \in {"authenticated", "resolving", "resolved"}, GuardSound(d) PROVE GuardSound(d)'
      <3>1. d.token.session \in Sessions
        BY <2>3, CallOf, TokenOf
      <3> QED BY <1>1, <1>7, <1>9, <2>3, <3>1 DEF GuardSound, TokenSound, rows, Unlocked
    <2>4. d.op = "logout" => d.session \in Sessions
      BY CallOf
    <2> QED BY <1>1, <1>7, <1>9, <1>13, <2>2, <2>3, <2>4 DEF CallSound, rows
  <1>14. ASSUME NEW t \in access' PROVE TokenSound(t)'
    <2>1. CASE t = token
      <3>1. token.role # user.role => token.exp <= changed.role + AccessTTL + CallTime
        BY <1>1, <1>3, <1>4, <1>6, Typed, Numbers DEF CallSound
      <3>2. token.exp <= now + AccessTTL
        BY <1>4, <1>6, Numbers
      <3> QED BY <1>1, <1>6, <1>7, <1>9, <1>12, <2>1, <3>1, <3>2 DEF TokenSound, rows
    <2>2. CASE t \in access
      <3>1. TokenSound(t) /\ t.session \in Sessions
        BY <1>1, <2>2, Typed, TokenOf DEF IInv
      <3> QED BY <1>1, <1>7, <1>9, <3>1 DEF TokenSound, rows
    <2> QED BY <1>8, <2>1, <2>2
  <1>15. ASSUME NEW k \in used' PROVE k <= minted' /\ k # minted + 1
    <2>1. k \in Nat /\ k <= minted
      BY <1>1, Numbers DEF IInv, TypeOK
    <2> QED BY <1>1, <1>4, <2>1
  <1>16. ASSUME NEW z \in Sessions PROVE SessionSound(z)'
    <2>1. SessionSound(z)
      BY DEF IInv
    <2>2. CASE z = s
      <3>1. ended'[z] = None /\ session'[z] = row
        BY <1>1, <1>9, <1>12, <2>2
      <3>2. row.hash <= minted' /\ row.hash \notin used'
        BY <1>1, <1>4, <1>5, <1>15
      <3>3. \A y \in Sessions \ {z} : session'[y] # None => session'[y].hash # row.hash
        BY <1>4, <1>5, <1>9, <1>11, <2>2
      <3> QED BY <1>5, <3>1, <3>2, <3>3 DEF SessionSound
    <2>3. CASE z # s
      <3>1. ended'[z] = ended[z] /\ session'[z] = session[z]
        BY <1>1, <1>9, <2>3
      <3>2. ASSUME session[z] # None PROVE session[z].hash <= minted' /\ session[z].hash # row.hash
        BY <1>1, <1>4, <1>5, <1>11, <3>2
      <3> QED BY <1>1, <1>9, <2>1, <3>1, <3>2 DEF SessionSound
    <2> QED BY <2>2, <2>3
  <1> QED BY <1>1, <1>4, <1>9, <1>10, <1>13, <1>14, <1>15, <1>16, Writing

LEMMA RefreshSessionStep ==
  ASSUME IInv, NEW r \in Requests, NEW arrives \in BOOLEAN, RefreshSession(r, arrives)
  PROVE  IInv'
  <1> DEFINE c == call[r]
             s == c.session
             row == Rotate(session[s], minted + 1, c.signed + RefreshTTL)
             token == [session |-> s, role |-> c.role, exp |-> c.signed + AccessTTL]
  <1>1. /\ TypeOK /\ c # None /\ c.op = "rotate" /\ minted < MaxMinted /\ minted' = minted + 1
        /\ Finish(r) /\ UNCHANGED <<scope, now, rows, cache, ended>>
        /\ used' = used \union {c.token}
    BY DEF IInv, RefreshSession, At
  <1>2. /\ c \in Call /\ CallSound(c)
        /\ s \in Sessions /\ c.token \in Minted /\ c.token \in Nat /\ c.role \in Roles /\ c.signed \in Nat
    BY <1>1, AtCall, CallOf, Numbers
  <1>3. ExchangeSound(c) /\ c.signed <= now
    BY <1>1, <1>2 DEF CallSound
  <1>4. session[s] # None /\ session[s] \in SessionRow /\ c.token <= minted
    BY <1>1, <1>2, <1>3, Typed DEF ExchangeSound
  <1>5. /\ now \in Nat /\ now <= MaxTime /\ c.signed + AccessTTL \in Time /\ c.signed + RefreshTTL \in Time
        /\ minted \in Nat /\ minted + 1 \in Minted /\ minted' \in 0 .. MaxMinted
    BY <1>1, <1>2, <1>3, Typed, TimeOf, Numbers DEF TypeOK, Minted
  <1>6. /\ row \in SessionRow /\ row.hash = minted + 1
        /\ row.status = session[s].status /\ row.endedAt = session[s].endedAt
    <2> HIDE DEF c
    <2> QED BY <1>4, <1>5 DEF Rotate, SessionRow
  <1>7. token \in AccessToken /\ token.session = s /\ token.role = c.role /\ token.exp = c.signed + AccessTTL
    <2> HIDE DEF c
    <2> QED BY <1>2, <1>5 DEF AccessToken
  <1>8. session' = [session EXCEPT ![s] = row]
    BY DEF RefreshSession
  <1>9. /\ access' = access \/ access' = access \union {token}
        /\ refresh' = refresh \/ refresh' = [refresh EXCEPT ![s] = @ \union {minted + 1}]
    BY DEF RefreshSession
  <1>10. row # None
    BY <1>6, NoneIsNoRow
  <1> HIDE DEF row, token, s, c
  <1>11. /\ session' \in [Sessions -> SessionRow \union {None}]
         /\ \A z \in Sessions : session'[z] = IF z = s THEN row ELSE session[z]
    BY <1>1, <1>6, <1>8 DEF TypeOK
  <1>12. refresh' \in [Sessions -> SUBSET Minted]
    BY <1>1, <1>5, <1>9 DEF TypeOK
  <1>13. /\ \A z \in Sessions : session'[z] # None => ((session'[z].status = "ACTIVE") <=> (session'[z].endedAt = None))
         /\ access' \subseteq AccessToken
         /\ ended' \in [Sessions -> Time \union {None}] /\ used' \subseteq Minted
    BY <1>1, <1>2, <1>4, <1>6, <1>7, <1>9, <1>11 DEF TypeOK
  <1>14. \A z \in Sessions : session[z] # None => session[z].hash \in Nat /\ session[z].hash <= minted
    BY <1>1, Typed DEF IInv, SessionSound
  <1>15. \A z \in Sessions : session'[z] # None <=> session[z] # None
    BY <1>4, <1>10, <1>11
  <1>16. ASSUME NEW d \in Call, CallSound(d) PROVE CallSound(d)'
    <2>1. d.op \in {"exchange", "rotate"} => d.session \in Sessions /\ d.token \in Nat
      BY CallOf, Numbers
    <2>2. ASSUME d.op \in {"exchange", "rotate"}, ExchangeSound(d) PROVE ExchangeSound(d)'
      <3>1. d.token <= minted' /\ d.token # minted + 1
        BY <1>1, <1>5, <2>1, <2>2 DEF ExchangeSound
      <3> QED BY <1>1, <1>6, <1>11, <1>15, <2>1, <2>2, <3>1 DEF ExchangeSound
    <2>3. ASSUME d.op \in {"authenticated", "resolving", "resolved"}, GuardSound(d) PROVE GuardSound(d)'
      <3>1. d.token.session \in Sessions
        BY <2>3, CallOf, TokenOf
      <3> QED BY <1>1, <1>15, <2>3, <3>1 DEF GuardSound, TokenSound, rows, Unlocked
    <2>4. d.op = "logout" => d.session \in Sessions
      BY CallOf
    <2> QED BY <1>1, <1>15, <1>16, <2>2, <2>3, <2>4 DEF CallSound, rows
  <1>17. ASSUME NEW t, t = token PROVE TokenSound(t)'
    <2>1. token.role # user.role => token.exp <= changed.role + AccessTTL + CallTime
      BY <1>1, <1>2, <1>5, <1>7, Typed, Numbers DEF CallSound
    <2>2. token.exp <= now + AccessTTL
      BY <1>2, <1>3, <1>5, <1>7, Numbers
    <2>3. ended[s] # None => ended[s] \in Nat /\ c.signed <= ended[s] + CallTime
      BY <1>1, <1>2, Typed DEF CallSound, s
    <2>4. ended[s] # None => token.exp <= ended[s] + AccessTTL + CallTime
      BY <1>2, <1>7, <2>3, Numbers
    <2> QED BY <1>1, <1>2, <1>4, <1>7, <1>15, <1>17, <2>1, <2>2, <2>4 DEF TokenSound, rows
  <1>18. ASSUME NEW t \in access' PROVE TokenSound(t)'
    <2>1. CASE t \in access
      <3>1. TokenSound(t) /\ t.session \in Sessions
        BY <1>1, <2>1, Typed, TokenOf DEF IInv
      <3> QED BY <1>1, <1>15, <3>1 DEF TokenSound, rows
    <2> QED BY <1>9, <1>17, <2>1
  <1>19. ASSUME NEW k \in used' PROVE k <= minted' /\ k # minted + 1
    <2>1. k \in Nat /\ k <= minted
      BY <1>1, <1>2, <1>4, Numbers DEF IInv, TypeOK
    <2> QED BY <1>1, <1>5, <2>1
  <1>20. ASSUME NEW z \in Sessions PROVE SessionSound(z)'
    <2>1. SessionSound(z)
      BY DEF IInv
    <2>2. CASE z = s
      <3>1. ended'[z] = ended[z] /\ session'[z] = row
        BY <1>1, <1>11, <2>2
      <3>2. row.hash <= minted' /\ row.hash \notin used'
        BY <1>1, <1>5, <1>6, <1>19
      <3>3. \A y \in Sessions \ {z} : session'[y] # None => session'[y].hash # row.hash
        BY <1>5, <1>6, <1>11, <1>14, <2>2
      <3>4. ended'[z] # None <=> session'[z] # None /\ session'[z].status = "REVOKED"
        BY <1>4, <1>6, <1>10, <2>1, <2>2, <3>1 DEF SessionSound
      <3> QED BY <3>1, <3>2, <3>3, <3>4 DEF SessionSound
    <2>3. CASE z # s
      <3>1. ended'[z] = ended[z] /\ session'[z] = session[z]
        BY <1>1, <1>11, <2>3
      <3>2. ASSUME session[z] # None
            PROVE  session[z].hash <= minted' /\ session[z].hash # row.hash /\ session[z].hash # c.token
        BY <1>1, <1>3, <1>5, <1>6, <1>14, <2>3, <3>2 DEF ExchangeSound, s
      <3>3. ASSUME session[z] # None, NEW y \in Sessions \ {z}, session'[y] # None
            PROVE  session'[y].hash # session[z].hash
        BY <1>6, <1>11, <2>1, <3>2, <3>3 DEF SessionSound
      <3>4. session[z] # None => session[z].hash \notin used'
        BY <1>1, <2>1, <3>2 DEF SessionSound
      <3> QED BY <2>1, <3>1, <3>2, <3>3, <3>4 DEF SessionSound
    <2> QED BY <2>2, <2>3
  <1> QED BY <1>1, <1>5, <1>11, <1>12, <1>13, <1>16, <1>18, <1>19, <1>20, Writing

LEMMA RevokeSessionStep ==
  ASSUME IInv, NEW r \in Requests, RevokeSession(r)
  PROVE  IInv'
  <1> DEFINE c == call[r]
             s == c.session
             row == [session[s] EXCEPT !.status = "REVOKED", !.endedAt = now]
             end == IF ended[s] = None THEN now ELSE ended[s]
  <1>1. /\ TypeOK /\ c # None /\ c.op = "logout"
        /\ Finish(r) /\ UNCHANGED <<scope, now, rows, minted, access, refresh, used, cache>>
    BY DEF IInv, RevokeSession, At
  <1>2. c \in Call /\ CallSound(c) /\ s \in Sessions /\ session[s] # None
    BY <1>1, AtCall, CallOf DEF CallSound
  <1>3. session[s] \in SessionRow /\ now \in Nat /\ now \in Time /\ None \notin Time
    BY <1>1, <1>2, Typed, Numbers
  <1>4. row \in SessionRow /\ row.hash = session[s].hash /\ row.status = "REVOKED" /\ row.endedAt = now
    <2> HIDE DEF s
    <2> QED BY <1>3 DEF SessionRow
  <1>5. session' = [session EXCEPT ![s] = row]
    BY DEF RevokeSession
  <1>6. ended' = [ended EXCEPT ![s] = end]
    BY DEF RevokeSession
  <1>7. end \in Time /\ end # None /\ (ended[s] # None => end = ended[s]) /\ (ended[s] = None => end = now)
    BY <1>1, <1>2, <1>3 DEF TypeOK
  <1>8. row # None
    BY <1>4, NoneIsNoRow
  <1> HIDE DEF row, end, s, c
  <1>9. /\ session' \in [Sessions -> SessionRow \union {None}]
        /\ \A z \in Sessions : session'[z] = IF z = s THEN row ELSE session[z]
    BY <1>1, <1>4, <1>5 DEF TypeOK
  <1>10. /\ ended' \in [Sessions -> Time \union {None}]
         /\ \A z \in Sessions : ended'[z] = IF z = s THEN end ELSE ended[z]
    BY <1>1, <1>6, <1>7 DEF TypeOK
  <1>11. \A z \in Sessions : session'[z] # None => ((session'[z].status = "ACTIVE") <=> (session'[z].endedAt = None))
    BY <1>1, <1>3, <1>4, <1>9 DEF TypeOK
  <1>12. /\ minted' \in 0 .. MaxMinted /\ access' \subseteq AccessToken
         /\ refresh' \in [Sessions -> SUBSET Minted] /\ used' \subseteq Minted
    BY <1>1 DEF TypeOK
  <1>13. \A z \in Sessions : session'[z] # None <=> session[z] # None
    BY <1>2, <1>8, <1>9
  <1>14. \A z \in Sessions : session'[z] # None => session'[z].hash = session[z].hash
    BY <1>4, <1>9
  <1>15. \A z \in Sessions : ended'[z] = ended[z] \/ (ended[z] = None /\ ended'[z] = now)
    BY <1>7, <1>10
  <1>16. ASSUME NEW t \in AccessToken, TokenSound(t) PROVE TokenSound(t)'
    <2>1. t.session \in Sessions /\ t.role \in Roles /\ t.exp \in Nat
      BY TokenOf
    <2>2. ended'[t.session] = now => t.exp <= ended'[t.session] + AccessTTL + CallTime
      BY <1>3, <1>16, <2>1, Numbers DEF TokenSound
    <2>3. ended'[t.session] # None => t.exp <= ended'[t.session] + AccessTTL + CallTime
      BY <1>15, <1>16, <2>1, <2>2 DEF TokenSound
    <2> QED BY <1>1, <1>13, <1>16, <2>1, <2>3 DEF TokenSound, rows
  <1>17. ASSUME NEW d \in Call, CallSound(d) PROVE CallSound(d)'
    <2>1. d.begun \in Nat /\ d.begun <= now
      BY <1>17, CallOf, Numbers DEF CallSound
    <2>2. ASSUME d.op \in {"exchange", "rotate"}, ExchangeSound(d) PROVE ExchangeSound(d)'
      <3>1. d.session \in Sessions
        BY <2>2, CallOf
      <3>2. ended'[d.session] # None => d.begun <= ended'[d.session]
        BY <1>15, <2>1, <2>2, <3>1 DEF ExchangeSound
      <3>3. session'[d.session] # None /\ d.token <= minted'
        BY <1>1, <1>13, <2>2, <3>1 DEF ExchangeSound
      <3>4. \A z \in Sessions \ {d.session} : session'[z] # None => session'[z].hash # d.token
        BY <1>13, <1>14, <2>2 DEF ExchangeSound
      <3> QED BY <3>2, <3>3, <3>4 DEF ExchangeSound
    <2>3. ASSUME d.op \in {"authenticated", "resolving", "resolved"}, GuardSound(d) PROVE GuardSound(d)'
      <3>1. d.token \in AccessToken
        BY <2>3, CallOf
      <3>2. TokenSound(d.token)'
        BY <1>16, <2>3, <3>1 DEF GuardSound, Unlocked
      <3> QED BY <1>1, <2>3, <3>2 DEF GuardSound, rows, Unlocked
    <2>4. d.op = "logout" => d.session \in Sessions
      BY CallOf
    <2>5. ASSUME d.op = "rotate" PROVE ended'[d.session] # None => d.signed <= ended'[d.session] + CallTime
      <3>1. d.session \in Sessions /\ d.signed \in Nat /\ d.signed <= now
        BY <1>17, <2>5, CallOf, Numbers DEF CallSound
      <3>2. d.signed <= now + CallTime
        BY <1>3, <3>1, Numbers
      <3> QED BY <1>15, <1>17, <2>5, <3>1, <3>2 DEF CallSound
    <2> QED BY <1>1, <1>13, <1>17, <2>2, <2>3, <2>4, <2>5 DEF CallSound, rows
  <1>18. ASSUME NEW t \in access' PROVE TokenSound(t)'
    BY <1>1, <1>16, Typed DEF IInv
  <1>19. \A k \in used' : k <= minted'
    BY <1>1 DEF IInv
  <1>20. ASSUME NEW z \in Sessions PROVE SessionSound(z)'
    <2>1. SessionSound(z)
      BY DEF IInv
    <2>2. ended'[z] # None <=> session'[z] # None /\ session'[z].status = "REVOKED"
      BY <1>4, <1>7, <1>8, <1>9, <1>10, <2>1 DEF SessionSound
    <2> QED BY <1>1, <1>13, <1>14, <2>1, <2>2 DEF SessionSound
  <1> QED BY <1>1, <1>9, <1>10, <1>11, <1>12, <1>17, <1>18, <1>19, <1>20, Writing

-----------------------------------------------------------------------------
(* Steps from outside.                                                     *)

\* A row is not the one that was read only if it was changed since, and the
\* time of a change is now.
LEMMA ChangeStep ==
  ASSUME IInv, Change
  PROVE  IInv'
  <1>1. /\ TypeOK /\ answer' = None /\ changes' \in 0 .. MaxChanges
        /\ UNCHANGED <<scope, now, tokens, cache, call>>
    BY Numbers DEF IInv, Change, TypeOK
  <1>2. /\ now \in Nat /\ now \in Time
        /\ changed.account \in Nat /\ changed.role \in Nat /\ \A k \in Roles : changed.row[k] \in Nat
    BY <1>1, Typed
  <1>3. /\ user \in [active : BOOLEAN, locked : BOOLEAN, role : Roles] /\ roleRow \in [Roles -> RoleRow]
        /\ changed \in [account : Time, role : Time, row : [Roles -> Time]]
    BY <1>1 DEF TypeOK
  <1>4. /\ user' \in [active : BOOLEAN, locked : BOOLEAN, role : Roles] /\ roleRow' \in [Roles -> RoleRow]
        /\ changed' \in [account : Time, role : Time, row : [Roles -> Time]]
        /\ (user'.active = user.active /\ user'.locked = user.locked /\ changed'.account = changed.account) \/ changed'.account = now
        /\ (user'.role = user.role /\ changed'.role = changed.role) \/ changed'.role = now
        /\ \A k \in Roles : (roleRow'[k] = roleRow[k] /\ changed'.row[k] = changed.row[k]) \/ changed'.row[k] = now
    <2>1. ASSUME user' \in {[user EXCEPT !.active = ~ @], [user EXCEPT !.locked = ~ @]},
                 changed' = [changed EXCEPT !.account = now], UNCHANGED roleRow
          PROVE  <1>4!:
      <3>1. CASE user' = [user EXCEPT !.active = ~ @]
        BY <1>2, <1>3, <2>1, <3>1
      <3>2. CASE user' = [user EXCEPT !.locked = ~ @]
        BY <1>2, <1>3, <2>1, <3>2
      <3> QED BY <2>1, <3>1, <3>2
    <2>2. ASSUME NEW k \in Roles, user' = [user EXCEPT !.role = k], changed' = [changed EXCEPT !.role = now],
                 UNCHANGED roleRow
          PROVE  <1>4!:
      BY <1>2, <1>3, <2>2
    <2>3. ASSUME NEW k \in Roles, NEW row \in LaterRows, roleRow' = [roleRow EXCEPT ![k] = row],
                 changed' = [changed EXCEPT !.row[k] = now], UNCHANGED user
          PROVE  <1>4!:
      BY <1>2, <1>3, <2>3, AccessConstants
    <2> QED BY <2>1, <2>2, <2>3 DEF Change
  <1>5. TypeOK'
    BY <1>1, <1>4 DEF TypeOK, tokens
  <1>6. ASSUME NEW t \in AccessToken, TokenSound(t) PROVE TokenSound(t)'
    <2>1. t.exp \in Nat
      BY TokenOf
    <2>2. t.exp <= now + AccessTTL + CallTime
      BY <1>2, <1>6, <2>1, Numbers DEF TokenSound
    <2> QED BY <1>1, <1>4, <1>6, <2>2 DEF TokenSound, tokens
  <1>7. ASSUME NEW d \in Call, CallSound(d) PROVE CallSound(d)'
    <2>1. d.begun \in Nat /\ d.begun <= now
      BY <1>7, CallOf, Numbers DEF CallSound
    <2>2. ASSUME ExchangeSound(d) PROVE ExchangeSound(d)'
      BY <1>1, <2>2 DEF ExchangeSound, tokens
    <2>3. ASSUME d.op \in {"authenticated", "resolving", "resolved"}, GuardSound(d)
          PROVE  GuardSound(d)' /\ d.token.role \in Roles
      <3>1. d.token \in AccessToken
        BY <2>3, CallOf
      <3>2. TokenSound(d.token)'
        BY <1>6, <2>3, <3>1 DEF GuardSound, Unlocked
      <3> QED BY <1>4, <2>1, <2>3, <3>1, <3>2, TokenOf DEF GuardSound, Unlocked
    <2>4. d.op = "login" => (d.role # user'.role => d.begun <= changed'.role)
      BY <1>4, <1>7, <2>1 DEF CallSound
    <2>5. d.op = "rotate" => d.signed <= now /\ (d.role # user'.role => d.signed <= changed'.role)
      BY <1>4, <1>7 DEF CallSound
    <2>6. d.op = "resolved" => (d.row # roleRow'[d.token.role] => d.begun <= changed'.row[d.token.role])
      BY <1>4, <1>7, <2>1, <2>3 DEF CallSound
    <2> QED BY <1>1, <1>7, <2>2, <2>3, <2>4, <2>5, <2>6 DEF CallSound, tokens
  <1>8. ASSUME NEW k \in Roles PROVE EntrySound(k)'
    <2>1. EntrySound(k)
      BY DEF IInv
    <2>2. ASSUME cache[k] # None PROVE cache[k].expiresAt <= now + CacheTTL + CallTime
      <3>1. cache[k].expiresAt \in Nat /\ cache[k].expiresAt <= now + CacheTTL
        BY <1>1, <2>1, <2>2, Typed DEF EntrySound
      <3> QED BY <1>2, <3>1, Numbers
    <2> QED BY <1>1, <1>4, <2>1, <2>2 DEF EntrySound
  <1>9. \A c \in Calls' : CallSound(c)'
    <2>1. \A c \in Calls' : c \in Calls /\ c \in Call
      BY <1>1, CallsTyped DEF Calls
    <2> QED BY <1>7, <2>1 DEF IInv
  <1>10. \A t \in access' : TokenSound(t)'
    BY <1>1, <1>6, Typed DEF IInv, tokens
  <1>11. \A s \in Sessions : SessionSound(s)'
    BY <1>1 DEF IInv, SessionSound, tokens
  <1>12. \A k \in used' : k <= minted'
    BY <1>1 DEF IInv, tokens
  <1>13. AnswerSound'
    BY <1>1 DEF AnswerSound, Unlocked
  <1> QED BY <1>5, <1>8, <1>9, <1>10, <1>11, <1>12, <1>13 DEF IInv

LEMMA TickStep ==
  ASSUME IInv, Tick
  PROVE  IInv'
  <1>1. /\ TypeOK /\ answer' = None /\ now' = now + 1 /\ now \in Nat /\ now' \in 0 .. MaxTime
        /\ \A r \in Requests : call[r] # None => now < call[r].begun + CallTime
        /\ access' = {t \in access : t.exp > now'}
        /\ UNCHANGED <<scope, rows, session, minted, refresh, ended, used, cache, call>>
    BY Numbers DEF IInv, Tick, TypeOK
  <1>2. TypeOK'
    BY <1>1 DEF TypeOK, rows
  <1>3. ASSUME NEW t \in AccessToken, TokenSound(t) PROVE TokenSound(t)'
    <2>1. t.exp <= now' + AccessTTL
      BY <1>1, <1>3, TokenOf, Numbers DEF TokenSound
    <2> QED BY <1>1, <1>3, <2>1 DEF TokenSound, rows
  <1>4. ASSUME NEW d \in Calls PROVE CallSound(d)'
    <2>1. d \in Call /\ CallSound(d) /\ now < d.begun + CallTime
      BY <1>1, CallsTyped DEF IInv, Calls
    <2>2. d.begun \in Nat /\ (d.op = "rotate" => d.signed \in Nat) /\ CallTime \in Nat
      BY <2>1, CallOf, Numbers
    <2>3. d.begun <= now /\ (d.op = "rotate" => d.signed <= now)
      BY <2>1 DEF CallSound
    <2>4. d.begun <= now' /\ now' <= d.begun + CallTime
      BY <1>1, <2>1, <2>2, <2>3
    <2>5. ASSUME ExchangeSound(d) PROVE ExchangeSound(d)'
      BY <1>1, <2>5 DEF ExchangeSound
    <2>6. ASSUME d.op \in {"authenticated", "resolving", "resolved"}, GuardSound(d) PROVE GuardSound(d)'
      <3>1. TokenSound(d.token)'
        BY <1>3, <2>1, <2>6, CallOf DEF GuardSound, Unlocked
      <3> QED BY <1>1, <2>6, <3>1 DEF GuardSound, rows, Unlocked
    <2>7. d.op = "rotate" => d.signed <= now'
      BY <1>1, <2>2, <2>3
    <2> QED BY <1>1, <2>1, <2>4, <2>5, <2>6, <2>7 DEF CallSound, rows
  <1>5. ASSUME NEW k \in Roles PROVE EntrySound(k)'
    <2>1. EntrySound(k)
      BY DEF IInv
    <2>2. ASSUME cache[k] # None PROVE cache[k].expiresAt <= now' + CacheTTL
      <3>1. cache[k].expiresAt \in Nat /\ cache[k].expiresAt <= now + CacheTTL
        BY <1>1, <2>1, <2>2, Typed DEF EntrySound
      <3> QED BY <1>1, <3>1, Numbers
    <2> QED BY <1>1, <2>1, <2>2 DEF EntrySound, rows
  <1>6. \A c \in Calls' : CallSound(c)'
    BY <1>1, <1>4 DEF Calls
  <1>7. \A t \in access' : TokenSound(t)'
    BY <1>1, <1>3, Typed DEF IInv
  <1>8. \A s \in Sessions : SessionSound(s)'
    BY <1>1 DEF IInv, SessionSound
  <1>9. \A k \in used' : k <= minted'
    BY <1>1 DEF IInv
  <1>10. AnswerSound'
    BY <1>1 DEF AnswerSound, Unlocked
  <1> QED BY <1>2, <1>5, <1>6, <1>7, <1>8, <1>9, <1>10 DEF IInv

-----------------------------------------------------------------------------
(* The theorems.                                                           *)

LEMMA InitSound ==
  ASSUME Init
  PROVE  IInv
  <1> DEFINE token == [session |-> 1, role |-> user.role, exp |-> AccessTTL]
             row == [status |-> "ACTIVE", hash |-> 1, expires |-> RefreshTTL, endedAt |-> None]
  <1>1. /\ now = 0 /\ user.role \in Roles /\ user.active = TRUE /\ user.locked = FALSE /\ ended = [s \in Sessions |-> None]
        /\ used = {} /\ answer = None /\ call = [r \in Requests |-> None] /\ cache = [k \in Roles |-> None]
        /\ changed.role = 0
    BY DEF Init
  <1>2. /\ 0 \in Time /\ 0 + AccessTTL \in Time /\ 0 + RefreshTTL \in Time
    BY TimeOf, Numbers
  <1>3. row \in SessionRow /\ row.status = "ACTIVE" /\ row.hash = 1 /\ row.endedAt = None /\ row # None
    <2>1. row \in SessionRow /\ row.status = "ACTIVE" /\ row.hash = 1 /\ row.endedAt = None
      BY <1>2, Numbers DEF SessionRow
    <2> QED BY <2>1, NoneIsNoRow
  <1>4. token \in AccessToken /\ token.session = 1 /\ token.role = user.role /\ token.exp = AccessTTL
    BY <1>1, <1>2, Numbers DEF AccessToken
  <1>5. \/ session = [s \in Sessions |-> None] /\ minted = 0 /\ access = {}
        \/ session = [s \in Sessions |-> IF s = 1 THEN row ELSE None] /\ minted = 1 /\ access = {token}
    <2>1. CASE LoggedIn
      BY <2>1 DEF Init
    <2>2. CASE ~ LoggedIn
      BY <2>2 DEF Init
    <2> QED BY <2>1, <2>2
  <1> HIDE DEF row, token
  <1>6. \A s \in Sessions : session[s] = None \/ (session[s] = row /\ s = 1 /\ minted = 1)
    BY <1>5
  <1>7. \A t \in access : t = token /\ session[1] = row
    BY <1>5, Numbers
  <1>8. TypeOK
    <2>1. user \in [active : BOOLEAN, locked : BOOLEAN, role : Roles] /\ roleRow \in [Roles -> RoleRow]
      BY AccessConstants DEF Init
    <2>2. changed \in [account : Time, role : Time, row : [Roles -> Time]]
      BY <1>2 DEF Init
    <2>3. session \in [Sessions -> SessionRow \union {None}] /\ access \subseteq AccessToken /\ minted \in 0 .. MaxMinted
      BY <1>3, <1>4, <1>5, Numbers DEF Minted
    <2>4. now \in 0 .. MaxTime /\ changes \in 0 .. MaxChanges /\ scope \in Scopes
      BY Numbers DEF Init
    <2>5. \A s \in Sessions : session[s] # None => ((session[s].status = "ACTIVE") <=> (session[s].endedAt = None))
      BY <1>3, <1>6
    <2>6. refresh \in [Sessions -> SUBSET Minted]
      BY DEF Init
    <2> QED BY <1>1, <2>1, <2>2, <2>3, <2>4, <2>5, <2>6 DEF TypeOK
  <1>9. \A c \in Calls : CallSound(c)
    BY <1>1 DEF Calls
  <1>10. ASSUME NEW t \in access PROVE TokenSound(t)
    BY <1>1, <1>3, <1>4, <1>7, Numbers DEF TokenSound
  <1>11. ASSUME NEW s \in Sessions PROVE SessionSound(s)
    <2>1. ended[s] = None
      BY <1>1
    <2> QED BY <1>1, <1>3, <1>6, <2>1 DEF SessionSound
  <1>12. \A k \in Roles : EntrySound(k)
    BY <1>1 DEF EntrySound
  <1> QED BY <1>1, <1>8, <1>9, <1>10, <1>11, <1>12 DEF IInv, AnswerSound, Unlocked

LEMMA StepSound ==
  ASSUME IInv, [Next]_vars
  PROVE  IInv'
  <1>1. CASE UNCHANGED vars
    <2>1. UNCHANGED <<scope, now, rows, tokens, cache, call, answer>>
      BY <1>1 DEF vars
    <2>2. TypeOK'
      BY <2>1 DEF IInv, TypeOK, rows, tokens
    <2>3. \A c \in Calls' : CallSound(c)'
      BY <2>1, SoundKept DEF IInv, Calls, rows, tokens
    <2>4. \A t \in access' : TokenSound(t)'
      BY <2>1, SoundKept DEF IInv, rows, tokens
    <2>5. \A k \in Roles : EntrySound(k)'
      BY <2>1 DEF IInv, EntrySound, rows
    <2>6. \A s \in Sessions : SessionSound(s)'
      BY <2>1 DEF IInv, SessionSound, tokens
    <2>7. \A k \in used' : k <= minted'
      BY <2>1 DEF IInv, tokens
    <2>8. AnswerSound'
      BY <2>1 DEF IInv, AnswerSound, rows, tokens, Unlocked
    <2> QED BY <2>2, <2>3, <2>4, <2>5, <2>6, <2>7, <2>8 DEF IInv
  <1>2. ASSUME NEW r \in Requests, NEW t \in access, NEW h \in Asked[scope], Authenticate(r, t, h) PROVE IInv'
    BY <1>2, AuthenticateStep
  <1>3. ASSUME NEW r \in Requests, Resolve(r) \/ ReadRole(r) \/ SetCache(r) PROVE IInv'
    BY <1>3, ResolveStep, ReadRoleStep, SetCacheStep
  <1>4. ASSUME NEW r \in Requests, ValidateUser(r) \/ CreateSession(r) PROVE IInv'
    BY <1>4, ValidateUserStep, CreateSessionStep
  <1>5. ASSUME NEW r \in Requests, NEW s \in Sessions, NEW token \in refresh[s], CheckRefresh(r, s, token) PROVE IInv'
    BY <1>5, CheckRefreshStep
  <1>6. ASSUME NEW r \in Requests, ReadUser(r) \/ RevokeSession(r) PROVE IInv'
    BY <1>6, ReadUserStep, RevokeSessionStep
  <1>7. ASSUME NEW r \in Requests, NEW arrives \in BOOLEAN, RefreshSession(r, arrives) PROVE IInv'
    BY <1>7, RefreshSessionStep
  <1>8. CASE Change \/ Tick
    BY <1>8, ChangeStep, TickStep
  <1> QED BY <1>1, <1>2, <1>3, <1>4, <1>5, <1>6, <1>7, <1>8 DEF Next

\* What a call has read was so since it began, a token names a session and a
\* role that were its when it was signed, and an entry of the cache what the
\* role was when it was read.
THEOREM AccessInvariant == Spec => []IInv
  <1>1. Init => IInv
    BY InitSound
  <1>2. IInv /\ [Next]_vars => IInv'
    BY StepSound
  <1> QED BY <1>1, <1>2, PTL DEF Spec

\* Rows, tokens, cache and calls are of their types, and a session has an end
\* when it is no longer active: the columns of user_sessions agree.
THEOREM AccessTypeCorrect == Spec => []TypeOK
  <1>1. IInv => TypeOK
    BY DEF IInv
  <1> QED BY <1>1, AccessInvariant, PTL

\* Whatever logins, overlapping refreshes and logouts were under way, a session
\* that was ended stays revoked, its access tokens are believed no longer than
\* an AccessTTL and the calls that were under way, and no session keeps a
\* refresh token that was exchanged.
THEOREM SessionsSoundCorrect == Spec => []SessionsSound
  <1>1. ASSUME IInv PROVE SessionsSound
    <2>1. TypeOK
      BY <1>1 DEF IInv
    <2>2. ASSUME NEW s \in Sessions, ended[s] # None
          PROVE  /\ session[s].status = "REVOKED"
                 /\ \A t \in access : t.session = s => t.exp <= ended[s] + CallTime + AccessTTL
                 /\ answer # None => (answer.token.session = s => now < ended[s] + AccessTTL + 2 * CallTime)
      <3>1. ended[s] \in Nat /\ SessionSound(s)
        BY <1>1, <2>1, <2>2, Typed DEF IInv
      <3>2. ASSUME NEW t \in access, t.session = s PROVE t.exp <= ended[s] + CallTime + AccessTTL
        <4>1. TokenSound(t) /\ t.exp \in Nat
          BY <1>1, <2>1, Typed, TokenOf DEF IInv
        <4> QED BY <2>2, <3>1, <3>2, <4>1, Numbers DEF TokenSound
      <3>3. session[s].status = "REVOKED"
        BY <2>2, <3>1 DEF SessionSound
      <3>4. answer # None => (answer.token.session = s => now < ended[s] + AccessTTL + 2 * CallTime)
        BY <1>1, <2>2 DEF IInv, AnswerSound, Unlocked
      <3> QED BY <3>2, <3>3, <3>4
    <2>3. UsedTokensReplaced
      BY <1>1 DEF IInv, SessionSound, UsedTokensReplaced
    <2> QED BY <2>2, <2>3 DEF SessionsSound, EndedForGood
  <1> QED BY <1>1, AccessInvariant, PTL

\* The guard answers as the rows of the user and of the role say, or said in
\* the time that a call, a token or an entry of the cache may last.
THEOREM PermissionsFreshCorrect == Spec => []PermissionsFresh
  <1>1. IInv => PermissionsFresh
    BY DEF IInv, AnswerSound, PermissionsFresh, Unlocked
  <1> QED BY <1>1, AccessInvariant, PTL

\* What the guard has just answered was about the handler the router has chosen.
RoutedSound == answer # None => answer.reached = Reached(answer.sent)

\* Only Decide answers, and it asks the router.
LEMMA RoutedStep ==
  ASSUME RoutedSound, [Next]_vars
  PROVE  RoutedSound'
  <1>1. CASE UNCHANGED vars
    BY <1>1 DEF RoutedSound, vars
  <1>2. ASSUME NEW r \in Requests, NEW row, Decide(r, row)
        PROVE  RoutedSound'
    BY <1>2 DEF Decide, RoutedSound
  <1>3. ASSUME NEW r \in Requests, NEW t \in access, NEW h \in Asked[scope], Authenticate(r, t, h)
        PROVE  RoutedSound'
    BY <1>3 DEF Authenticate, Go, RoutedSound
  <1>4. ASSUME NEW r \in Requests, Resolve(r) \/ ReadRole(r) \/ SetCache(r)
        PROVE  RoutedSound'
    BY <1>2, <1>4 DEF Resolve, ReadRole, SetCache, Go, RoutedSound
  <1>5. ASSUME NEW r \in Requests,
               ValidateUser(r) \/ CreateSession(r) \/ ReadUser(r) \/ RevokeSession(r)
        PROVE  RoutedSound'
    BY <1>5 DEF ValidateUser, CreateSession, ReadUser, RevokeSession, Go, Finish, RoutedSound
  <1>6. ASSUME NEW r \in Requests, NEW s \in Sessions, NEW token \in refresh[s], CheckRefresh(r, s, token)
        PROVE  RoutedSound'
    BY <1>6 DEF CheckRefresh, Go, RoutedSound
  <1>7. ASSUME NEW r \in Requests, NEW arrives \in BOOLEAN, RefreshSession(r, arrives)
        PROVE  RoutedSound'
    BY <1>7 DEF RefreshSession, Go, Finish, RoutedSound
  <1>8. CASE Change \/ Tick
    BY <1>8 DEF Change, Tick, RoutedSound
  <1> QED BY <1>1, <1>3, <1>4, <1>5, <1>6, <1>7, <1>8 DEF Next

\* A request reaches the handler it is for, whichever handlers share its words
\* and wherever an id may stand in its path, and no role is let through by a
\* handler that turns one above it away.
THEOREM RequestsReachTheirHandlersCorrect == Spec => []RequestsReachTheirHandlers
  <1>1. Init => RoutedSound
    BY DEF Init, RoutedSound
  <1>2. RoutedSound /\ [Next]_vars => RoutedSound'
    BY RoutedStep
  <1>3. ASSUME TypeOK, RoutedSound, answer # None
        PROVE  /\ answer.reached = answer.sent
               /\ \A i \in 1 .. Len(RoleCodes) - 1 :
                     RoleCodes[i] \in Handlers[answer.reached].roles =>
                         RoleCodes[i + 1] \in Handlers[answer.reached].roles
    <2>1. answer.sent \in DOMAIN Handlers
      BY <1>3 DEF TypeOK, Answer
    <2>2. answer.reached = answer.sent
      BY <1>3, <2>1, ReachedIsSent DEF RoutedSound
    <2> QED BY <2>1, <2>2, RolesRise
  <1>4. TypeOK /\ RoutedSound => RequestsReachTheirHandlers
    BY <1>3 DEF RequestsReachTheirHandlers
  <1> QED BY <1>1, <1>2, <1>4, AccessTypeCorrect, PTL DEF Spec
=============================================================================
