------------------------ MODULE OrderIntake_proofs ------------------------
(***************************************************************************)
(* Proofs about OrderIntake: the grants of the orders in the book, the     *)
(* sessions of the logins, and what the agent makes of two orders that the *)
(* wallet has accepted and the backend has matched.                        *)
(***************************************************************************)
EXTENDS OrderIntake, NaturalsInduction, WellFoundedInduction, TLAPS

\* An order that its owner or an authorized signer has signed, or whose signer
\* lost his grant in one of the ways that BookAuthorized names
Vouched(o) ==
    \/ o.signer = o.address
    \/ <<o.address, o.signer>> \in grants
    \/ <<o.address, o.signer>> \in revocations \cup lost
    \/ o \in overtaken

\* BookAuthorized is not inductive by itself: it is established when the grant is
\* looked up, and has to last until the order reaches the book.
AuthorizedInv ==
    /\ BookAuthorized
    /\ \A t \in intake : t.stage = "rules" => Vouched(t.order)

LEMMA AuthorizedInit == Init => AuthorizedInv
  BY DEF Init, AuthorizedInv, BookAuthorized

LEMMA AuthorizedStep == AuthorizedInv /\ [Next]_vars => AuthorizedInv'
<1> SUFFICES ASSUME AuthorizedInv, [Next]_vars PROVE AuthorizedInv'
  OBVIOUS
<1> USE DEF AuthorizedInv, BookAuthorized, Vouched
\* The book and what is past the lookup of the grant stay, under the same grants
\* and revocations.
<1>u. ASSUME grants' = grants, overtaken' = overtaken,
             revocations' \cup lost' = revocations \cup lost,
             book' \subseteq book,
            \A t \in intake' : t \in intake \/ t.stage # "rules"
     PROVE  AuthorizedInv'
  BY <1>u
<1>1. ASSUME NEW o \in Orders, NEW m \in Matchers, ReceiveOrder(o, m) PROVE AuthorizedInv'
  BY <1>1, <1>u DEF ReceiveOrder, history
<1>2. ASSUME NEW t \in intake, CheckSigner(t) PROVE AuthorizedInv'
  <2>1. UNCHANGED <<grants, book, revocations, lost, overtaken>>
    BY <1>2 DEF CheckSigner, history
  <2>2. CASE ~(t.order.signer = t.order.address \/ <<t.order.address, t.order.signer>> \in grants)
    BY <1>2, <2>1, <2>2, <1>u DEF CheckSigner
  <2>3. CASE t.order.signer = t.order.address \/ <<t.order.address, t.order.signer>> \in grants
    <3>1. intake' = (intake \ {t}) \cup {[t EXCEPT !.stage = "rules"]}
      BY <1>2, <2>3 DEF CheckSigner
    <3>2. Vouched([t EXCEPT !.stage = "rules"].order)'
      BY <2>1, <2>3
    <3> QED
      BY <2>1, <3>1, <3>2
  <2> QED
    BY <2>2, <2>3
<1>3. ASSUME NEW t \in intake, RefuseOrder(t) PROVE AuthorizedInv'
  BY <1>3, <1>u DEF RefuseOrder, history
<1>4. ASSUME NEW t \in intake, AcceptOrder(t) PROVE AuthorizedInv'
  BY <1>4 DEF AcceptOrder, history
<1>5. ASSUME NEW t \in intake, NoPair(t) PROVE AuthorizedInv'
  BY <1>5, <1>u DEF NoPair, Ends
<1>6. ASSUME NEW g \in Signers, Grant(g) PROVE AuthorizedInv'
  BY <1>6 DEF Grant, memory, history
<1>7. ASSUME NEW g \in Signers, SeeRevocation(g) PROVE AuthorizedInv'
  BY <1>7, <1>u DEF SeeRevocation, Revoked, memory, history
<1>8. ASSUME NEW g \in Signers, Revoke(g) PROVE AuthorizedInv'
  <2>1. /\ grants' = grants \ {g} /\ revocations' = revocations \cup {g}
        /\ UNCHANGED <<book, intake, overtaken, lost>>
    BY <1>8 DEF Revoke, history
  <2>2. ASSUME NEW o, Vouched(o) PROVE Vouched(o)'
    BY <2>1, <2>2
  <2>3. BookAuthorized'
    BY <2>1, <2>2
  <2> QED
    BY <2>1, <2>2, <2>3
<1>14. ASSUME NEW g \in revocations, HandleRevocation(g) PROVE AuthorizedInv'
  <2>1. /\ book' = {o \in book : ~SignedUnder(o, g)}
        /\ overtaken' = overtaken \cup Overtaken(g)
        /\ revocations' = revocations \ {g} /\ lost' = lost \ {g}
        /\ UNCHANGED <<grants, intake>>
    BY <1>14 DEF HandleRevocation, Revoked
  <2>3. ASSUME NEW o, ~SignedUnder(o, g), Vouched(o) PROVE Vouched(o)'
    <3>1. <<o.address, o.signer>> # g
      <4> SUFFICES ASSUME <<o.address, o.signer>> = g PROVE FALSE
        OBVIOUS
      <4>1. g[1] = o.address /\ g[2] = o.signer
        OBVIOUS
      <4> QED
        BY <2>3, <4>1 DEF SignedUnder
    <3> QED
      BY <2>1, <2>3, <3>1
  <2>4. BookAuthorized'
    BY <2>1, <2>3
  <2>5. ASSUME NEW t \in intake, t.stage = "rules" PROVE Vouched(t.order)'
    <3>1. CASE SignedUnder(t.order, g)
      BY <2>1, <2>5, <3>1 DEF Overtaken
    <3>2. CASE ~SignedUnder(t.order, g)
      BY <2>3, <2>5, <3>2
    <3> QED
      BY <3>1, <3>2
  <2> QED
    BY <2>1, <2>4, <2>5
<1>15. CASE Crash
  BY <1>15, <1>u DEF Crash, Ends
<1>9. ASSUME NEW c \in cancels, CompleteCancel(c) PROVE AuthorizedInv'
  BY <1>9, <1>u DEF CompleteCancel, history
<1>10. ASSUME UNCHANGED <<grants, book, intake, revocations, lost, overtaken>> PROVE AuthorizedInv'
  BY <1>10, <1>u
<1>11. CASE \E o \in Cancellable : \E a \in {o.address, o.matcher} :
                AskToCancel(o, a) \/ \E via \in {"chat", "other"} : ReceiveCancel(o, via, a)
  BY <1>10, <1>11 DEF AskToCancel, ReceiveCancel, history
<1>12. CASE \/ \E d \in Devices, s \in Sessions : AskToLogIn(d, s)
            \/ \E d \in Devices, a \in Members : ReceiveLogin(d, a)
            \/ \E l \in logins : CompleteLogin(l)
  BY <1>10, <1>12 DEF AskToLogIn, ReceiveLogin, CompleteLogin, history
<1>13. CASE UNCHANGED vars
  BY <1>10, <1>13 DEF vars, memory, history
<1> QED
  BY <1>1, <1>2, <1>3, <1>4, <1>5, <1>6, <1>7, <1>8, <1>9, <1>11, <1>12, <1>13, <1>14, <1>15 DEF Next

\* Every order in the book is signed by its owner or by someone whom the owner
\* authorizes, but for a revocation that overtook the order on its way to the
\* backend, that is yet to be handled, or that was lost when the process ended
\* (handleSignedOrder, onAAResponse, updateTradeStatuses).
THEOREM Authorized == Spec => []BookAuthorized
<1>1. AuthorizedInv => BookAuthorized
  BY DEF AuthorizedInv
<1> QED
  BY AuthorizedInit, AuthorizedStep, <1>1, PTL DEF Spec

-----------------------------------------------------------------------------
\* The session and the address of a login in work are a proven pair already.
ProvenInv ==
    /\ LoginProven
    /\ \A l \in logins : <<l.session, l.address>> \in proven

LEMMA ProvenInit == Init => ProvenInv
  BY DEF Init, ProvenInv, LoginProven

LEMMA ProvenStep == ProvenInv /\ [Next]_vars => ProvenInv'
<1> SUFFICES ASSUME ProvenInv, [Next]_vars PROVE ProvenInv'
  OBVIOUS
<1> USE DEF ProvenInv, LoginProven
<1>u. ASSUME UNCHANGED <<loggedin, proven>>, logins' \subseteq logins PROVE ProvenInv'
  BY <1>u
<1>1. ASSUME NEW d \in Devices, NEW a \in Members, ReceiveLogin(d, a) PROVE ProvenInv'
  BY <1>1 DEF ReceiveLogin
<1>2. ASSUME NEW l \in logins, CompleteLogin(l) PROVE ProvenInv'
  BY <1>2 DEF CompleteLogin
<1>3. CASE \/ \E o \in Orders, m \in Matchers : ReceiveOrder(o, m)
           \/ \E t \in intake :
                CheckSigner(t) \/ RefuseOrder(t) \/ AcceptOrder(t) \/ NoPair(t)
  BY <1>3, <1>u DEF ReceiveOrder, CheckSigner, RefuseOrder, AcceptOrder, NoPair, Ends, history
<1>4. CASE \/ \E g \in Signers : Grant(g) \/ SeeRevocation(g) \/ Revoke(g)
           \/ \E g \in revocations : HandleRevocation(g)
           \/ Crash
  BY <1>4, <1>u DEF Grant, SeeRevocation, Revoke, HandleRevocation, Crash, Ends, memory, history
<1>5. CASE \/ \E o \in Cancellable : \E a \in {o.address, o.matcher} :
                AskToCancel(o, a) \/ \E via \in {"chat", "other"} : ReceiveCancel(o, via, a)
           \/ \E c \in cancels : CompleteCancel(c)
           \/ \E d \in Devices, s \in Sessions : AskToLogIn(d, s)
  BY <1>5, <1>u DEF AskToCancel, ReceiveCancel, CompleteCancel, AskToLogIn, history
<1>6. CASE UNCHANGED vars
  BY <1>6, <1>u DEF vars, memory, history
<1> QED
  BY <1>1, <1>2, <1>3, <1>4, <1>5, <1>6 DEF Next

\* A login is announced to the website only for a session that was the device's
\* latest when the device proved the address (onPaired, handleSignedLogin).
THEOREM Proven == Spec => []LoginProven
<1>1. ProvenInv => LoginProven
  BY DEF ProvenInv
<1> QED
  BY ProvenInit, ProvenStep, <1>1, PTL DEF Spec

-----------------------------------------------------------------------------
(* Prices of few digits *)

LEMMA LeastNumber ==
    ASSUME NEW N \in SUBSET Nat, N # {}
    PROVE  \E m \in N : \A n \in N : m <= n
<1>1. PICK m \in N : \A n \in N : <<n, m>> \notin OpToRel(<, Nat)
  BY NatLessThanWellFounded, WFMin
<1>2. \A n \in N : ~(n < m)
  BY <1>1 DEF OpToRel
<1> QED
  BY <1>2

\* f has the powers of ten up to n.
PowersOfTen(f, n) ==
    f \in [0..n -> Nat \ {0}] /\ f[0] = 1 /\ \A k \in 1..n : f[k] = 10 * f[k - 1]

LEMMA PowersExist == ASSUME NEW n \in Nat PROVE \E f : PowersOfTen(f, n)
<1> DEFINE N == {k \in Nat : ~\E f : PowersOfTen(f, k)}
<1>1. ASSUME NEW m \in N, \A k \in N : m <= k PROVE FALSE
  <2>1. CASE m = 0
    <3> DEFINE e == [k \in 0..0 |-> 1]
    <3>1. PowersOfTen(e, 0)
      BY DEF PowersOfTen
    <3> QED
      BY <2>1, <3>1
  <2>2. CASE m # 0
    <3>1. m - 1 \in Nat /\ m - 1 \notin N
      BY <1>1, <2>2
    <3>2. PICK f : PowersOfTen(f, m - 1)
      BY <3>1
    <3> DEFINE g == [k \in 0..m |-> IF k = m THEN 10 * f[m - 1] ELSE f[k]]
    <3>3. f[m - 1] \in Nat \ {0} /\ \A k \in 0..(m - 1) : f[k] \in Nat \ {0}
      BY <3>1, <3>2 DEF PowersOfTen
    <3>4. g[m] = 10 * f[m - 1] /\ \A k \in 0..(m - 1) : g[k] = f[k]
      BY <3>1
    <3>5. g \in [0..m -> Nat \ {0}]
      <4>1. \A k \in 0..m : k = m \/ k \in 0..(m - 1)
        OBVIOUS
      <4> QED
        BY <3>3, <4>1
    <3> HIDE DEF g
    <3>6. ASSUME NEW k \in 1..m PROVE g[k] = 10 * g[k - 1]
      <4>1. CASE k = m
        BY <3>1, <3>4, <4>1
      <4>2. CASE k # m
        <5>1. k \in 1..(m - 1) /\ k \in 0..(m - 1) /\ k - 1 \in 0..(m - 1)
          BY <4>2
        <5>2. f[k] = 10 * f[k - 1]
          BY <3>2, <5>1 DEF PowersOfTen
        <5> QED
          BY <3>4, <5>1, <5>2
      <4> QED
        BY <4>1, <4>2
    <3>7. g[0] = 1
      BY <3>1, <3>2, <3>4 DEF PowersOfTen
    <3>8. PowersOfTen(g, m)
      BY <3>5, <3>6, <3>7 DEF PowersOfTen
    <3> QED
      BY <3>8
  <2> QED
    BY <2>1, <2>2
<1>2. N \in SUBSET Nat
  OBVIOUS
<1>3. N = {}
  <2> HIDE DEF N
  <2> QED
    BY <1>1, <1>2, LeastNumber
<1> QED
  BY <1>3

LEMMA TenToSolves == PowersOfTen(TenTo, Digits + 2 * Scale)
<1> DEFINE n == Digits + 2 * Scale
           Is(f) == f = [k \in 0..n |-> IF k = 0 THEN 1 ELSE 10 * f[k - 1]]
<1>1. n \in Nat
  BY OrderIntakeAssumption
<1>2. PICK f : PowersOfTen(f, n)
  BY <1>1, PowersExist
<1>3. Is(f)
  <2>1. f \in [0..n -> Nat \ {0}]
    BY <1>2 DEF PowersOfTen
  <2>2. \A k \in 0..n : f[k] = IF k = 0 THEN 1 ELSE 10 * f[k - 1]
    BY <1>1, <1>2 DEF PowersOfTen
  <2> QED
    BY <2>1, <2>2
<1>4. TenTo = CHOOSE g : Is(g)
  BY DEF TenTo
<1>5. Is(TenTo)
  <2> HIDE DEF Is
  <2> QED
    BY <1>3, <1>4
<1>6. TenTo[0] = 1 /\ \A k \in 1..n : TenTo[k] = 10 * TenTo[k - 1]
  BY <1>1, <1>5
<1> DEFINE N == {k \in 0..n : TenTo[k] \notin Nat \ {0}}
<1>7. ASSUME NEW m \in N, \A k \in N : m <= k PROVE FALSE
  <2>1. m \in 0..n /\ TenTo[m] \notin Nat \ {0}
    OBVIOUS
  <2>2. m \in 1..n /\ m - 1 \in 0..n /\ ~(m <= m - 1)
    BY <1>1, <1>6, <2>1
  <2>3. TenTo[m - 1] \in Nat \ {0}
    BY <1>7, <2>2
  <2> QED
    BY <1>6, <2>1, <2>2, <2>3
<1>8. N = {}
  <2>1. N \in SUBSET Nat
    BY <1>1
  <2> HIDE DEF N
  <2> QED
    BY <1>7, <2>1, LeastNumber
<1>9. TenTo \in [0..n -> Nat \ {0}]
  <2>1. TenTo = [k \in 0..n |-> TenTo[k]]
    BY <1>5
  <2>2. \A k \in 0..n : TenTo[k] \in Nat \ {0}
    BY <1>8
  <2> QED
    BY <2>1, <2>2
<1> QED
  BY <1>6, <1>9 DEF PowersOfTen

LEMMA ExpressibleType ==
    /\ Expressible # {}
    /\ TenTo[Scale] \in Nat \ {0}
    /\ \A q \in Expressible : q.num \in Nat \ {0} /\ q.den = TenTo[Scale]
<1> DEFINE n == Digits + 2 * Scale
<1>1. /\ Digits - 1 \in 0..n /\ Digits \in 1..n /\ Scale \in 0..n /\ 0 \in 0..(2 * Scale)
      /\ \A k \in 0..(2 * Scale) : k \in 0..n
  BY OrderIntakeAssumption
<1>2. /\ \A k \in 0..n : TenTo[k] \in Nat \ {0}
      /\ TenTo[Digits] = 10 * TenTo[Digits - 1]
  BY <1>1, TenToSolves DEF PowersOfTen
<1>3. TenTo[Digits - 1] \in TenTo[Digits - 1]..(TenTo[Digits] - 1)
  BY <1>1, <1>2
<1>4. Ratio(TenTo[Digits - 1] * TenTo[0], TenTo[Scale]) \in Expressible
  BY <1>1, <1>3 DEF Expressible
<1>5. ASSUME NEW q \in Expressible PROVE q.num \in Nat \ {0} /\ q.den = TenTo[Scale]
  <2>1. PICK m \in TenTo[Digits - 1]..(TenTo[Digits] - 1), k \in 0..(2 * Scale) :
            q = Ratio(m * TenTo[k], TenTo[Scale])
    BY DEF Expressible
  <2>2. m \in Nat \ {0} /\ TenTo[k] \in Nat \ {0}
    BY <1>1, <1>2
  <2>3. m * TenTo[k] \in Nat \ {0}
    BY <2>2
  <2> QED
    BY <2>1, <2>3 DEF Ratio
<1> QED
  BY <1>1, <1>2, <1>4, <1>5

LEMMA TimesMonotone ==
    ASSUME NEW m \in Nat, NEW a \in Int, NEW b \in Int, a <= b
    PROVE  m * a <= m * b
<1>1. m * (b - a) >= 0 /\ m * (b - a) = m * b - m * a
  OBVIOUS
<1> QED
  BY <1>1

LEMMA TimesCancels ==
    ASSUME NEW m \in Nat \ {0}, NEW a \in Int, NEW b \in Int, m * a <= m * b
    PROVE  a <= b
<1> SUFFICES ASSUME b + 1 <= a PROVE FALSE
  OBVIOUS
<1>1. m * (b + 1) <= m * a
  BY TimesMonotone
<1>2. m * (b + 1) = m * b + m
  OBVIOUS
<1> QED
  BY <1>1, <1>2

\* One of the numbers of few digits is nearest to p: the search ends, with one
\* of them.
LEMMA DropIsExpressible ==
    ASSUME NEW p, p.num \in Nat, p.den \in Nat \ {0}
    PROVE  DropExcessivePrecision(p) \in Expressible
<1> DEFINE T == TenTo[Scale]
           Diff(q) == q.num * p.den - p.num * T
           Gap(q) == IF Diff(q) < 0 THEN -Diff(q) ELSE Diff(q)
           nearest == {q \in Expressible :
                          \A r \in Expressible : ~Less(Distance(r, p), Distance(q, p))}
           Largest(q) == \A r \in nearest : ~Less(q, r)
<1>1. /\ T \in Nat \ {0} /\ Expressible # {}
      /\ \A q \in Expressible : q.num \in Nat \ {0} /\ q.den = T
  BY ExpressibleType
<1> HIDE DEF T
<1>2. ASSUME NEW q \in Expressible
      PROVE  /\ Gap(q) \in Nat
             /\ Distance(q, p) = Ratio(Gap(q), T * p.den)
             /\ q.num * p.den <= Gap(q) + p.num * T
  <2>1. q.num \in Nat /\ q.den = T
    BY <1>1
  <2>2. q.num * p.den \in Int /\ p.num * T \in Int
    BY <1>1, <2>1
  <2>3. Distance(q, p) = Ratio(Gap(q), T * p.den)
    BY <2>1 DEF Distance
  <2> QED
    BY <2>2, <2>3
<1> HIDE DEF Diff, Gap
<1>3. T * p.den \in Nat \ {0}
  BY <1>1
<1>4. ASSUME NEW q \in Expressible, NEW r \in Expressible, Gap(q) <= Gap(r)
      PROVE  ~Less(Distance(r, p), Distance(q, p))
  <2> DEFINE D == T * p.den
  <2>1. D \in Nat /\ Gap(q) \in Nat /\ Gap(r) \in Nat
    BY <1>2, <1>3
  <2>2. /\ Distance(q, p) = Ratio(Gap(q), D)
        /\ Distance(r, p) = Ratio(Gap(r), D)
    BY <1>2
  <2> HIDE DEF D
  <2>3. D * Gap(q) <= D * Gap(r)
    BY <1>4, <2>1, TimesMonotone
  <2>4. D * Gap(q) = Gap(q) * D /\ D * Gap(r) = Gap(r) * D
    BY <2>1
  <2>5. ~(Gap(r) * D < Gap(q) * D)
    BY <2>1, <2>3, <2>4
  <2> QED
    BY <2>2, <2>5 DEF Less, Ratio
<1>5. PICK q \in Expressible : \A r \in Expressible : Gap(q) <= Gap(r)
  <2> DEFINE N == {Gap(q) : q \in Expressible}
  <2>1. N \in SUBSET Nat /\ N # {}
    BY <1>1, <1>2
  <2>2. PICK m \in N : \A k \in N : m <= k
    <3> HIDE DEF N
    <3> QED
      BY <2>1, LeastNumber
  <2> QED
    BY <2>2
<1>6. q \in nearest
  BY <1>4, <1>5
<1>7. ASSUME NEW r \in nearest PROVE r.num <= Gap(q) + p.num * T
  <2>1. r \in Expressible /\ ~Less(Distance(q, p), Distance(r, p))
    BY <1>5
  <2> DEFINE D == T * p.den
  <2>2. D \in Nat \ {0} /\ Gap(q) \in Nat /\ Gap(r) \in Nat
    BY <1>2, <1>3, <1>5, <2>1
  <2>3. /\ Distance(q, p) = Ratio(Gap(q), D)
        /\ Distance(r, p) = Ratio(Gap(r), D)
    BY <1>2, <1>5, <2>1
  <2> HIDE DEF D
  <2>4. ~(Gap(q) * D < Gap(r) * D)
    BY <2>1, <2>3 DEF Less, Ratio
  <2>5. D * Gap(q) = Gap(q) * D /\ D * Gap(r) = Gap(r) * D
        /\ Gap(q) * D \in Int /\ Gap(r) * D \in Int
    BY <2>2
  <2>6. Gap(r) <= Gap(q)
    BY <2>2, <2>4, <2>5, TimesCancels
  <2>7. r.num \in Nat /\ r.num * p.den <= Gap(r) + p.num * T
    BY <1>1, <1>2, <2>1
  <2>8. r.num <= r.num * p.den
    <3>1. r.num * 1 <= r.num * p.den
      BY <2>7, TimesMonotone
    <3> QED
      BY <2>7, <3>1
  <2>9. p.num * T \in Int /\ r.num * p.den \in Int
    BY <1>1, <2>7
  <2> QED
    BY <2>2, <2>6, <2>7, <2>8, <2>9
<1>8. PICK e \in nearest : Largest(e)
  <2> DEFINE B == Gap(q) + p.num * T
             N == {B - r.num : r \in nearest}
  <2>1. /\ B \in Int
        /\ \A r \in nearest : r \in Expressible /\ r.num \in Nat /\ r.den = T /\ r.num <= B
    BY <1>1, <1>2, <1>5, <1>7
  <2> HIDE DEF B
  <2>2. N \in SUBSET Nat /\ N # {}
    <3> HIDE DEF nearest
    <3> QED
      BY <1>6, <2>1
  <2>3. PICK m \in N : \A k \in N : m <= k
    <3> HIDE DEF N
    <3> QED
      BY <2>2, LeastNumber
  <2> HIDE DEF nearest
  <2>4. PICK e \in nearest : m = B - e.num
    BY <2>3
  <2>5. ASSUME NEW r \in nearest PROVE ~Less(e, r)
    <3>1. B - e.num <= B - r.num
      BY <2>3, <2>4
    <3>2. r.num <= e.num
      BY <2>1, <3>1
    <3>3. T * r.num <= T * e.num
      BY <1>1, <2>1, <3>2, TimesMonotone
    <3>4. T * r.num = r.num * T /\ T * e.num = e.num * T
      BY <1>1, <2>1
    <3>5. ~(e.num * T < r.num * T)
      BY <1>1, <2>1, <3>3, <3>4
    <3>6. e.den = T /\ r.den = T
      BY <2>1
    <3> QED
      BY <3>5, <3>6 DEF Less
  <2> QED
    BY <2>5
<1>9. DropExcessivePrecision(p) = CHOOSE d \in nearest : Largest(d)
  BY DEF DropExcessivePrecision
<1>10. DropExcessivePrecision(p) \in nearest
  <2> HIDE DEF nearest, Largest
  <2> QED
    BY <1>8, <1>9
<1> QED
  BY <1>10

-----------------------------------------------------------------------------
(* The pair of two opposite orders *)

\* Of the assets in S, the one that comes first
FirstOf(S) ==
    Assets[CHOOSE i \in 1..Len(Assets) :
        Assets[i] \in S /\ \A j \in 1..(i - 1) : Assets[j] \notin S]

LEMMA FirstAssetOfPair ==
    ASSUME NEW a, NEW b
    PROVE  GetFirstAsset(a, b) = GetFirstAsset(b, a)
<1>1. /\ GetFirstAsset(a, b) = FirstOf({a, b})
      /\ GetFirstAsset(b, a) = FirstOf({b, a})
  BY DEF GetFirstAsset, FirstOf
<1>2. {a, b} = {b, a}
  OBVIOUS
<1> QED
  BY <1>1, <1>2

LEMMA IndexFinds ==
    ASSUME NEW a
    PROVE  /\ Index(a) \in Nat
           /\ Index(a) > 0 => QuoteAssets[Index(a)] = a
<1> DEFINE I == {i \in 1..Len(QuoteAssets) : QuoteAssets[i] = a}
<1>1. Len(QuoteAssets) \in Nat
  BY OrderIntakeAssumption
<1>2. Index(a) = IF I # {} THEN CHOOSE i \in I : \A j \in I : i <= j ELSE 0
  BY DEF Index, SelectInSeq, Min
<1>3. I # {} => \E i \in I : \A j \in I : i <= j
  <2>1. I \in SUBSET Nat
    BY <1>1
  <2> HIDE DEF I
  <2> QED
    BY <2>1, LeastNumber
<1>4. I # {} => Index(a) \in I
  <2> HIDE DEF I
  <2> QED
    BY <1>2, <1>3
<1> QED
  BY <1>1, <1>2, <1>4

\* Opposite orders have the same base token: one sells it, the other buys it.
LEMMA OppositeSides ==
    ASSUME NEW s, NEW b, HasPair(s), s.sell_asset # s.buy_asset,
           s.sell_asset = b.buy_asset, s.buy_asset = b.sell_asset,
           Side(s) = "SELL"
    PROVE  BaseToken(s) = s.sell_asset /\ Side(b) = "BUY"
<1> DEFINE i == Index(s.sell_asset)
           j == Index(s.buy_asset)
<1>1. i \in Nat /\ j \in Nat /\ (i > 0 \/ j > 0)
  BY IndexFinds DEF HasPair
<1>2. i # j
  BY <1>1, IndexFinds
<1>3. /\ BaseToken(s) = (IF j = 0 THEN s.buy_asset
                         ELSE IF i = 0 THEN s.sell_asset
                         ELSE IF i > j THEN s.sell_asset ELSE s.buy_asset)
      /\ BaseToken(b) = (IF i = 0 THEN s.sell_asset
                         ELSE IF j = 0 THEN s.buy_asset
                         ELSE IF j > i THEN s.buy_asset ELSE s.sell_asset)
  BY DEF BaseToken
<1> HIDE DEF i, j
<1>4. BaseToken(s) = BaseToken(b)
  BY <1>1, <1>2, <1>3
<1>5. BaseToken(s) = s.sell_asset
  BY DEF Side
<1> QED
  BY <1>4, <1>5 DEF Side

-----------------------------------------------------------------------------
(* What the agent makes of two orders whose prices overlap *)

\* round() is off by at most one half.
LEMMA RoundDivBounds ==
    ASSUME NEW n \in Int, NEW d \in Nat \ {0}
    PROVE  /\ AA!RoundDiv(n, d) \in Int
           /\ 2 * (d * AA!RoundDiv(n, d)) <= 2 * n + d
<1> DEFINE q == n \div d
           r == n % d
<1>1. /\ q \in Int /\ r \in Int
      /\ n = d * q + r
      /\ 0 <= r /\ r < d
  OBVIOUS
<1>2. d * (q + 1) = d * q + d
  BY <1>1
<1>3. \/ AA!RoundDiv(n, d) = q
      \/ AA!RoundDiv(n, d) = q + 1 /\ 2 * r >= d
  BY <1>1 DEF AA!RoundDiv
<1> HIDE DEF q, r
<1> QED
  BY <1>1, <1>2, <1>3

\* What does not exceed a whole number is not rounded above it.
LEMMA RoundedWithin ==
    ASSUME NEW n \in Int, NEW d \in Nat \ {0}, NEW a \in Int, n <= a * d
    PROVE  AA!RoundDiv(n, d) <= a
<1> DEFINE r == AA!RoundDiv(n, d)
<1>1. r \in Int /\ 2 * (d * r) <= 2 * n + d
  BY RoundDivBounds
<1> HIDE DEF r
<1>2. a * d = d * a /\ d * (a + 1) = d * a + d /\ d * a \in Int /\ d * r \in Int
  BY <1>1
<1>3. ~(d * (a + 1) <= d * r)
  BY <1>1, <1>2
<1>4. ~(a + 1 <= r)
  BY <1>1, <1>3, TimesMonotone
<1> QED
  BY <1>1, <1>4 DEF r

\* One unit less than the rounded amount is worth less than what it was rounded from.
LEMMA OneLess ==
    ASSUME NEW n \in Int, NEW d \in Nat \ {0}
    PROVE  (AA!RoundDiv(n, d) - 1) * d <= n
<1> DEFINE r == AA!RoundDiv(n, d)
<1>1. r \in Int /\ 2 * (d * r) <= 2 * n + d
  BY RoundDivBounds
<1> HIDE DEF r
<1>2. (r - 1) * d = d * r - d /\ d * r \in Int
  BY <1>1
<1> QED
  BY <1>1, <1>2 DEF r

\* What an amount is worth at the maker's price p/q, less one unit, is worth no
\* more than the amount at the taker's price u/v, if the prices overlap.
LEMMA WorthNoMore ==
    ASSUME NEW a \in Nat, NEW p \in Nat \ {0}, NEW q \in Nat \ {0},
           NEW u \in Nat \ {0}, NEW v \in Nat \ {0}, p * u <= q * v
    PROVE  AA!RoundDiv((AA!RoundDiv(a * p, q) - 1) * u, v) <= a
<1> DEFINE r == AA!RoundDiv(a * p, q)
           c == r - 1
<1>1. a * p \in Int /\ a * v \in Int /\ p * u \in Int /\ q * v \in Int
  OBVIOUS
<1>2. r \in Int
  BY <1>1, RoundDivBounds
<1>3. c * q <= a * p
  BY <1>1, OneLess
<1> HIDE DEF r
<1>4. c \in Int /\ c * u \in Int /\ c * q \in Int
  BY <1>2
<1> HIDE DEF c
<1>5. u * (c * q) <= u * (a * p)
  BY <1>1, <1>3, <1>4, TimesMonotone
<1>6. a * (p * u) <= a * (q * v)
  BY <1>1, TimesMonotone
<1>7. /\ u * (c * q) = q * (c * u)
      /\ u * (a * p) = a * (p * u)
      /\ a * (q * v) = q * (a * v)
  BY <1>4
<1>8. q * (c * u) <= q * (a * v)
  <2>1. /\ q * (c * u) \in Int /\ a * (p * u) \in Int /\ q * (a * v) \in Int
    BY <1>1, <1>4
  <2> QED
    BY <1>5, <1>6, <1>7, <2>1
<1>9. c * u <= a * v
  BY <1>1, <1>4, <1>8, TimesCancels
<1> QED
  BY <1>4, <1>9, RoundedWithin DEF c, r

\* Two untouched orders whose prices overlap pass the agent's check of the prices.
LEMMA OverlapMatches ==
    ASSUME NEW o1 \in Orders, NEW o2 \in Orders,
           o1.price.num # 0, o2.price.num # 0,
           o1.price.num * o2.price.num <= o1.price.den * o2.price.den
    PROVE  AA!PricesMatch(o1, o2)
<1> DEFINE p == o1.price.num
           q == o1.price.den
           u == o2.price.num
           v == o2.price.den
           a == o1.sell_amount
           b == o2.sell_amount
           f == AA!Fill(o1, o2)
<1>1. /\ p \in Nat \ {0} /\ q \in Nat \ {0} /\ u \in Nat \ {0} /\ v \in Nat \ {0}
      /\ a \in Nat /\ b \in Nat
  BY OrderIntakeAssumption
<1>2. p * u <= q * v
  OBVIOUS
<1>3. ASSUME NEW o \in Orders PROVE AA!AmountLeft(o) = o.sell_amount
  BY DEF AA!AmountLeft, AA!GetOrderId, Untouched
<1>4. \/ /\ f.larger = o1 /\ f.left_smaller = b
         /\ f.buy_smaller = AA!RoundDiv(b * q, p)
      \/ /\ f.larger = o2 /\ f.left_smaller = a
         /\ f.buy_smaller = AA!RoundDiv(a * p, q)
  BY <1>3 DEF AA!Fill, AA!Times, AA!Over
<1>5. AA!PricesMatch(o1, o2) =
          (/\ AA!RoundDiv(f.left_smaller * (p * u), q * v) <= f.left_smaller
           /\ AA!RoundDiv((f.buy_smaller - 1) * f.larger.price.num, f.larger.price.den)
                <= f.left_smaller)
  BY DEF AA!PricesMatch, AA!Times
<1> HIDE DEF f
<1>6. ASSUME NEW x \in Nat PROVE AA!RoundDiv(x * (p * u), q * v) <= x
  <2> HIDE DEF p, q, u, v
  <2>1. p * u \in Int /\ q * v \in Nat \ {0} /\ x * (p * u) \in Int
    BY <1>1
  <2>2. x * (p * u) <= x * (q * v)
    BY <1>2, <2>1, TimesMonotone
  <2> QED
    BY <2>1, <2>2, RoundedWithin
<1>7. CASE /\ f.larger = o2 /\ f.left_smaller = a
           /\ f.buy_smaller = AA!RoundDiv(a * p, q)
  <2>1. AA!RoundDiv((AA!RoundDiv(a * p, q) - 1) * u, v) <= a
    <3> HIDE DEF p, q, u, v, a
    <3> QED
      BY <1>1, <1>2, WorthNoMore
  <2> QED
    BY <1>1, <1>5, <1>6, <1>7, <2>1
<1>8. CASE /\ f.larger = o1 /\ f.left_smaller = b
           /\ f.buy_smaller = AA!RoundDiv(b * q, p)
  <2>1. AA!RoundDiv((AA!RoundDiv(b * q, p) - 1) * p, q) <= b
    <3> HIDE DEF p, q, b
    <3>1. b * q \in Int /\ AA!RoundDiv(b * q, p) \in Int
      BY <1>1, RoundDivBounds
    <3>2. (AA!RoundDiv(b * q, p) - 1) * p <= b * q
      BY <1>1, <3>1, OneLess
    <3>3. (AA!RoundDiv(b * q, p) - 1) * p \in Int
      BY <1>1, <3>1
    <3> QED
      BY <1>1, <3>2, <3>3, RoundedWithin
  <2> QED
    BY <1>1, <1>5, <1>6, <1>8, <2>1
<1> QED
  BY <1>4, <1>7, <1>8

\* The prices of two orders that the wallet accepts and the backend matches
\* overlap, if the price at the backend is one of the first asset: such a price
\* has few digits already, and the backend rounds nothing.
LEMMA AcceptedOverlap ==
    ASSUME NEW s \in Orders, NEW b \in Orders,
           HasPair(s), HasPair(b), Crosses(s, b), s.sell_asset # s.buy_asset,
           PriceAccepted(s), PriceAccepted(b),
           BaseToken(s) = GetFirstAsset(s.sell_asset, s.buy_asset)
    PROVE  s.price.num * b.price.num <= s.price.den * b.price.den
<1> DEFINE d == DropExcessivePrecision(s.price)
           e == DropExcessivePrecision(Reciprocal(b.price))
<1>1. /\ s.sell_asset = b.buy_asset /\ s.buy_asset = b.sell_asset
      /\ Side(s) = "SELL" /\ ~Less(BackendPrice[b], BackendPrice[s])
  BY DEF Crosses
<1>2. BaseToken(s) = s.sell_asset /\ Side(b) = "BUY"
  BY <1>1, OppositeSides
<1>3. /\ GetFirstAsset(s.sell_asset, s.buy_asset) = s.sell_asset
      /\ GetFirstAsset(b.sell_asset, b.buy_asset) # b.sell_asset
  BY <1>1, <1>2, FirstAssetOfPair
<1>4. AllowedPrice[s] = d /\ AllowedPrice[b] = Reciprocal(e)
  BY <1>3 DEF AllowedPrice
<1>5. BackendPrice[s] = d /\ BackendPrice[b] = e
  BY <1>1, <1>2 DEF BackendPrice
<1>6. /\ s.price.num \in Nat \ {0} /\ s.price.den \in Nat \ {0}
      /\ b.price.num \in Nat \ {0} /\ b.price.den \in Nat \ {0}
  BY OrderIntakeAssumption DEF PriceAccepted
<1>7. d \in Expressible /\ e \in Expressible
  <2>1. /\ Reciprocal(b.price).num = b.price.den
        /\ Reciprocal(b.price).den = b.price.num
    BY DEF Reciprocal, Ratio
  <2> QED
    BY <1>6, <2>1, DropIsExpressible
<1> HIDE DEF d, e
<1>8. /\ d.num \in Nat \ {0} /\ d.den \in Nat \ {0}
      /\ e.num \in Nat \ {0} /\ e.den \in Nat \ {0}
  BY <1>7, ExpressibleType
<1>9. /\ d.num * s.price.den = s.price.num * d.den
      /\ e.den * b.price.den = b.price.num * e.num
  BY <1>4 DEF PriceAccepted, Same, Reciprocal, Ratio
<1>10. d.num * e.den <= e.num * d.den
  <2>1. ~(e.num * d.den < d.num * e.den)
    BY <1>1, <1>5 DEF Less
  <2>2. e.num * d.den \in Int /\ d.num * e.den \in Int
    BY <1>8
  <2> QED
    BY <2>1, <2>2
<1> DEFINE x == s.price.num
           y == s.price.den
           u == b.price.num
           v == b.price.den
           dn == d.num
           dd == d.den
           en == e.num
           ed == e.den
<1>11. (dd * en) * (x * u) <= (dd * en) * (y * v)
  <2> HIDE DEF x, y, u, v, dn, dd, en, ed
  <2>1. /\ x \in Nat \ {0} /\ y \in Nat \ {0} /\ u \in Nat \ {0} /\ v \in Nat \ {0}
        /\ dn \in Nat \ {0} /\ dd \in Nat \ {0} /\ en \in Nat \ {0} /\ ed \in Nat \ {0}
        /\ dn * y = x * dd /\ ed * v = u * en /\ dn * ed <= en * dd
    BY <1>6, <1>8, <1>9, <1>10 DEF x, y, u, v, dn, dd, en, ed
  <2>2. (y * v) * (dn * ed) <= (y * v) * (en * dd)
    BY <2>1, TimesMonotone
  <2>3. (y * v) * (dn * ed) = (dn * y) * (ed * v)
    BY <2>1
  <2>4. (dn * y) * (ed * v) = (x * dd) * (u * en)
    BY <2>1
  <2>5. (x * dd) * (u * en) = (dd * en) * (x * u)
    BY <2>1
  <2>6. (y * v) * (en * dd) = (dd * en) * (y * v)
    BY <2>1
  <2> QED
    BY <2>2, <2>3, <2>4, <2>5, <2>6
<1>12. dd * en \in Nat \ {0} /\ x * u \in Int /\ y * v \in Int
  BY <1>6, <1>8
<1> QED
  BY <1>11, <1>12, TimesCancels

\* What is in the book has been checked, and is one of the orders presented.
BookInv ==
    /\ \A o \in book : o \in Orders /\ HasPair(o) /\ \E m : Acceptable(o, m)
    /\ \A t \in intake : t.order \in Orders

LEMMA BookInvInit == Init => BookInv
  BY DEF Init, BookInv

LEMMA BookInvStep == BookInv /\ [Next]_vars => BookInv'
<1> SUFFICES ASSUME BookInv, [Next]_vars PROVE BookInv'
  OBVIOUS
<1> USE DEF BookInv
<1>u. ASSUME book' \subseteq book, intake' \subseteq intake PROVE BookInv'
  BY <1>u
<1>1. ASSUME NEW o \in Orders, NEW m \in Matchers, ReceiveOrder(o, m) PROVE BookInv'
  BY <1>1 DEF ReceiveOrder
<1>2. ASSUME NEW t \in intake, CheckSigner(t) PROVE BookInv'
  <2>1. book' = book
    BY <1>2 DEF CheckSigner
  <2>2. [t EXCEPT !.stage = "rules"].order = t.order
    OBVIOUS
  <2>3. intake' \subseteq intake \cup {[t EXCEPT !.stage = "rules"]}
    BY <1>2 DEF CheckSigner
  <2> QED
    BY <2>1, <2>2, <2>3
<1>3. ASSUME NEW t \in intake, AcceptOrder(t) PROVE BookInv'
  BY <1>3 DEF AcceptOrder
<1>4. CASE \E t \in intake : RefuseOrder(t) \/ NoPair(t)
  BY <1>4, <1>u DEF RefuseOrder, NoPair, Ends
<1>5. CASE \/ \E g \in Signers : Grant(g) \/ SeeRevocation(g) \/ Revoke(g)
           \/ \E g \in revocations : HandleRevocation(g)
           \/ Crash
  BY <1>5, <1>u DEF Grant, SeeRevocation, Revoke, HandleRevocation, Crash, Ends, Revoked, memory
<1>6. CASE \/ \E o \in Cancellable : \E a \in {o.address, o.matcher} :
                AskToCancel(o, a) \/ \E via \in {"chat", "other"} : ReceiveCancel(o, via, a)
           \/ \E c \in cancels : CompleteCancel(c)
  BY <1>6, <1>u DEF AskToCancel, ReceiveCancel, CompleteCancel
<1>7. CASE \/ \E d \in Devices, s \in Sessions : AskToLogIn(d, s)
           \/ \E d \in Devices, a \in Members : ReceiveLogin(d, a)
           \/ \E l \in logins : CompleteLogin(l)
  BY <1>7, <1>u DEF AskToLogIn, ReceiveLogin, CompleteLogin
<1>8. CASE UNCHANGED vars
  BY <1>8, <1>u DEF vars, memory
<1> QED
  BY <1>1, <1>2, <1>3, <1>4, <1>5, <1>6, <1>7, <1>8 DEF Next

\* Whatever orders the wallet accepts and the backend matches, the agent takes
\* their prices, whatever has been rounded to however few digits, and the fees
\* of their affiliates, but for the exceptions that MatchesSettle names
\* (getOrderError, getPriceInAllowedPrecision, getBackendOrder).
THEOREM Settles == Spec => []MatchesSettle
<1>1. ASSUME BookInv PROVE MatchesSettle
  <2> SUFFICES ASSUME NEW s \in book, NEW b \in book, Crosses(s, b),
                      BaseToken(s) = GetFirstAsset(s.sell_asset, s.buy_asset),
                      \A o \in {s, b} : o.affiliate_fee # 0 \/ o.affiliate = NoAddress,
                      \A o \in {s, b} : \/ o.affiliate \in {NoAddress, Me}
                                        \/ o.affiliate_fee_asset # NoAsset
               PROVE  /\ AA!PricesMatch(s, b) /\ AA!PricesMatch(b, s)
                      /\ AffiliateSettles(s) /\ AffiliateSettles(b)
    BY DEF MatchesSettle
  <2>1. ASSUME NEW o \in {s, b}
        PROVE  /\ o \in Orders /\ HasPair(o) /\ PriceAccepted(o) /\ AffiliateFeeAccepted(o)
               /\ o.sell_asset # o.buy_asset
    BY <1>1 DEF BookInv, Acceptable
  <2>2. ASSUME NEW o \in {s, b} PROVE AffiliateSettles(o)
    <3> SUFFICES ASSUME o.affiliate # NoAddress
                 PROVE  o.affiliate_fee_asset # NoAsset /\ o.affiliate_fee > 0
      BY DEF AffiliateSettles
    <3>1. o.affiliate_fee > 0
      BY <2>1, OrderIntakeAssumption
    <3>2. o.affiliate = Me => o.affiliate_fee_asset # NoAsset
      BY <2>1, OrderIntakeAssumption DEF AffiliateFeeAccepted
    <3> QED
      BY <3>1, <3>2
  <2>3. s.price.num * b.price.num <= s.price.den * b.price.den
    BY <2>1, AcceptedOverlap
  <2>4. \A o \in {s, b} : o.price.num # 0 /\ o.price.num \in Nat /\ o.price.den \in Nat
    BY <2>1, OrderIntakeAssumption DEF PriceAccepted
  <2>5. b.price.num * s.price.num <= b.price.den * s.price.den
    BY <2>3, <2>4
  <2>6. AA!PricesMatch(s, b)
    BY <2>1, <2>3, <2>4, OverlapMatches
  <2>7. AA!PricesMatch(b, s)
    BY <2>1, <2>4, <2>5, OverlapMatches
  <2> QED
    BY <2>2, <2>6, <2>7
<1> QED
  BY BookInvInit, BookInvStep, <1>1, PTL DEF Spec
============================================================================
