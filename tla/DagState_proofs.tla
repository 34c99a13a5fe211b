-------------------------- MODULE DagState_proofs --------------------------
(***************************************************************************)
(* What the wallet shows of the agent, for any users, requests and         *)
(* balances, any number of units, reads and crashes: the state stays       *)
(* typed, no balance is shown that is negative or no number, a withdrawal  *)
(* is subtracted only while it is in progress or if it was registered      *)
(* late, and what was last shown is current once every callback has run,   *)
(* but for the bytes of on-chain cancels.                                  *)
(***************************************************************************)
EXTENDS DagState, SequenceTheorems, FiniteSetTheorems, NaturalsInduction,
        WellFoundedInduction, TLAPS

-----------------------------------------------------------------------------
(* Recursion over the positions of a sequence *)

LEMMA LeastNumber ==
    ASSUME NEW N \in SUBSET Nat, N # {}
    PROVE  \E m \in N : \A n \in N : m <= n
<1>1. \E m \in N : \A n \in N : <<n, m>> \notin OpToRel(<, Nat)
  BY NatLessThanWellFounded, WFMin
<1>2. PICK m \in N : \A n \in N : <<n, m>> \notin OpToRel(<, Nat)
  BY <1>1
<1>3. \A n \in N : ~(n < m)
  BY <1>2 DEF OpToRel
<1>4. \A n \in N : m <= n
  BY <1>3
<1> QED
  BY <1>4

\* What holds at 0 and, where it holds at a number, at the next one up to n.
LEMMA Reaches ==
    ASSUME NEW n \in Nat, NEW H, 0 \in H, \A k \in 1..n : k - 1 \in H => k \in H
    PROVE  0..n \subseteq H
<1> DEFINE N == {k \in 0..n : k \notin H}
<1>1. N \in SUBSET Nat
  OBVIOUS
<1>2. ASSUME NEW m \in N, \A l \in N : m <= l
      PROVE  FALSE
  <2>1. m \in 1..n /\ m - 1 \in 0..n /\ ~(m <= m - 1)
    OBVIOUS
  <2>2. m - 1 \in H
    BY <1>2, <2>1
  <2> QED
    BY <2>1, <2>2
<1>3. N = {}
  <2> HIDE DEF N
  <2> QED
    BY <1>1, <1>2, LeastNumber
<1> QED
  BY <1>3

Solves(f, V, base, G, n) ==
    f \in [0..n -> V] /\ f[0] = base /\ \A k \in 1..n : f[k] = G[k][f[k - 1]]

\* A recursion from base by the steps G has a solution on 0..n.
LEMMA RecursionExists ==
    ASSUME NEW n \in Nat, NEW V, NEW base \in V, NEW G \in [1..n -> [V -> V]]
    PROVE  \E f : Solves(f, V, base, G, n)
<1> DEFINE H == {k \in 0..n : \E f : Solves(f, V, base, G, k)}
<1>1. 0 \in H
  <2> DEFINE e == [k \in 0..0 |-> base]
  <2>1. Solves(e, V, base, G, 0)
    BY DEF Solves
  <2> QED
    BY <2>1
<1>2. ASSUME NEW m \in 1..n, m - 1 \in H
      PROVE  m \in H
  <2>1. PICK f : Solves(f, V, base, G, m - 1)
    BY <1>2
  <2> DEFINE g == [k \in 0..m |-> IF k = m THEN G[m][f[m - 1]] ELSE f[k]]
  <2>2. m - 1 \in 0..(m - 1) /\ f[m - 1] \in V /\ G[m] \in [V -> V]
    BY <2>1 DEF Solves
  <2>3. \A k \in 0..(m - 1) : k \in 0..m /\ k # m /\ f[k] \in V
    BY <2>1 DEF Solves
  <2>4. \A k \in 0..(m - 1) : g[k] = f[k]
    BY <2>3
  <2>5. g[m] = G[m][f[m - 1]] /\ g[m] \in V
    BY <2>2
  <2>6. \A k \in 0..m : k = m \/ k \in 0..(m - 1)
    OBVIOUS
  <2>7. g \in [0..m -> V]
    <3>1. g = [k \in 0..m |-> g[k]]
      OBVIOUS
    <3> HIDE DEF g
    <3>2. \A k \in 0..m : g[k] \in V
      BY <2>3, <2>4, <2>5, <2>6
    <3> QED
      BY <3>1, <3>2
  <2> HIDE DEF g
  <2>8. g[0] = base
    BY <2>1, <2>4 DEF Solves
  <2>9. ASSUME NEW k \in 1..m
        PROVE  g[k] = G[k][g[k - 1]]
    <3>1. CASE k = m
      BY <2>2, <2>4, <2>5, <3>1
    <3>2. CASE k # m
      <4>1. k \in 1..(m - 1) /\ k \in 0..(m - 1) /\ k - 1 \in 0..(m - 1)
        BY <3>2
      <4>2. f[k] = G[k][f[k - 1]]
        BY <2>1, <4>1 DEF Solves
      <4> QED
        BY <2>4, <4>1, <4>2
    <3> QED
      BY <3>1, <3>2
  <2>10. Solves(g, V, base, G, m)
    BY <2>7, <2>8, <2>9 DEF Solves
  <2> QED
    BY <2>10
<1> HIDE DEF H
<1>3. 0..n \subseteq H
  BY <1>1, <1>2, Reaches
<1>4. n \in H
  BY <1>3
<1> QED
  BY <1>4 DEF H

-----------------------------------------------------------------------------
(* Filter *)

Taken1(f, s, S, n) ==
    IF n = 0 THEN <<>> ELSE IF s[n] \in S THEN Append(f[n - 1], s[n]) ELSE f[n - 1]

LEMMA FilterUnfolds ==
    ASSUME NEW A, NEW s \in Seq(A), NEW S
    PROVE  \E f : /\ \A n \in 0..Len(s) : f[n] = Taken1(f, s, S, n)
                  /\ Filter(s, S) = f[Len(s)]
<1>1. PICK l \in Nat : l = Len(s)
  BY LenProperties
<1>2. s \in [1..l -> A]
  BY <1>1, LenProperties
<1> DEFINE V == Seq(A)
           G == [k \in 1..l |-> [v \in V |-> IF s[k] \in S THEN Append(v, s[k]) ELSE v]]
<1>3. G \in [1..l -> [V -> V]] /\ <<>> \in V
  <2>1. ASSUME NEW k \in 1..l, NEW v \in Seq(A)
        PROVE  (IF s[k] \in S THEN Append(v, s[k]) ELSE v) \in Seq(A)
    BY <1>2, AppendProperties
  <2> QED
    BY <2>1
<1>4. \A k \in 1..l, v \in V : G[k][v] = IF s[k] \in S THEN Append(v, s[k]) ELSE v
  OBVIOUS
<1> HIDE DEF G, V
<1>5. PICK e : Solves(e, V, <<>>, G, l)
  BY <1>3, RecursionExists
<1>6. e \in [0..l -> V] /\ e[0] = <<>>
  BY <1>5 DEF Solves
<1>7. ASSUME NEW k \in 0..l
      PROVE  e[k] = Taken1(e, s, S, k)
  <2>1. CASE k = 0
    BY <1>6, <2>1 DEF Taken1
  <2>2. CASE k # 0
    <3>1. k \in 1..l /\ k - 1 \in 0..l
      BY <2>2
    <3>2. e[k] = G[k][e[k - 1]] /\ e[k - 1] \in V
      BY <1>5, <3>1 DEF Solves
    <3>3. e[k] = IF s[k] \in S THEN Append(e[k - 1], s[k]) ELSE e[k - 1]
      BY <1>4, <3>1, <3>2
    <3> QED
      BY <2>2, <3>3 DEF Taken1
  <2> QED
    BY <2>1, <2>2
<1>8. e = [k \in 0..l |-> Taken1(e, s, S, k)]
  <2>1. e = [k \in 0..l |-> e[k]]
    BY <1>6
  <2>2. [k \in 0..l |-> e[k]] = [k \in 0..l |-> Taken1(e, s, S, k)]
    BY <1>7
  <2> QED
    BY <2>1, <2>2
<1> DEFINE m == CHOOSE f : f = [k \in 0..l |-> Taken1(f, s, S, k)]
<1>9. m = [k \in 0..l |-> Taken1(m, s, S, k)]
  BY <1>8
<1>10. Filter(s, S) = m[Len(s)]
  BY <1>1 DEF Filter, Taken1
<1> HIDE DEF m
<1>11. \A k \in 0..l : m[k] = Taken1(m, s, S, k)
  BY <1>9
<1> QED
  BY <1>1, <1>10, <1>11

\* What is filtered is in the sequence and in the set.
LEMMA FilterSound ==
    ASSUME NEW A, NEW s \in Seq(A), NEW S
    PROVE  Filter(s, S) \in Seq(A \cap S)
<1>1. PICK l \in Nat : l = Len(s)
  BY LenProperties
<1>2. s \in [1..l -> A]
  BY <1>1, LenProperties
<1>3. PICK f : (\A n \in 0..l : f[n] = Taken1(f, s, S, n)) /\ Filter(s, S) = f[l]
  BY <1>1, FilterUnfolds
<1> DEFINE H == {k \in 0..l : f[k] \in Seq(A \cap S)}
<1>4. 0 \in H
  <2>1. f[0] = <<>>
    BY <1>3 DEF Taken1
  <2>2. f[0] \in Seq(A \cap S)
    BY <2>1
  <2>3. 0 \in 0..l
    OBVIOUS
  <2> QED
    BY <2>2, <2>3
<1>5. ASSUME NEW k \in 1..l, k - 1 \in H
      PROVE  k \in H
  <2>1. f[k - 1] \in Seq(A \cap S) /\ k \in 0..l /\ k # 0
    BY <1>5
  <2>2. f[k] = IF s[k] \in S THEN Append(f[k - 1], s[k]) ELSE f[k - 1]
    BY <1>3, <2>1 DEF Taken1
  <2>3. s[k] \in A
    BY <1>2
  <2>4. s[k] \in S => Append(f[k - 1], s[k]) \in Seq(A \cap S)
    BY <2>1, <2>3, AppendProperties
  <2> QED
    BY <2>1, <2>2, <2>4
<1> HIDE DEF H
<1>6. l \in H
  BY <1>4, <1>5, Reaches
<1> QED
  BY <1>3, <1>6 DEF H

-----------------------------------------------------------------------------
(* The arithmetic on balances *)

LEMMA Constants ==
    /\ All \notin Int /\ Absent \notin Int /\ NaN \notin Int /\ NotShown \notin Int
    /\ MaxUnits \in Nat /\ MaxReads \in Nat /\ MaxCrashes \in Nat
BY DagStateAssumption

LEMMA RequestFields ==
    ASSUME NEW r \in Requests
    PROVE  /\ r.kind \in {"deposit", "withdrawal", "trade", "cancel"}
           /\ r.from \in Users /\ r.owner \in Users /\ r.to \in Users \cup {NoAddress}
           /\ r.amount \in Nat \cup {All}
           /\ r.kind # "withdrawal" => r.amount \in Nat
           /\ r.kind \in {"deposit", "trade"} => r.to \in Users
           /\ r.kind = "deposit" => r.owner = r.to
<1>1. r \in RequestType
  BY DagStateAssumption
<1>2. /\ r.kind \in {"deposit", "withdrawal", "trade", "cancel"}
      /\ r.from \in Users /\ r.owner \in Users /\ r.to \in Users \cup {NoAddress}
      /\ r.amount \in Nat \cup {All}
  BY <1>1 DEF RequestType
<1> QED
  BY <1>2, DagStateAssumption

\* The balances that Displayed computes from those that are read
Balances == IF Default = 0 THEN Nat ELSE Int \cup {Absent, NaN}

\* A withdrawal of an amount that is not all there is not subtracted, so what
\* is subtracted leaves a natural number natural.
LEMMA SubtractType ==
    ASSUME NEW b \in Balances, NEW r \in Requests
    PROVE  Subtract(b, r) \in Balances
<1>1. r.amount \in Nat \cup {All}
  BY RequestFields
<1>2. CASE r.amount = All
  <2>1. Subtract(b, r) = 0
    BY <1>2, Constants DEF Subtract, Below
  <2> QED
    BY <2>1 DEF Balances
<1>3. CASE r.amount # All /\ Below(b, r.amount)
  <2>1. Subtract(b, r) = b
    BY <1>3 DEF Subtract
  <2> QED
    BY <2>1
<1>4. CASE r.amount # All /\ ~Below(b, r.amount)
  <2>1. r.amount \in Nat /\ Subtract(b, r) = Minus(b, r.amount)
    BY <1>1, <1>4 DEF Subtract
  <2>2. CASE b \in Int
    <3>1. b >= r.amount /\ Subtract(b, r) = b - r.amount
      BY <1>4, <2>1, <2>2 DEF Below, Minus
    <3> QED
      BY <2>1, <2>2, <3>1 DEF Balances
  <2>3. CASE b \notin Int
    <3>1. Subtract(b, r) = NaN
      BY <2>1, <2>3 DEF Minus
    <3>2. Default # 0
      BY <2>3 DEF Balances
    <3> QED
      BY <3>1, <3>2 DEF Balances
  <2> QED
    BY <2>2, <2>3
<1> QED
  BY <1>2, <1>3, <1>4

-----------------------------------------------------------------------------
(* What is left of a balance *)

\* Displayed, of any units and any list of withdrawals
Left(us, ps, address, value) ==
    LET after[n \in 0..Len(ps)] ==
            IF n = 0 THEN IF value = Absent THEN Default ELSE value
            ELSE LET w == us[ps[n]]
                 IN  IF w.from = address THEN Subtract(after[n - 1], w) ELSE after[n - 1]
    IN  after[Len(ps)]

\* One step of its recursion
After(f, us, ps, address, value, n) ==
    IF n = 0 THEN IF value = Absent THEN Default ELSE value
    ELSE IF us[ps[n]].from = address
         THEN Subtract(f[n - 1], us[ps[n]]) ELSE f[n - 1]

Computes(f, us, ps, address, value, l) ==
    \A k \in 0..l : f[k] = After(f, us, ps, address, value, k)

\* The balance at the start of Displayed
LEMMA FirstDisplayed ==
    ASSUME NEW value \in Nat \cup {Absent}
    PROVE  (IF value = Absent THEN Default ELSE value) \in Balances
<1>1. Default \in {0, Absent}
  BY DagStateAssumption
<1> QED
  BY <1>1 DEF Balances

LEMMA ListedRequests ==
    ASSUME NEW us \in Seq(Requests), NEW ps \in Seq(1..Len(us))
    PROVE  /\ Len(ps) \in Nat
           /\ \A k \in 1..Len(ps) : ps[k] \in 1..Len(us) /\ us[ps[k]] \in Requests
<1>1. \A k \in 1..Len(ps) : ps[k] \in 1..Len(us)
  BY ElementOfSeq
<1> QED
  BY <1>1, ElementOfSeq, LenProperties

LEMMA LeftUnfolds ==
    ASSUME NEW us \in Seq(Requests), NEW ps \in Seq(1..Len(us)),
           NEW address, NEW value \in Nat \cup {Absent}
    PROVE  \E f : /\ Computes(f, us, ps, address, value, Len(ps))
                  /\ Left(us, ps, address, value) = f[Len(ps)]
<1>1. PICK l \in Nat : l = Len(ps)
  BY ListedRequests
<1>2. \A k \in 1..l : us[ps[k]] \in Requests
  BY <1>1, ListedRequests
<1> DEFINE V == Balances
           base == IF value = Absent THEN Default ELSE value
           G == [k \in 1..l |-> [v \in V |->
                    IF us[ps[k]].from = address THEN Subtract(v, us[ps[k]]) ELSE v]]
<1>3. base \in V
  BY FirstDisplayed
<1>4. G \in [1..l -> [V -> V]]
  <2>1. ASSUME NEW k \in 1..l, NEW v \in Balances
        PROVE  (IF us[ps[k]].from = address THEN Subtract(v, us[ps[k]]) ELSE v) \in Balances
    BY <1>2, SubtractType
  <2> QED
    BY <2>1
<1>5. \A k \in 1..l, v \in V : G[k][v] = IF us[ps[k]].from = address
                                        THEN Subtract(v, us[ps[k]]) ELSE v
  OBVIOUS
<1> HIDE DEF G, V
<1>6. PICK e : Solves(e, V, base, G, l)
  BY <1>3, <1>4, RecursionExists
<1>7. e \in [0..l -> V] /\ e[0] = base
  BY <1>6 DEF Solves
<1>8. ASSUME NEW k \in 0..l
      PROVE  e[k] = After(e, us, ps, address, value, k)
  <2>1. CASE k = 0
    BY <1>7, <2>1 DEF After
  <2>2. CASE k # 0
    <3>1. k \in 1..l /\ k - 1 \in 0..l
      BY <2>2
    <3>2. e[k] = G[k][e[k - 1]] /\ e[k - 1] \in V
      BY <1>6, <1>7, <3>1 DEF Solves
    <3>3. e[k] = IF us[ps[k]].from = address
                 THEN Subtract(e[k - 1], us[ps[k]]) ELSE e[k - 1]
      BY <1>5, <3>1, <3>2
    <3> QED
      BY <2>2, <3>3 DEF After
  <2> QED
    BY <2>1, <2>2
<1>9. e = [k \in 0..l |-> After(e, us, ps, address, value, k)]
  <2>1. e = [k \in 0..l |-> e[k]]
    BY <1>7
  <2>2. [k \in 0..l |-> e[k]] = [k \in 0..l |-> After(e, us, ps, address, value, k)]
    BY <1>8
  <2> QED
    BY <2>1, <2>2
<1> DEFINE m == CHOOSE f : f = [k \in 0..l |-> After(f, us, ps, address, value, k)]
<1>10. m = [k \in 0..l |-> After(m, us, ps, address, value, k)]
  BY <1>9
<1>11. Left(us, ps, address, value) = m[l]
  BY <1>1 DEF Left, After
<1> HIDE DEF m
<1>12. \A k \in 0..l : m[k] = After(m, us, ps, address, value, k)
  BY <1>10
<1> QED
  BY <1>1, <1>11, <1>12 DEF Computes

LEMMA LeftType ==
    ASSUME NEW us \in Seq(Requests), NEW ps \in Seq(1..Len(us)),
           NEW address, NEW value \in Nat \cup {Absent}
    PROVE  Left(us, ps, address, value) \in Balances
<1>1. PICK l \in Nat : l = Len(ps)
  BY ListedRequests
<1>2. \A k \in 1..l : us[ps[k]] \in Requests
  BY <1>1, ListedRequests
<1>3. PICK m : Computes(m, us, ps, address, value, l) /\ Left(us, ps, address, value) = m[l]
  BY <1>1, LeftUnfolds
<1> DEFINE H == {k \in 0..l : m[k] \in Balances}
<1>4. 0 \in H
  <2>1. m[0] = (IF value = Absent THEN Default ELSE value) /\ 0 \in 0..l
    BY <1>3 DEF Computes, After
  <2> QED
    BY <2>1, FirstDisplayed
<1>5. ASSUME NEW k \in 1..l, k - 1 \in H
      PROVE  k \in H
  <2>1. m[k - 1] \in Balances /\ k \in 0..l /\ k # 0
    BY <1>5
  <2>2. m[k] = IF us[ps[k]].from = address
               THEN Subtract(m[k - 1], us[ps[k]]) ELSE m[k - 1]
    BY <1>3, <2>1 DEF Computes, After
  <2>3. m[k] \in Balances
    BY <1>2, <2>1, <2>2, SubtractType
  <2> QED
    BY <2>1, <2>3
<1> HIDE DEF H
<1>6. 0..l \subseteq H
  BY <1>4, <1>5, Reaches
<1>7. l \in H
  BY <1>6
<1> QED
  BY <1>3, <1>7 DEF H

LEMMA DisplayedIsLeft ==
    ASSUME NEW address, NEW value
    PROVE  Displayed(address, value) = Left(units, pending, address, value)
  BY DEF Displayed, Left

LEMMA DisplayedType ==
    ASSUME units \in Seq(Requests), pending \in Seq(1..Len(units)),
           NEW address, NEW value \in Nat \cup {Absent}
    PROVE  Displayed(address, value) \in Balances
  BY LeftType, DisplayedIsLeft

-----------------------------------------------------------------------------
(* Sequences *)

LEMMA SeqSet ==
    ASSUME NEW S, NEW s \in Seq(S)
    PROVE  /\ Len(s) \in Nat /\ DOMAIN s = 1..Len(s)
           /\ ToSet(s) \subseteq S
           /\ \A x : x \in ToSet(s) <=> \E i \in 1..Len(s) : s[i] = x
  BY LenProperties DEF ToSet

LEMMA SeqInto ==
    ASSUME NEW A, NEW B, NEW s \in Seq(A), \A k \in 1..Len(s) : s[k] \in B
    PROVE  s \in Seq(B)
<1>1. Len(s) \in Nat /\ s \in [1..Len(s) -> A]
  BY LenProperties
<1>2. s \in [1..Len(s) -> B]
  BY <1>1
<1> QED
  BY <1>1, <1>2, SeqDef

LEMMA SeqWider ==
    ASSUME NEW A, NEW B, NEW s \in Seq(A), A \subseteq B
    PROVE  s \in Seq(B)
  BY SeqInto, ElementOfSeq

LEMMA AppendSet ==
    ASSUME NEW S, NEW s \in Seq(S), NEW e \in S
    PROVE  /\ Append(s, e) \in Seq(S)
           /\ Len(Append(s, e)) = Len(s) + 1
           /\ \A i \in 1..Len(s) : Append(s, e)[i] = s[i]
           /\ Append(s, e)[Len(s) + 1] = e
           /\ ToSet(Append(s, e)) = ToSet(s) \cup {e}
<1>1. /\ Append(s, e) \in Seq(S)
      /\ Len(Append(s, e)) = Len(s) + 1
      /\ Len(s) \in Nat
      /\ \A i \in 1..Len(s) : Append(s, e)[i] = s[i]
      /\ Append(s, e)[Len(s) + 1] = e
  BY AppendProperties, LenProperties
<1>2. DOMAIN s = 1..Len(s) /\ DOMAIN Append(s, e) = 1..(Len(s) + 1)
  BY <1>1, SeqSet
<1>3. ToSet(Append(s, e)) = ToSet(s) \cup {e}
  BY <1>1, <1>2 DEF ToSet
<1> QED
  BY <1>1, <1>3

LEMMA ConcatSet ==
    ASSUME NEW S, NEW a \in Seq(S), NEW b \in Seq(S)
    PROVE  a \o b \in Seq(S) /\ ToSet(b) \subseteq ToSet(a \o b)
<1>1. PICK m \in Nat, n \in Nat : m = Len(a) /\ n = Len(b)
  BY LenProperties
<1>2. /\ a \o b \in Seq(S)
      /\ Len(a \o b) = m + n
      /\ \A i \in 1..(m + n) : (a \o b)[i] = IF i <= m THEN a[i] ELSE b[i - m]
  BY <1>1, ConcatProperties
<1> DEFINE c == a \o b
<1> HIDE DEF c
<1>3. ASSUME NEW x \in ToSet(b)
      PROVE  x \in ToSet(c)
  <2>1. PICK k \in 1..n : b[k] = x
    BY <1>1, SeqSet
  <2>2. k + m \in 1..(m + n) /\ ~(k + m <= m) /\ (k + m) - m = k
    OBVIOUS
  <2>3. c[k + m] = x
    BY <1>2, <2>1, <2>2 DEF c
  <2>4. c \in Seq(S) /\ Len(c) = m + n
    BY <1>2 DEF c
  <2> QED
    BY <2>2, <2>3, <2>4, SeqSet
<1> QED
  BY <1>2, <1>3 DEF c

LEMMA HeadTailSet ==
    ASSUME NEW S, NEW s \in Seq(S), s # <<>>
    PROVE  /\ Head(s) \in ToSet(s)
           /\ Tail(s) \in Seq(S)
           /\ ToSet(s) \subseteq ToSet(Tail(s)) \cup {Head(s)}
<1>1. PICK n \in Nat : n = Len(s)
  BY LenProperties
<1>2. n # 0
  BY <1>1, EmptySeq
<1>3. /\ Tail(s) \in Seq(S)
      /\ Len(Tail(s)) = n - 1
      /\ \A i \in 1..(n - 1) : Tail(s)[i] = s[i + 1]
  BY <1>1, HeadTailProperties
<1>4. Head(s) = s[1]
  OBVIOUS
<1>5. Head(s) \in ToSet(s)
  <2>1. 1 \in 1..n
    BY <1>2
  <2> QED
    BY <1>1, <1>4, <2>1, SeqSet
<1>6. ASSUME NEW x \in ToSet(s), x # Head(s)
      PROVE  x \in ToSet(Tail(s))
  <2>1. PICK i \in 1..n : s[i] = x
    BY <1>1, SeqSet
  <2>2. i # 1
    BY <1>4, <1>6, <2>1
  <2>3. i - 1 \in 1..(n - 1) /\ (i - 1) + 1 = i
    BY <2>2
  <2>4. Tail(s)[i - 1] = x
    BY <1>3, <2>1, <2>3
  <2> QED
    BY <1>3, <2>3, <2>4, SeqSet
<1> QED
  BY <1>3, <1>5, <1>6

LEMMA RemoveAtType ==
    ASSUME NEW S, NEW s \in Seq(S), NEW i \in 1..Len(s)
    PROVE  RemoveAt(s, i) \in Seq(S)
<1>1. PICK n \in Nat : n = Len(s)
  BY LenProperties
<1>2. \A k \in 1..n : s[k] \in S
  BY <1>1, ElementOfSeq
<1>3. i \in 1..n
  BY <1>1
<1>4. SubSeq(s, 1, i - 1) \in Seq(S)
  <2>1. \A k \in 1..(i - 1) : s[k] \in S
    BY <1>2, <1>3
  <2>2. 1 \in Int /\ i - 1 \in Int
    BY <1>3
  <2> QED
    BY <2>1, <2>2, SubSeqProperties
<1>5. SubSeq(s, i + 1, n) \in Seq(S)
  <2>1. \A k \in (i + 1)..n : s[k] \in S
    BY <1>2, <1>3
  <2>2. i + 1 \in Int /\ n \in Int
    BY <1>3
  <2> QED
    BY <2>1, <2>2, SubSeqProperties
<1> QED
  BY <1>1, <1>4, <1>5, ConcatProperties DEF RemoveAt

LEMMA SomeOrder ==
    ASSUME NEW S, IsFiniteSet(S)
    PROVE  SetToSeq(S) \in Seq(S)
<1>1. Cardinality(S) \in Nat /\ ExistsBijection(1..Cardinality(S), S)
  BY FS_CardinalityType
<1>2. \E f \in [1..Cardinality(S) -> S] : IsInjective(f)
  BY <1>1 DEF ExistsBijection, Bijection, Injection
<1>3. SetToSeq(S) \in [1..Cardinality(S) -> S]
  BY <1>2 DEF SetToSeq
<1> QED
  BY <1>1, <1>3, SeqDef

-----------------------------------------------------------------------------
(* What is left, of more units and of other lists of withdrawals *)

\* Two recursions that take the same steps up to l agree there.
LEMMA LeftAgrees ==
    ASSUME NEW l \in Nat, NEW us, NEW ps, NEW vs, NEW qs, NEW address, NEW value,
           NEW f, Computes(f, us, ps, address, value, l),
           NEW g, Computes(g, vs, qs, address, value, l),
           \A k \in 1..l : us[ps[k]] = vs[qs[k]]
    PROVE  \A k \in 0..l : f[k] = g[k]
<1> DEFINE H == {k \in 0..l : f[k] = g[k]}
<1>1. 0 \in H
  <2>1. 0 \in 0..l
    OBVIOUS
  <2>2. f[0] = g[0]
    BY <2>1 DEF Computes, After
  <2> QED
    BY <2>1, <2>2
<1>2. ASSUME NEW k \in 1..l, k - 1 \in H
      PROVE  k \in H
  <2>1. k \in 0..l /\ k # 0 /\ f[k - 1] = g[k - 1]
    BY <1>2
  <2>2. f[k] = g[k]
    BY <2>1 DEF Computes, After
  <2> QED
    BY <2>1, <2>2
<1> HIDE DEF H
<1>3. 0..l \subseteq H
  BY <1>1, <1>2, Reaches
<1> QED
  BY <1>3 DEF H

\* A unit that arrives changes nothing of what is left.
LEMMA LeftOfMoreUnits ==
    ASSUME NEW us \in Seq(Requests), NEW r \in Requests, NEW ps \in Seq(1..Len(us)),
           NEW address, NEW value \in Nat \cup {Absent}
    PROVE  Left(Append(us, r), ps, address, value) = Left(us, ps, address, value)
<1>1. PICK l \in Nat : l = Len(ps)
  BY ListedRequests
<1> DEFINE vs == Append(us, r)
<1>2. /\ vs \in Seq(Requests)
      /\ Len(us) \in Nat /\ Len(vs) = Len(us) + 1
      /\ \A u \in 1..Len(us) : vs[u] = us[u]
  BY AppendSet, LenProperties
<1> HIDE DEF vs
<1>3. ps \in Seq(1..Len(vs))
  <2>1. 1..Len(us) \subseteq 1..Len(vs)
    BY <1>2
  <2> QED
    BY <2>1, SeqWider
<1>4. PICK f : /\ Computes(f, us, ps, address, value, l)
               /\ Left(us, ps, address, value) = f[l]
  BY <1>1, LeftUnfolds
<1>5. PICK g : /\ Computes(g, vs, ps, address, value, l)
               /\ Left(vs, ps, address, value) = g[l]
  <2>1. \E g : /\ Computes(g, vs, ps, address, value, Len(ps))
               /\ Left(vs, ps, address, value) = g[Len(ps)]
    BY <1>2, <1>3, LeftUnfolds
  <2> QED
    BY <1>1, <2>1
<1>6. \A k \in 1..l : us[ps[k]] = vs[ps[k]]
  BY <1>1, <1>2, ListedRequests
<1>7. \A k \in 0..l : f[k] = g[k]
  BY <1>4, <1>5, <1>6, LeftAgrees
<1>8. f[l] = g[l]
  BY <1>7
<1> QED
  BY <1>4, <1>5, <1>8 DEF vs

\* The withdrawal that is registered last is subtracted last.
LEMMA LeftOfOneMore ==
    ASSUME NEW us \in Seq(Requests), NEW ps \in Seq(1..Len(us)), NEW u \in 1..Len(us),
           NEW address, NEW value \in Nat \cup {Absent}
    PROVE  Left(us, Append(ps, u), address, value) =
              IF us[u].from = address THEN Subtract(Left(us, ps, address, value), us[u])
              ELSE Left(us, ps, address, value)
<1>1. PICK l \in Nat : l = Len(ps)
  BY ListedRequests
<1> DEFINE qs == Append(ps, u)
<1>2. /\ qs \in Seq(1..Len(us))
      /\ Len(qs) = l + 1
      /\ \A k \in 1..l : qs[k] = ps[k]
      /\ qs[l + 1] = u
  BY <1>1, AppendSet
<1> HIDE DEF qs
<1>3. PICK f : /\ Computes(f, us, ps, address, value, l)
               /\ Left(us, ps, address, value) = f[l]
  BY <1>1, LeftUnfolds
<1>4. PICK g : /\ Computes(g, us, qs, address, value, l + 1)
               /\ Left(us, qs, address, value) = g[l + 1]
  <2>1. PICK n \in Nat : n = Len(qs) /\ n = l + 1
    BY <1>2
  <2>2. \E g : /\ Computes(g, us, qs, address, value, n)
               /\ Left(us, qs, address, value) = g[n]
    BY <1>2, <2>1, LeftUnfolds
  <2> QED
    BY <2>1, <2>2
<1>5. \A k \in 1..l : us[ps[k]] = us[qs[k]]
  BY <1>2
<1>6. Computes(g, us, qs, address, value, l)
  <2>1. \A k \in 0..l : k \in 0..(l + 1)
    OBVIOUS
  <2> QED
    BY <1>4, <2>1 DEF Computes
<1>7. \A k \in 0..l : f[k] = g[k]
  BY <1>3, <1>5, <1>6, LeftAgrees
<1>8. f[l] = g[l] /\ l + 1 \in 0..(l + 1) /\ (l + 1) - 1 = l /\ l + 1 # 0
  BY <1>7
<1>9. g[l + 1] = After(g, us, qs, address, value, l + 1)
  BY <1>4, <1>8 DEF Computes
<1>10. g[l + 1] = IF us[qs[l + 1]].from = address
                  THEN Subtract(g[l], us[qs[l + 1]]) ELSE g[l]
  BY <1>8, <1>9 DEF After
<1> QED
  BY <1>2, <1>3, <1>4, <1>8, <1>10 DEF qs

LEMMA LeftOfNone ==
    ASSUME NEW us \in Seq(Requests), NEW address, NEW value \in Nat \cup {Absent}
    PROVE  Left(us, <<>>, address, value) = IF value = Absent THEN Default ELSE value
<1> DEFINE ps == <<>>
<1>1. ps \in Seq(1..Len(us)) /\ Len(ps) = 0
  OBVIOUS
<1> HIDE DEF ps
<1>2. \E f : /\ Computes(f, us, ps, address, value, Len(ps))
             /\ Left(us, ps, address, value) = f[Len(ps)]
  BY <1>1, LeftUnfolds
<1>3. PICK f : Computes(f, us, ps, address, value, 0) /\ Left(us, ps, address, value) = f[0]
  BY <1>1, <1>2
<1>4. f[0] = IF value = Absent THEN Default ELSE value
  BY <1>3 DEF Computes, After
<1>5. Left(us, ps, address, value) = IF value = Absent THEN Default ELSE value
  BY <1>3, <1>4
<1> QED
  BY <1>5 DEF ps

\* Of a natural number nothing is subtracted but what it covers.
LEMMA SubtractNat ==
    ASSUME NEW b \in Nat, NEW r \in Requests
    PROVE  /\ Subtract(b, r) \in Nat /\ Subtract(b, r) <= b
           /\ r.amount \in Nat /\ r.amount > b => Subtract(b, r) = b
<1>1. r.amount \in Nat \cup {All} /\ All \notin Int
  BY RequestFields, Constants
<1>2. CASE r.amount = All
  <2>1. Subtract(b, r) = 0
    BY <1>2, <1>1 DEF Subtract, Below
  <2> QED
    BY <1>1, <1>2, <2>1
<1>3. CASE r.amount \in Nat /\ b < r.amount
  <2>1. Subtract(b, r) = b
    BY <1>1, <1>3 DEF Subtract, Below
  <2> QED
    BY <2>1
<1>4. CASE r.amount \in Nat /\ ~(b < r.amount)
  <2>1. Subtract(b, r) = b - r.amount
    BY <1>1, <1>4 DEF Subtract, Below, Minus
  <2> QED
    BY <1>4, <2>1
<1> QED
  BY <1>1, <1>2, <1>3, <1>4

\* Withdrawals of others, and those that the balance does not cover, can be
\* dropped from the list.
LEMMA LeftWithout ==
    ASSUME NEW us \in Seq(Requests), NEW ps \in Seq(1..Len(us)), NEW S,
           NEW address, NEW value \in Nat \cup {Absent}, NEW base \in Nat,
           base = IF value = Absent THEN Default ELSE value,
           \A k \in 1..Len(ps) :
              \/ ps[k] \in S
              \/ us[ps[k]].from # address
              \/ us[ps[k]].amount \in Nat /\ us[ps[k]].amount > base
    PROVE  Left(us, Filter(ps, S), address, value) = Left(us, ps, address, value)
<1>1. PICK l \in Nat : l = Len(ps)
  BY ListedRequests
<1>2. PICK f : /\ Computes(f, us, ps, address, value, l)
               /\ Left(us, ps, address, value) = f[l]
  BY <1>1, LeftUnfolds
<1>3. PICK g : (\A k \in 0..l : g[k] = Taken1(g, ps, S, k)) /\ Filter(ps, S) = g[l]
  BY <1>1, FilterUnfolds
<1> DEFINE H == {k \in 0..l : /\ g[k] \in Seq(1..Len(us))
                              /\ Left(us, g[k], address, value) = f[k]
                              /\ f[k] \in Nat /\ f[k] <= base}
<1>4. 0 \in H
  <2>1. 0 \in 0..l
    OBVIOUS
  <2>2. g[0] = <<>> /\ f[0] = base
    BY <1>2, <1>3, <2>1 DEF Computes, After, Taken1
  <2>3. g[0] \in Seq(1..Len(us)) /\ Left(us, g[0], address, value) = f[0]
    BY <2>2, LeftOfNone
  <2>4. f[0] \in Nat /\ f[0] <= base
    BY <2>2
  <2> QED
    BY <2>1, <2>3, <2>4
<1>5. ASSUME NEW k \in 1..l, k - 1 \in H
      PROVE  k \in H
  <2>1. /\ g[k - 1] \in Seq(1..Len(us))
        /\ Left(us, g[k - 1], address, value) = f[k - 1]
        /\ f[k - 1] \in Nat /\ f[k - 1] <= base
        /\ k \in 0..l /\ k # 0
    BY <1>5
  <2>2. ps[k] \in 1..Len(us) /\ us[ps[k]] \in Requests
    BY <1>1, ListedRequests
  <2>3. f[k] = IF us[ps[k]].from = address
               THEN Subtract(f[k - 1], us[ps[k]]) ELSE f[k - 1]
    BY <1>2, <2>1 DEF Computes, After
  <2>4. g[k] = IF ps[k] \in S THEN Append(g[k - 1], ps[k]) ELSE g[k - 1]
    BY <1>3, <2>1 DEF Taken1
  <2>5. f[k] \in Nat /\ f[k] <= base
    <3>1. Subtract(f[k - 1], us[ps[k]]) \in Nat /\ Subtract(f[k - 1], us[ps[k]]) <= f[k - 1]
      BY <2>1, <2>2, SubtractNat
    <3> QED
      BY <2>1, <2>3, <3>1
  <2>6. CASE ps[k] \in S
    <3>1. g[k] = Append(g[k - 1], ps[k])
      BY <2>4, <2>6
    <3>2. Left(us, g[k], address, value) =
              IF us[ps[k]].from = address THEN Subtract(f[k - 1], us[ps[k]]) ELSE f[k - 1]
      BY <2>1, <2>2, <3>1, LeftOfOneMore
    <3>3. g[k] \in Seq(1..Len(us))
      BY <2>1, <2>2, <3>1, AppendProperties
    <3> QED
      BY <2>1, <2>3, <2>5, <3>2, <3>3
  <2>7. CASE ps[k] \notin S
    <3>1. g[k] = g[k - 1]
      BY <2>4, <2>7
    <3>2. f[k] = f[k - 1]
      <4>1. CASE us[ps[k]].from # address
        BY <2>3, <4>1
      <4>2. CASE us[ps[k]].amount \in Nat /\ us[ps[k]].amount > base
        <5>1. us[ps[k]].amount > f[k - 1]
          BY <2>1, <4>2
        <5>2. Subtract(f[k - 1], us[ps[k]]) = f[k - 1]
          BY <2>1, <2>2, <4>2, <5>1, SubtractNat
        <5> QED
          BY <2>3, <5>2
      <4> QED
        BY <1>1, <2>7, <4>1, <4>2
    <3> QED
      BY <2>1, <2>5, <3>1, <3>2
  <2> QED
    BY <2>6, <2>7
<1> HIDE DEF H
<1>6. 0..l \subseteq H
  BY <1>4, <1>5, Reaches
<1>7. l \in H
  BY <1>6
<1> QED
  BY <1>2, <1>3, <1>7 DEF H

-----------------------------------------------------------------------------
(* The reads in progress, with the units in U *)

ReadsOf(U) ==
    [address : Users \cup {NoAddress}, unit : U, read : BOOLEAN,
     value : Nat \cup {Absent}, late : BOOLEAN]

LEMMA UpdateType ==
    ASSUME NEW U, 0 \in U, NEW a \in Users \cup {NoAddress}
    PROVE  Update(a) \in ReadsOf(U)
  BY DEF Update, ReadsOf

LEMMA UpdatesType ==
    ASSUME NEW U, 0 \in U, NEW s \in Seq(Users)
    PROVE  Updates(s) \in Seq(ReadsOf(U))
<1>1. PICK n \in Nat : n = Len(s)
  BY LenProperties
<1>2. \A i \in 1..n : Update(s[i]) \in ReadsOf(U)
  BY <1>1, ElementOfSeq, UpdateType
<1>3. Updates(s) = [i \in 1..n |-> Update(s[i])]
  BY <1>1 DEF Updates
<1>4. Updates(s) \in [1..n -> ReadsOf(U)]
  BY <1>2, <1>3
<1> QED
  BY <1>4, SeqDef

LEMMA OvertakeType ==
    ASSUME NEW U, reads \in Seq(ReadsOf(U)), NEW i \in 1..Len(reads)
    PROVE  Overtake(i) \in Seq(ReadsOf(U)) /\ Len(Overtake(i)) = Len(reads)
<1>1. PICK n \in Nat : n = Len(reads)
  BY LenProperties
<1> DEFINE l(j) == reads[j].late \/ (j < i /\ reads[j].address = reads[i].address)
<1>2. ASSUME NEW j \in 1..n
      PROVE  [reads[j] EXCEPT !.late = l(j)] \in ReadsOf(U)
  <2>1. reads[j] \in ReadsOf(U)
    BY <1>1, ElementOfSeq
  <2>2. l(j) \in BOOLEAN
    BY <2>1 DEF ReadsOf
  <2> HIDE DEF l
  <2> QED
    BY <2>1, <2>2 DEF ReadsOf
<1>3. Overtake(i) = [j \in 1..n |-> [reads[j] EXCEPT !.late = l(j)]]
  BY <1>1 DEF Overtake
<1> HIDE DEF l
<1>4. Overtake(i) \in [1..n -> ReadsOf(U)]
  BY <1>2, <1>3
<1>5. Overtake(i) \in Seq(ReadsOf(U)) /\ Len(Overtake(i)) = n
  BY <1>4, SeqDef
<1> QED
  BY <1>1, <1>5

LEMMA ReadVarsReads ==
    ASSUME NEW U, reads \in Seq(ReadsOf(U)), balance \in [Users -> Nat \cup {Absent}],
           NEW i \in 1..Len(reads), ReadVars(i)
    PROVE  reads' \in Seq(ReadsOf(U))
<1>1. PICK n \in Nat : n = Len(reads)
  BY LenProperties
<1> DEFINE v == IF reads[i].address \in Users THEN balance[reads[i].address] ELSE Absent
<1>2. v \in Nat \cup {Absent}
  OBVIOUS
<1>3. reads' = [reads EXCEPT ![i].read = TRUE, ![i].value = v]
  BY DEF ReadVars
<1> HIDE DEF v
<1>4. reads \in [1..n -> ReadsOf(U)] /\ i \in 1..n
  BY <1>1, LenProperties
<1>5. reads' \in [1..n -> ReadsOf(U)]
  BY <1>2, <1>3, <1>4 DEF ReadsOf
<1> QED
  BY <1>5, SeqDef

LEMMA AnswerReads ==
    ASSUME NEW U, reads \in Seq(ReadsOf(U)), NEW i \in 1..Len(reads), Answer(i)
    PROVE  reads' \in Seq(ReadsOf(U))
<1>1. reads' = RemoveAt(Overtake(i), i)
  BY DEF Answer
<1> QED
  BY <1>1, OvertakeType, RemoveAtType

LEMMA CallReads ==
    ASSUME NEW S, reads \in Seq(S)
    PROVE  /\ Call(<<>>) => reads' = reads /\ uninformed' = uninformed
           /\ \A e \in S : Call(<<e>>) => /\ reads' = Append(reads, e)
                                        /\ uninformed' = uninformed \ ({e.address} \ Refused)
<1>1. Call(<<>>) => reads' = reads /\ uninformed' = uninformed
  <2>1. reads \o <<>> = reads /\ DOMAIN <<>> = {}
    BY ConcatEmptySeq
  <2> QED
    BY <2>1 DEF Call
<1>2. ASSUME NEW e \in S, Call(<<e>>)
      PROVE  /\ reads' = Append(reads, e)
             /\ uninformed' = uninformed \ ({e.address} \ Refused)
  <2>1. reads \o <<e>> = Append(reads, e)
    BY AppendIsConcat
  <2>2. DOMAIN <<e>> = {1} /\ <<e>>[1] = e
    OBVIOUS
  <2>3. {<<e>>[i].address : i \in DOMAIN <<e>>} = {e.address}
    BY <2>2
  <2> QED
    BY <1>2, <2>1, <2>3 DEF Call
<1> QED
  BY <1>1, <1>2

\* A call takes nobody into `uninformed'.
LEMMA CallInforms ==
    ASSUME NEW updates, Call(updates)
    PROVE  uninformed' \subseteq uninformed
  BY DEF Call

LEMMA AffectedFinite ==
    ASSUME NEW r \in Requests
    PROVE  IsFiniteSet(Affected(r)) /\ Affected(r) \subseteq Users
<1>1. /\ r.kind \in {"deposit", "withdrawal", "trade", "cancel"}
      /\ r.from \in Users /\ r.owner \in Users
      /\ r.kind \in {"deposit", "trade"} => r.to \in Users
  BY RequestFields
<1>2. IsFiniteSet({r.owner, r.to})
  <2>1. {r.owner, r.to} = {r.owner} \cup {r.to}
    OBVIOUS
  <2>2. IsFiniteSet({r.owner}) /\ IsFiniteSet({r.to})
    BY FS_Singleton
  <2> QED
    BY <2>1, <2>2, FS_Union
<1>3. Touched(r) \subseteq {r.owner, r.to} /\ Touched(r) \subseteq Users
  BY <1>1 DEF Touched
<1>4. Affected(r) \subseteq Touched(r)
  BY DEF Affected
<1> QED
  BY <1>2, <1>3, <1>4, FS_Subset

LEMMA HandleReads ==
    ASSUME NEW U, 0 \in U, reads \in Seq(ReadsOf(U)), units \in Seq(Requests),
           NEW u \in 1..Len(units), Handle(u)
    PROVE  reads' \in Seq(ReadsOf(U))
<1>1. units[u] \in Requests
  BY ElementOfSeq
<1>2. CASE u \in bounced
  <2>1. Update(NoAddress) \in ReadsOf(U)
    BY UpdateType
  <2>2. reads' = Append(reads, Update(NoAddress)) \/ reads' = reads
    BY <1>2, <2>1, CallReads DEF Handle, Bounce
  <2> QED
    BY <2>1, <2>2, AppendProperties
<1>3. CASE u \notin bounced
  <2>1. reads' = reads \o Updates(SetToSeq(Affected(units[u])))
    BY <1>3 DEF Handle, Call
  <2>2. SetToSeq(Affected(units[u])) \in Seq(Users)
    BY <1>1, AffectedFinite, SomeOrder, SeqWider
  <2>3. Updates(SetToSeq(Affected(units[u]))) \in Seq(ReadsOf(U))
    BY <2>2, UpdatesType
  <2> QED
    BY <2>1, <2>3, ConcatProperties
<1> QED
  BY <1>2, <1>3

-----------------------------------------------------------------------------
(* Types, and what is shown *)

DagSound ==
    /\ units \in Seq(Requests) /\ Len(units) <= MaxUnits
    /\ balance \in [Users -> Nat \cup {Absent}]
    /\ executed \in Seq(1..Len(units))
    /\ bounced \subseteq ToSet(executed)
    /\ recorded \subseteq {u \in 1..Len(units) : units[u].kind = "trade"}
    /\ settled \subseteq ToSet(executed)
    /\ early \subseteq ToSet(executed)

ResponsesSound ==
    /\ responses \in Seq(ToSet(executed))
    /\ announced \subseteq ToSet(executed)

UnitsSound ==
    /\ pending \in Seq(1..Len(units))
    /\ resolving \subseteq 1..Len(units)
    /\ validating \subseteq 1..Len(units)
    /\ outrun \subseteq 1..Len(units)

\* A read is for an update or for a withdrawal that is on the DAG.
ReadsSound == reads \in Seq(ReadsOf(0..Len(units)))

ShownBalances == Balances \cup {Absent, NotShown}

ShownSound ==
    /\ shown \in [Users -> ShownBalances]
    /\ overtaken \subseteq Users \cup {NoAddress}
    /\ uninformed \subseteq Users

FlagsSound == up \in BOOLEAN /\ recovering \in BOOLEAN /\ crashes \in 0..MaxCrashes

Typed ==
    /\ DagSound /\ ResponsesSound /\ UnitsSound /\ ReadsSound /\ ShownSound /\ FlagsSound

LEMMA DagFacts ==
    ASSUME DagSound
    PROVE  /\ Len(units) \in Nat
           /\ \A u \in 1..Len(units) : units[u] \in Requests
           /\ ToSet(executed) \subseteq 1..Len(units)
  BY SeqSet, ElementOfSeq DEF DagSound

LEMMA TypedInit ==
    ASSUME Init
    PROVE  Typed
<1>1. DagSound
  <2>1. units = <<>> /\ executed = <<>> /\ Len(units) = 0
    BY DEF Init
  <2>2. units \in Seq(Requests) /\ executed \in Seq(1..Len(units))
    BY <2>1
  <2>3. Len(units) <= MaxUnits
    BY <2>1, Constants
  <2>4. balance \in [Users -> Nat \cup {Absent}]
    BY DagStateAssumption DEF Init
  <2>5. bounced = {} /\ recorded = {} /\ settled = {} /\ early = {}
    BY DEF Init
  <2> QED
    BY <2>2, <2>3, <2>4, <2>5 DEF DagSound
<1>2. ResponsesSound /\ UnitsSound /\ ReadsSound
  BY DEF Init, ResponsesSound, UnitsSound, ReadsSound
<1>3. ShownSound
  BY DEF Init, ShownSound, ShownBalances
<1>4. FlagsSound
  <2>1. 0 \in 0..MaxCrashes
    BY Constants
  <2> QED
    BY <2>1 DEF Init, FlagsSound
<1> QED
  BY <1>1, <1>2, <1>3, <1>4 DEF Typed

LEMMA StopTyped ==
    ASSUME Typed, Stop, UNCHANGED durable, crashes' \in 0..MaxCrashes
    PROVE  Typed'
<1>1. DagSound'
  BY DEF Typed, DagSound, durable
<1>2. ResponsesSound' /\ UnitsSound' /\ ReadsSound'
  BY DEF Stop, ResponsesSound, UnitsSound, ReadsSound
<1>3. ShownSound' /\ FlagsSound'
  BY DEF Stop, ShownSound, FlagsSound, ShownBalances
<1> QED
  BY <1>1, <1>2, <1>3 DEF Typed

LEMMA SavedUnitTyped ==
    ASSUME Typed, NEW r \in Requests, SavedUnit(r)
    PROVE  Typed'
<1>1. PICK l \in Nat : l = Len(units)
  BY DagFacts DEF Typed
<1>2. /\ units' \in Seq(Requests)
      /\ Len(units') = l + 1
      /\ l + 1 <= MaxUnits
  BY <1>1, AppendSet, Constants DEF SavedUnit, Typed, DagSound
<1>3. 1..Len(units) \subseteq 1..Len(units') /\ 0..Len(units) \subseteq 0..Len(units')
  BY <1>1, <1>2
<1>4. DagSound'
  <2>1. executed \in Seq(1..Len(units'))
    <3>1. executed \in Seq(1..Len(units))
      BY DEF Typed, DagSound
    <3> QED
      BY <1>3, <3>1, SeqWider
  <2>2. recorded \subseteq {u \in 1..Len(units') : units'[u].kind = "trade"}
    <3>1. \A u \in 1..l : units'[u] = units[u]
      BY <1>1, AppendSet DEF SavedUnit, Typed, DagSound
    <3> QED
      BY <1>1, <1>3, <3>1 DEF Typed, DagSound
  <2>3. UNCHANGED <<balance, executed, bounced, recorded, settled, early>>
    BY DEF SavedUnit
  <2> QED
    BY <1>2, <2>1, <2>2, <2>3 DEF Typed, DagSound
<1>5. ResponsesSound'
  BY DEF SavedUnit, Typed, ResponsesSound
<1>6. UnitsSound'
  <2>1. pending \in Seq(1..Len(units'))
    <3>1. pending \in Seq(1..Len(units))
      BY DEF Typed, UnitsSound
    <3> QED
      BY <1>3, <3>1, SeqWider
  <2>2. Len(units') \in 1..Len(units')
    BY <1>2
  <2>3. resolving' \subseteq resolving \cup {Len(units')}
        /\ validating' \subseteq validating \cup {Len(units')}
    BY DEF SavedUnit
  <2>4. resolving' \subseteq 1..Len(units') /\ validating' \subseteq 1..Len(units')
    BY <1>3, <2>2, <2>3 DEF Typed, UnitsSound
  <2> QED
    BY <1>3, <2>1, <2>4 DEF SavedUnit, Typed, UnitsSound
<1>7. ReadsSound'
  <2>1. ReadsOf(0..Len(units)) \subseteq ReadsOf(0..Len(units'))
    BY <1>3 DEF ReadsOf
  <2>2. reads \in Seq(ReadsOf(0..Len(units')))
    <3>1. reads \in Seq(ReadsOf(0..Len(units)))
      BY DEF Typed, ReadsSound
    <3> QED
      BY <2>1, <3>1, SeqWider
  <2>3. r.to \in Users \cup {NoAddress} /\ 0 \in 0..Len(units')
    BY <1>2, RequestFields
  <2>4. Update(r.to) \in ReadsOf(0..Len(units'))
    BY <2>3, UpdateType
  <2>5. reads' = Append(reads, Update(r.to)) \/ reads' = reads
    BY <2>2, <2>4, CallReads DEF SavedUnit
  <2> QED
    BY <2>2, <2>4, <2>5, AppendProperties DEF ReadsSound
<1>8. ShownSound' /\ FlagsSound'
  <2>1. uninformed' \subseteq uninformed
    BY CallInforms DEF SavedUnit
  <2> QED
    BY <2>1 DEF SavedUnit, Typed, ShownSound, FlagsSound, process
<1> QED
  BY <1>4, <1>5, <1>6, <1>7, <1>8 DEF Typed

LEMMA SymbolFoundTyped ==
    ASSUME Typed, NEW u, SymbolFound(u)
    PROVE  Typed'
<1>1. u \in 1..Len(units) /\ Len(units) \in Nat
  BY DagFacts DEF SymbolFound, Typed, UnitsSound
<1>2. units[u].from \in Users
  <2>1. units[u] \in Requests
    BY <1>1, DagFacts DEF Typed
  <2> QED
    BY <2>1, RequestFields
<1>3. Registration(u) \in ReadsOf(0..Len(units))
  <2>1. u \in 0..Len(units) /\ 0 \in 0..Len(units)
    BY <1>1
  <2>2. Update(units[u].from) \in ReadsOf(0..Len(units))
    BY <1>2, <2>1, UpdateType
  <2> QED
    BY <2>1, <2>2 DEF Registration, ReadsOf
<1>4. ReadsSound'
  <2>1. reads' = Append(reads, Registration(u)) /\ units' = units
    BY DEF SymbolFound, durable
  <2> QED
    BY <1>3, <2>1, AppendProperties DEF Typed, ReadsSound
<1>5. DagSound' /\ ResponsesSound'
  BY DEF SymbolFound, Typed, DagSound, ResponsesSound, durable
<1>6. UnitsSound' /\ ShownSound' /\ FlagsSound'
  BY DEF SymbolFound, Typed, UnitsSound, ShownSound, FlagsSound, durable, ghosts, process
<1> QED
  BY <1>4, <1>5, <1>6 DEF Typed

LEMMA ReadVarsTyped ==
    ASSUME Typed, NEW i, ReadVars(i)
    PROVE  Typed'
<1>1. i \in 1..Len(reads) /\ units' = units
  BY DEF ReadVars, durable
<1>2. ReadsSound'
  <2>1. balance \in [Users -> Nat \cup {Absent}] /\ reads \in Seq(ReadsOf(0..Len(units)))
    BY DEF Typed, DagSound, ReadsSound
  <2> QED
    BY <1>1, <2>1, ReadVarsReads DEF ReadsSound
<1>3. DagSound' /\ ResponsesSound'
  BY DEF ReadVars, Typed, DagSound, ResponsesSound, durable
<1>4. UnitsSound' /\ ShownSound' /\ FlagsSound'
  BY DEF ReadVars, Typed, UnitsSound, ShownSound, FlagsSound, durable, ghosts, process
<1> QED
  BY <1>2, <1>3, <1>4 DEF Typed

\* What is left of a balance when a withdrawal is registered, unless it is
\* found to be negative
LEMMA RestType ==
    ASSUME NEW b \in Balances, NEW r \in Requests,
           ~Below(Minus(b, IF r.amount = All THEN b ELSE r.amount), 0)
    PROVE  Minus(b, IF r.amount = All THEN b ELSE r.amount) \in Balances
<1> DEFINE n == IF r.amount = All THEN b ELSE r.amount
<1>1. n \in Nat \/ n = b
  <2>1. r.amount \in Nat \cup {All}
    BY RequestFields
  <2> QED
    BY <2>1
<1>2. ~Below(Minus(b, n), 0)
  OBVIOUS
<1> HIDE DEF n
<1>3. Minus(b, n) \in Balances
  <2>1. CASE b \in Int
    <3>1. n \in Int /\ Minus(b, n) = b - n
      BY <1>1, <2>1 DEF Minus
    <3>2. b - n \in Int /\ b - n >= 0
      BY <1>2, <2>1, <3>1 DEF Below
    <3>3. b - n \in Nat
      BY <3>2
    <3> QED
      BY <3>1, <3>3 DEF Balances
  <2>2. CASE b \notin Int
    <3>1. Minus(b, n) = NaN /\ Default # 0
      BY <2>2 DEF Minus, Balances
    <3> QED
      BY <3>1 DEF Balances
  <2> QED
    BY <2>1, <2>2
<1> QED
  BY <1>3 DEF n

LEMMA ShowSound ==
    ASSUME ShownSound, NEW U, NEW r \in ReadsOf(U), NEW b \in Balances, Show(r, b),
           uninformed' = uninformed
    PROVE  ShownSound'
<1>1. r.address \in Users \cup {NoAddress}
  BY DEF ReadsOf
<1>2. b \in ShownBalances
  BY DEF ShownBalances
<1>3. shown' \in [Users -> ShownBalances]
  BY <1>2 DEF Show, ShownSound
<1>4. overtaken' \subseteq Users \cup {NoAddress}
  BY <1>1 DEF Show, ShownSound
<1> QED
  BY <1>3, <1>4 DEF ShownSound

LEMMA AnswerTyped ==
    ASSUME Typed, NEW i, Answer(i)
    PROVE  Typed'
<1>1. /\ i \in 1..Len(reads) /\ UNCHANGED durable
      /\ units' = units /\ uninformed' = uninformed
  BY DEF Answer, durable
<1>2. ReadsSound'
  <2>1. reads \in Seq(ReadsOf(0..Len(units)))
    BY DEF Typed, ReadsSound
  <2> QED
    BY <1>1, <2>1, AnswerReads DEF ReadsSound
<1> DEFINE r == reads[i]
           b == Displayed(r.address, r.value)
<1>3. r \in ReadsOf(0..Len(units))
  BY <1>1, ElementOfSeq DEF Typed, ReadsSound
<1>4. r.value \in Nat \cup {Absent} /\ r.unit \in 0..Len(units)
  BY <1>3 DEF ReadsOf
<1>5. b \in Balances
  BY <1>4, DisplayedType DEF Typed, DagSound, UnitsSound
<1>6. \/ r.unit # 0 /\ Register(r, b)
      \/ Show(r, b) /\ UNCHANGED pending
  BY DEF Answer
<1> HIDE DEF b, r
<1>7. ShownSound' /\ pending' \in Seq(1..Len(units))
  <2>1. CASE Show(r, b) /\ UNCHANGED pending
    BY <1>1, <1>3, <1>5, <2>1, ShowSound DEF Typed, UnitsSound
  <2>2. CASE r.unit # 0 /\ Register(r, b)
    <3> DEFINE w == units[r.unit]
               rest == Minus(b, IF w.amount = All THEN b ELSE w.amount)
    <3>1. r.unit \in 1..Len(units) /\ w \in Requests
      <4>1. r.unit \in 1..Len(units)
        BY <1>4, <2>2
      <4> QED
        BY <4>1, DagFacts DEF Typed
    <3>2. CASE Below(rest, 0)
      <4>1. UNCHANGED <<pending, shown, overtaken>>
        BY <2>2, <3>2 DEF Register
      <4> QED
        BY <1>1, <4>1 DEF Typed, UnitsSound, ShownSound
    <3>3. CASE ~Below(rest, 0)
      <4>1. pending' = Append(pending, r.unit) /\ Show(r, rest)
        BY <2>2, <3>3 DEF Register
      <4>2. rest \in Balances
        BY <1>5, <3>1, <3>3, RestType
      <4> HIDE DEF rest
      <4>3. ShownSound'
        BY <1>1, <1>3, <4>1, <4>2, ShowSound DEF Typed
      <4> QED
        BY <3>1, <4>1, <4>3, AppendProperties DEF Typed, UnitsSound
    <3> QED
      BY <3>2, <3>3
  <2> QED
    BY <1>6, <2>1, <2>2
<1>8. DagSound' /\ ResponsesSound'
  BY DEF Answer, Typed, DagSound, ResponsesSound, durable
<1>9. UnitsSound' /\ FlagsSound'
  BY <1>7 DEF Answer, Typed, UnitsSound, FlagsSound, durable, process
<1> QED
  BY <1>2, <1>7, <1>8, <1>9 DEF Typed

LEMMA RefreshBalancesTyped ==
    ASSUME Typed, NEW u, NEW address \in Users, RefreshBalances(u, address)
    PROVE  Typed'
<1>1. units' = units /\ uninformed' \subseteq uninformed
  BY CallInforms DEF RefreshBalances, durable
<1>2. ReadsSound'
  <2>1. 0 \in 0..Len(units)
    BY DagFacts DEF Typed
  <2>2. Update(address) \in ReadsOf(0..Len(units))
    BY <2>1, UpdateType
  <2>3. reads \in Seq(ReadsOf(0..Len(units)))
    BY DEF Typed, ReadsSound
  <2>4. reads' = Append(reads, Update(address))
    BY <2>2, <2>3, CallReads DEF RefreshBalances
  <2> QED
    BY <1>1, <2>2, <2>3, <2>4, AppendProperties DEF ReadsSound
<1>3. DagSound' /\ ResponsesSound'
  BY DEF RefreshBalances, Typed, DagSound, ResponsesSound, durable
<1>4. UnitsSound' /\ ShownSound' /\ FlagsSound'
  BY <1>1 DEF RefreshBalances, Typed, UnitsSound, ShownSound, FlagsSound, durable, process
<1> QED
  BY <1>2, <1>3, <1>4 DEF Typed

\* The agent takes no more than the owner has.
LEMMA BalancesAfter ==
    ASSUME balance \in [Users -> Nat \cup {Absent}], NEW r \in Requests, Accepted(r),
           NEW a \in Users
    PROVE  Amount(a) + (IF a = Receiver(r) THEN Given(r) ELSE 0)
                     - (IF a = r.owner THEN Taken(r) ELSE 0) \in Nat
<1>1. /\ r.kind \in {"deposit", "withdrawal", "trade", "cancel"}
      /\ r.owner \in Users
      /\ r.amount \in Nat \cup {All}
      /\ r.kind # "withdrawal" => r.amount \in Nat
      /\ All \notin Int
  BY RequestFields, Constants
<1>2. Amount(a) \in Nat /\ Amount(r.owner) \in Nat
  BY <1>1, Constants DEF Amount
<1>3. Given(r) \in Nat
  BY <1>1 DEF Given
<1>4. Taken(r) \in Nat
  <2>1. CASE r.kind \in {"deposit", "cancel"}
    BY <1>1, <2>1 DEF Taken
  <2>2. CASE r.kind \in {"withdrawal", "trade"} /\ r.amount = All
    BY <1>2, <2>2 DEF Taken
  <2>3. CASE r.kind \in {"withdrawal", "trade"} /\ r.amount # All
    BY <1>1, <2>3 DEF Taken
  <2> QED
    BY <1>1, <2>1, <2>2, <2>3
<1>5. Taken(r) <= Amount(r.owner)
  BY DEF Accepted
<1>6. CASE a = r.owner
  BY <1>2, <1>3, <1>4, <1>5, <1>6
<1>7. CASE a # r.owner
  BY <1>2, <1>3, <1>7
<1> QED
  BY <1>6, <1>7

LEMMA ExecuteTyped ==
    ASSUME Typed, NEW u, NEW refused, Execute(u, refused)
    PROVE  Typed'
<1>1. u \in 1..Len(units) /\ units' = units
  BY DEF Execute, Known
<1>2. units[u] \in Requests
  BY <1>1, DagFacts DEF Typed
<1>3. /\ executed' = Append(executed, u) /\ executed' \in Seq(1..Len(units))
      /\ ToSet(executed') = ToSet(executed) \cup {u}
  <2>1. executed \in Seq(1..Len(units))
    BY DEF Typed, DagSound
  <2> QED
    BY <1>1, <2>1, AppendSet DEF Execute
<1>4. balance' \in [Users -> Nat \cup {Absent}]
  <2>1. balance \in [Users -> Nat \cup {Absent}]
    BY DEF Typed, DagSound
  <2> DEFINE r == units[u]
  <2>2. ASSUME Accepted(r),
               balance' = [a \in Users |->
                              IF a \in Touched(r)
                              THEN Amount(a) + (IF a = Receiver(r) THEN Given(r) ELSE 0)
                                             - (IF a = r.owner THEN Taken(r) ELSE 0)
                              ELSE balance[a]]
        PROVE  balance' \in [Users -> Nat \cup {Absent}]
    <3>1. \A a \in Users : Amount(a) + (IF a = Receiver(r) THEN Given(r) ELSE 0)
                                     - (IF a = r.owner THEN Taken(r) ELSE 0) \in Nat
      BY <1>2, <2>1, <2>2, BalancesAfter
    <3> QED
      BY <2>1, <2>2, <3>1
  <2> QED
    BY <2>1, <2>2 DEF Execute
<1>5. DagSound'
  <2>1. /\ bounced' \subseteq bounced \cup {u} /\ early' \subseteq early \cup {u}
        /\ recorded' = recorded /\ settled' = settled
    BY DEF Execute
  <2> QED
    BY <1>1, <1>3, <1>4, <2>1 DEF Typed, DagSound
<1>6. ResponsesSound'
  <2>1. responses' = Append(responses, u) /\ announced' = announced
    BY DEF Execute
  <2>2. responses \in Seq(ToSet(executed'))
    <3>1. responses \in Seq(ToSet(executed)) /\ ToSet(executed) \subseteq ToSet(executed')
      BY <1>3 DEF Typed, ResponsesSound
    <3> QED
      BY <3>1, SeqWider
  <2>3. responses' \in Seq(ToSet(executed'))
    BY <1>3, <2>1, <2>2, AppendProperties
  <2> QED
    BY <1>3, <2>1, <2>3 DEF Typed, ResponsesSound
<1>7. UnitsSound' /\ ReadsSound'
  BY <1>1 DEF Execute, Typed, UnitsSound, ReadsSound, handlers
<1>8. ShownSound' /\ FlagsSound'
  <2>1. uninformed' \subseteq uninformed \cup {units[u].owner}
    BY DEF Execute
  <2> QED
    BY <1>2, <2>1, RequestFields DEF Execute, Typed, ShownSound, FlagsSound, process
<1> QED
  BY <1>5, <1>6, <1>7, <1>8 DEF Typed

LEMMA RecordTyped ==
    ASSUME Typed, NEW u, Record(u)
    PROVE  Typed'
<1>1. DagSound' /\ ResponsesSound'
  BY DEF Record, Known, Kind, Typed, DagSound, ResponsesSound
<1>2. UnitsSound' /\ ReadsSound' /\ ShownSound' /\ FlagsSound'
  BY DEF Record, Typed, UnitsSound, ReadsSound, ShownSound, FlagsSound, handlers, ghosts,
         process
<1> QED
  BY <1>1, <1>2 DEF Typed

\* Handling the response to u removes nothing but u from what is pending.
LEMMA ForgetType ==
    ASSUME NEW S, pending \in Seq(S), NEW u
    PROVE  Forget(u) \in Seq(S) /\ ToSet(Forget(u)) \subseteq ToSet(pending) \ {u}
<1>1. pending \in Seq(ToSet(pending)) /\ ToSet(pending) \subseteq S
  <2>1. \A k \in 1..Len(pending) : pending[k] \in ToSet(pending)
    BY SeqSet
  <2> QED
    BY <2>1, SeqInto, SeqSet
<1>2. Forget(u) \in Seq(ToSet(pending) \cap (ToSet(pending) \ {u}))
  BY <1>1, FilterSound DEF Forget
<1>3. Forget(u) \in Seq(ToSet(pending) \ {u})
  <2>1. ToSet(pending) \cap (ToSet(pending) \ {u}) = ToSet(pending) \ {u}
    OBVIOUS
  <2> QED
    BY <1>2, <2>1
<1>4. Forget(u) \in Seq(S)
  <2>1. ToSet(pending) \ {u} \subseteq S
    BY <1>1
  <2> QED
    BY <1>3, <2>1, SeqWider
<1> QED
  BY <1>3, <1>4, SeqSet

\* The response that comes next is to a unit that has been executed.
LEMMA NextResponse ==
    ASSUME Typed, responses # <<>>
    PROVE  /\ Head(responses) \in ToSet(executed)
           /\ Head(responses) \in 1..Len(units)
           /\ Tail(responses) \in Seq(ToSet(executed))
<1>1. responses \in Seq(ToSet(executed))
  BY DEF Typed, ResponsesSound
<1>2. Head(responses) \in ToSet(executed) /\ Tail(responses) \in Seq(ToSet(executed))
  BY <1>1, HeadTailProperties
<1> QED
  BY <1>2, DagFacts DEF Typed

LEMMA OnAAResponseTyped ==
    ASSUME Typed, OnAAResponse
    PROVE  Typed'
<1> DEFINE u == Head(responses)
<1>1. /\ responses # <<>> /\ UNCHANGED durable /\ crashes' = crashes
      /\ units' = units /\ executed' = executed
  BY DEF OnAAResponse, durable
<1>2. /\ u \in ToSet(executed) /\ u \in 1..Len(units)
      /\ Tail(responses) \in Seq(ToSet(executed))
  BY <1>1, NextResponse
<1>3. \/ Stop
      \/ /\ Handle(u)
         /\ responses' = Tail(responses)
         /\ UNCHANGED <<process, resolving, validating, shown, overtaken>>
  BY DEF OnAAResponse
<1> HIDE DEF u
<1>4. CASE Stop
  BY <1>1, <1>4, StopTyped DEF Typed, FlagsSound
<1>5. CASE /\ Handle(u)
           /\ responses' = Tail(responses)
           /\ UNCHANGED <<process, resolving, validating, shown, overtaken>>
  <2>1. DagSound'
    BY <1>1 DEF Typed, DagSound, durable
  <2>2. ResponsesSound'
    <3>1. announced' \subseteq announced \cup {u}
      BY <1>5 DEF Handle, ExchangeResponse
    <3> QED
      BY <1>1, <1>2, <1>5, <3>1 DEF Typed, ResponsesSound
  <2>3. UnitsSound'
    <3>1. pending' \in Seq(1..Len(units))
      BY <1>5, ForgetType DEF Handle, Typed, UnitsSound
    <3>2. outrun' \subseteq outrun \cup {u}
      BY <1>5 DEF Handle
    <3> QED
      BY <1>1, <1>2, <1>5, <3>1, <3>2 DEF Typed, UnitsSound
  <2>4. ReadsSound'
    <3>1. 0 \in 0..Len(units) /\ units \in Seq(Requests)
      BY DagFacts DEF Typed, DagSound
    <3> QED
      BY <1>1, <1>2, <1>5, <3>1, HandleReads DEF Typed, ReadsSound
  <2>5. ShownSound' /\ FlagsSound'
    <3>1. uninformed' \subseteq uninformed
      BY <1>5, CallInforms DEF Handle, Bounce
    <3> QED
      BY <1>1, <1>5, <3>1 DEF Typed, ShownSound, FlagsSound, process
  <2> QED
    BY <2>1, <2>2, <2>3, <2>4, <2>5 DEF Typed
<1> QED
  BY <1>3, <1>4, <1>5

LEMMA CommitTyped ==
    ASSUME Typed, NEW u, Commit(u)
    PROVE  Typed'
<1>1. DagSound' /\ ResponsesSound'
  BY DEF Commit, Typed, DagSound, ResponsesSound
<1>2. UnitsSound' /\ ReadsSound' /\ ShownSound' /\ FlagsSound'
  BY DEF Commit, Typed, UnitsSound, ReadsSound, ShownSound, FlagsSound, handlers, ghosts,
         process
<1> QED
  BY <1>1, <1>2 DEF Typed

LEMMA MissedType ==
    ASSUME Typed
    PROVE  MissedResponses \in Seq(ToSet(executed))
<1>1. executed \in Seq(1..Len(units))
  BY DEF Typed, DagSound
<1>2. MissedResponses \in Seq((1..Len(units)) \cap Uncommitted)
  BY <1>1, FilterSound DEF MissedResponses
<1>3. (1..Len(units)) \cap Uncommitted \subseteq ToSet(executed)
  BY DEF Uncommitted
<1> QED
  BY <1>2, <1>3, SeqWider

LEMMA UpdateTradeStatusesTyped ==
    ASSUME Typed, UpdateTradeStatuses
    PROVE  Typed'
<1>1. ResponsesSound'
  <2>1. responses' = MissedResponses \o responses /\ UNCHANGED <<announced, executed>>
    BY DEF UpdateTradeStatuses, durable
  <2>2. responses' \in Seq(ToSet(executed))
    BY <2>1, MissedType, ConcatProperties DEF Typed, ResponsesSound
  <2> QED
    BY <2>1, <2>2 DEF Typed, ResponsesSound
<1>2. DagSound'
  BY DEF UpdateTradeStatuses, Typed, DagSound, durable
<1>3. UnitsSound' /\ ReadsSound' /\ ShownSound' /\ FlagsSound'
  BY DEF UpdateTradeStatuses, Typed, UnitsSound, ReadsSound, ShownSound, FlagsSound, handlers,
         ghosts, durable
<1> QED
  BY <1>1, <1>2, <1>3 DEF Typed

LEMMA EndTyped ==
    ASSUME Typed,
           Crash \/ Restart \/ \E u \in 1..MaxUnits : CancelValidated(u)
    PROVE  Typed'
<1>1. CASE Crash
  <2>1. crashes' \in 0..MaxCrashes
    BY <1>1, Constants DEF Crash, Typed, FlagsSound
  <2> QED
    BY <1>1, <2>1, StopTyped DEF Crash
<1>2. CASE Restart
  <2>1. DagSound' /\ ResponsesSound'
    BY <1>2 DEF Restart, Typed, DagSound, ResponsesSound, durable
  <2>2. UnitsSound' /\ ReadsSound' /\ ShownSound' /\ FlagsSound'
    BY <1>2 DEF Restart, Typed, UnitsSound, ReadsSound, ShownSound, FlagsSound, handlers,
                ghosts, durable
  <2> QED
    BY <2>1, <2>2 DEF Typed
<1>3. ASSUME NEW u \in 1..MaxUnits, CancelValidated(u)
      PROVE  Typed'
  BY <1>3, StopTyped DEF CancelValidated, Typed, FlagsSound
<1> QED
  BY <1>1, <1>2, <1>3

LEMMA TypedStep ==
    ASSUME Typed, [Next]_vars
    PROVE  Typed'
<1>1. CASE UNCHANGED vars
  <2>1. DagSound' /\ ResponsesSound' /\ UnitsSound' /\ ReadsSound'
    BY <1>1 DEF vars, durable, handlers, ghosts, Typed, DagSound, ResponsesSound, UnitsSound,
                ReadsSound
  <2>2. ShownSound' /\ FlagsSound'
    BY <1>1 DEF vars, ghosts, process, Typed, ShownSound, FlagsSound
  <2> QED
    BY <2>1, <2>2 DEF Typed
<1>2. CASE Next
  <2>1. CASE \E r \in Requests : SavedUnit(r)
    BY <2>1, SavedUnitTyped
  <2>2. CASE \E u \in 1..MaxUnits :
                \/ SymbolFound(u)
                \/ CancelValidated(u)
                \/ \E refused \in BOOLEAN : Execute(u, refused)
                \/ Record(u)
                \/ Commit(u)
                \/ \E address \in Users : RefreshBalances(u, address)
    BY <2>2, SymbolFoundTyped, EndTyped, ExecuteTyped, RecordTyped, CommitTyped,
       RefreshBalancesTyped
  <2>3. CASE \E i \in 1..Len(reads) : ReadVars(i)
    BY <2>3, ReadVarsTyped
  <2>4. CASE \E i \in 1..Len(reads) : Answer(i)
    BY <2>4, AnswerTyped
  <2>5. CASE OnAAResponse
    BY <2>5, OnAAResponseTyped
  <2>6. CASE Crash \/ Restart
    BY <2>6, EndTyped
  <2>7. CASE UpdateTradeStatuses
    BY <2>7, UpdateTradeStatusesTyped
  <2> QED
    BY <1>2, <2>1, <2>2, <2>3, <2>4, <2>5, <2>6, <2>7 DEF Next
<1> QED
  BY <1>1, <1>2

-----------------------------------------------------------------------------
(* Withdrawals in progress *)

ReadUnits == {reads[i].unit : i \in 1..Len(reads)}

\* Units whose withdrawal is pending or about to be
Watched == ToSet(pending) \cup resolving \cup ReadUnits

\* When the agent has responded to one of them, its response is on its way,
\* unless it came before the withdrawal was registered.
Tracked == \A u \in Watched \ outrun : u \in ToSet(executed) => u \in ToSet(responses)

IInv == Typed /\ Tracked

LEMMA ReadUnitsType ==
    ASSUME ReadsSound
    PROVE  reads \in Seq(ReadsOf(ReadUnits \cup {0}))
<1>1. \A i \in 1..Len(reads) : reads[i] \in ReadsOf(ReadUnits \cup {0})
  <2> SUFFICES ASSUME NEW i \in 1..Len(reads)
               PROVE  reads[i] \in ReadsOf(ReadUnits \cup {0})
    OBVIOUS
  <2>1. reads[i] \in ReadsOf(0..Len(units))
    BY ElementOfSeq DEF ReadsSound
  <2>2. reads[i].unit \in ReadUnits
    BY DEF ReadUnits
  <2> QED
    BY <2>1, <2>2 DEF ReadsOf
<1> QED
  BY <1>1, SeqInto DEF ReadsSound

LEMMA UnitsOfReads ==
    ASSUME NEW U, NEW s \in Seq(ReadsOf(U))
    PROVE  {s[i].unit : i \in 1..Len(s)} \subseteq U
<1>1. ASSUME NEW i \in 1..Len(s)
      PROVE  s[i].unit \in U
  <2>1. s[i] \in ReadsOf(U)
    BY ElementOfSeq
  <2> QED
    BY <2>1 DEF ReadsOf
<1> QED
  BY <1>1

LEMMA ReadUnitsNext ==
    ASSUME NEW U, reads' \in Seq(ReadsOf(U))
    PROVE  ReadUnits' \subseteq U
  BY UnitsOfReads DEF ReadUnits

\* What can be watched after a step of the wallet, and what that needs
LEMMA StillTracked ==
    ASSUME IInv, Watched' \subseteq Watched \cup {0}, outrun \subseteq outrun',
           executed' = executed, ToSet(responses) \subseteq ToSet(responses')
    PROVE  Tracked'
<1>1. 0 \notin ToSet(executed)
  BY DagFacts DEF IInv, Typed
<1>2. ASSUME NEW u \in Watched' \ outrun', u \in ToSet(executed')
      PROVE  u \in ToSet(responses')
  <2>1. u \in ToSet(executed) /\ u # 0
    BY <1>1, <1>2
  <2>2. u \in Watched \ outrun
    BY <1>2, <2>1
  <2> QED
    BY <2>1, <2>2 DEF IInv, Tracked
<1> QED
  BY <1>2 DEF Tracked

LEMMA StopTracked ==
    ASSUME Stop
    PROVE  Tracked'
<1>1. pending' = <<>> /\ reads' = <<>> /\ resolving' = {}
  BY DEF Stop
<1>2. ToSet(pending') = {} /\ ReadUnits' = {}
  BY <1>1 DEF ToSet, ReadUnits
<1>3. Watched' = {}
  BY <1>1, <1>2 DEF Watched
<1> QED
  BY <1>3 DEF Tracked

LEMMA SavedUnitTracked ==
    ASSUME IInv, NEW r \in Requests, SavedUnit(r)
    PROVE  Tracked'
<1>1. PICK l \in Nat : l = Len(units)
  BY DagFacts DEF IInv, Typed
<1>2. Len(units') = l + 1
  BY <1>1, AppendSet DEF SavedUnit, IInv, Typed, DagSound
<1>3. 0 \notin ToSet(executed) /\ l + 1 \notin ToSet(executed)
  BY <1>1, DagFacts DEF IInv, Typed
<1>4. ReadUnits' \subseteq ReadUnits \cup {0}
  <2>1. reads \in Seq(ReadsOf(ReadUnits \cup {0}))
    BY ReadUnitsType DEF IInv, Typed
  <2>2. Update(r.to) \in ReadsOf(ReadUnits \cup {0})
    BY RequestFields, UpdateType
  <2>3. reads' = Append(reads, Update(r.to)) \/ reads' = reads
    BY <2>1, <2>2, CallReads DEF SavedUnit
  <2>4. reads' \in Seq(ReadsOf(ReadUnits \cup {0}))
    BY <2>1, <2>2, <2>3, AppendProperties
  <2> QED
    BY <2>4, ReadUnitsNext
<1>5. Watched' \subseteq Watched \cup {0, l + 1}
  <2>1. resolving' \subseteq resolving \cup {l + 1} /\ pending' = pending
    BY <1>2 DEF SavedUnit
  <2> QED
    BY <1>4, <2>1 DEF Watched
<1>6. UNCHANGED <<executed, responses, outrun>>
  BY DEF SavedUnit
<1> QED
  BY <1>3, <1>5, <1>6 DEF IInv, Tracked

LEMMA SymbolFoundTracked ==
    ASSUME IInv, NEW u, SymbolFound(u)
    PROVE  Tracked'
<1> DEFINE U == ReadUnits \cup {0, u}
<1>1. u \in resolving /\ u \in 1..Len(units) /\ units[u].from \in Users
  <2>1. u \in resolving /\ u \in 1..Len(units)
    BY DEF SymbolFound, IInv, Typed, UnitsSound
  <2>2. units[u] \in Requests
    BY <2>1, DagFacts DEF IInv, Typed
  <2> QED
    BY <2>1, <2>2, RequestFields
<1>2. reads \in Seq(ReadsOf(U))
  <2>1. reads \in Seq(ReadsOf(ReadUnits \cup {0}))
    BY ReadUnitsType DEF IInv, Typed
  <2>2. ReadsOf(ReadUnits \cup {0}) \subseteq ReadsOf(U)
    BY DEF ReadsOf
  <2> QED
    BY <2>1, <2>2, SeqWider
<1>3. Registration(u) \in ReadsOf(U)
  <2>1. Update(units[u].from) \in ReadsOf(U)
    BY <1>1, UpdateType
  <2> QED
    BY <2>1 DEF Registration, ReadsOf
<1>4. ReadUnits' \subseteq U
  <2>1. reads' = Append(reads, Registration(u))
    BY DEF SymbolFound
  <2>2. reads' \in Seq(ReadsOf(U))
    BY <1>2, <1>3, <2>1, AppendProperties
  <2> HIDE DEF U
  <2> QED
    BY <2>2, ReadUnitsNext
<1>5. Watched' \subseteq Watched \cup {0}
  BY <1>1, <1>4 DEF SymbolFound, Watched
<1>6. UNCHANGED <<executed, responses, outrun>>
  BY DEF SymbolFound, durable, ghosts
<1> QED
  BY <1>5, <1>6, StillTracked

LEMMA ReadVarsTracked ==
    ASSUME IInv, NEW i, ReadVars(i)
    PROVE  Tracked'
<1>1. ReadUnits' \subseteq ReadUnits \cup {0}
  <2>1. reads \in Seq(ReadsOf(ReadUnits \cup {0}))
    BY ReadUnitsType DEF IInv, Typed
  <2>2. balance \in [Users -> Nat \cup {Absent}] /\ i \in 1..Len(reads)
    BY DEF IInv, Typed, DagSound, ReadVars
  <2>3. reads' \in Seq(ReadsOf(ReadUnits \cup {0}))
    BY <2>1, <2>2, ReadVarsReads
  <2> QED
    BY <2>3, ReadUnitsNext
<1>2. Watched' \subseteq Watched \cup {0}
  BY <1>1 DEF ReadVars, Watched
<1>3. UNCHANGED <<executed, responses, outrun>>
  BY DEF ReadVars, durable, ghosts
<1> QED
  BY <1>2, <1>3, StillTracked

\* What the callback registers was being read.
LEMMA AnswerTracked ==
    ASSUME IInv, NEW i, Answer(i)
    PROVE  Tracked'
<1>1. i \in 1..Len(reads)
  BY DEF Answer
<1>2. ReadUnits' \subseteq ReadUnits \cup {0}
  <2>1. reads \in Seq(ReadsOf(ReadUnits \cup {0}))
    BY ReadUnitsType DEF IInv, Typed
  <2>2. reads' \in Seq(ReadsOf(ReadUnits \cup {0}))
    BY <1>1, <2>1, AnswerReads
  <2> QED
    BY <2>2, ReadUnitsNext
<1>3. ToSet(pending') \subseteq ToSet(pending) \cup ReadUnits
  <2>1. pending' = pending \/ (reads[i].unit # 0 /\ pending' = Append(pending, reads[i].unit))
    BY DEF Answer, Register
  <2>2. reads[i].unit \in ReadUnits
    BY <1>1 DEF ReadUnits
  <2>3. CASE reads[i].unit # 0 /\ pending' = Append(pending, reads[i].unit)
    <3>1. reads[i] \in ReadsOf(0..Len(units))
      BY <1>1, ElementOfSeq DEF IInv, Typed, ReadsSound
    <3>2. reads[i].unit \in 1..Len(units)
      BY <2>3, <3>1 DEF ReadsOf
    <3> QED
      BY <2>2, <2>3, <3>2, AppendSet DEF IInv, Typed, UnitsSound
  <2> QED
    BY <2>1, <2>3
<1>4. Watched' \subseteq Watched \cup {0}
  BY <1>2, <1>3 DEF Answer, Watched
<1>5. UNCHANGED <<executed, responses, outrun>>
  BY DEF Answer, durable
<1> QED
  BY <1>4, <1>5, StillTracked

LEMMA RefreshBalancesTracked ==
    ASSUME IInv, NEW u, NEW address \in Users, RefreshBalances(u, address)
    PROVE  Tracked'
<1>1. ReadUnits' \subseteq ReadUnits \cup {0}
  <2>1. reads \in Seq(ReadsOf(ReadUnits \cup {0}))
    BY ReadUnitsType DEF IInv, Typed
  <2>2. Update(address) \in ReadsOf(ReadUnits \cup {0})
    BY UpdateType
  <2>3. reads' = Append(reads, Update(address))
    BY <2>1, <2>2, CallReads DEF RefreshBalances
  <2>4. reads' \in Seq(ReadsOf(ReadUnits \cup {0}))
    BY <2>1, <2>2, <2>3, AppendProperties
  <2> QED
    BY <2>4, ReadUnitsNext
<1>2. Watched' \subseteq Watched \cup {0}
  BY <1>1 DEF RefreshBalances, Watched
<1>3. UNCHANGED <<executed, responses, outrun>>
  BY DEF RefreshBalances, durable
<1> QED
  BY <1>2, <1>3, StillTracked

\* A unit is executed together with its response.
LEMMA ExecuteTracked ==
    ASSUME IInv, NEW u, NEW refused, Execute(u, refused)
    PROVE  Tracked'
<1>1. u \in 1..Len(units)
  BY DEF Execute, Known
<1>2. ToSet(executed') = ToSet(executed) \cup {u}
  <2>1. executed \in Seq(1..Len(units)) /\ executed' = Append(executed, u)
    BY DEF IInv, Typed, DagSound, Execute
  <2> QED
    BY <1>1, <2>1, AppendSet
<1>3. ToSet(responses') = ToSet(responses) \cup {u}
  <2>1. responses \in Seq(ToSet(executed)) /\ responses' = Append(responses, u)
    BY DEF IInv, Typed, ResponsesSound, Execute
  <2>2. responses \in Seq(ToSet(executed) \cup {u})
    BY <2>1, SeqWider
  <2>3. u \in ToSet(executed) \cup {u}
    OBVIOUS
  <2> QED
    BY <2>1, <2>2, <2>3, AppendSet
<1>4. UNCHANGED <<pending, resolving, reads, outrun>>
  BY DEF Execute, handlers
<1>5. Watched' = Watched /\ outrun' = outrun
  BY <1>4 DEF Watched, ReadUnits
<1> QED
  BY <1>2, <1>3, <1>5 DEF IInv, Tracked

\* The response to u is handled: u is pending no longer, and if it is still
\* to be registered, it is outrun.
LEMMA OnAAResponseTracked ==
    ASSUME IInv, OnAAResponse
    PROVE  Tracked'
<1> DEFINE u == Head(responses)
<1>1. responses # <<>> /\ UNCHANGED durable
  BY DEF OnAAResponse
<1>2. executed' = executed
  BY <1>1 DEF durable
<1>3. u \in 1..Len(units)
  BY <1>1, NextResponse DEF IInv
<1>4. \/ Stop
      \/ /\ Handle(u)
         /\ responses' = Tail(responses)
         /\ UNCHANGED <<process, resolving, validating, shown, overtaken>>
  BY DEF OnAAResponse
<1>5. ToSet(responses) \subseteq ToSet(Tail(responses)) \cup {u}
  BY <1>1, HeadTailSet DEF IInv, Typed, ResponsesSound
<1> HIDE DEF u
<1>6. CASE Stop
  BY <1>6, StopTracked
<1>7. CASE Handle(u) /\ responses' = Tail(responses) /\ UNCHANGED resolving
  <2>1. ToSet(pending') \subseteq ToSet(pending) \ {u}
    BY <1>7, ForgetType DEF Handle, IInv, Typed, UnitsSound
  <2>2. ReadUnits' \subseteq ReadUnits \cup {0}
    <3>1. reads \in Seq(ReadsOf(ReadUnits \cup {0})) /\ units \in Seq(Requests)
      BY ReadUnitsType DEF IInv, Typed, DagSound
    <3>2. reads' \in Seq(ReadsOf(ReadUnits \cup {0}))
      BY <1>3, <1>7, <3>1, HandleReads
    <3> QED
      BY <3>2, ReadUnitsNext
  <2>3. outrun \subseteq outrun' /\ (u \in resolving \cup ReadUnits => u \in outrun')
    BY <1>7 DEF Handle, Registering, ReadUnits
  <2>4. 0 \notin ToSet(executed)
    BY DagFacts DEF IInv, Typed
  <2>5. ASSUME NEW v \in Watched' \ outrun', v \in ToSet(executed')
        PROVE  v \in ToSet(responses')
    <3>1. v \in ToSet(executed) /\ v # 0
      BY <1>2, <2>4, <2>5
    <3>2. v \in Watched \ outrun
      BY <1>7, <2>1, <2>2, <2>3, <2>5, <3>1 DEF Watched
    <3>3. v # u
      BY <1>7, <2>1, <2>2, <2>3, <2>5, <3>1 DEF Watched
    <3>4. v \in ToSet(responses)
      BY <3>1, <3>2 DEF IInv, Tracked
    <3> QED
      BY <1>5, <1>7, <3>3, <3>4
  <2> QED
    BY <2>5 DEF Tracked
<1> QED
  BY <1>4, <1>6, <1>7

LEMMA UpdateTradeStatusesTracked ==
    ASSUME IInv, UpdateTradeStatuses
    PROVE  Tracked'
<1>1. responses' = MissedResponses \o responses
  BY DEF UpdateTradeStatuses
<1>2. ToSet(responses) \subseteq ToSet(responses')
  <2>1. MissedResponses \in Seq(ToSet(executed)) /\ responses \in Seq(ToSet(executed))
    BY MissedType DEF IInv, Typed, ResponsesSound
  <2> QED
    BY <1>1, <2>1, ConcatSet
<1>3. UNCHANGED <<executed, pending, resolving, reads, outrun>>
  BY DEF UpdateTradeStatuses, durable, handlers, ghosts
<1>4. Watched' = Watched
  BY <1>3 DEF Watched, ReadUnits
<1> QED
  BY <1>2, <1>3, <1>4, StillTracked

LEMMA TrackedStep ==
    ASSUME IInv, [Next]_vars
    PROVE  Tracked'
<1>1. ASSUME UNCHANGED <<executed, responses, pending, resolving, reads, outrun>>
      PROVE  Tracked'
  <2>1. Watched' = Watched
    BY <1>1 DEF Watched, ReadUnits
  <2> QED
    BY <1>1, <2>1, StillTracked
<1>2. CASE UNCHANGED vars
  BY <1>1, <1>2 DEF vars, durable, handlers, ghosts
<1>3. CASE Next
  <2>1. CASE \E r \in Requests : SavedUnit(r)
    BY <2>1, SavedUnitTracked
  <2>2. ASSUME NEW u \in 1..MaxUnits,
               \/ SymbolFound(u)
               \/ CancelValidated(u)
               \/ \E refused \in BOOLEAN : Execute(u, refused)
               \/ \E address \in Users : RefreshBalances(u, address)
        PROVE  Tracked'
    BY <2>2, SymbolFoundTracked, StopTracked, ExecuteTracked, RefreshBalancesTracked
       DEF CancelValidated
  <2>3. ASSUME NEW u \in 1..MaxUnits, Commit(u) \/ Record(u)
        PROVE  Tracked'
    BY <1>1, <2>3 DEF Commit, Record, handlers, ghosts
  <2>4. CASE \E i \in 1..Len(reads) : ReadVars(i)
    BY <2>4, ReadVarsTracked
  <2>5. CASE \E i \in 1..Len(reads) : Answer(i)
    BY <2>5, AnswerTracked
  <2>6. CASE OnAAResponse
    BY <2>6, OnAAResponseTracked
  <2>7. CASE Crash
    BY <2>7, StopTracked DEF Crash
  <2>8. CASE Restart
    BY <1>1, <2>8 DEF Restart, durable, handlers, ghosts
  <2>9. CASE UpdateTradeStatuses
    BY <2>9, UpdateTradeStatusesTracked
  <2> QED
    BY <1>3, <2>1, <2>2, <2>3, <2>4, <2>5, <2>6, <2>7, <2>8, <2>9 DEF Next
<1> QED
  BY <1>2, <1>3

LEMMA IInvInit ==
    ASSUME Init
    PROVE  IInv
<1>1. pending = <<>> /\ reads = <<>> /\ resolving = {}
  BY DEF Init
<1>2. Watched = {}
  BY <1>1 DEF Watched, ToSet, ReadUnits
<1> QED
  BY <1>2, TypedInit DEF IInv, Tracked

LEMMA Inductive == Spec => []IInv
<1>1. Init => IInv
  BY IInvInit
<1>2. IInv /\ [Next]_vars => IInv'
  BY TypedStep, TrackedStep DEF IInv
<1> QED
  BY <1>1, <1>2, PTL DEF Spec

-----------------------------------------------------------------------------
(* What is shown is current, or about to be *)

\* The users whom responses are reported for
Customers == Users \ {Operator}

Withdrawing(u) == units[u].kind = "withdrawal" /\ units[u].to = NoAddress

\* Whatever is pending, or may become so, is a withdrawal from its sender, and
\* the balances read for it are the sender's.
OnlyWithdrawals ==
    /\ \A u \in ToSet(pending) \cup resolving : Withdrawing(u)
    /\ \A i \in 1..Len(reads), u \in 1..Len(units) :
          reads[i].unit = u => Withdrawing(u) /\ reads[i].address = units[u].from

\* The response to u makes the wallet send an update to a.
Reports(u, a) == u \notin bounced /\ a \in Affected(units[u])

\* One of the responses that are on their way behind the p-th does.
Promised(p, a) == \E q \in 1..Len(responses) : q > p /\ Reports(responses[q], a)

\* Or a has bytes of a cancel, of which nobody was told.
Owed(p, a) == a \in uninformed \/ Promised(p, a)

\* An update for a was asked for after the i-th read.
Newer(i, a) ==
    \E k \in 1..Len(reads) : k > i /\ reads[k].unit = 0 /\ reads[k].address = a

\* A value read that is not the balance any more is followed by an update,
\* unless the update has overtaken it.
ReadsCurrent ==
    \A i \in 1..Len(reads), a \in Customers :
        reads[i].address = a /\ reads[i].read /\ ~reads[i].late =>
            reads[i].value = balance[a] \/ Newer(i, a) \/ Owed(0, a)

Short(u) == units[u].amount \in Nat /\ units[u].amount > Amount(units[u].from)

\* A withdrawal that has bounced, of which the wallet is still to learn, asks
\* for more than there is, or an update follows its response.
BouncedShort ==
    \A p \in 1..Len(responses), u \in bounced, a \in Customers :
        responses[p] = u /\ Withdrawing(u) /\ units[u].from = a => Short(u) \/ Owed(p, a)

\* The balance in the agent less what is pending
Available(a) == Left(units, pending, a, balance[a])

ShownCurrent ==
    \A a \in Customers \ overtaken :
        shown[a] \in {NotShown, Available(a)} \/ Newer(0, a) \/ Owed(0, a)

Current == OnlyWithdrawals /\ ReadsCurrent /\ BouncedShort /\ ShownCurrent

LEMMA WithdrawingFacts ==
    ASSUME DagSound, NEW u \in 1..Len(units), Withdrawing(u)
    PROVE  units[u].owner = units[u].from /\ units[u].kind = "withdrawal"
<1>1. units[u] \in Requests
  BY DagFacts
<1>2. units[u].owner \in {units[u].from, units[u].to} /\ units[u].owner \in Users
  BY <1>1, RequestFields, DagStateAssumption DEF Withdrawing
<1> QED
  BY <1>2, DagStateAssumption DEF Withdrawing

-----------------------------------------------------------------------------
(* Steps in which the reads go on, with others behind them *)

ReadsKept ==
    /\ Len(reads) \in Nat /\ Len(reads') \in Nat /\ Len(reads) <= Len(reads')
    /\ \A i \in 1..Len(reads) : reads'[i] = reads[i]
    /\ \A i \in 1..Len(reads') : i > Len(reads) => ~reads'[i].read

\* The step asks for an update of a.
Asked(a) ==
    \E k \in 1..Len(reads') : k > Len(reads) /\ reads'[k].unit = 0 /\ reads'[k].address = a

OwedKept == \A a \in Customers : Owed(0, a) => Owed(0, a)' \/ Asked(a)

\* Whom the step informs, it asks an update for; and it informs nobody whose
\* bounced request is still to be handled.
InformedAsked ==
    /\ \A a \in uninformed : a \in uninformed' \/ Asked(a)
    /\ uninformed \cap Refused \subseteq uninformed'

LEMMA NewerKept ==
    ASSUME ReadsKept, NEW i \in Nat, NEW a, Newer(i, a)
    PROVE  Newer(i, a)'
<1>1. PICK k \in 1..Len(reads) : k > i /\ reads[k].unit = 0 /\ reads[k].address = a
  BY DEF Newer
<1>2. k \in 1..Len(reads') /\ reads'[k] = reads[k]
  BY <1>1 DEF ReadsKept
<1> QED
  BY <1>1, <1>2 DEF Newer

LEMMA AskedIsNewer ==
    ASSUME ReadsKept, NEW i \in 0..Len(reads), NEW a, Asked(a)
    PROVE  Newer(i, a)'
<1>1. PICK k \in 1..Len(reads') :
          k > Len(reads) /\ reads'[k].unit = 0 /\ reads'[k].address = a
  BY DEF Asked
<1>2. k > i
  BY <1>1 DEF ReadsKept
<1> QED
  BY <1>1, <1>2 DEF Newer

LEMMA ReadsCurrentKept ==
    ASSUME ReadsCurrent, ReadsKept, OwedKept,
           \A a \in Customers : balance'[a] = balance[a] \/ Owed(0, a)'
    PROVE  ReadsCurrent'
<1> SUFFICES ASSUME NEW i \in 1..Len(reads'), NEW a \in Customers,
                    reads'[i].address = a, reads'[i].read, ~reads'[i].late
             PROVE  reads'[i].value = balance'[a] \/ Newer(i, a)' \/ Owed(0, a)'
  BY DEF ReadsCurrent, Customers
<1>1. i \in 1..Len(reads) /\ reads'[i] = reads[i] /\ i \in Nat /\ i \in 0..Len(reads)
  BY DEF ReadsKept
<1>2. reads'[i].value = reads[i].value
  BY <1>1
<1>3. reads[i].value = balance[a] \/ Newer(i, a) \/ Owed(0, a)
  BY <1>1 DEF ReadsCurrent
<1>4. Asked(a) => Newer(i, a)'
  BY <1>1, AskedIsNewer
<1>5. CASE reads[i].value = balance[a]
  BY <1>2, <1>5
<1>6. CASE Newer(i, a)
  BY <1>1, <1>6, NewerKept
<1>7. CASE Owed(0, a)
  BY <1>4, <1>7 DEF OwedKept
<1> QED
  BY <1>3, <1>5, <1>6, <1>7

LEMMA ShownCurrentKept ==
    ASSUME ShownCurrent, ReadsKept, OwedKept, shown' = shown, overtaken' = overtaken,
           \A a \in Customers : Available(a)' = Available(a) \/ Owed(0, a)' \/ Asked(a)
    PROVE  ShownCurrent'
<1> SUFFICES ASSUME NEW a \in Customers, a \notin overtaken
             PROVE  \/ shown'[a] \in {NotShown, Available(a)'}
                    \/ Newer(0, a)' \/ Owed(0, a)'
  BY DEF ShownCurrent, Customers
<1>1. shown[a] \in {NotShown, Available(a)} \/ Newer(0, a) \/ Owed(0, a)
  BY DEF ShownCurrent
<1>2. 0 \in Nat /\ 0 \in 0..Len(reads)
  BY DEF ReadsKept
<1>3. Asked(a) => Newer(0, a)'
  BY <1>2, AskedIsNewer
<1>4. CASE shown[a] \in {NotShown, Available(a)}
  BY <1>3, <1>4
<1>5. CASE Newer(0, a)
  BY <1>2, <1>5, NewerKept
<1>6. CASE Owed(0, a)
  BY <1>3, <1>6 DEF OwedKept
<1> QED
  BY <1>1, <1>4, <1>5, <1>6

LEMMA UnchangedKept ==
    ASSUME NEW S, reads \in Seq(S), reads' = reads
    PROVE  ReadsKept
  BY LenProperties DEF ReadsKept

LEMMA AppendKept ==
    ASSUME NEW S, reads \in Seq(S), NEW e \in S, ~e.read, reads' = Append(reads, e)
    PROVE  /\ ReadsKept
           /\ e.unit = 0 => Asked(e.address)
           /\ \A i \in 1..Len(reads') : i > Len(reads) => reads'[i] = e
<1>1. PICK n \in Nat : n = Len(reads)
  BY LenProperties
<1>2. /\ Len(reads') = n + 1
      /\ \A i \in 1..n : reads'[i] = reads[i]
      /\ reads'[n + 1] = e
  BY <1>1, AppendSet
<1>3. \A i \in 1..(n + 1) : i > n => i = n + 1
  OBVIOUS
<1>4. \A i \in 1..Len(reads') : i > Len(reads) => reads'[i] = e
  BY <1>1, <1>2, <1>3
<1>5. ReadsKept
  BY <1>1, <1>2, <1>4 DEF ReadsKept
<1>6. n + 1 \in 1..Len(reads') /\ n + 1 > Len(reads)
  BY <1>1, <1>2
<1>7. e.unit = 0 => Asked(e.address)
  BY <1>2, <1>6 DEF Asked
<1> QED
  BY <1>4, <1>5, <1>7

LEMMA ConcatKept ==
    ASSUME NEW S, reads \in Seq(S), NEW more \in Seq(S), reads' = reads \o more,
           \A k \in 1..Len(more) : ~more[k].read /\ more[k].unit = 0
    PROVE  /\ ReadsKept
           /\ \A k \in 1..Len(more) : Asked(more[k].address)
           /\ \A i \in 1..Len(reads') : i > Len(reads) => reads'[i].unit = 0
<1>1. PICK m \in Nat, n \in Nat : m = Len(reads) /\ n = Len(more)
  BY LenProperties
<1>2. /\ Len(reads') = m + n
      /\ \A i \in 1..(m + n) : reads'[i] = IF i <= m THEN reads[i] ELSE more[i - m]
  BY <1>1, ConcatProperties
<1>3. ASSUME NEW i \in 1..(m + n), i > m
      PROVE  reads'[i].unit = 0 /\ ~reads'[i].read
  <2>1. i - m \in 1..n /\ ~(i <= m)
    BY <1>3
  <2> QED
    BY <1>1, <1>2, <2>1
<1>4. \A i \in 1..m : i \in 1..(m + n) /\ i <= m
  OBVIOUS
<1>5. ReadsKept
  BY <1>1, <1>2, <1>3, <1>4 DEF ReadsKept
<1>6. ASSUME NEW k \in 1..n
      PROVE  Asked(more[k].address)
  <2>1. k + m \in 1..(m + n) /\ k + m > m /\ ~(k + m <= m) /\ (k + m) - m = k
    OBVIOUS
  <2>2. reads'[k + m] = more[k]
    BY <1>2, <2>1
  <2>3. more[k].unit = 0
    BY <1>1
  <2> QED
    BY <1>1, <1>2, <2>1, <2>2, <2>3 DEF Asked
<1> QED
  BY <1>1, <1>2, <1>3, <1>5, <1>6

LEMMA CallKept ==
    ASSUME NEW S, reads \in Seq(S), NEW e \in S, Call(<<e>>), ~e.read, e.unit = 0
    PROVE  /\ ReadsKept
           /\ Asked(e.address)
           /\ \A i \in 1..Len(reads') : i > Len(reads) => reads'[i].unit = 0
           /\ InformedAsked
<1>1. /\ reads' = Append(reads, e)
      /\ uninformed' = uninformed \ ({e.address} \ Refused)
  BY CallReads
<1>2. /\ ReadsKept
      /\ Asked(e.address)
      /\ \A i \in 1..Len(reads') : i > Len(reads) => reads'[i] = e
  BY <1>1, AppendKept
<1> QED
  BY <1>1, <1>2 DEF InformedAsked

-----------------------------------------------------------------------------
(* What each step keeps of it *)

SameUnits == \A u \in 1..Len(units) : units'[u] = units[u]

LEMMA ResponseUnits ==
    ASSUME Typed
    PROVE  /\ Len(responses) \in Nat
           /\ \A q \in 1..Len(responses) :
                 /\ responses[q] \in ToSet(executed)
                 /\ responses[q] \in 1..Len(units)
<1>1. responses \in Seq(ToSet(executed)) /\ ToSet(executed) \subseteq 1..Len(units)
  BY DagFacts DEF Typed, ResponsesSound
<1>2. \A q \in 1..Len(responses) : responses[q] \in ToSet(executed)
  BY <1>1, ElementOfSeq
<1> QED
  BY <1>1, <1>2, LenProperties

LEMMA SamePromised ==
    ASSUME Typed, UNCHANGED <<responses, bounced>>, SameUnits, NEW p, NEW a
    PROVE  Promised(p, a) => Promised(p, a)'
<1>1. \A q \in 1..Len(responses) : units'[responses[q]] = units[responses[q]]
  BY ResponseUnits DEF SameUnits
<1> QED
  BY <1>1 DEF Promised, Reports

LEMMA SameOwed ==
    ASSUME Typed, UNCHANGED <<responses, bounced, uninformed>>, SameUnits, NEW p, NEW a
    PROVE  Owed(p, a) => Owed(p, a)'
  BY SamePromised DEF Owed

LEMMA CallOwed ==
    ASSUME Typed, UNCHANGED <<responses, bounced>>, SameUnits, InformedAsked
    PROVE  OwedKept
  BY SamePromised DEF Owed, OwedKept, InformedAsked

LEMMA SameInformed ==
    ASSUME UNCHANGED uninformed
    PROVE  InformedAsked
  BY DEF InformedAsked

LEMMA SameBounced ==
    ASSUME Typed, BouncedShort, UNCHANGED <<responses, bounced, balance>>, SameUnits,
           InformedAsked
    PROVE  BouncedShort'
<1> SUFFICES ASSUME NEW p \in 1..Len(responses), NEW u \in bounced, NEW a \in Customers,
                    responses[p] = u, Withdrawing(u)', units'[u].from = a
             PROVE  Short(u)' \/ Owed(p, a)'
  BY DEF BouncedShort, Customers
<1>1. units'[u] = units[u]
  BY ResponseUnits DEF SameUnits
<1>2. Withdrawing(u) /\ units[u].from = a
  BY <1>1 DEF Withdrawing
<1>3. Short(u) \/ Owed(p, a)
  BY <1>2 DEF BouncedShort
<1>4. Short(u) => Short(u)'
  BY <1>1 DEF Short, Amount
<1>5. a \in Refused
  <2>1. u \in ToSet(responses)
    BY SeqSet DEF Typed, ResponsesSound
  <2> QED
    BY <1>2, <2>1 DEF Refused
<1>6. Owed(p, a) => Owed(p, a)'
  BY <1>5, SamePromised DEF Owed, InformedAsked
<1> QED
  BY <1>3, <1>4, <1>6

LEMMA StopCurrent ==
    ASSUME Stop
    PROVE  Current'
<1>1. /\ reads' = <<>> /\ responses' = <<>> /\ pending' = <<>> /\ resolving' = {}
      /\ shown' = [a \in Users |-> NotShown]
  BY DEF Stop
<1>2. ToSet(pending') = {} /\ 1..Len(reads') = {} /\ 1..Len(responses') = {}
  BY <1>1 DEF ToSet
<1>3. OnlyWithdrawals' /\ ReadsCurrent' /\ BouncedShort'
  BY <1>1, <1>2 DEF OnlyWithdrawals, ReadsCurrent, BouncedShort
<1>4. ShownCurrent'
  BY <1>1 DEF ShownCurrent, Customers
<1> QED
  BY <1>3, <1>4 DEF Current

LEMMA SameCurrent ==
    ASSUME Typed, Current,
           UNCHANGED <<units, balance, bounced, responses, pending, resolving, reads, shown,
                       overtaken, uninformed>>
    PROVE  Current'
<1>1. SameUnits
  BY DEF SameUnits
<1>2. ReadsKept
  BY UnchangedKept DEF Typed, ReadsSound
<1>3. OwedKept
  BY <1>1, SameOwed DEF OwedKept
<1>4. OnlyWithdrawals'
  BY DEF Current, OnlyWithdrawals, Withdrawing
<1>5. ReadsCurrent'
  BY <1>2, <1>3, ReadsCurrentKept DEF Current
<1>6. BouncedShort'
  BY <1>1, SameInformed, SameBounced DEF Current
<1>7. ShownCurrent'
  <2>1. \A a \in Customers : Available(a)' = Available(a)
    BY DEF Available
  <2> QED
    BY <1>2, <1>3, <2>1, ShownCurrentKept DEF Current
<1> QED
  BY <1>4, <1>5, <1>6, <1>7 DEF Current

LEMMA SavedUnitCurrent ==
    ASSUME Typed, Current, NEW r \in Requests, SavedUnit(r)
    PROVE  Current'
<1>1. PICK l \in Nat : l = Len(units)
  BY DagFacts DEF Typed
<1>2. /\ Len(units') = l + 1
      /\ units' = Append(units, r)
      /\ \A u \in 1..l : units'[u] = units[u]
      /\ units'[l + 1] = r
  BY <1>1, AppendSet DEF SavedUnit, Typed, DagSound
<1>3. SameUnits
  BY <1>1, <1>2 DEF SameUnits
<1>4. UNCHANGED <<balance, bounced, responses, pending, shown, overtaken>>
  BY DEF SavedUnit
<1>5. /\ ReadsKept
      /\ \A i \in 1..Len(reads') : i > Len(reads) => reads'[i].unit = 0
      /\ InformedAsked
  <2>1. reads \in Seq(ReadsOf(0..l)) /\ 0 \in 0..l
    BY <1>1 DEF Typed, ReadsSound
  <2>2. CASE Call(<<>>)
    <3>1. reads' = reads /\ uninformed' = uninformed
      BY <2>1, <2>2, CallReads
    <3> QED
      BY <2>1, <3>1, UnchangedKept, SameInformed DEF ReadsKept
  <2>3. CASE Call(<<Update(r.to)>>)
    <3>1. Update(r.to) \in ReadsOf(0..l)
      BY <2>1, RequestFields, UpdateType
    <3> QED
      BY <2>1, <2>3, <3>1, CallKept DEF Update
  <2> QED
    BY <2>2, <2>3 DEF SavedUnit
<1>6. OwedKept
  BY <1>3, <1>4, <1>5, CallOwed
<1>7. OnlyWithdrawals'
  <2>1. ASSUME NEW u \in 1..l, Withdrawing(u)
        PROVE  Withdrawing(u)' /\ units'[u].from = units[u].from
    BY <1>2, <2>1 DEF Withdrawing
  <2>2. ASSUME NEW u \in ToSet(pending') \cup resolving'
        PROVE  Withdrawing(u)'
    <3>1. ToSet(pending) \cup resolving \subseteq 1..l
      BY <1>1, SeqSet DEF Typed, UnitsSound
    <3>2. CASE u \in ToSet(pending) \cup resolving
      BY <2>1, <3>1, <3>2 DEF Current, OnlyWithdrawals
    <3>3. CASE u \notin ToSet(pending) \cup resolving
      <4>1. u = l + 1 /\ r.kind = "withdrawal" /\ ~TakenForDeposit(r)
        BY <1>2, <1>4, <2>2, <3>3 DEF SavedUnit
      <4>2. r.to = NoAddress
        BY <4>1 DEF TakenForDeposit
      <4> QED
        BY <1>2, <4>1, <4>2 DEF Withdrawing
    <3> QED
      BY <3>2, <3>3
  <2>3. ASSUME NEW i \in 1..Len(reads'), NEW u \in 1..Len(units'), reads'[i].unit = u
        PROVE  Withdrawing(u)' /\ reads'[i].address = units'[u].from
    <3>1. u \in Nat /\ u # 0
      BY <1>2
    <3>2. i \in 1..Len(reads) /\ reads'[i] = reads[i]
      BY <1>5, <2>3, <3>1 DEF ReadsKept
    <3>3. u \in 1..l
      <4>1. reads[i] \in ReadsOf(0..l)
        BY <1>1, <3>2, ElementOfSeq DEF Typed, ReadsSound
      <4>2. u \in 0..l
        BY <2>3, <3>2, <4>1 DEF ReadsOf
      <4> QED
        BY <3>1, <4>2
    <3>4. Withdrawing(u) /\ reads[i].address = units[u].from
      BY <1>1, <2>3, <3>2, <3>3 DEF Current, OnlyWithdrawals
    <3> QED
      BY <2>1, <3>2, <3>3, <3>4
  <2> QED
    BY <2>2, <2>3 DEF OnlyWithdrawals
<1>8. ReadsCurrent'
  BY <1>4, <1>5, <1>6, ReadsCurrentKept DEF Current
<1>9. BouncedShort'
  BY <1>3, <1>4, <1>5, SameBounced DEF Current
<1>10. ShownCurrent'
  <2>1. ASSUME NEW a \in Customers
        PROVE  Available(a)' = Available(a)
    <3>1. /\ units \in Seq(Requests) /\ pending \in Seq(1..Len(units))
          /\ balance[a] \in Nat \cup {Absent}
      BY DEF Typed, DagSound, UnitsSound, Customers
    <3>2. Left(Append(units, r), pending, a, balance[a]) = Left(units, pending, a, balance[a])
      BY <3>1, LeftOfMoreUnits
    <3> QED
      BY <1>2, <1>4, <3>2 DEF Available
  <2> QED
    BY <1>4, <1>5, <1>6, <2>1, ShownCurrentKept DEF Current
<1> QED
  BY <1>7, <1>8, <1>9, <1>10 DEF Current

LEMMA SymbolFoundCurrent ==
    ASSUME Typed, Current, NEW u, SymbolFound(u)
    PROVE  Current'
<1>1. /\ UNCHANGED <<units, balance, bounced, responses, pending, shown, overtaken,
                      uninformed>>
      /\ u \in resolving /\ resolving' = resolving \ {u}
      /\ reads' = Append(reads, Registration(u))
  BY DEF SymbolFound, durable, ghosts
<1>2. u \in 1..Len(units) /\ Len(units) \in Nat /\ units[u].from \in Users /\ Withdrawing(u)
  <2>1. u \in 1..Len(units) /\ Len(units) \in Nat
    BY <1>1, DagFacts DEF Typed, UnitsSound
  <2>2. units[u] \in Requests
    BY <2>1, DagFacts DEF Typed
  <2> QED
    BY <1>1, <2>1, <2>2, RequestFields DEF Current, OnlyWithdrawals
<1>3. /\ Registration(u) \in ReadsOf(0..Len(units))
      /\ Registration(u).unit = u /\ ~Registration(u).read
      /\ Registration(u).address = units[u].from
  <2>1. Update(units[u].from) \in ReadsOf(0..Len(units))
    <3>1. 0 \in 0..Len(units)
      BY <1>2
    <3> QED
      BY <1>2, <3>1, UpdateType
  <2>2. u \in 0..Len(units)
    BY <1>2
  <2>3. Registration(u) \in ReadsOf(0..Len(units))
    BY <2>1, <2>2 DEF Registration, ReadsOf
  <2> QED
    BY <2>3 DEF Registration, Update
<1>4. ReadsKept /\ \A i \in 1..Len(reads') : i > Len(reads) => reads'[i] = Registration(u)
  BY <1>1, <1>3, AppendKept DEF Typed, ReadsSound
<1>5. SameUnits /\ OwedKept
  BY <1>1, SameOwed DEF SameUnits, OwedKept
<1>6. OnlyWithdrawals'
  <2>1. ASSUME NEW i \in 1..Len(reads'), NEW v \in 1..Len(units), reads'[i].unit = v
        PROVE  Withdrawing(v) /\ reads'[i].address = units[v].from
    <3>1. CASE i > Len(reads)
      BY <1>2, <1>3, <1>4, <2>1, <3>1
    <3>2. CASE ~(i > Len(reads))
      <4>1. i \in 1..Len(reads) /\ reads'[i] = reads[i]
        BY <1>4, <3>2 DEF ReadsKept
      <4> QED
        BY <2>1, <4>1 DEF Current, OnlyWithdrawals
    <3> QED
      BY <3>1, <3>2
  <2>2. \A v \in ToSet(pending) \cup resolving' : Withdrawing(v)
    BY <1>1 DEF Current, OnlyWithdrawals
  <2> QED
    BY <1>1, <2>1, <2>2 DEF OnlyWithdrawals, Withdrawing
<1>7. ReadsCurrent'
  BY <1>1, <1>4, <1>5, ReadsCurrentKept DEF Current
<1>8. BouncedShort'
  BY <1>1, <1>5, SameInformed, SameBounced DEF Current
<1>9. ShownCurrent'
  <2>1. \A a \in Customers : Available(a)' = Available(a)
    BY <1>1 DEF Available
  <2> QED
    BY <1>1, <1>4, <1>5, <2>1, ShownCurrentKept DEF Current
<1> QED
  BY <1>6, <1>7, <1>8, <1>9 DEF Current

LEMMA RefreshBalancesCurrent ==
    ASSUME Typed, Current, NEW u, NEW address \in Users, RefreshBalances(u, address)
    PROVE  Current'
<1>1. /\ UNCHANGED <<units, balance, bounced, responses, pending, resolving, shown, overtaken>>
      /\ Call(<<Update(address)>>)
  BY DEF RefreshBalances, durable
<1>2. Update(address) \in ReadsOf(0..Len(units)) /\ Len(units) \in Nat
  <2>1. 0 \in 0..Len(units) /\ Len(units) \in Nat
    BY DagFacts DEF Typed
  <2> QED
    BY <2>1, UpdateType
<1>3. /\ ReadsKept
      /\ \A i \in 1..Len(reads') : i > Len(reads) => reads'[i].unit = 0
      /\ InformedAsked
  <2>1. reads \in Seq(ReadsOf(0..Len(units)))
    BY DEF Typed, ReadsSound
  <2> QED
    BY <1>1, <1>2, <2>1, CallKept DEF Update
<1>4. SameUnits /\ OwedKept
  <2>1. SameUnits
    BY <1>1 DEF SameUnits
  <2> QED
    BY <1>1, <1>3, <2>1, CallOwed
<1>5. OnlyWithdrawals'
  <2>1. ASSUME NEW i \in 1..Len(reads'), NEW v \in 1..Len(units), reads'[i].unit = v
        PROVE  Withdrawing(v) /\ reads'[i].address = units[v].from
    <3>1. ~(i > Len(reads))
      BY <1>2, <1>3, <2>1
    <3>2. i \in 1..Len(reads) /\ reads'[i] = reads[i]
      BY <1>3, <3>1 DEF ReadsKept
    <3> QED
      BY <2>1, <3>2 DEF Current, OnlyWithdrawals
  <2>2. \A v \in ToSet(pending) \cup resolving : Withdrawing(v)
    BY DEF Current, OnlyWithdrawals
  <2> QED
    BY <1>1, <2>1, <2>2 DEF OnlyWithdrawals, Withdrawing
<1>6. ReadsCurrent'
  BY <1>1, <1>3, <1>4, ReadsCurrentKept DEF Current
<1>7. BouncedShort'
  BY <1>1, <1>3, <1>4, SameBounced DEF Current
<1>8. ShownCurrent'
  <2>1. \A a \in Customers : Available(a)' = Available(a)
    BY <1>1 DEF Available
  <2> QED
    BY <1>1, <1>3, <1>4, <2>1, ShownCurrentKept DEF Current
<1> QED
  BY <1>5, <1>6, <1>7, <1>8 DEF Current

\* The agent changes the balance of a customer, and its response says so; or
\* it bounces a withdrawal that the balance does not cover.
LEMMA ExecuteCurrent ==
    ASSUME Typed, Current, NEW u, NEW refused, Execute(u, refused)
    PROVE  Current'
<1>1. /\ u \in 1..Len(units) /\ u \notin ToSet(executed)
      /\ UNCHANGED <<units, pending, resolving, reads, shown, overtaken>>
      /\ responses' = Append(responses, u)
      /\ uninformed \subseteq uninformed'
  BY DEF Execute, Known, handlers
<1>2. units[u] \in Requests
  BY <1>1, DagFacts DEF Typed
<1>3. \/ Accepted(units[u]) /\ bounced' = bounced
      \/ /\ bounced' = bounced \cup {u} /\ balance' = balance
         /\ units[u].kind = "withdrawal" => ~Accepted(units[u])
  BY DEF Execute
<1>4. u \notin bounced
  BY <1>1 DEF Typed, DagSound
<1>5. PICK l \in Nat : l = Len(responses)
  BY ResponseUnits
<1>6. /\ Len(responses') = l + 1
      /\ \A q \in 1..l : responses'[q] = responses[q]
      /\ responses'[l + 1] = u
  <2>1. responses \in Seq(ToSet(executed) \cup {u}) /\ u \in ToSet(executed) \cup {u}
    BY SeqWider DEF Typed, ResponsesSound
  <2> QED
    BY <1>1, <1>5, <2>1, AppendSet
<1>7. \A q \in 1..l : responses[q] # u
  BY <1>1, <1>5, ResponseUnits
<1>8. ASSUME NEW p, NEW a, Owed(p, a)
      PROVE  Owed(p, a)'
  <2> SUFFICES ASSUME Promised(p, a)
               PROVE  Promised(p, a)'
    BY <1>1, <1>8 DEF Owed
  <2>1. PICK q \in 1..l : q > p /\ responses[q] \notin bounced
                          /\ a \in Affected(units[responses[q]])
    BY <1>5 DEF Promised, Reports
  <2>2. q \in 1..Len(responses') /\ responses'[q] = responses[q] /\ responses[q] # u
    BY <1>6, <1>7
  <2>3. responses'[q] \notin bounced'
    BY <1>3, <2>1, <2>2
  <2> QED
    BY <1>1, <2>1, <2>2, <2>3 DEF Promised, Reports
<1>9. ASSUME NEW a \in Customers, balance'[a] # balance[a], NEW p \in 0..l
      PROVE  Owed(p, a)'
  <2>1. balance \in [Users -> Nat \cup {Absent}] /\ a \in Users /\ a # Operator
    BY DEF Typed, DagSound, Customers
  <2>2. Accepted(units[u]) /\ bounced' = bounced
    BY <1>3, <1>9
  <2>3. a \in Touched(units[u])
    BY <1>9, <2>1, <2>2 DEF Execute
  <2>4. l + 1 \in 1..Len(responses') /\ l + 1 > p
    BY <1>6
  <2>5. CASE units[u].kind = "cancel"
    <3>1. a = units[u].owner
      BY <2>3, <2>5 DEF Touched
    <3>2. a \in uninformed'
      BY <1>4, <1>9, <2>5, <3>1 DEF Execute
    <3> QED
      BY <3>2 DEF Owed
  <2>6. CASE units[u].kind # "cancel"
    <3>1. a \in Affected(units'[responses'[l + 1]]) /\ responses'[l + 1] \notin bounced'
      BY <1>1, <1>4, <1>6, <2>1, <2>2, <2>3, <2>6 DEF Affected
    <3>2. Promised(p, a)'
      BY <2>4, <3>1 DEF Promised, Reports
    <3> QED
      BY <3>2 DEF Owed
  <2> QED
    BY <2>5, <2>6
<1>10. ReadsKept
  BY <1>1, UnchangedKept DEF Typed, ReadsSound
<1>11. OwedKept
  BY <1>8 DEF OwedKept
<1>12. \A a \in Customers : balance'[a] = balance[a] \/ Owed(0, a)'
  <2>1. 0 \in 0..l
    OBVIOUS
  <2> QED
    BY <1>9, <2>1
<1>13. OnlyWithdrawals'
  BY <1>1 DEF Current, OnlyWithdrawals, Withdrawing
<1>14. ReadsCurrent'
  BY <1>10, <1>11, <1>12, ReadsCurrentKept DEF Current
<1>15. BouncedShort'
  <2> SUFFICES ASSUME NEW p \in 1..Len(responses'), NEW v \in bounced', NEW a \in Customers,
                      responses'[p] = v, Withdrawing(v)', units'[v].from = a
               PROVE  Short(v)' \/ Owed(p, a)'
    BY DEF BouncedShort, Customers
  <2>1. Withdrawing(v) /\ units[v].from = a /\ units'[v] = units[v]
    BY <1>1 DEF Withdrawing
  <2>2. CASE p \in 1..l
    <3>1. v = responses[p] /\ v \in bounced /\ p \in 0..l
      BY <1>3, <1>6, <1>7, <2>2
    <3>2. Short(v) \/ Owed(p, a)
      BY <1>5, <2>1, <2>2, <3>1 DEF Current, BouncedShort
    <3>3. CASE balance'[a] = balance[a]
      <4>1. Short(v) => Short(v)'
        BY <2>1, <3>3 DEF Short, Amount
      <4> QED
        BY <1>8, <3>2, <4>1
    <3>4. CASE balance'[a] # balance[a]
      BY <1>9, <3>1, <3>4
    <3> QED
      BY <3>3, <3>4
  <2>3. CASE p \notin 1..l
    <3>1. p = l + 1 /\ v = u
      BY <1>6, <2>3
    <3>2. ~Accepted(units[u]) /\ balance' = balance
      BY <1>3, <1>4, <2>1, <3>1 DEF Withdrawing
    <3>3. /\ units[u].owner = a /\ units[u].kind = "withdrawal"
          /\ units[u].amount \in Nat \cup {All}
      BY <1>1, <1>2, <2>1, <3>1, WithdrawingFacts, RequestFields DEF Typed
    <3>4. Amount(a) \in Nat
      BY DEF Amount, Typed, DagSound, Customers
    <3>5. Taken(units[u]) = IF units[u].amount = All THEN Amount(a) ELSE units[u].amount
      BY <3>3 DEF Taken
    <3>6. ~(Taken(units[u]) <= Amount(a))
      BY <3>2, <3>3 DEF Accepted
    <3>7. units[u].amount # All
      BY <3>4, <3>5, <3>6
    <3>8. Short(u)
      BY <2>1, <3>1, <3>3, <3>4, <3>5, <3>6, <3>7 DEF Short
    <3> QED
      BY <1>1, <3>1, <3>2, <3>8 DEF Short, Amount
  <2> QED
    BY <2>2, <2>3
<1>16. ShownCurrent'
  <2>1. \A a \in Customers : Available(a)' = Available(a) \/ Owed(0, a)'
    BY <1>1, <1>12 DEF Available
  <2> QED
    BY <1>1, <1>10, <1>11, <2>1, ShownCurrentKept DEF Current
<1> QED
  BY <1>13, <1>14, <1>15, <1>16 DEF Current

\* The responses that were missed are put in front, and none is to a withdrawal.
LEMMA UpdateTradeStatusesCurrent ==
    ASSUME Typed, Current, UpdateTradeStatuses
    PROVE  Current'
<1>1. /\ UNCHANGED <<units, balance, bounced, pending, resolving, reads, shown, overtaken,
                      uninformed>>
      /\ responses' = MissedResponses \o responses
  BY DEF UpdateTradeStatuses, durable, handlers, ghosts
<1>2. PICK l \in Nat, m \in Nat : l = Len(responses) /\ m = Len(MissedResponses)
  BY MissedType, ResponseUnits, LenProperties
<1>3. /\ Len(responses') = m + l
      /\ \A p \in 1..(m + l) : responses'[p] = IF p <= m THEN MissedResponses[p]
                                               ELSE responses[p - m]
  BY <1>1, <1>2, MissedType, ConcatProperties DEF Typed, ResponsesSound
<1>4. \A p \in 1..m : ~Withdrawing(MissedResponses[p])
  <2>1. executed \in Seq(1..Len(units))
    BY DEF Typed, DagSound
  <2>2. MissedResponses \in Seq((1..Len(units)) \cap Uncommitted)
    BY <2>1, FilterSound DEF MissedResponses
  <2>3. \A p \in 1..m : MissedResponses[p] \in Uncommitted
    BY <1>2, <2>2, ElementOfSeq
  <2>4. \A u \in Uncommitted : units[u].kind = "trade"
    BY DEF Uncommitted, Typed, DagSound
  <2> QED
    BY <2>3, <2>4 DEF Withdrawing
<1>5. ASSUME NEW p \in Nat, NEW a, Owed(p, a)
      PROVE  Owed(p + m, a)' /\ Owed(p, a)'
  <2> SUFFICES ASSUME Promised(p, a)
               PROVE  Promised(p + m, a)' /\ Promised(p, a)'
    BY <1>1, <1>5 DEF Owed
  <2>1. PICK q \in 1..l : q > p /\ responses[q] \notin bounced
                          /\ a \in Affected(units[responses[q]])
    BY <1>2 DEF Promised, Reports
  <2>2. /\ q + m \in 1..Len(responses') /\ q + m > p + m /\ q + m > p
        /\ ~(q + m <= m) /\ (q + m) - m = q
    BY <1>3, <2>1
  <2>3. responses'[q + m] = responses[q]
    BY <1>3, <2>2
  <2>4. q + m \in 1..Len(responses') /\ Reports(responses[q + m], a)'
    BY <1>1, <2>1, <2>2, <2>3 DEF Reports
  <2> QED
    BY <2>2, <2>4 DEF Promised
<1>6. ReadsKept
  BY <1>1, UnchangedKept DEF Typed, ReadsSound
<1>7. OwedKept
  BY <1>5 DEF OwedKept
<1>8. OnlyWithdrawals'
  BY <1>1 DEF Current, OnlyWithdrawals, Withdrawing
<1>9. ReadsCurrent'
  BY <1>1, <1>6, <1>7, ReadsCurrentKept DEF Current
<1>10. BouncedShort'
  <2> SUFFICES ASSUME NEW p \in 1..Len(responses'), NEW v \in bounced, NEW a \in Customers,
                      responses'[p] = v, Withdrawing(v), units[v].from = a
               PROVE  Short(v)' \/ Owed(p, a)'
    BY <1>1 DEF BouncedShort, Customers, Withdrawing
  <2>1. ~(p <= m) /\ p \in Nat
    BY <1>3, <1>4
  <2>2. PICK q \in 1..l : q = p - m
    BY <1>3, <2>1
  <2>3. responses[q] = v /\ q + m = p
    BY <1>3, <2>1, <2>2
  <2>4. Short(v) \/ Owed(q, a)
    BY <1>2, <2>3 DEF Current, BouncedShort
  <2>5. Short(v) => Short(v)'
    BY <1>1 DEF Short, Amount
  <2>6. Owed(q, a) => Owed(p, a)'
    BY <1>5, <2>3
  <2> QED
    BY <2>4, <2>5, <2>6
<1>11. ShownCurrent'
  <2>1. \A a \in Customers : Available(a)' = Available(a)
    BY <1>1 DEF Available
  <2> QED
    BY <1>1, <1>6, <1>7, <2>1, ShownCurrentKept DEF Current
<1> QED
  BY <1>8, <1>9, <1>10, <1>11 DEF Current

\* The value read is the balance.
LEMMA ReadVarsCurrent ==
    ASSUME Typed, Current, NEW i, ReadVars(i)
    PROVE  Current'
<1>1. /\ UNCHANGED <<units, balance, bounced, responses, pending, resolving, shown, overtaken,
                      uninformed>>
      /\ i \in 1..Len(reads)
  BY DEF ReadVars, durable, ghosts
<1>2. PICK n \in Nat : n = Len(reads)
  BY LenProperties DEF Typed, ReadsSound
<1>3. reads \in [1..n -> ReadsOf(0..Len(units))]
  BY <1>2, LenProperties DEF Typed, ReadsSound
<1>4. ASSUME NEW k \in 1..n
      PROVE  /\ reads'[k].address = reads[k].address /\ reads'[k].unit = reads[k].unit
             /\ reads'[k].late = reads[k].late
             /\ k # i => reads'[k] = reads[k]
             /\ k = i /\ reads[k].address \in Users =>
                    reads'[k].value = balance[reads[k].address]
  <2>1. reads[k] \in ReadsOf(0..Len(units))
    BY <1>3
  <2> QED
    BY <1>3, <2>1 DEF ReadVars, ReadsOf
<1>5. DOMAIN reads' = 1..n /\ Len(reads') = n
  <2>1. reads' \in [1..n -> ReadsOf(0..Len(units))]
    <3>1. reads' \in Seq(ReadsOf(0..Len(units)))
      BY <1>1, ReadVarsReads DEF Typed, ReadsSound, DagSound
    <3>2. DOMAIN reads' = 1..n
      BY <1>3 DEF ReadVars
    <3> QED
      BY <3>1, <3>2, LenProperties
  <2>2. reads' \in Seq(ReadsOf(0..Len(units)))
    BY <2>1, SeqDef
  <2> QED
    BY <2>1, <2>2, LenProperties
<1>6. ASSUME NEW j, NEW a, Newer(j, a)
      PROVE  Newer(j, a)'
  BY <1>2, <1>4, <1>5, <1>6 DEF Newer
<1>7. SameUnits /\ \A a : Owed(0, a) => Owed(0, a)'
  BY <1>1, SameOwed DEF SameUnits
<1>8. OnlyWithdrawals'
  <2>1. ASSUME NEW k \in 1..n, NEW u \in 1..Len(units), reads'[k].unit = u
        PROVE  Withdrawing(u) /\ reads'[k].address = units[u].from
    BY <1>2, <1>4, <2>1 DEF Current, OnlyWithdrawals
  <2>2. \A u \in ToSet(pending) \cup resolving : Withdrawing(u)
    BY DEF Current, OnlyWithdrawals
  <2> QED
    BY <1>1, <1>5, <2>1, <2>2 DEF OnlyWithdrawals, Withdrawing
<1>9. ReadsCurrent'
  <2> SUFFICES ASSUME NEW k \in 1..n, NEW a \in Customers,
                      reads'[k].address = a, reads'[k].read, ~reads'[k].late
               PROVE  reads'[k].value = balance[a] \/ Newer(k, a)' \/ Owed(0, a)'
    BY <1>1, <1>5 DEF ReadsCurrent, Customers
  <2>1. CASE k = i
    BY <1>4, <2>1 DEF Customers
  <2>2. CASE k # i
    <3>1. reads'[k] = reads[k]
      BY <1>4, <2>2
    <3>2. reads[k].value = balance[a] \/ Newer(k, a) \/ Owed(0, a)
      BY <1>2, <3>1 DEF Current, ReadsCurrent
    <3> QED
      BY <1>6, <1>7, <3>1, <3>2
  <2> QED
    BY <2>1, <2>2
<1>10. BouncedShort'
  BY <1>1, <1>7, SameInformed, SameBounced DEF Current
<1>11. ShownCurrent'
  <2> SUFFICES ASSUME NEW a \in Customers, a \notin overtaken
               PROVE  shown[a] \in {NotShown, Available(a)'} \/ Newer(0, a)' \/ Owed(0, a)'
    BY <1>1 DEF ShownCurrent, Customers
  <2>1. Available(a)' = Available(a)
    BY <1>1 DEF Available
  <2>2. shown[a] \in {NotShown, Available(a)} \/ Newer(0, a) \/ Owed(0, a)
    BY DEF Current, ShownCurrent
  <2> QED
    BY <1>6, <1>7, <2>1, <2>2
<1> QED
  BY <1>8, <1>9, <1>10, <1>11 DEF Current

LEMMA RemoveAtParts ==
    ASSUME NEW S, NEW s \in Seq(S), NEW n \in Nat, n = Len(s), NEW i \in 1..n
    PROVE  /\ Len(RemoveAt(s, i)) = n - 1
           /\ \A k \in 1..(i - 1) : RemoveAt(s, i)[k] = s[k]
           /\ \A k \in i..(n - 1) : RemoveAt(s, i)[k] = s[k + 1]
<1> DEFINE a == SubSeq(s, 1, i - 1)
           b == SubSeq(s, i + 1, n)
<1>1. \A k \in 1..n : s[k] \in S
  BY ElementOfSeq
<1>2. /\ a \in Seq(S) /\ Len(a) = i - 1
      /\ \A k \in 1..(i - 1) : a[k] = s[k]
  <2>1. \A k \in 1..(i - 1) : s[k] \in S
    BY <1>1
  <2>2. 1 \in Int /\ i - 1 \in Int
    OBVIOUS
  <2>3. /\ a \in Seq(S)
        /\ Len(a) = IF 1 <= i - 1 THEN (i - 1) - 1 + 1 ELSE 0
        /\ \A k \in 1..((i - 1) - 1 + 1) : a[k] = s[1 + k - 1]
    BY <2>1, <2>2, SubSeqProperties
  <2> HIDE DEF a
  <2> QED
    BY <2>3
<1>3. /\ b \in Seq(S) /\ Len(b) = n - i
      /\ \A k \in 1..(n - i) : b[k] = s[k + i]
  <2>1. \A k \in (i + 1)..n : s[k] \in S
    BY <1>1
  <2>2. i + 1 \in Int /\ n \in Int
    OBVIOUS
  <2>3. /\ b \in Seq(S)
        /\ Len(b) = IF i + 1 <= n THEN n - (i + 1) + 1 ELSE 0
        /\ \A k \in 1..(n - (i + 1) + 1) : b[k] = s[(i + 1) + k - 1]
    BY <2>1, <2>2, SubSeqProperties
  <2> HIDE DEF b
  <2>4. \A k \in 1..(n - i) : k \in 1..(n - (i + 1) + 1) /\ (i + 1) + k - 1 = k + i
    OBVIOUS
  <2> QED
    BY <2>3, <2>4
<1>4. RemoveAt(s, i) = a \o b
  BY DEF RemoveAt
<1> HIDE DEF a, b
<1>5. /\ Len(a \o b) = (i - 1) + (n - i)
      /\ \A k \in 1..((i - 1) + (n - i)) : (a \o b)[k] = IF k <= i - 1 THEN a[k]
                                                        ELSE b[k - (i - 1)]
  <2>1. /\ Len(a \o b) = Len(a) + Len(b)
        /\ \A k \in 1..(Len(a) + Len(b)) : (a \o b)[k] = IF k <= Len(a) THEN a[k]
                                                       ELSE b[k - Len(a)]
    BY <1>2, <1>3, ConcatProperties
  <2> QED
    BY <1>2, <1>3, <2>1
<1> DEFINE c == a \o b
<1>6. Len(c) = n - 1 /\ \A k \in 1..(n - 1) : c[k] = IF k <= i - 1 THEN a[k] ELSE b[k - (i - 1)]
  BY <1>5
<1> HIDE DEF c
<1>7. ASSUME NEW k \in 1..(i - 1)
      PROVE  c[k] = s[k]
  <2>1. k \in 1..(n - 1) /\ k <= i - 1
    OBVIOUS
  <2> QED
    BY <1>2, <1>6, <2>1
<1>8. ASSUME NEW k \in i..(n - 1)
      PROVE  c[k] = s[k + 1]
  <2>1. k \in 1..(n - 1) /\ ~(k <= i - 1)
    OBVIOUS
  <2>2. k - (i - 1) \in 1..(n - i) /\ (k - (i - 1)) + i = k + 1
    OBVIOUS
  <2>3. c[k] = b[k - (i - 1)]
    BY <1>6, <2>1
  <2> QED
    BY <1>3, <2>2, <2>3
<1> QED
  BY <1>4, <1>6, <1>7, <1>8 DEF c

-----------------------------------------------------------------------------
(* An answer *)

\* Where the j-th read is after the answer to the i-th
Place(i, j) == IF j < i THEN j ELSE j - 1

LEMMA AnswerParts ==
    ASSUME NEW U, reads \in Seq(ReadsOf(U)), NEW n \in Nat, n = Len(reads),
           NEW i \in 1..n, Answer(i)
    PROVE  /\ Len(reads') = n - 1
           /\ \A j \in 1..n : j # i =>
                 /\ reads'[Place(i, j)].address = reads[j].address
                 /\ reads'[Place(i, j)].unit = reads[j].unit
                 /\ reads'[Place(i, j)].read = reads[j].read
                 /\ reads'[Place(i, j)].value = reads[j].value
                 /\ ~reads'[Place(i, j)].late =>
                       ~reads[j].late /\ ~(j < i /\ reads[j].address = reads[i].address)
<1>1. reads' = RemoveAt(Overtake(i), i)
  BY DEF Answer
<1>2. Overtake(i) \in Seq(ReadsOf(U)) /\ Len(Overtake(i)) = n
  BY OvertakeType
<1> DEFINE s == Overtake(i)
<1>3. ASSUME NEW j \in 1..n
      PROVE  /\ s[j].address = reads[j].address
             /\ s[j].unit = reads[j].unit
             /\ s[j].read = reads[j].read
             /\ s[j].value = reads[j].value
             /\ ~s[j].late => ~reads[j].late /\ ~(j < i /\ reads[j].address = reads[i].address)
  <2> DEFINE l == reads[j].late \/ (j < i /\ reads[j].address = reads[i].address)
  <2>1. s[j] = [reads[j] EXCEPT !.late = l]
    BY DEF Overtake
  <2>2. reads[j] \in ReadsOf(U)
    BY ElementOfSeq
  <2> HIDE DEF l, s
  <2>3. /\ s[j].address = reads[j].address
        /\ s[j].unit = reads[j].unit
        /\ s[j].read = reads[j].read
        /\ s[j].value = reads[j].value
        /\ s[j].late = l
    BY <2>1, <2>2 DEF ReadsOf
  <2>4. ~s[j].late => ~l
    BY <2>3
  <2>5. ~s[j].late => ~reads[j].late /\ ~(j < i /\ reads[j].address = reads[i].address)
    BY <2>4 DEF l
  <2> QED
    BY <2>3, <2>5
<1> HIDE DEF s
<1>4. /\ Len(reads') = n - 1
      /\ \A k \in 1..(i - 1) : reads'[k] = s[k]
      /\ \A k \in i..(n - 1) : reads'[k] = s[k + 1]
  BY <1>1, <1>2, RemoveAtParts DEF s
<1>5. ASSUME NEW j \in 1..n, j # i
      PROVE  reads'[Place(i, j)] = s[j]
  <2>1. CASE j < i
    BY <1>4, <2>1 DEF Place
  <2>2. CASE ~(j < i)
    <3>1. j - 1 \in i..(n - 1) /\ (j - 1) + 1 = j
      BY <1>5, <2>2
    <3> QED
      BY <1>4, <2>2, <3>1 DEF Place
  <2> QED
    BY <2>1, <2>2
<1> QED
  BY <1>3, <1>4, <1>5

LEMMA Places ==
    ASSUME NEW n \in Nat, NEW i \in 1..n
    PROVE  /\ \A j \in 1..n : j # i => Place(i, j) \in 1..(n - 1)
           /\ \A k \in 1..(n - 1) : \E j \in 1..n : j # i /\ Place(i, j) = k
           /\ \A j \in 1..n, m \in 1..n : j # i /\ m # i /\ j < m => Place(i, j) < Place(i, m)
<1>1. ASSUME NEW k \in 1..(n - 1)
      PROVE  \E j \in 1..n : j # i /\ Place(i, j) = k
  <2>1. CASE k < i
    <3>1. k \in 1..n /\ k # i /\ Place(i, k) = k
      BY <2>1 DEF Place
    <3> QED
      BY <3>1
  <2>2. CASE ~(k < i)
    <3>1. k + 1 \in 1..n /\ k + 1 # i /\ Place(i, k + 1) = k
      BY <2>2 DEF Place
    <3> QED
      BY <3>1
  <2> QED
    BY <2>1, <2>2
<1>2. \A j \in 1..n : j # i => Place(i, j) \in 1..(n - 1)
  BY DEF Place
<1>3. \A j \in 1..n, m \in 1..n : j # i /\ m # i /\ j < m => Place(i, j) < Place(i, m)
  BY DEF Place
<1> QED
  BY <1>1, <1>2, <1>3

\* What the answer shows to the sender or for an update, of a balance b that
\* the agent still has, is what is available after it.
LEMMA RegisteredRest ==
    ASSUME NEW b \in Nat, NEW w \in Requests,
           ~Below(Minus(b, IF w.amount = All THEN b ELSE w.amount), 0)
    PROVE  Minus(b, IF w.amount = All THEN b ELSE w.amount) = Subtract(b, w)
<1>1. w.amount \in Nat \cup {All} /\ All \notin Int
  BY RequestFields, Constants
<1>2. CASE w.amount = All
  <2>1. Minus(b, b) = 0
    BY DEF Minus
  <2>2. Subtract(b, w) = 0
    BY <1>1, <1>2 DEF Subtract, Below
  <2> QED
    BY <1>2, <2>1, <2>2
<1>3. CASE w.amount # All
  <2>1. w.amount \in Nat /\ ~Below(b - w.amount, 0) /\ Minus(b, w.amount) = b - w.amount
    BY <1>1, <1>3 DEF Minus
  <2>2. ~(b - w.amount < 0) /\ ~Below(b, w.amount)
    BY <2>1 DEF Below
  <2>3. Subtract(b, w) = Minus(b, w.amount)
    BY <1>3, <2>2 DEF Subtract
  <2> QED
    BY <1>3, <2>3
<1> QED
  BY <1>2, <1>3

LEMMA AnswerCurrent ==
    ASSUME Default = 0, Typed, Current, NEW i, Answer(i)
    PROVE  Current'
<1>1. /\ UNCHANGED <<units, balance, bounced, responses, resolving, uninformed>>
      /\ i \in 1..Len(reads) /\ reads[i].read
  BY DEF Answer, durable
<1>2. PICK n \in Nat : n = Len(reads)
  BY LenProperties DEF Typed, ReadsSound
<1>3. i \in 1..n /\ Len(units) \in Nat
  BY <1>1, <1>2, DagFacts DEF Typed
<1>4. /\ Len(reads') = n - 1
      /\ \A j \in 1..n : j # i =>
            /\ reads'[Place(i, j)].address = reads[j].address
            /\ reads'[Place(i, j)].unit = reads[j].unit
            /\ reads'[Place(i, j)].read = reads[j].read
            /\ reads'[Place(i, j)].value = reads[j].value
            /\ ~reads'[Place(i, j)].late =>
                  ~reads[j].late /\ ~(j < i /\ reads[j].address = reads[i].address)
  BY <1>2, <1>3, AnswerParts DEF Typed, ReadsSound
<1>5. ASSUME NEW k \in 1..Len(reads')
      PROVE  \E j \in 1..n : j # i /\ Place(i, j) = k
  BY <1>3, <1>4, Places
<1> DEFINE r == reads[i]
<1>6. r.address \in Users \cup {NoAddress} /\ r.unit \in 0..Len(units)
      /\ r.value \in Nat \cup {Absent}
  <2>1. r \in ReadsOf(0..Len(units))
    BY <1>1, ElementOfSeq DEF Typed, ReadsSound
  <2> QED
    BY <2>1 DEF ReadsOf
<1>7. r.unit # 0 => /\ r.unit \in 1..Len(units) /\ units[r.unit] \in Requests
                    /\ Withdrawing(r.unit) /\ r.address = units[r.unit].from
  <2>1. r.unit # 0 => r.unit \in 1..Len(units)
    BY <1>3, <1>6
  <2> QED
    BY <1>1, <2>1, DagFacts DEF Typed, Current, OnlyWithdrawals
<1> DEFINE b == Displayed(r.address, r.value)
           w == units[r.unit]
           rest == Minus(b, IF w.amount = All THEN b ELSE w.amount)
           Silent == r.unit # 0 /\ pending' = pending /\ shown' = shown /\ overtaken' = overtaken
<1>8. \/ Silent
      \/ /\ r.unit # 0 /\ ~Below(rest, 0)
         /\ pending' = Append(pending, r.unit) /\ Show(r, rest)
      \/ r.unit = 0 /\ pending' = pending /\ Show(r, b)
  BY DEF Answer, Register
<1>9. b \in Nat /\ b = Left(units, pending, r.address, r.value)
  <2>1. b \in Balances
    BY <1>6, DisplayedType DEF Typed, DagSound, UnitsSound
  <2> QED
    BY <2>1, DisplayedIsLeft DEF Balances
<1>10. r.unit # 0 /\ ~Below(rest, 0) => rest = Subtract(b, w)
  BY <1>7, <1>9, RegisteredRest
<1> HIDE DEF r, b, w, rest, Silent
\* An update that was asked for after the j-th read is still in progress, or
\* has been answered.
<1>11. ASSUME NEW j \in 1..n, j # i, NEW m \in 1..n, m # i, m > j,
              reads[m].unit = 0, NEW a, reads[m].address = a
       PROVE  Newer(Place(i, j), a)'
  <2>1. Place(i, m) \in 1..Len(reads') /\ Place(i, m) > Place(i, j)
    <3>1. j < m
      BY <1>11
    <3>2. Place(i, m) \in 1..(n - 1) /\ Place(i, j) \in 1..(n - 1) /\ Place(i, j) < Place(i, m)
      BY <1>3, <1>11, <3>1, Places
    <3> QED
      BY <1>4, <3>2
  <2> QED
    BY <1>4, <1>11, <2>1 DEF Newer
<1>12. ASSUME NEW m \in 1..n, m # i, reads[m].unit = 0, NEW a, reads[m].address = a
       PROVE  Newer(0, a)'
  <2>1. Place(i, m) \in 1..Len(reads') /\ Place(i, m) > 0
    <3>1. Place(i, m) \in 1..(n - 1)
      BY <1>3, <1>12, Places
    <3> QED
      BY <1>4, <3>1
  <2> QED
    BY <1>4, <1>12, <2>1 DEF Newer
<1>13. SameUnits /\ \A a : Owed(0, a) => Owed(0, a)'
  BY <1>1, SameOwed DEF SameUnits
<1>14. OnlyWithdrawals'
  <2>1. ASSUME NEW u \in ToSet(pending') \cup resolving'
        PROVE  Withdrawing(u)
    <3>1. CASE pending' = pending
      BY <1>1, <2>1, <3>1 DEF Current, OnlyWithdrawals
    <3>2. CASE r.unit # 0 /\ pending' = Append(pending, r.unit)
      <4>1. ToSet(pending') = ToSet(pending) \cup {r.unit}
        BY <1>7, <3>2, AppendSet DEF Typed, UnitsSound
      <4> QED
        BY <1>1, <1>7, <2>1, <3>2, <4>1 DEF Current, OnlyWithdrawals
    <3> QED
      BY <1>8, <3>1, <3>2 DEF Silent
  <2>2. ASSUME NEW k \in 1..Len(reads'), NEW u \in 1..Len(units), reads'[k].unit = u
        PROVE  Withdrawing(u) /\ reads'[k].address = units[u].from
    <3>1. PICK j \in 1..n : j # i /\ Place(i, j) = k
      BY <1>5
    <3>2. reads'[k].unit = reads[j].unit /\ reads'[k].address = reads[j].address
      BY <1>4, <3>1
    <3> QED
      BY <1>2, <2>2, <3>2 DEF Current, OnlyWithdrawals
  <2> QED
    BY <1>1, <2>1, <2>2 DEF OnlyWithdrawals, Withdrawing
<1>15. ReadsCurrent'
  <2> SUFFICES ASSUME NEW k \in 1..Len(reads'), NEW a \in Customers,
                      reads'[k].address = a, reads'[k].read, ~reads'[k].late
               PROVE  reads'[k].value = balance[a] \/ Newer(k, a)' \/ Owed(0, a)'
    BY <1>1 DEF ReadsCurrent, Customers
  <2>1. PICK j \in 1..n : j # i /\ Place(i, j) = k
    BY <1>5
  <2>2. /\ reads[j].address = a /\ reads[j].read /\ ~reads[j].late
        /\ reads'[k].value = reads[j].value
        /\ ~(j < i /\ reads[i].address = a)
    BY <1>4, <2>1
  <2>3. reads[j].value = balance[a] \/ Newer(j, a) \/ Owed(0, a)
    BY <1>2, <2>1, <2>2 DEF Current, ReadsCurrent
  <2>4. ASSUME Newer(j, a)
        PROVE  Newer(k, a)'
    <3>1. PICK m \in 1..n : m > j /\ reads[m].unit = 0 /\ reads[m].address = a
      BY <1>2, <2>4 DEF Newer
    <3>2. m # i
      BY <2>1, <2>2, <3>1
    <3> QED
      BY <1>11, <2>1, <3>1, <3>2
  <2> QED
    BY <1>13, <2>2, <2>3, <2>4
<1>16. BouncedShort'
  BY <1>1, <1>13, SameInformed, SameBounced DEF Current
<1>17. ShownCurrent'
  <2> SUFFICES ASSUME NEW a \in Customers, a \notin overtaken'
               PROVE  shown'[a] \in {NotShown, Available(a)'} \/ Newer(0, a)' \/ Owed(0, a)'
    BY DEF ShownCurrent, Customers
  <2>1. /\ units \in Seq(Requests) /\ pending \in Seq(1..Len(units))
        /\ balance[a] \in Nat \cup {Absent}
    BY DEF Typed, DagSound, UnitsSound, Customers
  <2> DEFINE left == Left(units, pending, a, balance[a])
  <2>2. r.unit # 0 => Left(units, Append(pending, r.unit), a, balance[a])
                        = IF a = r.address THEN Subtract(left, w) ELSE left
    <3>1. ASSUME NEW u \in 1..Len(units)
          PROVE  Left(units, Append(pending, u), a, balance[a])
                   = IF units[u].from = a THEN Subtract(left, units[u]) ELSE left
      BY <2>1, LeftOfOneMore
    <3> HIDE DEF left
    <3> QED
      BY <1>7, <3>1 DEF w
  <2> HIDE DEF left
  <2>3. CASE a # r.address \/ Silent
    <3>1. shown'[a] = shown[a] /\ a \notin overtaken
      <4>1. CASE Silent
        BY <4>1 DEF Silent
      <4>2. CASE a # r.address /\ \E c : Show(r, c)
        <5>1. PICK c : Show(r, c)
          BY <4>2
        <5>2. shown'[a] = shown[a]
          BY <4>2, <5>1 DEF Show
        <5>3. a \in overtaken => a \in overtaken'
          BY <4>2, <5>1 DEF Show
        <5> QED
          BY <5>2, <5>3
      <4> QED
        BY <1>8, <2>3, <4>1, <4>2
    <3>2. Available(a)' = Available(a)
      <4>1. CASE pending' = pending
        BY <1>1, <4>1 DEF Available
      <4>2. CASE pending' # pending
        <5>1. pending' = Append(pending, r.unit) /\ r.unit # 0 /\ a # r.address
          BY <1>8, <2>3, <4>2 DEF Silent
        <5>2. Left(units, Append(pending, r.unit), a, balance[a]) = left
          BY <2>2, <5>1
        <5> QED
          BY <1>1, <5>1, <5>2 DEF Available, left
      <4> QED
        BY <4>1, <4>2
    <3>3. shown[a] \in {NotShown, Available(a)} \/ Newer(0, a) \/ Owed(0, a)
      BY <3>1 DEF Current, ShownCurrent
    <3>4. ASSUME Newer(0, a)
          PROVE  Newer(0, a)'
      <4>1. PICK m \in 1..n : reads[m].unit = 0 /\ reads[m].address = a
        BY <1>2, <3>4 DEF Newer
      <4>2. m # i
        BY <2>3, <4>1 DEF r, Silent
      <4> QED
        BY <1>12, <4>1, <4>2
    <3> QED
      BY <1>13, <3>1, <3>2, <3>3, <3>4
  <2>4. CASE a = r.address /\ ~Silent
    <3>1. PICK c : Show(r, c) /\ \/ /\ r.unit # 0 /\ pending' = Append(pending, r.unit)
                                    /\ c = Subtract(b, w)
                                 \/ r.unit = 0 /\ pending' = pending /\ c = b
      BY <1>8, <1>10, <2>4
    <3>2. ~r.late /\ shown'[a] = c
      BY <2>4, <3>1 DEF Show, Customers, Typed, ShownSound
    <3>3. reads[i].value = balance[a] \/ Newer(i, a) \/ Owed(0, a)
      BY <1>1, <2>4, <3>2 DEF Current, ReadsCurrent, r
    <3>4. ASSUME Newer(i, a)
          PROVE  Newer(0, a)'
      <4>1. PICK m \in 1..n : m > i /\ reads[m].unit = 0 /\ reads[m].address = a
        BY <1>2, <3>4 DEF Newer
      <4>2. m # i
        BY <1>3, <4>1
      <4> QED
        BY <1>12, <4>1, <4>2
    <3>5. ASSUME reads[i].value = balance[a]
          PROVE  c = Available(a)'
      <4>1. b = Left(units, pending, a, balance[a])
        BY <1>9, <2>4, <3>5 DEF r
      <4>2. CASE r.unit = 0
        BY <1>1, <3>1, <4>1, <4>2 DEF Available
      <4>3. CASE r.unit # 0
        <5>1. Left(units, Append(pending, r.unit), a, balance[a]) = Subtract(left, w)
          BY <2>4, <2>2, <4>3
        <5>2. pending' = Append(pending, r.unit) /\ c = Subtract(b, w)
          BY <3>1, <4>3
        <5> QED
          BY <1>1, <4>1, <5>1, <5>2 DEF Available, left
      <4> QED
        BY <4>2, <4>3
    <3>6. CASE reads[i].value = balance[a]
      BY <3>2, <3>5, <3>6
    <3>7. CASE Newer(i, a) \/ Owed(0, a)
      BY <1>13, <3>4, <3>7
    <3> QED
      BY <3>3, <3>6, <3>7
  <2> QED
    BY <2>3, <2>4
<1> QED
  BY <1>14, <1>15, <1>16, <1>17 DEF Current

-----------------------------------------------------------------------------
(* A response *)

LEMMA SomeOrderOfAll ==
    ASSUME NEW S, IsFiniteSet(S), NEW x \in S
    PROVE  \E k \in 1..Len(SetToSeq(S)) : SetToSeq(S)[k] = x
<1>1. PICK n \in Nat : n = Cardinality(S) /\ ExistsBijection(1..n, S)
  BY FS_CardinalityType
<1>2. \E f \in [1..n -> S] : IsInjective(f)
  BY <1>1 DEF ExistsBijection, Bijection, Injection
<1> DEFINE f == SetToSeq(S)
<1>3. f \in [1..n -> S] /\ IsInjective(f)
  BY <1>1, <1>2 DEF SetToSeq
<1> HIDE DEF f
<1>4. Cardinality(1..n) = n
  BY FS_Interval
<1>5. f \in Surjection(1..n, S)
  <2>1. f \in Injection(1..n, S)
    BY <1>3 DEF Injection
  <2> QED
    BY <1>1, <1>4, <2>1, FS_Injection
<1>6. PICK k \in 1..n : f[k] = x
  BY <1>5 DEF Surjection
<1>7. Len(f) = n
  <2>1. f \in Seq(S)
    BY SomeOrder DEF f
  <2> QED
    BY <1>3, <2>1, LenProperties
<1> QED
  BY <1>6, <1>7 DEF f

\* The updates that a response asks for are for whom it reports for.
LEMMA HandleAsks ==
    ASSUME Typed, NEW u \in 1..Len(units), Handle(u)
    PROVE  /\ ReadsKept
           /\ \A i \in 1..Len(reads') : i > Len(reads) => reads'[i].unit = 0
           /\ \A a : Reports(u, a) => Asked(a)
           /\ InformedAsked
<1>1. reads \in Seq(ReadsOf(0..Len(units))) /\ units[u] \in Requests /\ 0 \in 0..Len(units)
  BY DagFacts DEF Typed, ReadsSound
<1>2. CASE u \in bounced
  <2>1. CASE Call(<<>>)
    <3>1. reads' = reads /\ uninformed' = uninformed
      BY <1>1, <2>1, CallReads
    <3> QED
      BY <1>1, <1>2, <3>1, UnchangedKept, SameInformed DEF ReadsKept, Reports
  <2>2. CASE Call(<<Update(NoAddress)>>)
    <3>1. /\ Update(NoAddress) \in ReadsOf(0..Len(units))
          /\ Update(NoAddress).unit = 0 /\ ~Update(NoAddress).read
      BY <1>1, UpdateType DEF Update
    <3> HIDE DEF Update
    <3> QED
      BY <1>1, <1>2, <2>2, <3>1, CallKept DEF Reports
  <2> QED
    BY <1>2, <2>1, <2>2 DEF Handle, Bounce
<1>3. CASE u \notin bounced
  <2> DEFINE s == SetToSeq(Affected(units[u]))
  <2>1. s \in Seq(Users)
    BY <1>1, AffectedFinite, SomeOrder, SeqWider
  <2>2. \A a \in Affected(units[u]) : \E k \in 1..Len(s) : s[k] = a
    BY <1>1, AffectedFinite, SomeOrderOfAll
  <2>3. /\ reads' = reads \o Updates(s)
        /\ uninformed' = uninformed \ ({Updates(s)[i].address : i \in DOMAIN Updates(s)} \ Refused)
    BY <1>3 DEF Handle, Call
  <2> HIDE DEF s
  <2>4. Updates(s) \in Seq(ReadsOf(0..Len(units)))
    BY <1>1, <2>1, UpdatesType
  <2>5. Len(s) \in Nat /\ Len(Updates(s)) = Len(s)
        /\ \A k \in 1..Len(s) : Updates(s)[k] = Update(s[k])
    BY <2>1, <2>4, LenProperties DEF Updates
  <2>6. \A k \in 1..Len(Updates(s)) :
            /\ ~Updates(s)[k].read /\ Updates(s)[k].unit = 0
            /\ Updates(s)[k].address = s[k]
    <3> SUFFICES ASSUME NEW k \in 1..Len(Updates(s))
                 PROVE  /\ ~Updates(s)[k].read /\ Updates(s)[k].unit = 0
                        /\ Updates(s)[k].address = s[k]
      OBVIOUS
    <3>1. Updates(s)[k] = Update(s[k])
      BY <2>5
    <3>2. /\ ~Update(s[k]).read /\ Update(s[k]).unit = 0
          /\ Update(s[k]).address = s[k]
      BY DEF Update
    <3> QED
      BY <3>1, <3>2
  <2>7. /\ ReadsKept
        /\ \A k \in 1..Len(Updates(s)) : Asked(Updates(s)[k].address)
        /\ \A i \in 1..Len(reads') : i > Len(reads) => reads'[i].unit = 0
    BY <1>1, <2>3, <2>4, <2>6, ConcatKept
  <2>8. \A k \in 1..Len(s) : Asked(s[k])
    <3> SUFFICES ASSUME NEW k \in 1..Len(s)
                 PROVE  Asked(s[k])
      OBVIOUS
    <3>1. Asked(Updates(s)[k].address) /\ Updates(s)[k].address = s[k]
      BY <2>5, <2>6, <2>7
    <3> QED
      BY <3>1
  <2>9. \A a : Reports(u, a) => Asked(a)
    BY <2>2, <2>8 DEF Reports
  <2>10. InformedAsked
    <3>1. DOMAIN Updates(s) = 1..Len(Updates(s))
      BY <2>4, LenProperties
    <3> QED
      BY <2>3, <2>7, <3>1 DEF InformedAsked
  <2> QED
    BY <2>7, <2>9, <2>10
<1> QED
  BY <1>2, <1>3

\* What is available when the withdrawal in u is forgotten
LEMMA ForgetAvailable ==
    ASSUME Default = 0, Typed, NEW u, pending' = Forget(u), UNCHANGED <<units, balance>>,
           NEW a \in Customers,
           units[u].from # a \/ u \notin ToSet(pending) \/ Short(u)
    PROVE  Available(a)' = Available(a)
<1>1. /\ units \in Seq(Requests) /\ pending \in Seq(1..Len(units))
      /\ balance[a] \in Nat \cup {Absent}
  BY DEF Typed, DagSound, UnitsSound, Customers
<1> DEFINE base == IF balance[a] = Absent THEN Default ELSE balance[a]
           S == ToSet(pending) \ {u}
<1>2. base \in Nat /\ base = Amount(a)
  BY <1>1, Constants DEF Amount
<1>3. ASSUME NEW k \in 1..Len(pending)
      PROVE  \/ pending[k] \in S
             \/ units[pending[k]].from # a
             \/ units[pending[k]].amount \in Nat /\ units[pending[k]].amount > base
  <2>1. pending[k] \in ToSet(pending)
    BY <1>1, SeqSet
  <2>2. CASE pending[k] # u
    BY <2>1, <2>2
  <2>3. CASE pending[k] = u /\ units[u].from = a
    BY <1>2, <2>1, <2>3 DEF Short
  <2> QED
    BY <2>2, <2>3
<1>4. base = IF balance[a] = Absent THEN Default ELSE balance[a]
  OBVIOUS
<1> HIDE DEF base, S
<1>5. Left(units, Filter(pending, S), a, balance[a]) = Left(units, pending, a, balance[a])
  BY <1>1, <1>2, <1>3, <1>4, LeftWithout
<1> QED
  BY <1>5 DEF Available, Forget, S

LEMMA RefusedBy ==
    ASSUME Typed, NEW p \in 1..Len(responses), responses[p] \in bounced
    PROVE  units[responses[p]].from \in Refused
<1>1. responses[p] \in ToSet(responses)
  BY SeqSet DEF Typed, ResponsesSound
<1> QED
  BY <1>1 DEF Refused

LEMMA HandleCurrent ==
    ASSUME Default = 0, Typed, Current, responses # <<>>,
           NEW u, u = Head(responses), Handle(u), responses' = Tail(responses),
           UNCHANGED <<units, balance, bounced, resolving, shown, overtaken>>
    PROVE  Current'
<1>1. PICK l \in Nat : l = Len(responses)
  BY ResponseUnits
<1>2. /\ Len(responses') = l - 1 /\ l # 0
      /\ \A q \in 1..(l - 1) : responses'[q] = responses[q + 1]
      /\ responses[1] = u
  BY <1>1, HeadTailProperties, EmptySeq DEF Typed, ResponsesSound
<1>3. u \in 1..Len(units)
  BY NextResponse
<1>4. ASSUME NEW p \in Nat, NEW a, Promised(p + 1, a)
      PROVE  Promised(p, a)'
  <2>1. PICK q \in 1..l : q > p + 1 /\ responses[q] \notin bounced
                          /\ a \in Affected(units[responses[q]])
    BY <1>1, <1>4 DEF Promised, Reports
  <2>2. q - 1 \in 1..Len(responses') /\ q - 1 > p /\ responses'[q - 1] = responses[q]
    <3>1. q - 1 \in 1..(l - 1) /\ (q - 1) + 1 = q /\ q - 1 > p
      BY <2>1
    <3> QED
      BY <1>2, <3>1
  <2>3. responses'[q - 1] \notin bounced' /\ a \in Affected(units'[responses'[q - 1]])
    BY <2>1, <2>2
  <2> QED
    BY <2>2, <2>3 DEF Promised, Reports
<1>5. /\ ReadsKept
      /\ \A i \in 1..Len(reads') : i > Len(reads) => reads'[i].unit = 0
      /\ \A a : Reports(u, a) => Asked(a)
      /\ InformedAsked
  BY <1>3, HandleAsks
<1>6. OwedKept
  <2> SUFFICES ASSUME NEW a \in Customers, Promised(0, a)
               PROVE  Promised(0, a)' \/ Asked(a)
    BY <1>5 DEF OwedKept, Owed, InformedAsked
  <2>1. PICK q \in 1..l : Reports(responses[q], a)
    BY <1>1 DEF Promised
  <2>2. CASE q = 1
    BY <1>2, <1>5, <2>1, <2>2
  <2>3. CASE q # 1
    <3>1. q > 0 + 1
      BY <2>3
    <3>2. Promised(0 + 1, a)
      BY <1>1, <2>1, <3>1 DEF Promised
    <3>3. 0 \in Nat
      OBVIOUS
    <3> QED
      BY <1>4, <3>2, <3>3
  <2> QED
    BY <2>2, <2>3
<1>7. ToSet(pending') \subseteq ToSet(pending) \ {u} /\ pending' = Forget(u)
  BY ForgetType DEF Handle, Typed, UnitsSound
<1>8. OnlyWithdrawals'
  <2>1. \A v \in ToSet(pending') \cup resolving' : Withdrawing(v)
    BY <1>7 DEF Current, OnlyWithdrawals
  <2>2. ASSUME NEW i \in 1..Len(reads'), NEW v \in 1..Len(units), reads'[i].unit = v
        PROVE  Withdrawing(v) /\ reads'[i].address = units[v].from
    <3>1. ~(i > Len(reads))
      BY <1>5, <2>2
    <3>2. i \in 1..Len(reads) /\ reads'[i] = reads[i]
      BY <1>5, <3>1 DEF ReadsKept
    <3> QED
      BY <2>2, <3>2 DEF Current, OnlyWithdrawals
  <2> QED
    BY <2>1, <2>2 DEF OnlyWithdrawals, Withdrawing
<1>9. ReadsCurrent'
  BY <1>5, <1>6, ReadsCurrentKept DEF Current
<1>10. BouncedShort'
  <2> SUFFICES ASSUME NEW p \in 1..Len(responses'), NEW v \in bounced, NEW a \in Customers,
                      responses'[p] = v, Withdrawing(v), units[v].from = a
               PROVE  Short(v)' \/ Owed(p, a)'
    BY DEF BouncedShort, Customers, Withdrawing
  <2>1. p + 1 \in 1..l /\ p \in 1..(l - 1) /\ p \in Nat
    BY <1>2
  <2>2. responses[p + 1] = v
    BY <1>2, <2>1
  <2>3. Short(v) \/ Owed(p + 1, a)
    BY <1>1, <2>1, <2>2 DEF Current, BouncedShort
  <2>4. Short(v) => Short(v)'
    BY DEF Short, Amount
  <2>5. p + 1 \in 1..Len(responses)
    BY <1>1, <2>1
  <2>6. a \in uninformed => a \in uninformed'
    BY <1>5, <2>2, <2>5, RefusedBy DEF InformedAsked
  <2> QED
    BY <1>4, <2>1, <2>3, <2>4, <2>6 DEF Owed
<1>11. ShownCurrent'
  <2>1. ASSUME NEW a \in Customers
        PROVE  Available(a)' = Available(a) \/ Owed(0, a)' \/ Asked(a)
    <3>1. CASE units[u].from # a \/ u \notin ToSet(pending) \/ Short(u)
      BY <1>7, <3>1, ForgetAvailable
    <3>2. CASE units[u].from = a /\ u \in ToSet(pending) /\ ~Short(u)
      <4>1. Withdrawing(u)
        BY <3>2 DEF Current, OnlyWithdrawals
      <4>2. CASE u \notin bounced
        <5>1. a \in Affected(units[u])
          BY <1>3, <3>2, <4>1, WithdrawingFacts DEF Typed, Affected, Touched, Customers
        <5> QED
          BY <1>5, <4>2, <5>1 DEF Reports
      <4>3. CASE u \in bounced
        <5>1. 1 \in 1..Len(responses)
          BY <1>1, <1>2
        <5>2. Owed(1, a)
          BY <1>2, <3>2, <4>1, <4>3, <5>1 DEF Current, BouncedShort
        <5>3. 0 \in Nat /\ 0 + 1 = 1
          OBVIOUS
        <5>4. Promised(1, a) => Promised(0 + 1, a)
          BY <5>3
        <5>5. a \in uninformed => a \in uninformed'
          BY <1>2, <1>5, <3>2, <4>3, <5>1, RefusedBy DEF InformedAsked
        <5> QED
          BY <1>4, <5>2, <5>3, <5>4, <5>5 DEF Owed
      <4> QED
        BY <4>2, <4>3
    <3> QED
      BY <3>1, <3>2
  <2> QED
    BY <1>5, <1>6, <2>1, ShownCurrentKept DEF Current
<1> QED
  BY <1>8, <1>9, <1>10, <1>11 DEF Current

LEMMA OnAAResponseCurrent ==
    ASSUME Default = 0, Typed, Current, OnAAResponse
    PROVE  Current'
<1>1. PICK u : u = Head(responses)
  OBVIOUS
<1>2. responses # <<>> /\ UNCHANGED <<units, balance, bounced>>
  BY DEF OnAAResponse, durable
<1>3. \/ Stop
      \/ /\ Handle(u)
         /\ responses' = Tail(responses)
         /\ UNCHANGED <<resolving, shown, overtaken>>
  BY <1>1 DEF OnAAResponse
<1> QED
  BY <1>1, <1>2, <1>3, StopCurrent, HandleCurrent

LEMMA CurrentInit ==
    ASSUME Init
    PROVE  Current
<1>1. /\ reads = <<>> /\ responses = <<>> /\ pending = <<>> /\ resolving = {}
      /\ shown = [a \in Users |-> NotShown]
  BY DEF Init
<1>2. ToSet(pending) = {} /\ 1..Len(reads) = {} /\ 1..Len(responses) = {}
  BY <1>1 DEF ToSet
<1>3. OnlyWithdrawals /\ ReadsCurrent /\ BouncedShort
  BY <1>1, <1>2 DEF OnlyWithdrawals, ReadsCurrent, BouncedShort
<1>4. ShownCurrent
  BY <1>1 DEF ShownCurrent, Customers
<1> QED
  BY <1>3, <1>4 DEF Current

LEMMA CurrentStep ==
    ASSUME Default = 0, Typed, Current, [Next]_vars
    PROVE  Current'
<1>1. CASE UNCHANGED vars
  BY <1>1, SameCurrent DEF vars, durable, handlers, ghosts
<1>2. CASE Next
  <2>1. CASE \E r \in Requests : SavedUnit(r)
    BY <2>1, SavedUnitCurrent
  <2>2. ASSUME NEW u \in 1..MaxUnits,
               \/ SymbolFound(u)
               \/ CancelValidated(u)
               \/ \E refused \in BOOLEAN : Execute(u, refused)
               \/ \E address \in Users : RefreshBalances(u, address)
        PROVE  Current'
    BY <2>2, SymbolFoundCurrent, StopCurrent, ExecuteCurrent, RefreshBalancesCurrent
       DEF CancelValidated
  <2>3. ASSUME NEW u \in 1..MaxUnits, Commit(u) \/ Record(u)
        PROVE  Current'
    BY <2>3, SameCurrent DEF Commit, Record, handlers, ghosts
  <2>4. CASE \E i \in 1..Len(reads) : ReadVars(i)
    BY <2>4, ReadVarsCurrent
  <2>5. CASE \E i \in 1..Len(reads) : Answer(i)
    BY <2>5, AnswerCurrent
  <2>6. CASE OnAAResponse
    BY <2>6, OnAAResponseCurrent
  <2>7. CASE Crash
    BY <2>7, StopCurrent DEF Crash
  <2>8. CASE Restart
    BY <2>8, SameCurrent DEF Restart, durable, handlers, ghosts
  <2>9. CASE UpdateTradeStatuses
    BY <2>9, UpdateTradeStatusesCurrent
  <2> QED
    BY <1>2, <2>1, <2>2, <2>3, <2>4, <2>5, <2>6, <2>7, <2>8, <2>9 DEF Next
<1> QED
  BY <1>1, <1>2

-----------------------------------------------------------------------------
(* Theorems *)

\* Whatever units arrive and in whichever order reads, callbacks, responses
\* and crashes happen, every variable has its type; in particular the agent's
\* balances stay natural numbers, and what is pending, being read or responded
\* to are units of the DAG.
THEOREM TypeCorrect == Spec => []TypeOK
<1>1. IInv => TypeOK
  <2> SUFFICES ASSUME IInv PROVE TypeOK
    OBVIOUS
  <2>1. reads \in Seq(ReadType)
    <3>1. 0..Len(units) \subseteq 0..MaxUnits
      BY DagFacts, Constants DEF IInv, Typed, DagSound
    <3>2. ReadsOf(0..Len(units)) \subseteq ReadType
      BY <3>1 DEF ReadsOf, ReadType
    <3> QED
      BY <3>2, SeqWider DEF IInv, Typed, ReadsSound
  <2>2. shown \in [Users -> Int \cup {Absent, NaN, NotShown}]
    <3>1. ShownBalances \subseteq Int \cup {Absent, NaN, NotShown}
      BY DEF ShownBalances, Balances
    <3>2. shown \in [Users -> ShownBalances]
      BY DEF IInv, Typed, ShownSound
    <3> QED
      BY <3>1, <3>2
  <2>3. /\ units \in Seq(Requests) /\ Len(units) <= MaxUnits
        /\ balance \in [Users -> Nat \cup {Absent}]
        /\ executed \in Seq(1..Len(units))
        /\ bounced \subseteq ToSet(executed)
        /\ recorded \subseteq 1..Len(units)
        /\ settled \subseteq ToSet(executed)
        /\ early \subseteq ToSet(executed)
    BY DEF IInv, Typed, DagSound
  <2>4. responses \in Seq(ToSet(executed)) /\ announced \subseteq ToSet(executed)
    BY DEF IInv, Typed, ResponsesSound
  <2>5. /\ pending \in Seq(1..Len(units))
        /\ resolving \subseteq 1..Len(units)
        /\ validating \subseteq 1..Len(units)
        /\ outrun \subseteq 1..Len(units)
    BY DEF IInv, Typed, UnitsSound
  <2>6. overtaken \subseteq Users \cup {NoAddress} /\ uninformed \subseteq Users
    BY DEF IInv, Typed, ShownSound
  <2>7. up \in BOOLEAN /\ recovering \in BOOLEAN /\ crashes \in 0..MaxCrashes
    BY DEF IInv, Typed, FlagsSound
  <2> QED
    BY <2>1, <2>2, <2>3, <2>4, <2>5, <2>6, <2>7 DEF TypeOK
<1> QED
  BY <1>1, Inductive, PTL

\* Of an asset whose missing balance counts as 0 the backend is told natural
\* numbers only, however many withdrawals are pending, registered late or
\* forgotten between the read of a balance and the callback.
THEOREM ShownAmounts == Default = 0 => (Spec => []ShownIsAmount)
<1> SUFFICES ASSUME Default = 0 PROVE Spec => []ShownIsAmount
  OBVIOUS
<1>1. IInv => ShownIsAmount
  <2> SUFFICES ASSUME IInv, NEW a \in Users
               PROVE  shown[a] \in Nat \cup {Absent, NotShown}
    BY DEF ShownIsAmount
  <2>1. shown[a] \in ShownBalances
    BY DEF IInv, Typed, ShownSound
  <2> QED
    BY <2>1 DEF ShownBalances, Balances
<1> QED
  BY <1>1, Inductive, PTL

\* A withdrawal that the agent has responded to stays subtracted only while
\* the response is on its way, whatever is being looked up, read or recovered,
\* unless it was registered after its response.
THEOREM PendingTracked == Spec => []PendingInProgress
<1>1. IInv => PendingInProgress
  BY DEF IInv, Tracked, Watched, PendingInProgress
<1> QED
  BY <1>1, Inductive, PTL

\* Of an asset whose missing balance counts as 0: once every callback has run,
\* each customer was last told the agent's balance less what is pending (the
\* withdrawals in progress, and those registered after their response, which are
\* subtracted for good), however units, reads, executions, bounces and responses
\* interleave, unless the answer to an earlier call came last or a cancel has
\* credited bytes and no update was called for since then.
THEOREM ShownWhenQuiet == Default = 0 => (Spec => []QuietShown)
<1> SUFFICES ASSUME Default = 0 PROVE Spec => []QuietShown
  OBVIOUS
<1>1. Init => Current
  BY CurrentInit
<1>2. IInv /\ Current /\ [Next]_vars => Current'
  BY CurrentStep DEF IInv
<1>3. IInv /\ Current => QuietShown
  <2> SUFFICES ASSUME IInv, Current, Quiet, NEW a \in Customers,
                      a \notin overtaken, a \notin uninformed
               PROVE  shown[a] \in {NotShown, Displayed(a, balance[a])}
    BY DEF QuietShown, Customers
  <2>1. 1..Len(reads) = {} /\ 1..Len(responses) = {}
    BY DEF Quiet
  <2>2. ~Newer(0, a) /\ ~Owed(0, a)
    BY <2>1 DEF Newer, Owed, Promised
  <2>3. shown[a] \in {NotShown, Available(a)}
    BY <2>2 DEF Current, ShownCurrent
  <2> QED
    BY <2>3, DisplayedIsLeft DEF Available
<1> QED
  BY <1>1, <1>2, <1>3, Inductive, PTL DEF Spec

=============================================================================
