----------------------- MODULE OperatorWallet_proofs -----------------------
(***************************************************************************)
(* Proofs about OperatorWallet: no payment is made that the wallet cannot  *)
(* pay for, and the checks that overlap stay within their bound.           *)
(***************************************************************************)
EXTENDS OperatorWallet, TLAPS

How == {"new", "pending", "missed"}

\* One check moves on: from a step at which one waits, to the end or to the next step.
LEMMA ChecksMove ==
  ASSUME NEW n \in [Steps -> Nat], NEW s \in Steps, NEW t \in Steps, n[s] > 0, s # t
  PROVE  /\ From(s, n) \in [Steps -> Nat]
         /\ From(s, n)[s] = n[s] - 1
         /\ \A r \in Steps \ {s} : From(s, n)[r] = n[r]
         /\ To(t, From(s, n)) \in [Steps -> Nat]
         /\ To(t, From(s, n))[s] = n[s] - 1
         /\ To(t, From(s, n))[t] = n[t] + 1
         /\ \A r \in Steps \ {s, t} : To(t, From(s, n))[r] = n[r]
  BY DEF From, To

LEMMA FirstCheck ==
  /\ To("outputs", NoChecks) \in [Steps -> Nat]
  /\ To("outputs", NoChecks)["outputs"] = 1
  /\ To("outputs", NoChecks)["exchange"] = 0
  /\ To("outputs", NoChecks)["withdraw"] = 0
  BY DEF To, NoChecks, Steps

LEMMA TypeInit == Init => TypeOK
<1> SUFFICES ASSUME Init PROVE TypeOK
  OBVIOUS
<1>1. {wallet, exchange, trades, late} \subseteq Nat
  BY WalletAssumption DEF Init
<1>2. checks \in [Steps -> Nat] /\ Running <= MaxChecks
  BY FirstCheck, WalletAssumption DEF Init, Running
<1>3. requests \in Seq(How)
  BY DEF Init
<1>4. up \in BOOLEAN /\ timer \in BOOLEAN /\ outrun \in BOOLEAN /\ told \in BOOLEAN
  BY DEF Init
<1>5. topUps \in 0..MaxTopUps /\ crashes \in 0..MaxCrashes
  BY WalletAssumption DEF Init
<1> QED
  BY <1>1, <1>2, <1>3, <1>4, <1>5 DEF TypeOK, How

LEMMA TypeStep == TypeOK /\ [Next]_vars => TypeOK'
<1> SUFFICES ASSUME TypeOK, [Next]_vars PROVE TypeOK'
  OBVIOUS
<1>t. /\ wallet \in Nat /\ exchange \in Nat /\ trades \in Nat /\ late \in Nat
      /\ requests \in Seq(How)
      /\ up \in BOOLEAN /\ timer \in BOOLEAN /\ outrun \in BOOLEAN /\ told \in BOOLEAN
      /\ checks \in [Steps -> Nat] /\ Running <= MaxChecks
      /\ topUps \in 0..MaxTopUps /\ crashes \in 0..MaxCrashes
  BY DEF TypeOK, How
<1>s. {"outputs", "exchange", "withdraw"} = Steps
  BY DEF Steps
<1>n. MaxChecks \in Nat \ {0} /\ MaxTopUps \in Nat /\ MaxCrashes \in Nat
  BY WalletAssumption
<1>p. ASSUME /\ wallet' \in Nat /\ exchange' \in Nat /\ trades' \in Nat /\ late' \in Nat
             /\ requests' \in Seq(How)
             /\ up' \in BOOLEAN /\ timer' \in BOOLEAN /\ outrun' \in BOOLEAN /\ told' \in BOOLEAN
             /\ checks' \in [Steps -> Nat] /\ Running' <= MaxChecks
             /\ topUps' \in 0..MaxTopUps /\ crashes' \in 0..MaxCrashes
      PROVE  TypeOK'
  BY <1>p DEF TypeOK, How
\* A check ends, or moves on.
<1>e. ASSUME NEW s \in Steps, checks[s] > 0, Ended(s)
      PROVE  checks' \in [Steps -> Nat] /\ Running' <= MaxChecks /\ timer' \in BOOLEAN
  <2>1. PICK t \in Steps : s # t
    BY <1>s
  <2>2. checks' = From(s, checks) /\ timer' = TRUE
    BY <1>e DEF Ended
  <2>3. /\ checks' \in [Steps -> Nat] /\ checks'[s] = checks[s] - 1
        /\ \A r \in Steps \ {s} : checks'[r] = checks[r]
    BY <1>e, <1>t, <2>1, <2>2, ChecksMove
  <2>4. Running' = Running - 1
    <3>1. CASE s = "outputs"
      BY <1>t, <2>3, <3>1 DEF Running, Steps
    <3>2. CASE s = "exchange"
      BY <1>t, <2>3, <3>2 DEF Running, Steps
    <3>3. CASE s = "withdraw"
      BY <1>t, <2>3, <3>3 DEF Running, Steps
    <3> QED
      BY <3>1, <3>2, <3>3 DEF Steps
  <2>5. Running \in Int
    BY <1>t, <1>s DEF Running, Steps
  <2> QED
    BY <1>t, <1>n, <2>2, <2>3, <2>4, <2>5
<1>m. ASSUME NEW s \in Steps, NEW t \in Steps, s # t, checks[s] > 0,
             checks' = To(t, From(s, checks))
      PROVE  checks' \in [Steps -> Nat] /\ Running' <= MaxChecks
  <2>1. /\ checks' \in [Steps -> Nat]
        /\ checks'[s] = checks[s] - 1 /\ checks'[t] = checks[t] + 1
        /\ \A r \in Steps \ {s, t} : checks'[r] = checks[r]
    BY <1>m, <1>t, ChecksMove
  <2>2. Running' = Running
    <3>1. PICK r \in Steps : Steps = {r, s, t} /\ r # s /\ r # t
      BY <1>m DEF Steps
    <3>2. Running = checks[r] + checks[s] + checks[t]
      BY <1>t, <1>m, <3>1 DEF Running, Steps
    <3>3. Running' = checks'[r] + checks'[s] + checks'[t]
      BY <2>1, <1>m, <3>1 DEF Running, Steps
    <3> QED
      BY <1>t, <2>1, <3>1, <3>2, <3>3
  <2> QED
    BY <1>t, <2>1, <2>2
<1>1. ASSUME BeginCheck PROVE TypeOK'
  <2>1. checks' \in [Steps -> Nat] /\ Running' <= MaxChecks
    BY <1>1, <1>t, <1>n, <1>s DEF BeginCheck, Running, To
  <2> QED
    BY <1>1, <1>t, <2>1 DEF BeginCheck, TypeOK, How, money
<1>2. ASSUME ReadOutputsBalance PROVE TypeOK'
  <2>1. checks' \in [Steps -> Nat] /\ Running' <= MaxChecks /\ timer' \in BOOLEAN
    BY <1>2, <1>t, <1>s, <1>e, <1>m DEF ReadOutputsBalance
  <2> QED
    BY <1>2, <1>t, <2>1 DEF ReadOutputsBalance, TypeOK, How, money
<1>3. ASSUME GetBalance PROVE TypeOK'
  <2>1. checks' \in [Steps -> Nat] /\ Running' <= MaxChecks /\ timer' \in BOOLEAN
    BY <1>3, <1>t, <1>s, <1>e, <1>m DEF GetBalance
  <2>2. told' \in BOOLEAN
    BY <1>3 DEF GetBalance
  <2> QED
    BY <1>3, <1>t, <2>1, <2>2 DEF GetBalance, TypeOK, How, money
<1>4. ASSUME Withdraw PROVE TypeOK'
  <2>1. checks' \in [Steps -> Nat] /\ Running' <= MaxChecks /\ timer' \in BOOLEAN
    BY <1>4, <1>s, <1>e DEF Withdraw
  <2>2. wallet' \in Nat /\ requests' \in Seq(How)
    BY <1>4, <1>t DEF Withdraw, How
  <2> QED
    BY <1>4, <1>t, <2>1, <2>2 DEF Withdraw, TypeOK, How
<1>5. ASSUME NEW i \in DOMAIN requests, RegisterRequest(i) PROVE TypeOK'
  <2>1. requests' \in Seq(How)
    BY <1>5, <1>t DEF RegisterRequest, How
  <2> QED
    BY <1>5, <1>t, <2>1 DEF RegisterRequest, TypeOK, How, memory, Running
<1>6. ASSUME RegisterLate PROVE TypeOK'
  BY <1>6, <1>t DEF RegisterLate, TypeOK, How, money, Running
<1>7. ASSUME AgentPays PROVE TypeOK'
  <2>1. requests' \in Seq(How)
    BY <1>7, <1>t DEF AgentPays
  <2>2. wallet' \in Nat /\ exchange' \in Nat /\ late' \in Nat
    BY <1>7, <1>t DEF AgentPays
  <2>3. told' \in BOOLEAN
    BY <1>7 DEF AgentPays
  <2>4. /\ trades' = trades /\ up' = up /\ timer' = timer /\ checks' = checks
        /\ outrun' = outrun /\ topUps' = topUps /\ crashes' = crashes
    BY <1>7 DEF AgentPays
  <2>5. Running' = Running
    BY <2>4 DEF Running
  <2> QED
    BY <1>t, <2>1, <2>2, <2>3, <2>4, <2>5, <1>p
<1>8. ASSUME SendTrade PROVE TypeOK'
  BY <1>8, <1>t DEF SendTrade, TypeOK, How, memory, Running
<1>9. ASSUME AgentTrades PROVE TypeOK'
  BY <1>9, <1>t DEF AgentTrades, TypeOK, How, memory, Running
<1>10. ASSUME TopUp PROVE TypeOK'
  <2>1. wallet' \in Nat /\ topUps' \in 0..MaxTopUps
    BY <1>10, <1>t, <1>n DEF TopUp
  <2>2. told' \in BOOLEAN
    BY <1>10 DEF TopUp
  <2>3. /\ exchange' = exchange /\ trades' = trades /\ requests' = requests /\ up' = up
        /\ timer' = timer /\ checks' = checks /\ late' = late /\ outrun' = outrun
        /\ crashes' = crashes
    BY <1>10 DEF TopUp, memory
  <2>4. Running' = Running
    BY <2>3 DEF Running
  <2> QED
    BY <1>t, <2>1, <2>2, <2>3, <2>4, <1>p
<1>11. ASSUME Crash PROVE TypeOK'
  <2>1. checks' \in [Steps -> Nat] /\ Running' <= MaxChecks
    BY <1>11, <1>n, <1>s DEF Crash, NoChecks, Running
  <2>2. requests' \in Seq(How)
    BY <1>11, <1>t DEF Crash, How
  <2>3. up' \in BOOLEAN /\ timer' \in BOOLEAN /\ outrun' \in BOOLEAN
    BY <1>11 DEF Crash
  <2>4. late' \in Nat /\ crashes' \in 0..MaxCrashes
    BY <1>11, <1>t, <1>n DEF Crash
  <2>5. /\ wallet' = wallet /\ exchange' = exchange /\ trades' = trades
        /\ told' = told /\ topUps' = topUps
    BY <1>11 DEF Crash
  <2> QED
    BY <1>t, <2>1, <2>2, <2>3, <2>4, <2>5, <1>p
<1>12. ASSUME Restart PROVE TypeOK'
  <2>1. checks' \in [Steps -> Nat] /\ Running' <= MaxChecks
    BY <1>12, <1>n, FirstCheck DEF Restart, Running
  <2> QED
    BY <1>12, <1>t, <2>1 DEF Restart, TypeOK, How, money
<1>13. CASE UNCHANGED vars
  BY <1>13, <1>t DEF vars, money, memory, TypeOK, How, Running
<1> QED
  BY <1>1, <1>2, <1>3, <1>4, <1>5, <1>6, <1>7, <1>8, <1>9, <1>10, <1>11, <1>12, <1>13
     DEF Next, Check

\* No withdrawal or trade is sent that the wallet cannot pay for, and the checks
\* that overlap stay within their number, whatever the thresholds are.
THEOREM TypeCorrect == Spec => []TypeOK
  BY TypeInit, TypeStep, PTL DEF Spec
=============================================================================
