--------------------------- MODULE RateReportProofs ---------------------------
(***************************************************************************)
(* No hash is reported twice, and the statistics server finds rates to     *)
(* divide by while the connection stays up, for any window, interval and   *)
(* number of hashes.                                                       *)
(***************************************************************************)
EXTENDS RateReport, LeastNumber, SequenceTheorems, TLAPS

\* Between the load and the store of the counter the handler's copy is part of the
\* counter still; after the store it is on its own until it is pushed.
CountInv ==
  /\ counter \in Nat /\ currentHashes \in Nat /\ done \in Nat /\ reported \in Nat
  /\ rep \in RepPc
  /\ NeverOverReports
  /\ rep = "store" => currentHashes <= counter

LEMMA InitCount == Init => CountInv
  BY DEF Init, CountInv, NeverOverReports, RepPc

LEMMA StepCount == CountInv /\ [Next]_vars => CountInv'
<1> SUFFICES ASSUME CountInv, [Next]_vars PROVE CountInv'
  OBVIOUS
<1> USE DEF CountInv, NeverOverReports, RepPc, RepGoto
<1>1. CASE Hash BY <1>1 DEF Hash, locals, server, history
<1>2. CASE Handler
  <2>1. CASE Tick BY <2>1 DEF Tick, locals, server, history
  <2>2. CASE Load BY <2>2 DEF Load, server, history
  <2>3. CASE Store BY <2>3 DEF Store, locals, server, history
  <2>4. CASE Push BY <2>4 DEF Push, locals, server
  <2>5. CASE Sum \/ Mean BY <2>5 DEF Sum, Mean, server, history
  <2>6. CASE Scale BY <2>6 DEF Scale, locals, server, history
  <2>7. CASE Report BY <2>7 DEF Report, server, history
  <2> QED BY <1>2, <2>1, <2>2, <2>3, <2>4, <2>5, <2>6, <2>7 DEF Handler
<1>3. CASE Session BY <1>3 DEF Session, Lose, ClearRates, Recover, locals, server, history
<1>4. CASE Stats BY <1>4 DEF Stats, Accumulate, Divide, Client, locals, history
<1>5. CASE UNCHANGED vars BY <1>5 DEF vars, locals, server, history
<1> QED BY <1>1, <1>2, <1>3, <1>4, <1>5 DEF Next

\* The hashes that ever enter the rates never exceed those the miners did, however
\* their increments fall between the handler's load and store.
THEOREM RatesNeverInflated == Spec => []NeverOverReports
<1>1. CountInv => NeverOverReports BY DEF CountInv
<1> QED BY <1>1, InitCount, StepCount, PTL DEF Spec

-----------------------------------------------------------------------------
\* From the first rate after the connection came up the vector is never empty: an
\* entry is dropped only as another comes, and it is cleared only when it is lost.
RatesInv ==
  /\ rate30sec \in Seq(Nat) /\ currentHashes \in Nat /\ counter \in Nat
  /\ alive \in BOOLEAN /\ sess \in {"up", "lost", "down"}
  /\ sess = "up" /\ sampled => rate30sec # <<>>

LEMMA StepRates == RatesInv /\ [Next]_vars => RatesInv'
<1> SUFFICES ASSUME RatesInv, [Next]_vars PROVE RatesInv'
  OBVIOUS
<1> USE DEF RatesInv, RepGoto
<1>1. CASE Hash BY <1>1 DEF Hash, locals, server, history
<1>2. CASE Handler
  <2>1. CASE Tick BY <2>1 DEF Tick, locals, server, history
  <2>2. CASE Load BY <2>2 DEF Load, server, history
  <2>3. CASE Store BY <2>3 DEF Store, locals, server, history
  <2>4. CASE Push
    <3>1. ReportAssumption /\ Len(rate30sec) \in Nat
      BY ReportAssumption
    <3>2. ~(Len(rate30sec) <= Window) => Tail(rate30sec) \in Seq(Nat)
      BY <3>1, Len(<<>>) = 0 DEF ReportAssumption
    <3>3. \A s \in Seq(Nat) :
            /\ Append(s, currentHashes) \in Seq(Nat)
            /\ Append(s, currentHashes) # <<>>
      OBVIOUS
    <3> QED BY <2>4, <3>2, <3>3 DEF Push, locals, server
  <2>5. CASE Sum \/ Mean BY <2>5 DEF Sum, Mean, server, history
  <2>6. CASE Scale BY <2>6 DEF Scale, locals, server, history
  <2>7. CASE Report BY <2>7 DEF Report, server, history
  <2> QED BY <1>2, <2>1, <2>2, <2>3, <2>4, <2>5, <2>6, <2>7 DEF Handler
<1>3. CASE Session
  <2>1. CASE Lose BY <2>1 DEF Lose, locals, server, history
  <2>2. CASE ClearRates BY <2>2 DEF ClearRates, locals, server, history
  <2>3. CASE Recover BY <2>3 DEF Recover, locals, server
  <2> QED BY <1>3, <2>1, <2>2, <2>3 DEF Session
<1>4. CASE Stats
  <2>1. UNCHANGED <<rate30sec, currentHashes, counter, sess, sampled>>
    BY <1>4 DEF Stats, Accumulate, Divide, Client, locals, history
  <2>2. alive' \in BOOLEAN
    <3>1. CASE Accumulate BY <3>1 DEF Accumulate
    <3>2. CASE Divide BY <3>2 DEF Divide
    <3> QED BY <1>4, <3>1, <3>2 DEF Stats
  <2> QED BY <2>1, <2>2
<1>5. CASE UNCHANGED vars BY <1>5 DEF vars, locals, server, history
<1> QED BY <1>1, <1>2, <1>3, <1>4, <1>5 DEF Next

LEMMA DivisionByRates ==
  RatesInv /\ [Next]_vars => (alive /\ ~alive' => sess # "up" \/ ~sampled)
<1> SUFFICES ASSUME RatesInv, [Next]_vars, alive, ~alive', sess = "up", sampled
             PROVE FALSE
  OBVIOUS
<1>1. rate30sec # <<>> BY DEF RatesInv
<1>2. ~Hash BY DEF Hash, server
<1>3. ~Handler
  BY DEF Handler, Tick, Load, Store, Push, Sum, Mean, Scale, Report, server
<1>4. ~Session BY DEF Session, Lose, ClearRates, Recover, server
<1>5. ~Stats BY <1>1 DEF Stats, Accumulate, Divide
<1>6. ~UNCHANGED vars BY DEF vars, server
<1> QED BY <1>2, <1>3, <1>4, <1>5, <1>6 DEF Next

\* Whatever the order of the handler's, the session's and the server's steps, only a
\* request before the first rate or while the connection is lost divides by zero.
THEOREM StatsDivideByRates == Spec => StatsSafeWhileMining
<1>1. Init => RatesInv BY DEF Init, RatesInv
<1>2. RatesInv /\ [Next]_vars => [alive /\ ~alive' => sess # "up" \/ ~sampled]_vars
  BY DivisionByRates
<1> QED BY <1>1, <1>2, StepRates, PTL DEF Spec, StatsSafeWhileMining

-----------------------------------------------------------------------------
\* The sums that Total goes through.
Adds(s, n, f) ==
  /\ f \in [0..n -> Nat] /\ f[0] = 0
  /\ \A j \in 1..n : f[j] = f[j - 1] + s[j]

LEMMA SumsExist ==
  ASSUME NEW s \in Seq(Nat), NEW n \in 0..Len(s)
  PROVE  \E f : Adds(s, n, f)
<1> DEFINE T == {i \in 0..Len(s) : ~ \E f : Adds(s, i, f)}
<1>1. Len(s) \in Nat /\ \A j \in 1..Len(s) : s[j] \in Nat
  BY LenProperties
<1>2. SUFFICES ASSUME T # {} PROVE FALSE
  OBVIOUS
<1>3. T \in SUBSET Nat
  BY <1>1
<1>4. PICK x \in T : \A y \in T : x <= y
  BY <1>2, <1>3, LeastElement
<1>5. x # 0
  <2>1. Adds(s, 0, [j \in 0..0 |-> 0])
    BY DEF Adds
  <2> QED BY <2>1
<1>6. x \in 1..Len(s) /\ x - 1 \in 0..Len(s) /\ x - 1 \notin T
  <2>1. x \in 0..Len(s) /\ x - 1 \in Nat /\ x \in Nat
    BY <1>1, <1>4, <1>5
  <2>2. ~(x <= x - 1)
    BY <2>1
  <2>3. x - 1 \notin T
    BY <1>4, <2>2
  <2> QED BY <1>1, <1>5, <2>1, <2>3
<1>7. PICK f : Adds(s, x - 1, f)
  BY <1>6
<1> DEFINE g == [j \in 0..x |-> IF j = x THEN f[x - 1] + s[x] ELSE f[j]]
<1>8. Adds(s, x, g)
  <2>1. f \in [0..(x - 1) -> Nat] /\ f[0] = 0 /\ s[x] \in Nat /\ x \in Nat /\ x > 0
        /\ \A j \in 1..(x - 1) : f[j] = f[j - 1] + s[j]
    BY <1>1, <1>6, <1>7 DEF Adds
  <2>2. g \in [0..x -> Nat] /\ g[0] = 0
    BY <2>1
  <2>3. ASSUME NEW j \in 1..x PROVE g[j] = g[j - 1] + s[j]
    BY <2>1
  <2> QED BY <2>2, <2>3 DEF Adds
<1> QED BY <1>4, <1>8

LEMMA TotalType ==
  ASSUME NEW s \in Seq(Nat)
  PROVE  Total(s) \in Nat
<1> DEFINE n == Len(s)
           Step(g) == [i \in 0..n |-> IF i = 0 THEN 0 ELSE g[i - 1] + s[i]]
           sum == CHOOSE g : g = Step(g)
<1>1. n \in Nat
  BY LenProperties
<1>2. PICK f : Adds(s, n, f)
  BY <1>1, SumsExist
<1>3. f = Step(f)
  <2>1. f \in [0..n -> Nat] /\ \A i \in 0..n : f[i] = IF i = 0 THEN 0 ELSE f[i - 1] + s[i]
    BY <1>1, <1>2 DEF Adds
  <2> QED BY <2>1
<1>4. sum = Step(sum)
  BY <1>3
<1>5. Total(s) = sum[n]
  BY DEF Total
<1> HIDE DEF sum
<1>6. \A i \in 0..n : sum[i] = IF i = 0 THEN 0 ELSE sum[i - 1] + s[i]
  BY <1>4
<1> DEFINE T == {i \in 0..n : sum[i] \notin Nat}
<1>7. T = {}
  <2> SUFFICES ASSUME T # {} PROVE FALSE
    OBVIOUS
  <2>1. T \in SUBSET Nat
    BY <1>1
  <2>2. PICK x \in T : \A y \in T : x <= y
    BY <2>1, LeastElement
  <2>3. x # 0
    BY <1>1, <1>6, <2>2
  <2>4. x - 1 \in 0..n /\ x - 1 \notin T /\ x \in 1..n
    BY <1>1, <2>2, <2>3
  <2>5. s[x] \in Nat
    BY <1>1, <2>4, ElementOfSeq
  <2> QED BY <1>6, <2>2, <2>3, <2>4, <2>5
<1> QED BY <1>1, <1>5, <1>7

\* The counter, the rates and their sums are natural numbers, whatever the handler, the
\* sessions and the statistics server do between each other's steps.
THEOREM ReportTypeCorrect == Spec => []TypeOK
<1>1. Init => TypeOK
  <2> SUFFICES ASSUME Init PROVE TypeOK
    OBVIOUS
  <2>1. rate30sec \in Seq(Nat)
    BY EmptySeq DEF Init
  <2>2. rep \in RepPc /\ sess \in {"up", "lost", "down"} /\ srv \in {"idle", "divide"}
    BY DEF Init, RepPc
  <2>3. isConnected \in BOOLEAN /\ alive \in BOOLEAN /\ sampled \in BOOLEAN
    BY DEF Init
  <2>4. /\ counter \in Nat /\ currentHashes \in Nat /\ total \in Nat /\ size \in Nat
        /\ reportCounter \in Nat /\ srvTotal \in Nat /\ done \in Nat /\ reported \in Nat
    BY DEF Init
  <2> QED BY <2>1, <2>2, <2>3, <2>4 DEF TypeOK
<1>2. TypeOK /\ [Next]_vars => TypeOK'
  <2> SUFFICES ASSUME TypeOK, [Next]_vars PROVE TypeOK'
    OBVIOUS
  <2> USE DEF TypeOK, RepGoto, RepPc
  <2>1. CASE Hash BY <2>1 DEF Hash, locals, server
  <2>2. CASE Tick BY <2>2 DEF Tick, locals, server, history
  <2>3. CASE Load BY <2>3 DEF Load, server, history
  <2>4. CASE Store BY <2>4 DEF Store, locals, server, history
  <2>5. CASE Push
    <3>1. rate30sec' \in Seq(Nat)
      <4>1. Tail(rate30sec) \in Seq(Nat) \/ rate30sec = <<>>
        BY HeadTailProperties
      <4>2. Len(<<>>) <= Window
        BY ReportAssumption
      <4>3. \A r \in Seq(Nat) : Append(r, currentHashes) \in Seq(Nat)
        OBVIOUS
      <4> QED BY <2>5, <4>1, <4>2, <4>3 DEF Push
    <3> QED BY <2>5, <3>1 DEF Push, locals, server
  <2>6. CASE Sum BY <2>6, TotalType DEF Sum, server, history
  <2>7. CASE Mean BY <2>7, LenProperties DEF Mean, server, history
  <2>8. CASE Scale BY <2>8 DEF Scale, locals, server, history
  <2>9. CASE Report BY <2>9 DEF Report, server, history
  <2>10. CASE Lose BY <2>10 DEF Lose, locals, server, history
  <2>11. CASE ClearRates BY <2>11, EmptySeq DEF ClearRates, locals, server, history
  <2>12. CASE Recover BY <2>12 DEF Recover, locals, server
  <2>13. CASE Accumulate BY <2>13, TotalType DEF Accumulate, Client, locals, history
  <2>14. CASE Divide BY <2>14 DEF Divide, Client, locals, history
  <2>15. CASE UNCHANGED vars BY <2>15 DEF vars, locals, server, history
  <2> QED
    BY <2>1, <2>2, <2>3, <2>4, <2>5, <2>6, <2>7, <2>8, <2>9, <2>10, <2>11, <2>12, <2>13,
       <2>14, <2>15
    DEF Next, Handler, Session, Stats
<1> QED BY <1>1, <1>2, PTL DEF Spec
=============================================================================
