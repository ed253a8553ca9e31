-------------------------- MODULE ShareHandoffProofs --------------------------
(***************************************************************************)
(* What ShareHandoff guarantees for every number of miners, every subset   *)
(* of the connections, both kinds of session and every bound: proofs       *)
(* checked by TLAPS.                                                       *)
(***************************************************************************)
EXTENDS ShareHandoff, TLAPS

\* A miner's step changes its own record only, and leaves it well formed.
LEMMA MinerStepTyped ==
  ASSUME TypeOK, NEW m \in Miners, MinerNext(m)
  PROVE  miner' \in [Miners -> MinerState]
<1>1. miner \in [Miners -> MinerState] /\ miner[m] \in MinerState
  BY DEF TypeOK
<1>2. ASSUME NEW r \in MinerState, miner' = [miner EXCEPT ![m] = r]
      PROVE  miner' \in [Miners -> MinerState]
  BY <1>1, <1>2
<1>3. ASSUME NEW p \in MinerPc, NEW q \in MinerPc, MinerGoto(m, p, q)
      PROVE  miner' \in [Miners -> MinerState]
  <2>1. [miner[m] EXCEPT !.pc = q] \in MinerState
    BY <1>1 DEF MinerState
  <2> QED BY <1>1, <1>3, <2>1 DEF MinerGoto
<1>4. ASSUME NEW p \in MinerPc, NEW q \in MinerPc, MinerResumes(m, p, q)
      PROVE  miner' \in [Miners -> MinerState]
  <2> DEFINE r == [Unborn EXCEPT !.pc = q,
                                 !.job = IF q = "hash" THEN miner[m].job ELSE 0,
                                 !.hasDev = q = "hash" /\ miner[m].hasDev]
  <2>1. r \in MinerState
    BY <1>1, HandoffAssumption DEF MinerState, Unborn, HandoffAssumption
  <2> QED BY <1>2, <1>4, <2>1 DEF MinerResumes
<1>5. AfterLoop \in MinerPc /\ AfterHash \in MinerPc /\ AfterThrow \in MinerPc
  BY DEF AfterLoop, AfterHash, AfterThrow, MinerPc
<1> USE DEF MinerPc
<1>6. CASE MinerIdle(m) BY <1>3, <1>6 DEF MinerIdle
<1>7. CASE MinerCopy(m)
  <2>1. [miner[m] EXCEPT !.pc = "hash", !.job = jobCounter,
           !.hasDev = "dev" \in Kinds /\ posted["dev"] > 0] \in MinerState
    BY <1>1 DEF TypeOK, MinerState
  <2> QED BY <1>2, <1>7, <2>1 DEF MinerCopy
<1>8. CASE MinerAborts(m) BY <1>3, <1>8 DEF MinerAborts
<1>9. CASE MinerNewJob(m) BY <1>4, <1>5, <1>9 DEF MinerNewJob
<1>10. CASE MinerCloses(m) BY <1>4, <1>10 DEF MinerCloses
<1>11. ASSUME NEW k \in Kinds, MinerTries(m, k)
       PROVE  miner' \in [Miners -> MinerState]
  <2>1. [miner[m] EXCEPT !.pc = "hashing", !.kind = k] \in MinerState
    BY <1>1 DEF MinerState
  <2> QED BY <1>2, <1>11, <2>1 DEF MinerTries
<1>12. CASE MinerMisses(m) BY <1>4, <1>5, <1>12 DEF MinerMisses
<1>13. CASE MinerFinds(m)
  <2> DEFINE b == IF XelisMiner THEN SlotFree(m) ELSE ~submitting[miner[m].kind]
  <2>1. b \in BOOLEAN
    <3>1. SlotFree(m) \in BOOLEAN /\ (~submitting[miner[m].kind]) \in BOOLEAN
      BY Zenon DEF SlotFree
    <3> QED BY <3>1, Zenon
  <2> HIDE DEF b
  <2>2. [miner[m] EXCEPT !.pc = "slot", !.submit = b] \in MinerState
    BY <1>1, <2>1 DEF MinerState
  <2>3. miner' = [miner EXCEPT ![m] = [miner[m] EXCEPT !.pc = "slot", !.submit = b]]
    BY <1>13, Zenon DEF MinerFinds, b
  <2> QED BY <1>2, <2>2, <2>3
<1>14. CASE MinerSlot(m) BY <1>3, <1>4, <1>5, <1>14 DEF MinerSlot
<1>15. CASE MinerClaim(m) BY <1>3, <1>4, <1>5, <1>15 DEF MinerClaim
<1>16. CASE MinerFill(m) BY <1>3, <1>4, <1>5, <1>16 DEF MinerFill
<1>17. CASE MinerNotify(m) BY <1>4, <1>5, <1>17 DEF MinerNotify
<1>18. CASE MinerNudges(m) BY <1>3, <1>18 DEF MinerNudges
<1>19. CASE MinerNudged(m) BY <1>4, <1>5, <1>19 DEF MinerNudged
<1> QED
  BY <1>6, <1>7, <1>8, <1>9, <1>10, <1>11, <1>12, <1>13, <1>14, <1>15, <1>16,
     <1>17, <1>18, <1>19 DEF MinerNext

\* What a miner's step can touch besides its own record.
LEMMA MinerStepFrame ==
  ASSUME TypeOK, NEW m \in Miners, MinerNext(m)
  PROVE  /\ UNCHANGED <<mutex, connected, posted, jobCounter, ABORT_MINER,
                        interrupted, sessVars, sent>>
         /\ sub' = sub \/ sub' = Woken
         /\ data_ready' = data_ready \/ data_ready' = TRUE
         /\ \/ UNCHANGED <<submitting, claims>>
            \/ \E k \in Kinds : /\ submitting' = [submitting EXCEPT ![k] = TRUE]
                               /\ claims' = [claims EXCEPT ![k] = @ + 1]
<1> USE DEF flags, history
<1>1. CASE MinerClaim(m)
  <2>1. miner[m].kind \in Kinds BY DEF TypeOK, MinerState
  <2> QED BY <1>1, <2>1 DEF MinerClaim
<1>2. CASE MinerFill(m) BY <1>2 DEF MinerFill
<1>3. CASE MinerNotify(m) BY <1>3 DEF MinerNotify
<1>4. CASE UNCHANGED <<mutex, flags, sessVars, sub, history>>
  BY <1>4
<1>5. CASE MinerNudges(m) \/ MinerNudged(m)
  BY <1>5 DEF MinerNudges, MinerNudged
<1> QED
  BY <1>1, <1>2, <1>3, <1>4, <1>5
  DEF MinerNext, MinerIdle, MinerCopy, MinerAborts, MinerNewJob, MinerCloses,
      MinerTries, MinerMisses, MinerFinds, MinerSlot

\* The state variables keep their types: in particular the program counters of
\* the sessions, the submit threads and the miners never leave the code.
THEOREM TypeCorrect == Spec => []TypeOK
<1> USE HandoffAssumption
    DEF HandoffAssumption, TypeOK, flags, sessVars, sessVarsButPc, history
<1>1. Init => TypeOK
  <2>1. Unborn \in MinerState
    BY DEF Unborn, MinerState, MinerPc
  <2>2. Init => miner \in [Miners -> MinerState]
    BY <2>1 DEF Init
  <2>3. Init => /\ sess \in [Kinds -> SessPc] /\ sub \in [Kinds -> SubPc]
                /\ leaving \in [Kinds -> {"fail", "other", "abort"}]
    BY DEF Init, SessPc, SubPc
  <2>4. Init => /\ submitting \in [Kinds -> BOOLEAN]
                /\ connected \in [Kinds -> BOOLEAN]
                /\ abort \in [Kinds -> BOOLEAN]
                /\ submitThread \in [Kinds -> BOOLEAN]
                /\ inflight \in [Kinds -> BOOLEAN]
                /\ interrupted \in [Kinds -> BOOLEAN]
    BY DEF Init
  <2>5. Init => /\ posted \in [Kinds -> Nat]
                /\ claims \in [Kinds -> Nat] /\ sent \in [Kinds -> Nat]
    BY DEF Init
  <2>6. Init => /\ mutex \in Kinds \cup {"none"} /\ jobCounter \in Nat
    BY DEF Init
  <2>7. Init => data_ready \in BOOLEAN /\ ABORT_MINER \in BOOLEAN
    BY Zenon DEF Init
  <2> QED BY <2>2, <2>3, <2>4, <2>5, <2>6, <2>7
<1>2. TypeOK /\ [Next]_vars => TypeOK'
  <2> SUFFICES ASSUME TypeOK, [Next]_vars PROVE TypeOK'
    OBVIOUS
  <2>1. ASSUME NEW k \in Kinds, SessNext(k) PROVE TypeOK'
    <3>1. CASE Retry(k) BY <3>1 DEF Retry, SessGoto, SessPc
    <3>2. CASE ConnectFails(k) BY <3>2 DEF ConnectFails, SessGoto, SessPc
    <3>3. CASE Connect(k) BY <3>3 DEF Connect, SessGoto, SessPc, SubPc
    <3>4. CASE SessRead(k)
      <4>1. CASE ReadJob(k)
        <5>1. posted' \in [Kinds -> Nat] BY <4>1 DEF ReadJob
        <5> QED BY <4>1, <5>1 DEF ReadJob, SessGoto, SessPc
      <4>2. CASE ReadOther(k)
        <5>1. posted' \in [Kinds -> Nat] BY <4>2 DEF ReadOther
        <5> QED BY <4>2, <5>1 DEF ReadOther, SessGoto, SessPc
      <4>3. CASE ReadFails(k) \/ OtherExit(k)
        BY <4>3 DEF ReadFails, OtherExit, SessGoto, SessPc
      <4> QED BY <3>4, <4>1, <4>2, <4>3 DEF SessRead
    <3>5. CASE PostConnected(k) BY <3>5 DEF PostConnected, SessGoto, SessPc
    <3>6. CASE BumpJobCounter(k) BY <3>6 DEF BumpJobCounter, SessGoto, SessPc
    <3>7. CASE WriteCompletes(k) BY <3>7 DEF WriteCompletes
    <3>8. CASE LoopTop(k) \/ LoopEnds(k)
      BY <3>8 DEF LoopTop, LoopEnds, SessGoto, SessPc
    <3>9. CASE SetForDisconnected(k)
      <4> USE DEF SetForDisconnected, SessGoto, SessPc
      <4>1. sess' \in [Kinds -> SessPc] BY <3>9
      <4>2. sub' \in [Kinds -> SubPc] BY <3>9 DEF Woken, SubPc
      <4>3. /\ connected' \in [Kinds -> BOOLEAN]
            /\ submitting' \in [Kinds -> BOOLEAN]
        BY <3>9
      <4>4. abort' \in [Kinds -> BOOLEAN] /\ data_ready' \in BOOLEAN
        BY <3>9
      <4> QED BY <3>9, <4>1, <4>2, <4>3, <4>4
    <3>10. CASE NotifyAgain(k) \/ Interrupt(k)
      BY <3>10 DEF NotifyAgain, Interrupt, SessGoto, Woken, SessPc, SubPc
    <3>11. CASE SpinEnds(k) BY <3>11 DEF SpinEnds, SessGoto, SessPc, SubPc
    <3>12. CASE Joined(k) \/ SessionCut(k)
      BY <3>12 DEF Joined, SessionCut, SessGoto, SessPc
    <3> QED
      BY <2>1, <3>1, <3>2, <3>3, <3>4, <3>5, <3>6, <3>7, <3>8, <3>9, <3>10,
         <3>11, <3>12 DEF SessNext
  <2>2. ASSUME NEW k \in Kinds, SubNext(k) PROVE TypeOK'
    <3> USE DEF SubGoto, SubPc
    <3>1. CASE SubStart(k) BY <3>1 DEF SubStart
    <3>2. CASE SubLock(k) \/ SubLoopEnds(k) BY <3>2 DEF SubLock, SubLoopEnds
    <3>3. CASE SubPredicate(k) BY <3>3 DEF SubPredicate
    <3>4. CASE SubBlock(k) \/ SubSpurious(k) \/ SubRelock(k)
      BY <3>4 DEF SubBlock, SubSpurious, SubRelock
    <3>5. CASE SubBreak(k) BY <3>5 DEF SubBreak
    <3>6. CASE SubSend(k) BY <3>6 DEF SubSend
    <3>7. CASE SubClear(k) BY <3>7 DEF SubClear
    <3>8. CASE SubUnready(k) BY <3>8 DEF SubUnready
    <3>9. CASE SubEnd(k) BY <3>9 DEF SubEnd
    <3>10. CASE SubInterrupted(k) BY <3>10 DEF SubInterrupted
    <3> QED
      BY <2>2, <3>1, <3>2, <3>3, <3>4, <3>5, <3>6, <3>7, <3>8, <3>9, <3>10
      DEF SubNext
  <2>3. ASSUME NEW m \in Miners, MinerNext(m) PROVE TypeOK'
    <3>1. miner' \in [Miners -> MinerState]
      BY <2>3, MinerStepTyped
    <3>2. submitting' \in [Kinds -> BOOLEAN]
      BY <2>3, MinerStepFrame
    <3>a. data_ready' \in BOOLEAN
      <4>1. data_ready' = data_ready \/ data_ready' = TRUE
        BY <2>3, MinerStepFrame
      <4> QED BY <4>1, Zenon
    <3>3. sub' \in [Kinds -> SubPc]
      BY <2>3, MinerStepFrame DEF Woken, SubPc
    <3>4. claims' \in [Kinds -> Nat]
      <4>1. \/ claims' = claims
            \/ \E k \in Kinds : claims' = [claims EXCEPT ![k] = @ + 1]
        BY <2>3, MinerStepFrame
      <4> QED BY <4>1
    <3> QED BY <2>3, <3>1, <3>2, <3>a, <3>3, <3>4, MinerStepFrame
  <2>4. CASE MineTimeExpires BY <2>4 DEF MineTimeExpires
  <2>5. CASE UNCHANGED vars BY <2>5 DEF vars
  <2>6. ASSUME NEW k \in Kinds, MainInterrupts(k) PROVE TypeOK'
    BY <2>6 DEF MainInterrupts
  <2> QED BY <2>1, <2>2, <2>3, <2>4, <2>5, <2>6 DEF Next
<1> QED BY <1>1, <1>2, PTL DEF Spec

-----------------------------------------------------------------------------
(***************************************************************************)
(* Safety.  HandoffInv is inductive: a flag that is set, and a submit      *)
(* thread that has decided to write, each hold one unanswered claim.       *)
(***************************************************************************)
LEMMA InitHandoffInv == Init => HandoffInv
BY HandoffAssumption
DEF Init, HandoffInv, WaitedForSubmitThread, SendsAnswerClaims, HandoffAssumption

LEMMA StepHandoffInv ==
  ASSUME TypeOK, TypeOK', HandoffInv, [Next]_vars
  PROVE  HandoffInv'
<1> USE DEF HandoffInv, WaitedForSubmitThread, SendsAnswerClaims, Unanswered,
            Returned
<1>1. ASSUME NEW k \in Kinds, SessNext(k) PROVE HandoffInv'
  <2> USE DEF TypeOK, flags, sessVars, sessVarsButPc, history, SessGoto
  <2>1. CASE Retry(k) BY <2>1 DEF Retry
  <2>2. CASE ConnectFails(k) BY <2>2 DEF ConnectFails
  <2>3. CASE Connect(k) BY <2>3 DEF Connect
  <2>4. CASE SessRead(k)
    BY <2>4 DEF SessRead, ReadOther, ReadJob, ReadFails, OtherExit
  <2>5. CASE PostConnected(k) BY <2>5 DEF PostConnected
  <2>6. CASE BumpJobCounter(k) BY <2>6 DEF BumpJobCounter
  <2>7. CASE WriteCompletes(k) BY <2>7 DEF WriteCompletes
  <2>8. CASE LoopTop(k) \/ LoopEnds(k) BY <2>8 DEF LoopTop, LoopEnds
  <2>9. CASE SetForDisconnected(k) BY <2>9 DEF SetForDisconnected, Woken
  <2>10. CASE NotifyAgain(k) \/ Interrupt(k)
    BY <2>10 DEF NotifyAgain, Interrupt, Woken
  <2>11. CASE SpinEnds(k) BY <2>11 DEF SpinEnds
  <2>12. CASE Joined(k) \/ SessionCut(k) BY <2>12 DEF Joined, SessionCut
  <2> QED
    BY <1>1, <2>1, <2>2, <2>3, <2>4, <2>5, <2>6, <2>7, <2>8, <2>9, <2>10,
       <2>11, <2>12 DEF SessNext
<1>2. ASSUME NEW k \in Kinds, SubNext(k) PROVE HandoffInv'
  <2> USE DEF TypeOK, flags, sessVars, history, SubGoto
  <2>1. CASE SubStart(k) BY <2>1 DEF SubStart
  <2>2. CASE SubLock(k) \/ SubLoopEnds(k) BY <2>2 DEF SubLock, SubLoopEnds
  <2>3. CASE SubPredicate(k) BY <2>3 DEF SubPredicate
  <2>4. CASE SubBlock(k) \/ SubSpurious(k) \/ SubRelock(k)
    BY <2>4 DEF SubBlock, SubSpurious, SubRelock
  <2>5. CASE SubBreak(k) BY <2>5 DEF SubBreak
  <2>6. CASE SubSend(k) BY <2>6 DEF SubSend
  <2>7. CASE SubClear(k) BY <2>7 DEF SubClear
  <2>8. CASE SubUnready(k) BY <2>8 DEF SubUnready
  <2>9. CASE SubEnd(k) BY <2>9 DEF SubEnd
  <2>10. CASE SubInterrupted(k) BY <2>10 DEF SubInterrupted
  <2> QED
    BY <1>2, <2>1, <2>2, <2>3, <2>4, <2>5, <2>6, <2>7, <2>8, <2>9, <2>10
    DEF SubNext
<1>3. ASSUME NEW m \in Miners, MinerNext(m) PROVE HandoffInv'
  <2>1. /\ UNCHANGED sessVars /\ sent' = sent
        /\ sub' = sub \/ sub' = Woken
    BY <1>3, MinerStepFrame
  <2>2. CASE UNCHANGED <<submitting, claims>>
    BY <2>1, <2>2 DEF sessVars, Woken, TypeOK
  <2>3. ASSUME NEW k \in Kinds,
               submitting' = [submitting EXCEPT ![k] = TRUE],
               claims' = [claims EXCEPT ![k] = @ + 1]
        PROVE  HandoffInv'
    BY <2>1, <2>3 DEF sessVars, Woken, TypeOK
  <2> QED BY <1>3, <2>2, <2>3, MinerStepFrame
<1>4. CASE MineTimeExpires
  BY <1>4 DEF MineTimeExpires, sessVars, history
<1>5. CASE UNCHANGED vars
  BY <1>5 DEF vars, flags, sessVars, history
<1>6. ASSUME NEW k \in Kinds, MainInterrupts(k) PROVE HandoffInv'
  BY <1>6 DEF MainInterrupts, sessVars, history
<1> QED BY <1>1, <1>2, <1>3, <1>4, <1>5, <1>6 DEF Next

LEMMA HandoffInvariant == Spec => []HandoffInv
<1>1. TypeOK /\ TypeOK' /\ HandoffInv /\ [Next]_vars => HandoffInv'
  BY StepHandoffInv
<1> QED BY InitHandoffInv, <1>1, TypeCorrect, PTL DEF Spec

\* No message is ever written twice for one claim, and none without a claim, with
\* any number of miners and connections and across any number of reconnections.
THEOREM NeverMoreSendsThanClaims == Spec => []SendsAnswerClaims
<1>1. HandoffInv => SendsAnswerClaims
  BY DEF HandoffInv
<1> QED BY <1>1, HandoffInvariant, PTL

\* A session that has returned has outlived the submit thread it started, unless
\* that thread had not begun to run or main's interruption ended the wait: whatever
\* wake-ups are lost and however often the connection fails.
THEOREM SessionOutlivesSubmitThread == Spec => []WaitedForSubmitThread
<1>1. HandoffInv => WaitedForSubmitThread
  BY DEF HandoffInv
<1> QED BY <1>1, HandoffInvariant, PTL

=============================================================================
