---------------------------- MODULE JobFeedProofs ----------------------------
(***************************************************************************)
(* Type correctness of the job feed, its inductive invariant, and the      *)
(* direction in which a share can be mislabelled, for any number of        *)
(* miners, connections and jobs.                                           *)
(***************************************************************************)
EXTENDS JobFeed, TLAPS

IInv == TypeOK /\ FeedInv

\* What a miner's record has to satisfy for the invariant.
Sound(r) == /\ r \in MinerType
            /\ \A k \in Kinds : /\ IsJobOf(r.copy[k], k)
                                /\ r.work[k] <= r.copy[k].header

\* A miner step that leaves a sound record preserves the invariant.
LEMMA MinerStepSound ==
  ASSUME IInv, NEW m \in Miners, NEW from, NEW new, Sound(new),
         MinerStep(m, from, new)
  PROVE  IInv'
<1>1. TypeOK'
  BY DEF IInv, TypeOK, Sound, MinerStep, published
<1>2. FeedInv'
  <2> SUFFICES ASSUME NEW k \in Kinds
               PROVE  /\ PoolOrdered(k)'
                      /\ (job[k].id = Len(pool[k]) /\ IsJobOf(job[k], k))'
                      /\ (cache[k] \in {Garbage, job[k].header})'
                      /\ (feed = "getwork" => cache[k] = Garbage)'
                      /\ \A n \in Miners :
                           (/\ IsJobOf(miner[n].copy[k], k)
                            /\ miner[n].work[k] <= miner[n].copy[k].header)'
    BY DEF FeedInv
  <2>1. PoolOrdered(k)' /\ (job[k].id = Len(pool[k]) /\ IsJobOf(job[k], k))'
        /\ (cache[k] \in {Garbage, job[k].header})'
        /\ (feed = "getwork" => cache[k] = Garbage)'
    BY DEF IInv, FeedInv, MinerStep, published, PoolOrdered, IsJobOf
  <2>2. ASSUME NEW n \in Miners
        PROVE  (/\ IsJobOf(miner[n].copy[k], k)
                /\ miner[n].work[k] <= miner[n].copy[k].header)'
    <3>1. CASE n = m
      <4>1. miner'[n] = new
        BY <3>1 DEF MinerStep, IInv, TypeOK
      <4> QED BY <4>1 DEF Sound, MinerStep, published, IsJobOf
    <3>2. CASE n # m
      <4>1. miner'[n] = miner[n]
        BY <3>2 DEF MinerStep, IInv, TypeOK
      <4> QED BY <4>1 DEF IInv, FeedInv, MinerStep, published, IsJobOf
    <3> QED BY <3>1, <3>2
  <2> QED BY <2>1, <2>2
<1> QED BY <1>1, <1>2 DEF IInv

\* Every miner's record is sound, and stays so wherever the miner goes with it.
LEMMA MinerSound ==
  ASSUME IInv, NEW m \in Miners
  PROVE  /\ Sound(miner[m])
         /\ \A pc \in MinerPc : Sound(At(m, pc))
         /\ Sound(Thrown(m))
<1>1. miner[m] \in MinerType /\ Sound(miner[m])
  BY DEF IInv, TypeOK, FeedInv, Sound
<1>2. ASSUME NEW pc \in MinerPc
      PROVE  /\ At(m, pc) \in MinerType
             /\ At(m, pc).copy = miner[m].copy /\ At(m, pc).work = miner[m].work
  BY <1>1 DEF At, MinerType
<1>3. \A pc \in MinerPc : Sound(At(m, pc))
  BY <1>1, <1>2 DEF Sound
<1>4. Outer \in MinerPc
  BY DEF Outer, MinerPc
<1>5. /\ Thrown(m) \in MinerType
      /\ Thrown(m).copy = miner[m].copy /\ Thrown(m).work = miner[m].work
  <2>1. [k \in Kinds |-> -1] \in [Kinds -> Nat \cup {-1}]
    OBVIOUS
  <2> DEFINE r == At(m, Outer)
  <2>2. r \in MinerType /\ r.copy = miner[m].copy /\ r.work = miner[m].work
    BY <1>2, <1>4
  <2>3. Thrown(m) = [r EXCEPT !.counter = -1, !.local = [k \in Kinds |-> -1]]
    BY DEF Thrown
  <2> HIDE DEF r
  <2> QED BY <2>1, <2>2, <2>3 DEF MinerType
<1> QED BY <1>1, <1>3, <1>5 DEF Sound

LEMMA DecodedSound ==
  ASSUME IInv, NEW m \in Miners, NEW k \in Kinds, NEW pc \in MinerPc
  PROVE  Sound(Decoded(m, k, pc))
<1> DEFINE r == At(m, pc)
<1>1. Sound(r) /\ r.copy = miner[m].copy /\ r.work = miner[m].work
  BY MinerSound DEF At, MinerType, IInv, TypeOK, Sound
<1>2. miner[m].copy \in [Kinds -> JobType] /\ height[k] \in Nat
  BY DEF IInv, TypeOK, MinerType
<1>3. Decoded(m, k, pc) = [r EXCEPT !.work = [@ EXCEPT ![k] = miner[m].copy[k].header],
                                    !.local = [@ EXCEPT ![k] = height[k]]]
  BY DEF Decoded
<1>4. Decoded(m, k, pc) \in MinerType
  <2>1. [r.work EXCEPT ![k] = miner[m].copy[k].header] \in [Kinds -> 0..MaxJobs]
    BY <1>1, <1>2 DEF Sound, MinerType, JobType
  <2>2. [r.local EXCEPT ![k] = height[k]] \in [Kinds -> Nat \cup {-1}]
    BY <1>1, <1>2 DEF Sound, MinerType
  <2> QED BY <1>1, <1>3, <2>1, <2>2 DEF Sound, MinerType
<1>5. /\ Decoded(m, k, pc).copy = r.copy
      /\ Decoded(m, k, pc).work = [r.work EXCEPT ![k] = miner[m].copy[k].header]
  BY <1>1, <1>3 DEF Sound, MinerType
<1>6. ASSUME NEW j \in Kinds
      PROVE  Decoded(m, k, pc).work[j] <= Decoded(m, k, pc).copy[j].header
  <2>1. r.work \in [Kinds -> 0..MaxJobs]
    BY <1>1 DEF Sound, MinerType
  <2> QED BY <1>1, <1>2, <1>5, <2>1 DEF Sound, JobType
<1> QED BY <1>1, <1>4, <1>5, <1>6 DEF Sound

\* The copy under the lock: the published job is no older than the copy before.
LEMMA CopySound ==
  ASSUME IInv, NEW m \in Miners
  PROVE  Sound([At(m, "gate") EXCEPT !.copy = job, !.counter = jobCounter])
<1> DEFINE r == At(m, "gate")
           c == [r EXCEPT !.copy = job, !.counter = jobCounter]
<1>1. Sound(r) /\ r.copy = miner[m].copy /\ r.work = miner[m].work
  <2>1. "gate" \in MinerPc BY DEF MinerPc
  <2> QED BY <2>1, MinerSound DEF At, MinerType, IInv, TypeOK, Sound
<1>2. c \in MinerType /\ c.copy = job /\ c.work = r.work
  BY <1>1 DEF Sound, MinerType, IInv, TypeOK
<1>3. ASSUME NEW k \in Kinds PROVE IsJobOf(job[k], k) /\ r.work[k] <= job[k].header
  <2>1. IsJobOf(job[k], k) /\ IsJobOf(r.copy[k], k) /\ PoolOrdered(k)
        /\ job[k].id = Len(pool[k]) /\ r.work[k] <= r.copy[k].header
    BY <1>1 DEF IInv, FeedInv, Sound
  <2>2. job[k] \in JobType /\ r.copy[k] \in JobType /\ r.work[k] \in 0..MaxJobs
        /\ pool[k] \in Seq(1..MaxJobs)
    BY <1>1 DEF IInv, TypeOK, Sound, MinerType
  <2>3. r.copy[k].header <= job[k].header
    <3>1. CASE r.copy[k].id = 0
      BY <2>1, <2>2, <3>1 DEF IsJobOf, JobType
    <3>2. CASE r.copy[k].id # 0
      <4>1. r.copy[k].id \in 1..Len(pool[k]) /\ Len(pool[k]) \in 1..Len(pool[k])
        BY <2>1, <2>2, <3>2 DEF IsJobOf, JobType
      <4> QED BY <2>1, <2>2, <3>2, <4>1 DEF IsJobOf, PoolOrdered, JobType
    <3> QED BY <3>1, <3>2
  <2> HIDE DEF r
  <2> QED BY <2>1, <2>2, <2>3 DEF JobType
<1> HIDE DEF r, c
<1> QED BY <1>2, <1>3 DEF Sound, c, r

LEMMA MinerKeepsInv ==
  ASSUME IInv, NEW m \in Miners, MinerNext(m)
  PROVE  IInv'
<1> USE MinerStepSound, MinerSound
<1>1. Outer \in MinerPc /\ Inner \in MinerPc
  BY DEF Outer, Inner, MinerPc
<1>2. CASE Wait(m) BY <1>2 DEF Wait, MinerPc
<1>3. CASE Copy(m) BY <1>3, CopySound DEF Copy
<1>4. CASE Gate(m) BY <1>4 DEF Gate, MinerPc
<1>5. CASE Decode(m)
  BY <1>5, DecodedSound, FeedAssumption DEF Decode, MinerPc, FeedAssumption
<1>6. CASE GateDev(m) BY <1>6 DEF GateDev, MinerPc
<1>7. CASE DecodeDev(m) BY <1>7, DecodedSound DEF DecodeDev, MinerPc
<1>8. ASSUME NEW k \in Kinds, Try(m, k) PROVE IInv'
  <2> DEFINE r == At(m, "try")
             c == [r EXCEPT !.kind = k, !.buffer = k]
  <2>1. Sound(r) BY DEF MinerPc
  <2>2. c \in MinerType /\ c.copy = r.copy /\ c.work = r.work
    BY <2>1 DEF Sound, MinerType
  <2>3. Sound(c)
    <3> HIDE DEF r, c
    <3> QED BY <2>1, <2>2 DEF Sound
  <2> QED BY <1>8, <2>3 DEF Try
<1>9. CASE LoopEnds(m) BY <1>1, <1>9 DEF LoopEnds
<1>10. CASE BeforeHash(m)
  <2> DEFINE pc == IF feed = "getwork" \/ Current(m) THEN "hash" ELSE Outer
             r == At(m, pc)
             c == [r EXCEPT !.buffer = Buffer(m)]
  <2>1. Sound(r)
    <3>1. pc \in MinerPc BY <1>1 DEF MinerPc
    <3> QED BY <3>1
  <2>2. Buffer(m) \in Kinds
    BY FeedAssumption DEF Buffer, IInv, TypeOK, MinerType, FeedAssumption
  <2>3. c \in MinerType /\ c.copy = r.copy /\ c.work = r.work
    BY <2>1, <2>2 DEF Sound, MinerType
  <2>4. Sound(c)
    <3> HIDE DEF r, c
    <3> QED BY <2>1, <2>3 DEF Sound
  <2> QED BY <1>10, <2>4 DEF BeforeHash
<1>11. CASE HashEnds(m)
  <2>1. PICK pc \in MinerPc : MinerStep(m, "hash", At(m, pc))
    BY <1>1, <1>11 DEF HashEnds, MinerPc
  <2> QED BY <2>1
<1>12. CASE GiveUp(m)
  <2>1. PICK pc \in MinerPc : MinerStep(m, "found", At(m, pc))
    BY <1>1, <1>12 DEF GiveUp
  <2> QED BY <2>1
<1>13. CASE PassCheck(m) BY <1>13 DEF PassCheck, MinerPc
<1>14. CASE Claim(m) BY <1>1, <1>14 DEF Claim
<1> QED
  BY <1>2, <1>3, <1>4, <1>5, <1>6, <1>7, <1>8, <1>9, <1>10, <1>11, <1>12, <1>13,
     <1>14 DEF MinerNext

\* A session step that publishes nothing.
LEMMA QuietStep ==
  ASSUME IInv, TypeOK', UNCHANGED <<feed, pool, job, miner>>,
         \A k \in Kinds : cache'[k] \in {cache[k], Garbage}
  PROVE  IInv'
  BY DEF IInv, FeedInv, PoolOrdered, IsJobOf

\* A step that publishes the pool's next header, the newest or a new one, and puts it
\* into the cache or leaves the cache as it is, garbage for Dero.
LEMMA PublishKeepsInv ==
  ASSUME IInv, NEW k \in Kinds, NEW header \in 1..MaxJobs,
         Len(pool[k]) < MaxJobs, header \in {Newest(k), Newest(k) + 1},
         pool' = [pool EXCEPT ![k] = Append(pool[k], header)],
         job' = [job EXCEPT ![k] = [id |-> Len(pool[k]) + 1, header |-> header]],
         \/ feed = "stratum" /\ cache' = [cache EXCEPT ![k] = header]
         \/ feed = "getwork" /\ cache' = cache,
         SessGoto(k, "idle", "up") \/ SessGoto(k, "idle", "height"),
         mutex' \in {mutex, k},
         UNCHANGED <<feed, height, jobCounter, connected, read, miner, lost>>
  PROVE  IInv'
<1> DEFINE p == pool[k]
           j == [id |-> Len(p) + 1, header |-> header]
<1>1. p \in Seq(1..MaxJobs) /\ Len(p) \in Nat /\ Len(p) < MaxJobs
      /\ job[k] \in JobType /\ MaxJobs \in Nat
  BY FeedAssumption DEF IInv, TypeOK, FeedAssumption
<1>2. j.header = header /\ j.id = Len(p) + 1 /\ j \in JobType
  BY <1>1 DEF JobType
<1>3. pool' = [pool EXCEPT ![k] = Append(p, header)] /\ job' = [job EXCEPT ![k] = j]
      /\ miner' = miner
  OBVIOUS
<1> HIDE DEF p, j
<1>4. Append(p, header) \in Seq(1..MaxJobs) /\ Len(Append(p, header)) = Len(p) + 1
      /\ \A i \in 1..Len(p) : Append(p, header)[i] = p[i]
      /\ Append(p, header)[Len(p) + 1] = header
  BY <1>1
<1>5. TypeOK'
  <2>1. pool' \in [Kinds -> Seq(1..MaxJobs)] /\ job' \in [Kinds -> JobType]
    BY <1>2, <1>3, <1>4 DEF IInv, TypeOK
  <2>2. /\ cache' \in [Kinds -> 1..MaxJobs \cup {Garbage}]
        /\ sess' \in [Kinds -> SessPc] /\ mutex' \in Kinds \cup {"none"}
    BY DEF IInv, TypeOK, SessGoto, SessPc
  <2> QED BY <2>1, <2>2 DEF IInv, TypeOK
<1>6. header = Newest(k) \/ header = Newest(k) + 1
  OBVIOUS
<1>7. ASSUME NEW i \in 1..Len(p) PROVE p[i] <= header
  <2>1. PoolOrdered(k) /\ i <= Len(p) /\ Len(p) \in 1..Len(p) /\ p # <<>>
    BY <1>1 DEF IInv, FeedInv
  <2>2. p[i] <= p[Len(p)] /\ p[i] \in 1..MaxJobs /\ p[Len(p)] \in 1..MaxJobs
    BY <1>1, <2>1 DEF PoolOrdered, p
  <2>3. Newest(k) = p[Len(p)]
    BY <2>1 DEF Newest, p
  <2> QED BY <1>6, <2>2, <2>3
<1>8. PoolOrdered(k)'
  <2> DEFINE q == Append(p, header)
  <2>1. pool'[k] = q BY <1>3 DEF IInv, TypeOK
  <2>2. ASSUME NEW a \in 1..(Len(p) + 1), NEW b \in 1..(Len(p) + 1), a <= b
        PROVE  q[a] <= q[b]
    <3>1. CASE b \in 1..Len(p)
      <4>1. a \in 1..Len(p) BY <1>1, <2>2, <3>1
      <4>2. p[a] <= p[b] BY <2>2, <3>1, <4>1 DEF IInv, FeedInv, PoolOrdered, p
      <4> QED BY <1>4, <3>1, <4>1, <4>2
    <3>2. CASE b = Len(p) + 1
      BY <1>1, <1>4, <1>7, <2>2, <3>2
    <3> QED BY <1>1, <3>1, <3>2
  <2> HIDE DEF q
  <2> QED BY <1>4, <2>1, <2>2 DEF PoolOrdered, q
<1>9. ASSUME NEW r \in JobType, IsJobOf(r, k) PROVE IsJobOf(r, k)'
  <2>1. pool'[k] = Append(p, header) BY <1>3 DEF IInv, TypeOK
  <2> QED BY <1>1, <1>4, <1>9, <2>1 DEF IsJobOf, JobType, p
<1>10. FeedInv'
  <2> SUFFICES ASSUME NEW l \in Kinds
               PROVE  /\ PoolOrdered(l)'
                      /\ (job[l].id = Len(pool[l]) /\ IsJobOf(job[l], l))'
                      /\ (cache[l] \in {Garbage, job[l].header})'
                      /\ (feed = "getwork" => cache[l] = Garbage)'
                      /\ \A n \in Miners :
                           (/\ IsJobOf(miner[n].copy[l], l)
                            /\ miner[n].work[l] <= miner[n].copy[l].header)'
    BY DEF FeedInv
  <2>1. CASE l = k
    <3>1. pool'[k] = Append(p, header) /\ job'[k] = j
      BY <1>3 DEF IInv, TypeOK
    <3>2. (job[k].id = Len(pool[k]) /\ IsJobOf(job[k], k))'
      BY <1>1, <1>2, <1>4, <3>1 DEF IsJobOf
    <3>3. (cache[k] \in {Garbage, job[k].header})' /\ (feed = "getwork" => cache[k] = Garbage)'
      BY <1>2, <3>1 DEF IInv, TypeOK, FeedInv
    <3>4. ASSUME NEW n \in Miners
          PROVE  (/\ IsJobOf(miner[n].copy[k], k)
                  /\ miner[n].work[k] <= miner[n].copy[k].header)'
      <4>1. miner[n].copy[k] \in JobType
        BY DEF IInv, TypeOK, MinerType
      <4>2. IsJobOf(miner[n].copy[k], k)
            /\ miner[n].work[k] <= miner[n].copy[k].header
        BY DEF IInv, FeedInv
      <4>3. IsJobOf(miner[n].copy[k], k)'
        BY <1>3, <1>9, <4>1, <4>2 DEF IsJobOf
      <4> QED BY <1>3, <4>2, <4>3
    <3> QED BY <1>8, <2>1, <3>2, <3>3, <3>4
  <2>2. CASE l # k
    <3>1. pool'[l] = pool[l] /\ job'[l] = job[l] /\ cache'[l] = cache[l]
      BY <1>3, <2>2 DEF IInv, TypeOK
    <3>2. PoolOrdered(l)' /\ (job[l].id = Len(pool[l]) /\ IsJobOf(job[l], l))'
      BY <3>1 DEF IInv, FeedInv, PoolOrdered, IsJobOf
    <3>3. (cache[l] \in {Garbage, job[l].header})' /\ (feed = "getwork" => cache[l] = Garbage)'
      BY <3>1 DEF IInv, FeedInv
    <3>4. \A n \in Miners : (/\ IsJobOf(miner[n].copy[l], l)
                             /\ miner[n].work[l] <= miner[n].copy[l].header)'
      <4> TAKE n \in Miners
      <4>1. IsJobOf(miner[n].copy[l], l) /\ miner[n].work[l] <= miner[n].copy[l].header
        BY DEF IInv, FeedInv
      <4> QED BY <1>3, <3>1, <4>1 DEF IsJobOf
    <3> QED BY <3>2, <3>3, <3>4
  <2> QED BY <2>1, <2>2
<1> QED BY <1>5, <1>10 DEF IInv

LEMMA NotifyKeepsInv ==
  ASSUME IInv, NEW k \in Kinds, NEW header \in 1..MaxJobs,
         Notify(k, header) \/ Getwork(k, header)
  PROVE  IInv'
<1>1. /\ Len(pool[k]) < MaxJobs
      /\ header \in {Newest(k), Newest(k) + 1}
      /\ pool' = [pool EXCEPT ![k] = Append(pool[k], header)]
  BY DEF Notify, Getwork
<1>2. CASE Notify(k, header)
  <2>1. job' = [job EXCEPT ![k] = [id |-> Len(pool[k]) + 1, header |-> header]]
    <3>1. (IF header = cache[k] THEN job[k].header ELSE header) = header
      BY FeedAssumption DEF IInv, FeedInv, Garbage, FeedAssumption
    <3> QED BY <1>2, <3>1 DEF Notify
  <2> QED BY <1>1, <1>2, <2>1, PublishKeepsInv DEF Notify
<1>3. CASE Getwork(k, header)
  BY <1>1, <1>3, PublishKeepsInv DEF Getwork
<1> QED BY <1>2, <1>3

LEMMA InitInv == Init => IInv
<1> SUFFICES ASSUME Init PROVE IInv
  OBVIOUS
<1> USE FeedAssumption DEF FeedAssumption
<1>1. Locals \in MinerType
  <2>1. [k \in Kinds |-> NoJob] \in [Kinds -> JobType]
    BY DEF NoJob, JobType
  <2>2. [k \in Kinds |-> 0] \in [Kinds -> 0..MaxJobs]
    OBVIOUS
  <2> QED BY <2>1, <2>2 DEF Locals, MinerType, MinerPc
<1>2. TypeOK
  <2>1. pool \in [Kinds -> Seq(1..MaxJobs)] /\ job \in [Kinds -> JobType]
    BY DEF Init, NoJob, JobType
  <2> QED BY <1>1, <2>1 DEF Init, TypeOK, SessPc
<1>3. FeedInv
  BY DEF Init, FeedInv, PoolOrdered, IsJobOf, NoJob, Locals, Garbage
<1> QED BY <1>2, <1>3 DEF IInv

LEMMA NextInv == IInv /\ [Next]_vars => IInv'
<1> SUFFICES ASSUME IInv, [Next]_vars PROVE IInv'
  OBVIOUS
<1>1. ASSUME NEW k \in Kinds, SessNext(k) PROVE IInv'
  <2> USE QuietStep DEF SessGoto, SessPc, IInv, TypeOK, published
  <2>1. CASE \E header \in 1..MaxJobs : Notify(k, header) \/ Getwork(k, header)
    BY <2>1, NotifyKeepsInv
  <2>2. CASE BumpHeight(k) BY <2>2 DEF BumpHeight
  <2>3. CASE LoadCounter(k) BY <2>3 DEF LoadCounter
  <2>4. CASE StoreCounter(k) BY <2>4 DEF StoreCounter
  <2>5. CASE Up(k) BY <2>5 DEF Up, AfterUp
  <2>6. CASE SetDifficulty(k) BY <2>6 DEF SetDifficulty
  <2>7. CASE Reconnect(k) BY <2>7 DEF Reconnect
  <2> QED BY <1>1, <2>1, <2>2, <2>3, <2>4, <2>5, <2>6, <2>7 DEF SessNext
<1>2. ASSUME NEW m \in Miners, MinerNext(m) PROVE IInv'
  BY <1>2, MinerKeepsInv
<1>3. CASE UNCHANGED vars
  BY <1>3 DEF vars, IInv, TypeOK, FeedInv, PoolOrdered, IsJobOf
<1> QED BY <1>1, <1>2, <1>3 DEF Next

\* Every variable of the feed keeps its type.
THEOREM FeedTypeCorrect == Spec => []TypeOK
<1>1. IInv => TypeOK BY DEF IInv
<1> QED BY <1>1, InitInv, NextInv, PTL DEF Spec

\* However the unlocked decode, the handlers of both connections and reconnections
\* interleave, a share names the job it was mined for or a later one.
THEOREM NeverLabelledOlder == Spec => []LabelNeverOlder
<1>1. IInv => LabelNeverOlder
  <2> SUFFICES ASSUME IInv, NEW m \in Miners, Claiming(m), OwnBuffer(m)
               PROVE  Hashed(m) <= Named(m)
    BY DEF LabelNeverOlder
  <2>1. miner[m].kind \in Kinds BY DEF IInv, TypeOK, MinerType
  <2> QED BY <2>1 DEF IInv, FeedInv, IsJobOf, Claiming, OwnBuffer, Hashed, Named
<1> QED BY <1>1, InitInv, NextInv, PTL DEF Spec

-----------------------------------------------------------------------------
(***************************************************************************)
(* Dero's shares and the jobs they name.                                   *)
(***************************************************************************)
\* A miner that takes no step follows whatever the session does.
LEMMA SessionKeepsFollowing ==
  ASSUME IInv, NEW l \in Kinds, SessNext(l), feed = "getwork",
         NEW m \in Miners, Follows(miner[m])
  PROVE  Follows(miner[m])'
<1>1. miner[m] \in MinerType /\ jobCounter \in Nat
      /\ sess \in [Kinds -> SessPc] /\ connected \in [Kinds -> BOOLEAN]
      /\ read \in [Kinds -> Nat] /\ lost \in BOOLEAN
  BY DEF IInv, TypeOK
<1>2. miner[m].counter \in Nat \cup {-1}
  BY <1>1 DEF MinerType
<1>3. CASE \E header \in 1..MaxJobs : Getwork(l, header)
  BY <1>1, <1>3 DEF Getwork, SessGoto, Follows
<1>4. CASE BumpHeight(l)
  BY <1>1, <1>4 DEF BumpHeight, SessGoto, Follows
<1>5. CASE LoadCounter(l)
  BY <1>1, <1>5 DEF LoadCounter, SessGoto, published, Follows
<1>6. CASE StoreCounter(l)
  <2>1. /\ miner' = miner
        /\ ~lost' => ~lost /\ jobCounter' = jobCounter + 1
    BY <1>1, <1>6 DEF StoreCounter
  <2>2. ~lost' => miner'[m].counter # jobCounter' /\ miner'[m].counter <= jobCounter'
    BY <1>1, <1>2, <2>1 DEF Follows
  <2> QED BY <2>1, <2>2 DEF Follows
<1>7. CASE Up(l)
  BY <1>1, <1>7 DEF Up, AfterUp, SessGoto, Follows
<1>8. CASE Reconnect(l)
  BY <1>1, <1>8 DEF Reconnect, SessGoto, Follows
<1> QED BY <1>3, <1>4, <1>5, <1>6, <1>7, <1>8
        DEF SessNext, Notify, SetDifficulty

\* Nor does a miner's own step lose what it follows.
LEMMA MinerKeepsFollowing ==
  ASSUME IInv, NEW m \in Miners, MinerNext(m), feed = "getwork", Follows(miner[m])
  PROVE  Follows(miner[m])'
<1> DEFINE r == miner[m]
<1>1. /\ r \in MinerType /\ jobCounter \in Nat
      /\ r.work \in [Kinds -> 0..MaxJobs] /\ r.copy \in [Kinds -> JobType]
      /\ r.local \in [Kinds -> Nat \cup {-1}] /\ r.counter \in Nat \cup {-1}
  BY DEF IInv, TypeOK, MinerType
<1>2. ASSUME NEW from, NEW new, MinerStep(m, from, new), Follows(new)
      PROVE  Follows(miner[m])'
  <2>1. miner'[m] = new
    BY <1>2 DEF MinerStep, IInv, TypeOK
  <2> QED BY <1>2, <2>1 DEF MinerStep, published, Follows
<1>3. ASSUME NEW pc
      PROVE  /\ At(m, pc).pc = pc /\ At(m, pc).copy = r.copy /\ At(m, pc).work = r.work
             /\ At(m, pc).counter = r.counter /\ At(m, pc).kind = r.kind
  BY <1>1 DEF At, MinerType
<1>4. ASSUME NEW pc, pc \notin PastGate PROVE Follows(At(m, pc))
  BY <1>3, <1>4 DEF Follows, PastGate, Mining, Trying
<1>5. ASSUME NEW pc, r.pc \in Mining, pc \in {"loop", "claim"} PROVE Follows(At(m, pc))
  BY <1>3, <1>5 DEF Follows, PastGate, Mining, Trying
<1>6. ASSUME NEW pc, r.pc \in Trying, pc \in Trying PROVE Follows(At(m, pc))
  BY <1>3, <1>6 DEF Follows, PastGate, Mining, Trying
<1>7. Follows(Thrown(m))
  BY <1>1 DEF Thrown, At, MinerType, Outer, Follows, PastGate, Mining, Trying
<1>8. Outer \notin PastGate /\ (Inner = "loop" \/ Inner \notin PastGate)
  BY DEF Outer, Inner, PastGate, Mining
<1> HIDE DEF r
<1>9. CASE Wait(m)
  BY <1>2, <1>4, <1>9 DEF Wait, PastGate, Mining
<1>10. CASE Copy(m)
  <2> DEFINE c == [At(m, "gate") EXCEPT !.copy = job, !.counter = jobCounter]
  <2>1. c.pc = "gate" /\ c.counter = jobCounter
    BY <1>1 DEF At, MinerType, r
  <2> HIDE DEF c
  <2>2. Follows(c)
    BY <1>1, <2>1 DEF Follows, PastGate, Mining, Trying
  <2> QED BY <1>2, <1>10, <2>2 DEF Copy, c
<1>11. CASE Gate(m)
  BY <1>2, <1>4, <1>7, <1>11 DEF Gate, Outdated, PastGate, Mining
<1>12. CASE Decode(m)
  <2> DEFINE c == Decoded(m, "user", "gateDev")
  <2>1. c.pc = "gateDev" /\ c.counter = r.counter /\ c.copy = r.copy
        /\ c.work = [r.work EXCEPT !["user"] = r.copy["user"].header]
    BY <1>1 DEF Decoded, At, MinerType, r
  <2> HIDE DEF c
  <2>2. "user" \in Kinds
    BY FeedAssumption DEF FeedAssumption
  <2>3. c.work["user"] = c.copy["user"].header
    BY <1>1, <2>1, <2>2
  <2>4. Follows(c)
    BY <2>1, <2>3 DEF Follows, Mining, Trying, r
  <2> QED BY <1>2, <1>12, <2>4 DEF Decode, c
<1>13. CASE GateDev(m)
  <2>1. CASE "dev" \notin Kinds \/ ~connected["dev"]
    <3>1. \A k \in Kinds \ {"user"} : ~connected[k]
      BY <2>1, FeedAssumption DEF FeedAssumption
    <3>2. r.pc = "gateDev"
      BY <1>13 DEF GateDev, MinerStep, r
    <3>3. Follows(At(m, "loop"))
      BY <1>3, <3>1, <3>2 DEF Follows, PastGate, Mining, Trying, r
    <3> QED BY <1>2, <1>13, <2>1, <3>3 DEF GateDev
  <2>2. CASE ~("dev" \notin Kinds \/ ~connected["dev"])
    <3>1. r.pc = "gateDev"
      BY <1>13 DEF GateDev, MinerStep, r
    <3>2. Follows(At(m, "decodeDev"))
      BY <1>3, <3>1 DEF Follows, PastGate, Mining, Trying, r
    <3> QED BY <1>2, <1>7, <1>13, <2>2, <3>2 DEF GateDev, Outdated
  <2> QED BY <2>1, <2>2
<1>14. CASE DecodeDev(m)
  <2> DEFINE c == Decoded(m, "dev", "loop")
  <2>1. c.pc = "loop" /\ c.counter = r.counter /\ c.copy = r.copy
        /\ c.work = [r.work EXCEPT !["dev"] = r.copy["dev"].header]
    BY <1>1 DEF Decoded, At, MinerType, r
  <2> HIDE DEF c
  <2>2. "user" \in Kinds /\ "dev" \in Kinds /\ \A k \in Kinds \ {"user"} : k = "dev"
    BY <1>14, FeedAssumption DEF FeedAssumption, DecodeDev
  <2>3. r.pc = "decodeDev" /\ r.work["user"] = r.copy["user"].header
    BY <1>14 DEF DecodeDev, MinerStep, Follows, PastGate, r
  <2>4. \A k \in Kinds : c.work[k] = c.copy[k].header
    BY <1>1, <2>1, <2>2, <2>3
  <2>5. Follows(c)
    BY <2>1, <2>2, <2>4 DEF Follows, r
  <2> QED BY <1>2, <1>14, <2>5 DEF DecodeDev, c
<1>15. ASSUME NEW k \in Kinds, Try(m, k) PROVE Follows(miner[m])'
  <2> DEFINE c == [At(m, "try") EXCEPT !.kind = k, !.buffer = k]
  <2>1. c.pc = "try" /\ c.kind = k /\ c.counter = r.counter /\ c.copy = r.copy
        /\ c.work = r.work
    BY <1>1 DEF At, MinerType, r
  <2> HIDE DEF c
  <2>2. r.pc = "loop" /\ (k # "user" => connected[k])
    BY <1>15, FeedAssumption DEF Try, MinerStep, FeedAssumption, r
  <2>3. Follows(c)
    BY <2>1, <2>2 DEF Follows, PastGate, Mining, Trying, r
  <2> QED BY <1>2, <1>15, <2>3 DEF Try, c
<1>16. CASE LoopEnds(m)
  BY <1>2, <1>4, <1>8, <1>16 DEF LoopEnds
<1>17. CASE BeforeHash(m)
  <2> DEFINE c == [At(m, "hash") EXCEPT !.buffer = Buffer(m)]
  <2>1. c.pc = "hash" /\ c.kind = r.kind /\ c.counter = r.counter /\ c.copy = r.copy
        /\ c.work = r.work
    BY <1>1 DEF At, MinerType, r
  <2>2. MinerStep(m, "try", c)
    BY <1>17 DEF BeforeHash
  <2> HIDE DEF c
  <2>3. r.pc = "try"
    BY <2>2 DEF MinerStep, r
  <2>4. Follows(c)
    BY <2>1, <2>3 DEF Follows, PastGate, Mining, Trying, r
  <2> QED BY <1>2, <2>2, <2>4
<1>18. CASE HashEnds(m)
  <2>1. r.pc = "hash"
    BY <1>18 DEF HashEnds, MinerStep, r
  <2>2. Follows(At(m, "found")) /\ Follows(At(m, Inner))
    BY <1>4, <1>5, <1>6, <1>8, <2>1 DEF Mining, Trying
  <2> QED BY <1>2, <1>18, <2>2 DEF HashEnds, Left
<1>19. CASE GiveUp(m)
  <2>1. r.pc = "found"
    BY <1>19 DEF GiveUp, MinerStep, r
  <2>2. Follows(At(m, Inner))
    BY <1>4, <1>5, <1>8, <2>1 DEF Mining
  <2> QED BY <1>2, <1>19, <2>2 DEF GiveUp
<1>20. CASE PassCheck(m)
  <2>1. r.pc = "found"
    BY <1>20 DEF PassCheck, MinerStep, r
  <2> QED BY <1>2, <1>5, <1>20, <2>1 DEF PassCheck, Mining
<1>21. CASE Claim(m)
  <2>1. r.pc = "claim"
    BY <1>21 DEF Claim, MinerStep, r
  <2>2. Follows(At(m, Inner))
    BY <1>4, <1>5, <1>8, <2>1 DEF Mining
  <2> QED BY <1>2, <1>7, <1>21, <2>2 DEF Claim
<1> QED BY <1>9, <1>10, <1>11, <1>12, <1>13, <1>14, <1>15, <1>16, <1>17, <1>18,
           <1>19, <1>20, <1>21 DEF MinerNext

LEMMA InitFollows == Init => GetworkInv
<1> SUFFICES ASSUME Init, NEW m \in Miners PROVE Follows(miner[m])
  BY DEF GetworkInv
<1>1. miner[m].pc = "wait" /\ miner[m].counter = -1 /\ jobCounter = 0
  BY DEF Init, Locals
<1> QED BY <1>1 DEF Follows, PastGate, Mining, Trying

LEMMA NextFollows == IInv /\ GetworkInv /\ [Next]_vars => GetworkInv'
<1> SUFFICES ASSUME IInv, GetworkInv, [Next]_vars, feed' = "getwork", NEW m \in Miners
             PROVE  Follows(miner[m])'
  BY DEF GetworkInv
<1>1. feed' = feed
  BY DEF Next, SessNext, Notify, Getwork, BumpHeight, LoadCounter, StoreCounter, Up,
         SetDifficulty, Reconnect, MinerNext, Wait, Copy, Gate, Decode, GateDev, DecodeDev,
         Try, LoopEnds, BeforeHash, HashEnds, GiveUp, PassCheck, Claim, MinerStep, vars
<1>2. feed = "getwork" /\ Follows(miner[m])
  BY <1>1 DEF GetworkInv
<1>3. ASSUME NEW l \in Kinds, SessNext(l) PROVE Follows(miner[m])'
  BY <1>2, <1>3, SessionKeepsFollowing
<1>4. ASSUME NEW n \in Miners, MinerNext(n) PROVE Follows(miner[m])'
  <2>1. CASE n = m
    BY <1>2, <1>4, <2>1, MinerKeepsFollowing
  <2>2. CASE n # m
    <3>1. PICK from, new : MinerStep(n, from, new)
      BY <1>4 DEF MinerNext, Wait, Copy, Gate, Decode, GateDev, DecodeDev, Try, LoopEnds,
                  BeforeHash, HashEnds, GiveUp, PassCheck, Claim
    <3>2. miner'[m] = miner[m]
      BY <2>2, <3>1 DEF MinerStep, IInv, TypeOK
    <3> QED BY <1>2, <3>1, <3>2 DEF MinerStep, published, Follows
  <2> QED BY <2>1, <2>2
<1>5. CASE UNCHANGED vars
  BY <1>2, <1>5 DEF vars, Follows
<1> QED BY <1>3, <1>4, <1>5 DEF Next

\* A Dero miner has mined the job it names in a share, except for the dev connection in
\* the moment between devConnected and jobCounter, or after a lost increment.
THEOREM GetworkSharesMatch == Spec => []GetworkNamesItsJob
<1>1. IInv /\ GetworkInv => GetworkNamesItsJob
  <2> SUFFICES ASSUME IInv, GetworkInv, feed = "getwork", NEW m \in Miners,
                      miner[m].pc = "found", Announced(m), ~Late(miner[m].kind)
               PROVE  miner[m].work[miner[m].kind] = miner[m].copy[miner[m].kind].header
    BY DEF GetworkNamesItsJob
  <2>1. miner[m].kind \in Kinds /\ Follows(miner[m])
    BY DEF IInv, TypeOK, MinerType, GetworkInv
  <2> QED BY <2>1 DEF Follows, Announced, Current, Late, PastGate, Mining, Trying
<1>2. Init => IInv /\ GetworkInv
  BY InitInv, InitFollows
<1>3. IInv /\ GetworkInv /\ [Next]_vars => (IInv /\ GetworkInv)'
  BY NextInv, NextFollows
<1> QED BY <1>1, <1>2, <1>3, PTL DEF Spec

-----------------------------------------------------------------------------
(***************************************************************************)
(* Fresh shares.                                                           *)
(***************************************************************************)
\* A miner's step keeps counter and copies together, takes them from the session
\* under the lock, or forgets the counter.
LEMMA CounterWithCopies ==
  ASSUME IInv, NEW m \in Miners, MinerNext(m)
  PROVE  /\ UNCHANGED <<feed, job, jobCounter, sess, lost>>
         /\ \A n \in Miners \ {m} : miner'[n] = miner[n]
         /\ \/ miner'[m].counter = miner[m].counter /\ miner'[m].copy = miner[m].copy
            \/ miner'[m].counter = jobCounter /\ miner'[m].copy = job
            \/ miner'[m].counter = -1
<1>1. miner[m] \in MinerType /\ miner \in [Miners -> MinerType]
  BY DEF IInv, TypeOK
<1>2. PICK from, new : MinerStep(m, from, new)
                       /\ \/ new.counter = miner[m].counter /\ new.copy = miner[m].copy
                          \/ new.counter = jobCounter /\ new.copy = job
                          \/ new.counter = -1
  <2> DEFINE Fits(new) ==
               \/ new.counter = miner[m].counter /\ new.copy = miner[m].copy
               \/ new.counter = jobCounter /\ new.copy = job
               \/ new.counter = -1
  <2>1. \A pc : Fits(At(m, pc))
    BY <1>1 DEF At, MinerType
  <2>2. Fits(Thrown(m))
    BY <1>1 DEF Thrown, At, MinerType
  <2>3. \A k, pc : Fits(Decoded(m, k, pc))
    BY <1>1 DEF Decoded, At, MinerType
  <2>4. Fits([At(m, "gate") EXCEPT !.copy = job, !.counter = jobCounter])
    BY <1>1 DEF At, MinerType
  <2>5. \A pc, k, b : /\ Fits([At(m, pc) EXCEPT !.kind = k, !.buffer = b])
                      /\ Fits([At(m, pc) EXCEPT !.buffer = b])
    BY <1>1 DEF At, MinerType
  <2> HIDE DEF Fits
  <2>6. \E from, new : MinerStep(m, from, new) /\ Fits(new)
    <3>1. CASE Wait(m) BY <3>1, <2>1 DEF Wait
    <3>2. CASE Copy(m) BY <3>2, <2>4 DEF Copy
    <3>3. CASE Gate(m) BY <3>3, <2>1, <2>2 DEF Gate
    <3>4. CASE Decode(m) BY <3>4, <2>3 DEF Decode
    <3>5. CASE GateDev(m) BY <3>5, <2>1, <2>2 DEF GateDev
    <3>6. CASE DecodeDev(m) BY <3>6, <2>3 DEF DecodeDev
    <3>7. ASSUME NEW k \in Kinds, Try(m, k)
          PROVE  \E from, new : MinerStep(m, from, new) /\ Fits(new)
      BY <3>7, <2>5 DEF Try
    <3>8. CASE LoopEnds(m) BY <3>8, <2>1 DEF LoopEnds
    <3>9. CASE BeforeHash(m) BY <3>9, <2>5 DEF BeforeHash
    <3>10. CASE HashEnds(m) BY <3>10, <2>1 DEF HashEnds
    <3>11. CASE GiveUp(m) BY <3>11, <2>1 DEF GiveUp
    <3>12. CASE PassCheck(m) BY <3>12, <2>1 DEF PassCheck
    <3>13. CASE Claim(m) BY <3>13, <2>1, <2>2 DEF Claim
    <3> QED BY <3>1, <3>2, <3>3, <3>4, <3>5, <3>6, <3>7, <3>8, <3>9, <3>10, <3>11,
               <3>12, <3>13 DEF MinerNext
  <2> QED BY <2>6 DEF Fits
<1>3. miner'[m] = new /\ \A n \in Miners \ {m} : miner'[n] = miner[n]
  BY <1>1, <1>2 DEF MinerStep
<1> QED BY <1>2, <1>3 DEF MinerStep, published

LEMMA SessionKeepsFresh ==
  ASSUME IInv, FreshInv, NEW l \in Kinds, SessNext(l), ~lost', NEW m \in Miners
  PROVE  /\ miner'[m].counter <= jobCounter'
         /\ Current(m)' => \A k \in Kinds :
              miner'[m].copy[k].header = job'[k].header \/ Announcing(k)'
<1>1. /\ jobCounter \in Nat /\ miner[m].counter \in Nat \cup {-1}
      /\ sess \in [Kinds -> SessPc] /\ job \in [Kinds -> JobType] /\ lost \in BOOLEAN
  BY DEF IInv, TypeOK, MinerType
<1>2. miner' = miner /\ feed' = feed
  BY DEF SessNext, Notify, Getwork, BumpHeight, LoadCounter, StoreCounter, Up, SetDifficulty,
         Reconnect
<1>3. ~lost
  BY <1>1 DEF SessNext, Notify, Getwork, BumpHeight, LoadCounter, StoreCounter, Up,
              SetDifficulty, Reconnect
<1>4. CASE StoreCounter(l)
  <2>1. jobCounter' = jobCounter + 1
    BY <1>4 DEF StoreCounter
  <2> QED BY <1>1, <1>2, <1>3, <2>1 DEF FreshInv, Current
<1>5. ASSUME NEW header \in 1..MaxJobs, Notify(l, header) PROVE Current(m)' => \A k \in Kinds :
              miner'[m].copy[k].header = job'[k].header \/ Announcing(k)'
  <2>1. header = cache[l] => job'[l].header = job[l].header
    BY <1>1, <1>5 DEF Notify
  <2>2. header # cache[l] => sess'[l] = "height"
    BY <1>1, <1>5 DEF Notify, SessGoto
  <2>3. sess[l] = "idle" /\ jobCounter' = jobCounter
    BY <1>5 DEF Notify, SessGoto
  <2>4. \A k \in Kinds \ {l} : job'[k] = job[k] /\ sess'[k] = sess[k]
    BY <1>1, <1>5 DEF Notify, SessGoto
  <2> QED BY <1>2, <1>3, <2>1, <2>2, <2>3, <2>4 DEF FreshInv, Current, Announcing
<1>6. CASE \E header \in 1..MaxJobs : Getwork(l, header)
  <2>1. feed = "getwork" /\ sess'[l] = "up" /\ jobCounter' = jobCounter
    BY <1>1, <1>6 DEF Getwork, SessGoto
  <2>2. \A k \in Kinds \ {l} : job'[k] = job[k] /\ sess'[k] = sess[k]
    BY <1>1, <1>6 DEF Getwork, SessGoto
  <2> QED BY <1>2, <1>3, <2>1, <2>2 DEF FreshInv, Current, Announcing
<1>7. CASE BumpHeight(l) \/ LoadCounter(l) \/ Up(l) \/ SetDifficulty(l) \/ Reconnect(l)
  <2>1. job' = job /\ jobCounter' = jobCounter
    BY <1>7 DEF BumpHeight, LoadCounter, Up, SetDifficulty, Reconnect, published
  <2>2. \A k \in Kinds : Announcing(k) => Announcing(k)'
    BY <1>1, <1>2, <1>7 DEF BumpHeight, LoadCounter, Up, AfterUp, SetDifficulty, Reconnect,
                            SessGoto, Announcing
  <2> QED BY <1>2, <1>3, <2>1, <2>2 DEF FreshInv, Current
<1>8. ASSUME NEW header \in 1..MaxJobs, Notify(l, header)
      PROVE  miner'[m].counter <= jobCounter'
  BY <1>2, <1>3, <1>8 DEF FreshInv, Notify
<1> QED BY <1>2, <1>3, <1>4, <1>5, <1>6, <1>7, <1>8 DEF SessNext

LEMMA NextFresh == IInv /\ FreshInv /\ [Next]_vars => FreshInv'
<1> SUFFICES ASSUME IInv, FreshInv, [Next]_vars PROVE FreshInv'
  OBVIOUS
<1>1. ASSUME NEW l \in Kinds, SessNext(l) PROVE FreshInv'
  BY <1>1, SessionKeepsFresh DEF FreshInv
<1>2. ASSUME NEW n \in Miners, MinerNext(n) PROVE FreshInv'
  <2> SUFFICES ASSUME ~lost', NEW m \in Miners
               PROVE  /\ miner'[m].counter <= jobCounter'
                      /\ Current(m)' => \A k \in Kinds :
                           miner'[m].copy[k].header = job'[k].header \/ Announcing(k)'
    BY DEF FreshInv
  <2>1. jobCounter \in Nat
    BY DEF IInv, TypeOK
  <2> QED BY <1>2, <2>1, CounterWithCopies DEF FreshInv, Current, Announcing
<1>3. CASE UNCHANGED vars
  BY <1>3 DEF vars, FreshInv, Current, Announcing
<1> QED BY <1>1, <1>2, <1>3 DEF Next

\* A share that passes the last test is for the newest header of its connection, or the
\* bump for a newer one is still to come, or an increment was lost.
THEOREM FreshOrAnnounced == Spec => LabelFresh
<1>1. IInv /\ FreshInv /\ [Next]_vars
        => [\A m \in Miners : PassCheck(m) =>
              LET k == miner[m].kind
              IN  miner[m].copy[k].header = job[k].header \/ Announcing(k) \/ lost]_vars
  <2> SUFFICES ASSUME IInv, FreshInv, NEW m \in Miners, PassCheck(m), ~lost
               PROVE  LET k == miner[m].kind
                      IN  miner[m].copy[k].header = job[k].header \/ Announcing(k)
    OBVIOUS
  <2>1. miner[m].kind \in Kinds
    BY DEF IInv, TypeOK, MinerType
  <2> QED BY <2>1 DEF FreshInv, PassCheck, Announced
<1>2. Init => FreshInv
  <2> SUFFICES ASSUME Init, NEW m \in Miners
               PROVE  miner[m].counter <= jobCounter /\ ~Current(m)
    BY DEF FreshInv
  <2>1. miner[m].counter = -1 /\ jobCounter = 0
    BY DEF Init, Locals
  <2> QED BY <2>1 DEF Current
<1>3. IInv /\ FreshInv /\ [Next]_vars => (IInv /\ FreshInv)'
  BY NextInv, NextFresh
<1> QED BY <1>1, <1>2, <1>3, InitInv, PTL DEF Spec, LabelFresh

-----------------------------------------------------------------------------
(***************************************************************************)
(* The board.                                                              *)
(***************************************************************************)
Posted == [k \in Kinds |-> job[k].header]
Held == [m \in Miners |-> [k \in Kinds |-> miner[m].copy[k].header]]
Mined == [m \in Miners |-> miner[m].work]
board == <<Posted, Held, Mined>>

\* The published job is the pool's newest.
LEMMA NewestIsPublished ==
  ASSUME IInv, NEW k \in Kinds
  PROVE  Newest(k) = job[k].header
<1>1. job[k].id = Len(pool[k]) /\ IsJobOf(job[k], k) /\ pool[k] \in Seq(1..MaxJobs)
  BY DEF IInv, FeedInv, TypeOK
<1>2. CASE pool[k] = <<>>
  BY <1>1, <1>2 DEF Newest, IsJobOf
<1>3. CASE pool[k] # <<>>
  BY <1>1, <1>3 DEF Newest, IsJobOf
<1> QED BY <1>2, <1>3

\* A session posts the next header, or nothing new.
LEMMA SessionPosts ==
  ASSUME IInv, NEW l \in Kinds, SessNext(l)
  PROVE  Board!Next \/ UNCHANGED board
<1>1. miner' = miner /\ Held' = Held /\ Mined' = Mined
  BY DEF SessNext, Notify, Getwork, BumpHeight, LoadCounter, StoreCounter, Up, SetDifficulty,
         Reconnect, Held, Mined
<1>2. ASSUME NEW header \in 1..MaxJobs, Notify(l, header) \/ Getwork(l, header)
      PROVE  Board!Next \/ UNCHANGED board
  <2>1. header \in {job[l].header, job[l].header + 1}
    BY <1>2, NewestIsPublished DEF Notify, Getwork
  <2>2. (IF header = cache[l] THEN job[l].header ELSE header) = header
    BY FeedAssumption DEF IInv, FeedInv, Garbage, FeedAssumption
  <2>3. job' = [job EXCEPT ![l] = [id |-> Len(pool[l]) + 1, header |-> header]]
    BY <1>2, <2>2 DEF Notify, Getwork
  <2>4. job'[l].header = header /\ \A k \in Kinds \ {l} : job'[k] = job[k]
    BY <2>3 DEF IInv, TypeOK
  <2>5. CASE header = job[l].header
    <3>1. Posted' = Posted
      BY <2>4, <2>5 DEF Posted
    <3> QED BY <1>1, <3>1 DEF board
  <2>6. CASE header = job[l].header + 1
    <3>1. Posted' = [Posted EXCEPT ![l] = @ + 1]
      BY <2>4, <2>6 DEF Posted
    <3>2. Board!Post(l)
      BY <1>1, <3>1 DEF Board!Post, Posted, Held, Mined
    <3> QED BY <3>2 DEF Board!Next
  <2> QED BY <2>1, <2>5, <2>6
<1>3. CASE BumpHeight(l) \/ LoadCounter(l) \/ StoreCounter(l) \/ Up(l) \/ SetDifficulty(l)
           \/ Reconnect(l)
  <2>1. job' = job
    BY <1>3 DEF BumpHeight, LoadCounter, StoreCounter, Up, SetDifficulty, Reconnect, published
  <2> QED BY <1>1, <2>1 DEF board, Posted
<1> QED BY <1>2, <1>3 DEF SessNext

\* What a miner's step does to its copies and its work buffers: nothing, new copies of
\* all jobs, or one buffer filled from its copy.
Takes(m, new) == new.copy = job /\ new.work = miner[m].work
Fills(m, new, k) ==
  new.copy = miner[m].copy /\ new.work = [miner[m].work EXCEPT ![k] = miner[m].copy[k].header]
OnBoard(m, new) == \/ new.copy = miner[m].copy /\ new.work = miner[m].work
                   \/ Takes(m, new)
                   \/ \E k \in Kinds : Fills(m, new, k)

LEMMA MinerOnBoard ==
  ASSUME IInv, NEW m \in Miners, MinerNext(m)
  PROVE  \E from, new : MinerStep(m, from, new) /\ OnBoard(m, new)
<1>1. miner[m] \in MinerType
  BY DEF IInv, TypeOK
<1>2. \A pc : OnBoard(m, At(m, pc))
  BY <1>1 DEF At, MinerType, OnBoard
<1>3. OnBoard(m, Thrown(m))
  BY <1>1 DEF Thrown, At, MinerType, OnBoard
<1>4. ASSUME NEW k \in Kinds, NEW pc PROVE OnBoard(m, Decoded(m, k, pc))
  <2>1. Fills(m, Decoded(m, k, pc), k)
    BY <1>1 DEF Decoded, At, MinerType, Fills
  <2> QED BY <2>1 DEF OnBoard
<1>5. OnBoard(m, [At(m, "gate") EXCEPT !.copy = job, !.counter = jobCounter])
  <2>1. Takes(m, [At(m, "gate") EXCEPT !.copy = job, !.counter = jobCounter])
    BY <1>1 DEF At, MinerType, Takes
  <2> QED BY <2>1 DEF OnBoard
<1>6. \A pc, k, b : /\ OnBoard(m, [At(m, pc) EXCEPT !.kind = k, !.buffer = b])
                    /\ OnBoard(m, [At(m, pc) EXCEPT !.buffer = b])
  BY <1>1 DEF At, MinerType, OnBoard
<1>7. CASE Wait(m) BY <1>7, <1>2 DEF Wait
<1>8. CASE Copy(m) BY <1>8, <1>5 DEF Copy
<1>9. CASE Gate(m) BY <1>9, <1>2, <1>3 DEF Gate
<1>10. CASE Decode(m) BY <1>10, <1>4, FeedAssumption DEF Decode, FeedAssumption
<1>11. CASE GateDev(m) BY <1>11, <1>2, <1>3 DEF GateDev
<1>12. CASE DecodeDev(m) BY <1>12, <1>4 DEF DecodeDev
<1>13. ASSUME NEW k \in Kinds, Try(m, k)
       PROVE  \E from, new : MinerStep(m, from, new) /\ OnBoard(m, new)
  BY <1>13, <1>6 DEF Try
<1>14. CASE LoopEnds(m) BY <1>14, <1>2 DEF LoopEnds
<1>15. CASE BeforeHash(m) BY <1>15, <1>6 DEF BeforeHash
<1>16. CASE HashEnds(m) BY <1>16, <1>2 DEF HashEnds
<1>17. CASE GiveUp(m) BY <1>17, <1>2 DEF GiveUp
<1>18. CASE PassCheck(m) BY <1>18, <1>2 DEF PassCheck
<1>19. CASE Claim(m) BY <1>19, <1>2, <1>3 DEF Claim
<1> QED BY <1>7, <1>8, <1>9, <1>10, <1>11, <1>12, <1>13, <1>14, <1>15, <1>16, <1>17,
           <1>18, <1>19 DEF MinerNext

\* A miner takes what is posted, mines on what it holds, or leaves the board alone.
LEMMA MinerUsesBoard ==
  ASSUME IInv, NEW m \in Miners, MinerNext(m)
  PROVE  Board!Next \/ UNCHANGED board
<1>1. PICK from, new : MinerStep(m, from, new) /\ OnBoard(m, new)
  BY MinerOnBoard
<1>2. miner' = [miner EXCEPT ![m] = new] /\ Posted' = Posted
  BY <1>1 DEF MinerStep, published, Posted
<1>3. miner \in [Miners -> MinerType] /\ miner[m].work \in [Kinds -> 0..MaxJobs]
  BY DEF IInv, TypeOK, MinerType
<1>4. miner'[m] = new /\ \A n \in Miners \ {m} : miner'[n] = miner[n]
  BY <1>2, <1>3
<1>5. CASE new.copy = miner[m].copy /\ new.work = miner[m].work
  <2>1. Held' = Held /\ Mined' = Mined
    BY <1>4, <1>5 DEF Held, Mined
  <2> QED BY <1>2, <2>1 DEF board
<1>6. CASE Takes(m, new)
  <2>1. Mined' = Mined
    BY <1>4, <1>6 DEF Mined, Takes
  <2>2. Held' = [Held EXCEPT ![m] = Posted]
    BY <1>4, <1>6 DEF Held, Posted, Takes
  <2>3. Board!Take(m)
    BY <1>2, <2>1, <2>2 DEF Board!Take, Posted, Held, Mined
  <2> QED BY <2>3 DEF Board!Next
<1>7. ASSUME NEW k \in Kinds, Fills(m, new, k) PROVE Board!Next
  <2>1. Held' = Held
    BY <1>4, <1>7 DEF Held, Fills
  <2>2. Held[m][k] = miner[m].copy[k].header /\ Mined[m] = miner[m].work
    BY DEF Held, Mined
  <2>3. Mined' = [Mined EXCEPT ![m][k] = Held[m][k]]
    BY <1>4, <1>7, <2>2 DEF Mined, Fills
  <2>4. Board!MineOn(m, k)
    BY <1>2, <2>1, <2>3 DEF Board!MineOn, Posted, Held, Mined
  <2> QED BY <2>4 DEF Board!Next
<1> QED BY <1>1, <1>5, <1>6, <1>7 DEF OnBoard

\* Every behaviour of the feed is one of the board: each connection's headers are posted
\* in their order, a miner's copies of all connections are from one moment, and a nonce
\* is tried on nothing but a header its miner has copied.
THEOREM FeedImplementsBoard == Spec => BoardSpec
<1>1. Init => Board!Init
  <2> SUFFICES ASSUME Init PROVE Board!Init
    OBVIOUS
  <2>1. \A k \in Kinds : job[k].header = 0
    BY DEF Init, NoJob
  <2>2. \A m \in Miners : miner[m] = Locals
    BY DEF Init
  <2>3. Locals.work = [k \in Kinds |-> 0] /\ \A k \in Kinds : Locals.copy[k].header = 0
    BY DEF Locals, NoJob
  <2> QED BY <2>1, <2>2, <2>3 DEF Board!Init
<1>2. IInv /\ [Next]_vars => [Board!Next]_board
  <2> SUFFICES ASSUME IInv, [Next]_vars PROVE Board!Next \/ UNCHANGED board
    OBVIOUS
  <2>1. ASSUME NEW l \in Kinds, SessNext(l) PROVE Board!Next \/ UNCHANGED board
    BY <2>1, SessionPosts
  <2>2. ASSUME NEW m \in Miners, MinerNext(m) PROVE Board!Next \/ UNCHANGED board
    BY <2>2, MinerUsesBoard
  <2>3. CASE UNCHANGED vars
    BY <2>3 DEF vars, board, Posted, Held, Mined
  <2> QED BY <2>1, <2>2, <2>3 DEF Next
<1> QED
  BY <1>1, <1>2, InitInv, NextInv, PTL
  DEF Spec, BoardSpec, Board!Spec, board, Posted, Held, Mined
=============================================================================
