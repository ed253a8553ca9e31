-------------------------- MODULE RandomXDataProofs --------------------------
(***************************************************************************)
(* What RandomXData guarantees for every number of miners, connections,    *)
(* dataset items and epochs: proofs checked by TLAPS.                      *)
(***************************************************************************)
EXTENDS RandomXData, TLAPS

LEMMA UpdaterKinds ==
  /\ \A u \in Updaters : u[1] \in Kinds
  /\ \A k \in Kinds : k \in Connections
  /\ \A k \in Kinds : /\ Session(k) \in Updaters /\ Submitter(k) \in Updaters
                      /\ Session(k)[1] = k /\ Submitter(k)[1] = k
                      /\ Session(k) # Submitter(k)
BY DataAssumption DEF Updaters, Session, Submitter, Connections

Tasks == {"poll", "job", "login"}

MinerType == [pc : {"idle", "wait", "copy"} \cup InLoop, job : [Connections -> Nat],
              fresh : BOOLEAN, cut : BOOLEAN]

LEMMA InitTyped == Init => TypeOK
<1> SUFFICES ASSUME Init PROVE TypeOK
  OBVIOUS
<1>1. Unborn \in MinerType
  BY DEF Unborn, MinerType, None
<1>2. /\ pc \in [Updaters -> Phases] /\ task \in [Updaters -> Tasks]
      /\ seed \in [Updaters -> Nat] /\ todo \in [Updaters -> SUBSET Items]
  BY DEF Init, Phases, Busy, Rebuilding, None, Tasks
<1>3. dataset \in [Kinds -> [Items -> Nat \cup {Mixed}]]
  BY DEF Init, None
<1>4. miner \in [Miners -> MinerType]
  BY <1>1 DEF Init
<1> QED BY <1>2, <1>3, <1>4 DEF Init, TypeOK, None, MinerType, Tasks

\* A miner's step touches nothing but its own record.
LEMMA MinerTyped ==
  ASSUME TypeOK, NEW m \in Miners, MinerNext(m)
  PROVE  /\ miner' \in [Miners -> MinerType]
         /\ UNCHANGED <<pool, data, work, mutex, job, connected, pc>>
<1>1. ASSUME NEW from, NEW to \in {"idle", "wait", "copy"}, MinerGoto(m, from, to)
      PROVE  miner' \in [Miners -> MinerType]
  <2>1. [Unborn EXCEPT !.pc = to] \in MinerType
    BY DEF Unborn, MinerType, None
  <2> QED BY <1>1, <2>1 DEF TypeOK, MinerGoto, MinerType
<1>2. CASE MinerCopy(m)
  <2>0. (~connected["user"]) \in BOOLEAN
    BY Zenon
  <2>1. [pc |-> "hash", job |-> job, fresh |-> TRUE, cut |-> ~connected["user"]] \in MinerType
    BY <2>0 DEF TypeOK, MinerType, InLoop
  <2> QED BY <1>2, <2>1 DEF TypeOK, MinerCopy, MinerType
<1>3. CASE MinerIdle(m) BY <1>1, <1>3 DEF MinerIdle, MinerGoto
<1>4. CASE MinerWaits(m) BY <1>1, <1>4 DEF MinerWaits, MinerGoto
<1>5. CASE MinerThrows(m) BY <1>1, <1>5 DEF MinerThrows, MinerGoto
<1>6. CASE MinerLeaves(m) BY <1>1, <1>6 DEF MinerLeaves, MinerGoto
<1>7. ASSUME NEW to \in InLoop, miner' = [miner EXCEPT ![m].pc = to]
      PROVE  miner' \in [Miners -> MinerType]
  <2>1. [miner[m] EXCEPT !.pc = to] \in MinerType
    BY DEF TypeOK, MinerType
  <2> QED BY <1>7, <2>1 DEF TypeOK, MinerType
<1>8. CASE MinerHeld(m) BY <1>7, <1>8 DEF MinerHeld, InLoop
<1>9. CASE MinerReleased(m)
  <2>1. CASE miner' = [miner EXCEPT ![m].pc = "hash"]
    BY <1>7, <1>9, <2>1 DEF MinerReleased, MinerGoto, InLoop
  <2>2. CASE MinerGoto(m, "slot", "idle")
    BY <1>1, <1>9, <2>2 DEF MinerReleased, MinerGoto
  <2> QED BY <1>9, <2>1, <2>2 DEF MinerReleased
<1> QED BY <1>2, <1>3, <1>4, <1>5, <1>6, <1>8, <1>9 DEF MinerNext, MinerSteps

LEMMA FinishTyped ==
  ASSUME TypeOK, NEW u \in Updaters, NEW to, Finish(u, to)
  PROVE  /\ mutex' \in Updaters \cup {Free} /\ task' \in [Updaters -> Tasks]
         /\ seed' \in [Updaters -> Nat] /\ todo' = todo
<1>1. CASE to = "rest"
  <2>1. task' = [task EXCEPT ![u] = "poll"] /\ seed' = [seed EXCEPT ![u] = None]
    BY <1>1 DEF Finish
  <2>2. mutex' = (IF mutex = u THEN Free ELSE mutex) /\ todo' = todo
    BY <1>1 DEF Finish
  <2>3. mutex' \in Updaters \cup {Free}
    BY <2>2 DEF TypeOK
  <2> QED BY <2>1, <2>2, <2>3 DEF TypeOK, Tasks, None
<1>2. CASE to # "rest" BY <1>2 DEF Finish, TypeOK, Tasks, work
<1> QED BY <1>1, <1>2

\* An updater's step leaves everything well formed.
LEMMA UpdateTyped ==
  ASSUME TypeOK, NEW u \in Updaters, Update(u)
  PROVE  TypeOK'
<1> USE UpdaterKinds DEF TypeOK, pool, data, work, Goto, Phases, Busy, Rebuilding
<1>0. \A k \in Kinds, v \in Nat \cup {Mixed} : Made(k, v) \subseteq Nat \cup {Mixed}
  BY DEF Made
<1>c. ASSUME NEW b, clash' = [clash EXCEPT ![u[1]] = b], b \in BOOLEAN
      PROVE  clash' \in [Kinds -> BOOLEAN]
  BY <1>c
<1>1. CASE Lock(u) BY <1>1 DEF Lock, AfterLock
<1>2. CASE Assign(u) BY <1>2 DEF Assign, AfterAssign
<1>3. CASE Compare(u)
  <2>1. ready' \in [Kinds -> BOOLEAN]
    <3> DEFINE b == ready[u[1]] /\ seed[u] = cacheKey[u[1]]
    <3>1. b \in BOOLEAN BY Zenon
    <3>2. ready' = [ready EXCEPT ![u[1]] = b]
      BY <1>3, Zenon DEF Compare
    <3> HIDE DEF b
    <3> QED BY <3>1, <3>2
  <2>2. clash' \in [Kinds -> BOOLEAN]
    <3> DEFINE b == clash[u[1]] \/ (seed[u] # cacheKey[u[1]] /\ Rivals(u) # {})
    <3>1. b \in BOOLEAN BY Zenon
    <3>2. clash' = [clash EXCEPT ![u[1]] = b]
      BY <1>3, Zenon DEF Compare
    <3> HIDE DEF b
    <3> QED BY <1>c, <3>1, <3>2
  <2> QED BY <1>3, <2>1, <2>2 DEF Compare, AfterData
<1>4. CASE InitCache(u)
  <2>1. (Rivals(u) # {}) \in BOOLEAN BY Zenon
  <2>2. clash' \in [Kinds -> BOOLEAN] BY <1>4, <1>c, <2>1 DEF InitCache
  <2> QED BY <1>4, <2>2 DEF InitCache, None
<1>5. CASE CacheFilled(u)
  <2>1. PICK v \in Made(u[1], seed[u]) : cache' = [cache EXCEPT ![u[1]] = v]
    BY <1>5 DEF CacheFilled
  <2>2. v \in Nat \cup {Mixed} BY <1>0
  <2> QED BY <1>5, <2>1, <2>2 DEF CacheFilled
<1>6. CASE ItemComputed(u)
  <2>1. PICK i \in todo[u], v \in Made(u[1], cache[u[1]]) :
          /\ dataset' = [dataset EXCEPT ![u[1]] = [@ EXCEPT ![i] = v]]
          /\ todo' = [todo EXCEPT ![u] = @ \ {i}]
    BY <1>6 DEF ItemComputed
  <2>0. v \in Nat \cup {Mixed} BY <1>0
  <2>2. dataset' \in [Kinds -> [Items -> Nat \cup {Mixed}]] BY <2>0, <2>1
  <2>3. todo' \in [Updaters -> SUBSET Items] BY <2>1
  <2> QED BY <1>6, <2>2, <2>3 DEF ItemComputed
<1>12. CASE KeepCache(u) BY <1>12 DEF KeepCache
<1>7. CASE ItemsJoined(u) BY <1>7 DEF ItemsJoined
<1>8. CASE KeyStored(u) BY <1>8 DEF KeyStored
<1>9. CASE Ready(u) BY <1>9 DEF Ready, AfterData
<1>10. CASE Bump(u)
  <2>1. miner' \in [Miners -> MinerType]
    <3>1. ASSUME NEW m \in Miners
          PROVE  [miner[m] EXCEPT !.fresh = FALSE] \in MinerType
      <4>1. miner[m] \in MinerType BY DEF MinerType
      <4> QED BY <4>1 DEF MinerType
    <3> QED BY <1>10, <3>1 DEF Bump
  <2>2. /\ mutex' \in Updaters \cup {Free} /\ task' \in [Updaters -> Tasks]
        /\ seed' \in [Updaters -> Nat] /\ todo' = todo
    BY <1>10, FinishTyped DEF Bump
  <2>3. pc' \in [Updaters -> Phases]
    BY <1>10 DEF Bump, AfterBump
  <2> QED BY <1>10, <2>1, <2>2, <2>3 DEF Bump, MinerType, Tasks
<1>11. CASE Up(u)
  <2>1. /\ mutex' \in Updaters \cup {Free} /\ task' \in [Updaters -> Tasks]
        /\ seed' \in [Updaters -> Nat] /\ todo' = todo
    BY <1>11, FinishTyped DEF Up
  <2> QED BY <1>11, <2>1 DEF Up, Tasks
<1> QED
  BY <1>1, <1>2, <1>3, <1>4, <1>5, <1>6, <1>7, <1>8, <1>9, <1>10, <1>11, <1>12
     DEF Update

LEMMA ClearedTyped ==
  ASSUME TypeOK, NEW k \in Kinds, Cleared(k)
  PROVE  connected' \in [Kinds -> BOOLEAN] /\ miner' \in [Miners -> MinerType]
<1>1. ASSUME NEW m \in Miners, NEW b \in BOOLEAN
      PROVE  [miner[m] EXCEPT !.cut = b] \in MinerType
  BY DEF TypeOK, MinerType
<1>2. \A m \in Miners : (miner[m].cut \/ (k = "user" /\ miner[m].pc \in InLoop)) \in BOOLEAN
  BY Zenon
<1>3. \A m \in Miners :
        [miner[m] EXCEPT !.cut = @ \/ (k = "user" /\ miner[m].pc \in InLoop)] \in MinerType
  BY <1>1, <1>2
<1> QED BY <1>3 DEF Cleared, TypeOK

\* The state variables keep their types, through rebuilds, reconnections and epochs.
THEOREM DataTypeCorrect == Spec => []TypeOK
<1>1. TypeOK /\ [Next]_vars => TypeOK'
  <2> SUFFICES ASSUME TypeOK, [Next]_vars PROVE TypeOK'
    OBVIOUS
  <2> USE UpdaterKinds DEF pool, data, work, Goto
  <2>1. ASSUME NEW k \in Kinds, SeedChanges(k) PROVE TypeOK'
    BY <2>1 DEF SeedChanges, TypeOK
  <2>2. ASSUME NEW k \in Kinds, Receive(k) PROVE TypeOK'
    <3> USE DEF TypeOK, Begin, Phases, Busy, Rebuilding
    <3>1. CASE Poll(k) BY <3>1 DEF Poll
    <3>2. CASE BlockAccepted(k) BY <3>2 DEF BlockAccepted
    <3>3. CASE JobArrives(k) BY <3>3 DEF JobArrives
    <3>4. CASE LoginReply(k) BY <3>4 DEF LoginReply
    <3> QED BY <2>2, <3>1, <3>2, <3>3, <3>4 DEF Receive
  <2>3. ASSUME NEW k \in Kinds, Life(k) PROVE TypeOK'
    <3>0. Cleared(k) => /\ connected' \in [Kinds -> BOOLEAN]
                        /\ miner' \in [Miners -> MinerType]
      BY ClearedTyped
    <3> USE DEF TypeOK, Phases
    <3>1. CASE Lost(k) BY <3>0, <3>1 DEF Lost, MinerType
    <3>2. CASE Left(k) BY <3>2 DEF Left
    <3>3. CASE Reconnect(k) BY <3>0, <3>3 DEF Reconnect, MinerType
    <3>4. CASE LoginFails(k) BY <3>4 DEF LoginFails
    <3> QED BY <2>3, <3>1, <3>2, <3>3, <3>4 DEF Life
  <2>4. ASSUME NEW u \in Updaters, Update(u) PROVE TypeOK'
    BY <2>4, UpdateTyped
  <2>5. ASSUME NEW m \in Miners, MinerNext(m) PROVE TypeOK'
    BY <2>5, MinerTyped DEF TypeOK, MinerType
  <2>6. ASSUME NEW k \in Connections, OtherJob(k) PROVE TypeOK'
    BY <2>6 DEF OtherJob, TypeOK
  <2>7. CASE UNCHANGED vars
    BY <2>7 DEF vars, TypeOK
  <2> QED BY <2>1, <2>2, <2>3, <2>4, <2>5, <2>6, <2>7 DEF Next
<1> QED BY InitTyped, <1>1, PTL DEF Spec

-----------------------------------------------------------------------------
(***************************************************************************)
(* The dataset agrees with its key.  DataInv is inductive, kind by kind: a *)
(* step of one connection's updaters leaves the other's data alone.        *)
(***************************************************************************)
KindInv(k) == RebuildInv(k) /\ StratumInv(k)

\* What KindInv(k) depends on.
KindFrame(k) ==
  /\ protocol' = protocol
  /\ cacheKey'[k] = cacheKey[k] /\ ownKey'[k] = ownKey[k] /\ ready'[k] = ready[k]
  /\ cache'[k] = cache[k] /\ dataset'[k] = dataset[k] /\ clash'[k] = clash[k]
  /\ \A u \in Of(k) : pc'[u] = pc[u] /\ seed'[u] = seed[u] /\ todo'[u] = todo[u]

LEMMA KindFrameInv ==
  ASSUME NEW k \in Kinds, KindInv(k), KindFrame(k)
  PROVE  KindInv(k)'
<1> USE DEF KindFrame
<1>0. Of(k)' = Of(k) BY DEF Of
<1>1. Writers(k)' = Writers(k) BY <1>0 DEF Writers
<1>2. RebuildInv(k)' BY <1>0, <1>1 DEF KindInv, RebuildInv, MadeFrom
<1>3. StratumInv(k)' BY UpdaterKinds DEF KindInv, StratumInv, Of
<1> QED BY <1>2, <1>3 DEF KindInv

LEMMA InitKindInv == ASSUME Init, NEW k \in Kinds PROVE KindInv(k)
<1> USE UpdaterKinds, DataAssumption DEF Init, Of, Writing
<1>1. Writers(k) = {} BY DEF Writers
<1>2. RebuildInv(k) BY <1>1 DEF RebuildInv, MadeFrom
<1>3. StratumInv(k) BY DEF StratumInv, Submitter, Session, Updaters
<1> QED BY <1>2, <1>3 DEF KindInv

\* A connection has two threads that can rebuild, its session and its submit thread.
LEMMA TwoUpdaters ==
  ASSUME NEW k \in Kinds
  PROVE  /\ \A u \in Of(k) : u = Session(k) \/ u = Submitter(k)
         /\ \A u, v, w \in Of(k) : u = v \/ u = w \/ v = w
<1>1. \A u \in Of(k) : u = Session(k) \/ u = Submitter(k)
  BY DEF Of, Updaters, Session, Submitter
<1> QED BY <1>1

LEMMA FinishFrame ==
  ASSUME TypeOK, NEW u \in Updaters, NEW to, Finish(u, to)
  PROVE  /\ todo' = todo
         /\ \A v \in Updaters \ {u} : seed'[v] = seed[v] /\ task'[v] = task[v]
BY DEF Finish, work, TypeOK

\* A step by which nobody begins or ends to write, and which touches no data of k.
LEMMA NoWriteStep ==
  ASSUME NEW k \in Kinds, RebuildInv(k),
         cacheKey' = cacheKey, ownKey' = ownKey, cache' = cache, dataset' = dataset,
         clash'[k] = clash[k],
         \A v \in Of(k) : /\ pc'[v] \in Writing <=> pc[v] \in Writing
                          /\ pc[v] \in Writing => /\ pc'[v] = pc[v] /\ seed'[v] = seed[v]
                                                 /\ todo'[v] = todo[v]
  PROVE  RebuildInv(k)'
<1>1. Of(k)' = Of(k) BY DEF Of
<1>2. Writers(k)' = Writers(k) BY <1>1 DEF Writers
<1>3. \A v \in Of(k) : pc'[v] \in {"argon", "items", "key"} => v \in Writers(k)
  BY DEF Writers, Writing
<1>4. \A v \in Of(k) : pc[v] = "argon" => pc'[v] = "argon"
  BY DEF Writing
<1>5. \A v \in Writers(k) : /\ pc'[v] = pc[v] /\ seed'[v] = seed[v]
                            /\ todo'[v] = todo[v] /\ v \in Of(k)
  BY DEF Writers
<1> SUFFICES ASSUME ~clash[k] PROVE RebuildInv(k)'
  BY DEF RebuildInv
<1>6. \A u \in Of(k) :
        /\ pc'[u] = "items" => cache[k] = seed'[u] /\ ownKey[k] = seed'[u]
        /\ pc'[u] = "key" => todo'[u] = {}
        /\ pc'[u] \in {"items", "key"}
             => \A i \in Items : i \in todo'[u] \/ dataset[k][i] = seed'[u]
  BY <1>3, <1>5 DEF RebuildInv
<1>7. (\A u \in Of(k) : pc'[u] # "argon") => cache[k] = ownKey[k]
  BY <1>4 DEF RebuildInv
<1>8. (\A u, v \in Writers(k) : u = v) /\ (Writers(k) = {} => MadeFrom(k, cacheKey[k]))
  BY DEF RebuildInv
<1> QED BY <1>1, <1>2, <1>6, <1>7, <1>8 DEF RebuildInv, MadeFrom

\* What is left to check of a step of the only writer.
LEMMA LoneWriter ==
  ASSUME NEW k \in Kinds, NEW u \in Of(k), Writers(k)' = {u},
         ~clash'[k] => /\ pc'[u] = "items" => cache'[k] = seed'[u] /\ ownKey'[k] = seed'[u]
                       /\ pc'[u] = "key" => todo'[u] = {}
                       /\ pc'[u] \in {"items", "key"}
                            => \A i \in Items : i \in todo'[u] \/ dataset'[k][i] = seed'[u]
                       /\ pc'[u] # "argon" => cache'[k] = ownKey'[k]
  PROVE  RebuildInv(k)'
<1>1. Of(k)' = Of(k) BY DEF Of
<1>2. \A v \in Of(k) : pc'[v] \in {"items", "key"} => v = u
  BY <1>1 DEF Writers, Writing
<1> QED BY <1>1, <1>2 DEF RebuildInv

LEMMA RebuildStep ==
  ASSUME TypeOK, TypeOK', NEW k \in Kinds, KindInv(k), NEW u \in Of(k), Update(u)
  PROVE  RebuildInv(k)'
<1>0. u \in Updaters /\ u[1] = k /\ RebuildInv(k)
  BY DEF Of, KindInv
<1> USE <1>0 DEF Goto, pool, data, work
<1>w. \A v \in Of(k) : v \in Updaters
  BY DEF Of
<1>a. ASSUME pc[u] \notin Writing, pc'[u] \notin Writing,
             \A v \in Updaters \ {u} : pc'[v] = pc[v] /\ seed'[v] = seed[v],
             todo' = todo, cacheKey' = cacheKey, ownKey' = ownKey, cache' = cache,
             dataset' = dataset, clash'[k] = clash[k]
      PROVE  RebuildInv(k)'
  BY <1>a, <1>w, NoWriteStep
\* A step that leaves u the only writer, if it was one and the data have not clashed.
<1>b. ASSUME pc[u] \in Writing, pc'[u] \in Writing, ~clash[k],
             \A v \in Updaters \ {u} : pc'[v] = pc[v]
      PROVE  Writers(k)' = {u}
  <2>1. u \in Writers(k) BY <1>b DEF Writers
  <2>2. \A v \in Writers(k) : v = u BY <1>b, <2>1 DEF RebuildInv
  <2>3. \A v \in Of(k) : pc'[v] \in Writing => v = u
    BY <1>b, <1>w, <2>2 DEF Writers
  <2> QED BY <1>b, <2>3 DEF Writers, Of
<1>r. Rivals(u) = {} => \A v \in Of(k) \ {u} : pc[v] \notin Writing
  BY DEF Rivals, Of
<1>1. CASE Lock(u) BY <1>a, <1>1 DEF Lock, AfterLock, Writing, TypeOK
<1>2. CASE Assign(u) BY <1>a, <1>2 DEF Assign, AfterAssign, Writing, TypeOK
<1>3. CASE Compare(u)
  <2>0. pc' = [pc EXCEPT ![u] = IF seed[u] = cacheKey[k] THEN AfterData(task[u]) ELSE "init"]
        /\ pc[u] = "compare" /\ seed' = seed /\ todo' = todo /\ cache' = cache
        /\ dataset' = dataset /\ cacheKey' = cacheKey /\ ownKey' = ownKey
    BY <1>3 DEF Compare
  <2>1. CASE seed[u] = cacheKey[k]
    <3>1. clash'[k] = (clash[k] \/ (seed[u] # cacheKey[k] /\ Rivals(u) # {}))
      BY <1>3 DEF Compare, TypeOK
    <3>2. clash[k] \in BOOLEAN BY DEF TypeOK
    <3>3. clash'[k] = clash[k] BY <2>1, <3>1, <3>2
    <3> QED BY <1>a, <2>0, <2>1, <3>3 DEF AfterData, Writing, TypeOK
  <2>2. CASE seed[u] # cacheKey[k]
    <3>1. clash'[k] <=> clash[k] \/ Rivals(u) # {}
      BY <1>3, <2>2 DEF Compare, TypeOK
    <3>2. pc'[u] = "init" /\ \A v \in Updaters \ {u} : pc'[v] = pc[v]
      BY <2>0, <2>2 DEF TypeOK
    <3>3. SUFFICES ASSUME ~clash'[k] PROVE RebuildInv(k)'
      BY DEF RebuildInv
    <3>4. ~clash[k] /\ \A v \in Of(k) \ {u} : pc[v] \notin Writing
      BY <1>r, <3>1, <3>3
    <3>5. Writers(k)' = {u}
      BY <1>w, <3>2, <3>4 DEF Writers, Of, Writing
    <3>6. cache[k] = ownKey[k]
      BY <2>0, <3>4 DEF RebuildInv, Writing
    <3> QED BY <2>0, <3>2, <3>5, <3>6, LoneWriter
  <2> QED BY <2>1, <2>2
<1>12. CASE KeepCache(u)
  <2>0. /\ pc[u] = "init" /\ pc'[u] = "items" /\ seed' = seed /\ todo'[u] = Items
        /\ cache' = cache /\ ownKey' = ownKey /\ dataset' = dataset /\ clash' = clash
        /\ ownKey[k] = seed[u] /\ \A v \in Updaters \ {u} : pc'[v] = pc[v]
    BY <1>12 DEF KeepCache, TypeOK
  <2> SUFFICES ASSUME ~clash[k] PROVE RebuildInv(k)'
    BY <2>0 DEF RebuildInv
  <2>1. Writers(k)' = {u} BY <1>b, <2>0 DEF Writing
  <2>2. cache[k] = ownKey[k]
    <3>1. \A v \in Of(k) : pc[v] # "argon"
      BY <2>0 DEF RebuildInv, Writers, Writing
    <3> QED BY <3>1 DEF RebuildInv
  <2> QED BY <2>0, <2>1, <2>2, LoneWriter
<1>4. CASE InitCache(u)
  <2>0. /\ pc[u] = "init" /\ pc'[u] = "argon"
        /\ clash'[k] <=> Rivals(u) # {}
        /\ \A v \in Updaters \ {u} : pc'[v] = pc[v]
    BY <1>4 DEF InitCache, TypeOK
  <2> SUFFICES ASSUME ~clash'[k] PROVE RebuildInv(k)'
    BY DEF RebuildInv
  <2>1. Writers(k)' = {u}
    BY <1>r, <1>w, <2>0 DEF Writers, Of, Writing
  <2> QED BY <2>0, <2>1, LoneWriter
<1>5. CASE CacheFilled(u)
  <2>0. /\ pc[u] = "argon" /\ pc'[u] = "items" /\ seed' = seed /\ todo'[u] = Items
        /\ ownKey'[k] = seed[u] /\ dataset' = dataset /\ clash' = clash
        /\ \A v \in Updaters \ {u} : pc'[v] = pc[v]
    BY <1>5 DEF CacheFilled, TypeOK
  <2> SUFFICES ASSUME ~clash[k] PROVE RebuildInv(k)'
    BY <2>0 DEF RebuildInv
  <2>1. Writers(k)' = {u} BY <1>b, <2>0 DEF Writing
  <2>2. cache'[k] = seed[u]
    BY <1>5 DEF CacheFilled, Made, TypeOK
  <2> QED BY <2>0, <2>1, <2>2, LoneWriter
<1>6. CASE ItemComputed(u)
  <2>0. /\ pc[u] = "items" /\ pc' = pc /\ seed' = seed /\ cache' = cache
        /\ ownKey' = ownKey /\ clash' = clash
    BY <1>6 DEF ItemComputed
  <2> SUFFICES ASSUME ~clash[k] PROVE RebuildInv(k)'
    BY <2>0 DEF RebuildInv
  <2>1. Writers(k)' = {u} BY <1>b, <2>0 DEF Writing
  <2>2. /\ cache[k] = seed[u] /\ ownKey[k] = seed[u]
        /\ \A i \in Items : i \in todo[u] \/ dataset[k][i] = seed[u]
    BY <2>0 DEF RebuildInv
  <2>3. PICK i \in todo[u] :
          /\ dataset' = [dataset EXCEPT ![k] = [@ EXCEPT ![i] = cache[k]]]
          /\ todo' = [todo EXCEPT ![u] = @ \ {i}]
    BY <1>6 DEF ItemComputed, Made
  <2>4. \A j \in Items : j \in todo'[u] \/ dataset'[k][j] = seed[u]
    BY <2>2, <2>3 DEF TypeOK
  <2> QED BY <2>0, <2>1, <2>2, <2>4, LoneWriter
<1>7. CASE ItemsJoined(u)
  <2>0. /\ pc[u] = "items" /\ pc'[u] = "key" /\ todo[u] = {}
        /\ seed' = seed /\ todo' = todo /\ cache' = cache /\ ownKey' = ownKey
        /\ dataset' = dataset /\ clash' = clash
        /\ \A v \in Updaters \ {u} : pc'[v] = pc[v]
    BY <1>7 DEF ItemsJoined, TypeOK
  <2> SUFFICES ASSUME ~clash[k] PROVE RebuildInv(k)'
    BY <2>0 DEF RebuildInv
  <2>1. Writers(k)' = {u} BY <1>b, <2>0 DEF Writing
  <2>2. /\ cache[k] = seed[u] /\ ownKey[k] = seed[u]
        /\ \A i \in Items : i \in todo[u] \/ dataset[k][i] = seed[u]
    BY <2>0 DEF RebuildInv
  <2> QED BY <2>0, <2>1, <2>2, LoneWriter
<1>8. CASE KeyStored(u)
  <2>0. /\ pc[u] = "key" /\ pc'[u] = "on" /\ cacheKey'[k] = seed[u] /\ cache' = cache
        /\ ownKey' = ownKey /\ dataset' = dataset /\ clash' = clash
        /\ \A v \in Updaters \ {u} : pc'[v] = pc[v]
    BY <1>8 DEF KeyStored, TypeOK
  <2> SUFFICES ASSUME ~clash[k] PROVE RebuildInv(k)'
    BY <2>0 DEF RebuildInv
  <2>1. Of(k)' = Of(k) BY DEF Of
  <2>2. u \in Writers(k) BY <2>0 DEF Writers, Writing
  <2>3. \A v \in Of(k) \ {u} : pc[v] \notin Writing
    BY <2>2 DEF RebuildInv, Writers
  <2>4. \A v \in Of(k) : pc'[v] \notin Writing
    BY <1>w, <2>0, <2>3 DEF Writing
  <2>5. cache[k] = ownKey[k]
    BY <2>0, <2>3 DEF RebuildInv, Writing
  <2>6. MadeFrom(k, cacheKey[k])'
    BY <2>0 DEF RebuildInv, MadeFrom
  <2>7. Writers(k)' = {} BY <2>1, <2>4 DEF Writers
  <2>8. \A v \in Of(k) : pc'[v] \notin {"items", "key"}
    BY <2>4 DEF Writing
  <2> QED BY <2>0, <2>1, <2>5, <2>6, <2>7, <2>8 DEF RebuildInv
<1>9. CASE Ready(u) BY <1>a, <1>9 DEF Ready, AfterData, Writing, TypeOK
<1>10. CASE Bump(u) BY <1>a, <1>10, FinishFrame DEF Bump, AfterBump, Writing, TypeOK
<1>11. CASE Up(u) BY <1>a, <1>11, FinishFrame DEF Up, Writing, TypeOK
<1> QED
  BY <1>1, <1>2, <1>3, <1>4, <1>5, <1>6, <1>7, <1>8, <1>9, <1>10, <1>11, <1>12
     DEF Update

\* One case for each of its steps.
LEMMA UpdateCases ==
  ASSUME NEW u, Update(u)
  PROVE  /\ protocol' = protocol
         /\ pc[u] \notin {"rest", "away", "login", "leaving"}
BY DEF Update, Lock, Assign, Compare, KeepCache, InitCache, CacheFilled, ItemComputed,
       ItemsJoined, KeyStored, Ready, Bump, Up, pool, Goto

LEMMA StratumStep ==
  ASSUME TypeOK, NEW k \in Kinds, KindInv(k), NEW u \in Of(k), Update(u)
  PROVE  StratumInv(k)'
<1> SUFFICES ASSUME protocol = "stratum"
             PROVE  /\ ~clash'[k]
                    /\ pc'[Submitter(k)] = "rest"
                    /\ pc'[Session(k)] \in Writing => ~ready'[k]
  BY UpdateCases DEF StratumInv
<1> USE DEF KindInv, StratumInv, Writing, TypeOK, Goto, pool, data, work
<1>0. /\ pc[Submitter(k)] = "rest" /\ ~clash[k]
      /\ (pc[Session(k)] \in Writing => ~ready[k])
  OBVIOUS
<1>1. u = Session(k) \/ u = Submitter(k)
  BY TwoUpdaters
<1>2. u = Session(k) /\ u # Submitter(k) /\ u \in Updaters /\ u[1] = k
  BY <1>0, <1>1, UpdaterKinds, UpdateCases DEF Of
<1>r. Rivals(u) = {}
  BY <1>0, <1>2, TwoUpdaters DEF Rivals, Of
<1> USE <1>0, <1>2, UpdaterKinds
<1>3. CASE Lock(u) BY <1>3 DEF Lock, AfterLock
<1>4. CASE Assign(u) BY <1>4 DEF Assign, AfterAssign
<1>5. CASE Compare(u)
  <2>0. ~clash'[k]
    BY <1>5, <1>r DEF Compare
  <2>1. CASE seed[u] = cacheKey[k] BY <1>5, <2>0, <2>1 DEF Compare, AfterData
  <2>2. CASE seed[u] # cacheKey[k]
    <3>1. ready' = [ready EXCEPT ![k] = FALSE]
      BY <1>5, <2>2 DEF Compare
    <3> QED BY <1>5, <2>0, <2>2, <3>1 DEF Compare
  <2> QED BY <2>1, <2>2
<1>14. CASE KeepCache(u) BY <1>14 DEF KeepCache
<1>6. CASE InitCache(u)
  <2>1. ~clash'[k] BY <1>6, <1>r DEF InitCache
  <2> QED BY <1>6, <2>1 DEF InitCache
<1>7. CASE CacheFilled(u) BY <1>7 DEF CacheFilled
<1>8. CASE ItemComputed(u) BY <1>8 DEF ItemComputed
<1>9. CASE ItemsJoined(u) BY <1>9 DEF ItemsJoined
<1>10. CASE KeyStored(u) BY <1>10 DEF KeyStored
<1>11. CASE Ready(u) BY <1>11 DEF Ready, AfterData
<1>12. CASE Bump(u) BY <1>12 DEF Bump, AfterBump
<1>13. CASE Up(u) BY <1>13 DEF Up
<1> QED
  BY <1>3, <1>4, <1>5, <1>6, <1>7, <1>8, <1>9, <1>10, <1>11, <1>12, <1>13, <1>14
     DEF Update

\* An updater of another connection does not disturb this one.
LEMMA OtherUpdate ==
  ASSUME TypeOK, NEW k \in Kinds, NEW u \in Updaters, u[1] # k, Update(u)
  PROVE  KindFrame(k)
<1> USE UpdaterKinds DEF KindFrame, Of, TypeOK, Goto, pool, data, work
<1>1. CASE Lock(u) BY <1>1 DEF Lock
<1>2. CASE Assign(u) BY <1>2 DEF Assign
<1>3. CASE Compare(u) BY <1>3 DEF Compare
<1>4. CASE InitCache(u) BY <1>4 DEF InitCache
<1>12. CASE KeepCache(u) BY <1>12 DEF KeepCache
<1>5. CASE CacheFilled(u) BY <1>5 DEF CacheFilled
<1>6. CASE ItemComputed(u) BY <1>6 DEF ItemComputed
<1>7. CASE ItemsJoined(u) BY <1>7 DEF ItemsJoined
<1>8. CASE KeyStored(u) BY <1>8 DEF KeyStored
<1>9. CASE Ready(u) BY <1>9 DEF Ready
<1>10. CASE Bump(u) BY <1>10, FinishFrame DEF Bump
<1>11. CASE Up(u) BY <1>11, FinishFrame DEF Up
<1> QED
  BY <1>1, <1>2, <1>3, <1>4, <1>5, <1>6, <1>7, <1>8, <1>9, <1>10, <1>11, <1>12
     DEF Update

\* An updater that only goes from one place outside a rebuild to another.
Quiet(u) ==
  /\ pc[u] \notin Writing /\ pc'[u] \notin Writing
  /\ UNCHANGED <<pool, data, todo>>
  /\ \A v \in Updaters \ {u} : pc'[v] = pc[v] /\ seed'[v] = seed[v]

LEMMA QuietStep ==
  ASSUME TypeOK, NEW k \in Kinds, KindInv(k), NEW u \in Updaters, Quiet(u),
         protocol = "stratum" => u # Submitter(k)
  PROVE  KindInv(k)'
<1> USE DEF pool, data, Quiet
<1>1. RebuildInv(k)'
  BY NoWriteStep DEF KindInv, Of
<1>2. StratumInv(k)'
  BY UpdaterKinds DEF KindInv, StratumInv
<1> QED BY <1>1, <1>2 DEF KindInv

LEMMA KindStep ==
  ASSUME TypeOK, TypeOK', NEW k \in Kinds, KindInv(k), [Next]_vars
  PROVE  KindInv(k)'
<1>1. ASSUME NEW j \in Kinds, SeedChanges(j) PROVE KindInv(k)'
  <2>1. KindFrame(k) BY <1>1 DEF SeedChanges, KindFrame, data, work
  <2> QED BY <2>1, KindFrameInv
<1>2. ASSUME NEW j \in Kinds, Receive(j) PROVE KindInv(k)'
  <2>0. Session(j) # Submitter(k)
    BY DEF Session, Submitter
  <2> USE UpdaterKinds DEF Begin, Goto, Writing, TypeOK, Quiet
  <2>1. CASE Poll(j)
    <3>1. Quiet(Session(j)) BY <2>1 DEF Poll
    <3> QED BY <2>0, <3>1, QuietStep
  <2>2. CASE BlockAccepted(j)
    <3>1. Quiet(Submitter(j)) BY <2>2 DEF BlockAccepted
    <3> QED BY <2>2, <3>1, QuietStep DEF BlockAccepted
  <2>3. CASE JobArrives(j)
    <3>1. Quiet(Session(j)) BY <2>3 DEF JobArrives
    <3> QED BY <2>0, <3>1, QuietStep
  <2>4. CASE LoginReply(j)
    <3>1. Quiet(Session(j)) BY <2>4 DEF LoginReply
    <3> QED BY <2>0, <3>1, QuietStep
  <2> QED BY <1>2, <2>1, <2>2, <2>3, <2>4 DEF Receive
<1>3. ASSUME NEW j \in Kinds, Life(j) PROVE KindInv(k)'
  <2>0. Session(j) # Submitter(k)
    BY DEF Session, Submitter
  <2> USE UpdaterKinds DEF Goto, Writing, TypeOK, work, Quiet
  <2>1. CASE Lost(j)
    <3>1. Quiet(Session(j)) BY <2>1 DEF Lost
    <3> QED BY <2>0, <3>1, QuietStep
  <2>2. CASE Left(j)
    <3>1. Quiet(Session(j)) BY <2>2 DEF Left
    <3> QED BY <2>0, <3>1, QuietStep
  <2>3. CASE Reconnect(j)
    <3>1. Quiet(Session(j)) BY <2>3 DEF Reconnect
    <3> QED BY <2>0, <3>1, QuietStep
  <2>4. CASE LoginFails(j)
    <3>1. Quiet(Session(j)) BY <2>4 DEF LoginFails
    <3> QED BY <2>0, <3>1, QuietStep
  <2> QED BY <1>3, <2>1, <2>2, <2>3, <2>4 DEF Life
<1>4. ASSUME NEW u \in Updaters, Update(u) PROVE KindInv(k)'
  <2>1. CASE u[1] = k
    <3>1. u \in Of(k) BY <2>1 DEF Of
    <3> QED BY <1>4, <3>1, RebuildStep, StratumStep DEF KindInv
  <2>2. CASE u[1] # k
    BY <1>4, <2>2, OtherUpdate, KindFrameInv
  <2> QED BY <2>1, <2>2
<1>5. ASSUME NEW m \in Miners, MinerNext(m) PROVE KindInv(k)'
  <2>1. KindFrame(k) BY <1>5, MinerTyped DEF KindFrame, pool, data, work
  <2> QED BY <2>1, KindFrameInv
<1>6. ASSUME NEW j \in Connections, OtherJob(j) PROVE KindInv(k)'
  <2>1. KindFrame(k) BY <1>6 DEF OtherJob, KindFrame, pool, data, work
  <2> QED BY <2>1, KindFrameInv
<1>7. CASE UNCHANGED vars
  <2>1. KindFrame(k) BY <1>7 DEF vars, KindFrame, pool, data, work
  <2> QED BY <2>1, KindFrameInv
<1> QED BY <1>1, <1>2, <1>3, <1>4, <1>5, <1>6, <1>7 DEF Next

LEMMA DataInvariant == Spec => [](TypeOK /\ DataInv)
<1>1. Init => DataInv
  BY InitKindInv DEF KindInv, DataInv
<1>2. TypeOK /\ TypeOK' /\ DataInv /\ [Next]_vars => DataInv'
  BY KindStep DEF KindInv, DataInv
<1> QED BY <1>1, <1>2, DataTypeCorrect, PTL DEF Spec

\* When nobody writes the data of a connection, all of its dataset was made from the
\* seed that its key names, unless two rebuilds have overlapped and none has begun the
\* cache anew alone since: for any epochs, any interleaving of the poll with the
\* submit thread, and a cache that is kept when its own key is the seed.
THEOREM DatasetNamedByKey == Spec => []KeyNamesDataset
<1>1. TypeOK /\ DataInv => KeyNamesDataset
  BY DEF KeyNamesDataset, DataInv, RebuildInv
<1> QED BY <1>1, DataInvariant, PTL

\* With stratum, randomx_ready is set only while the whole dataset is of one seed.
THEOREM ReadyOnlyWhenBuilt == Spec => []ReadyMeansBuilt
<1>1. TypeOK /\ DataInv => ReadyMeansBuilt
  <2> SUFFICES ASSUME DataInv, NEW k \in Kinds, protocol = "stratum", ready[k]
               PROVE  MadeFrom(k, cacheKey[k])
    BY DEF ReadyMeansBuilt
  <2>1. pc[Submitter(k)] \notin Writing /\ pc[Session(k)] \notin Writing /\ ~clash[k]
    BY DEF DataInv, StratumInv, Writing
  <2>2. Writers(k) = {}
    BY <2>1, TwoUpdaters DEF Writers
  <2> QED BY <2>1, <2>2 DEF DataInv, RebuildInv
<1> QED BY <1>1, DataInvariant, PTL

-----------------------------------------------------------------------------
(***************************************************************************)
(* Stratum miners hash on the dataset of their job's seed.                 *)
(***************************************************************************)
me == Session("user")

\* A step that leaves the user's stratum handler where it is, and at most makes
\* miners leave their loops or forget that their copy is up to date.
HandlerFrame ==
  /\ protocol' = protocol /\ pc'[me] = pc[me] /\ task'[me] = task[me]
  /\ seed'[me] = seed[me] /\ (mutex = me => mutex' = me)
  /\ cacheKey'["user"] = cacheKey["user"] /\ job'["user"] = job["user"]
  /\ connected'["user"] = connected["user"]
  /\ \A m \in Miners : miner'[m].pc \in InLoop
       => /\ miner[m].pc \in InLoop /\ miner'[m].job = miner[m].job
          /\ miner'[m].fresh => miner[m].fresh
          /\ miner[m].cut => miner'[m].cut

LEMMA HandlerFrameInv == ASSUME HandlerInv, HandlerFrame PROVE HandlerInv'
BY DEF HandlerFrame, HandlerInv, me

LEMMA MeIsAnUpdater ==
  /\ "user" \in Kinds /\ "user" \in Connections /\ me \in Updaters /\ me[1] = "user" /\ me # Free
  /\ \A k \in Kinds : Session(k) = me => k = "user"
  /\ \A k \in Kinds : Submitter(k) # me
BY UpdaterKinds, DataAssumption DEF me, Session, Submitter, Free, Connections

LEMMA HandlerOther ==
  ASSUME TypeOK, HandlerInv, NEW u \in Updaters, u # me,
         u[1] = "user" => protocol # "stratum", Update(u)
  PROVE  HandlerInv'
<1>1. CASE protocol # "stratum"
  <2> QED BY <1>1, UpdateCases DEF HandlerInv
<1>2. CASE u[1] # "user"
  <2> USE <1>2, MeIsAnUpdater, UpdaterKinds
          DEF HandlerFrame, TypeOK, Goto, pool, data, work
  <2>1. CASE Lock(u) BY <2>1, HandlerFrameInv DEF Lock
  <2>2. CASE Assign(u) BY <2>2, HandlerFrameInv DEF Assign
  <2>3. CASE Compare(u) BY <2>3, HandlerFrameInv DEF Compare
  <2>4. CASE InitCache(u) BY <2>4, HandlerFrameInv DEF InitCache
  <2>12. CASE KeepCache(u) BY <2>12, HandlerFrameInv DEF KeepCache
  <2>5. CASE CacheFilled(u) BY <2>5, HandlerFrameInv DEF CacheFilled
  <2>6. CASE ItemComputed(u) BY <2>6, HandlerFrameInv DEF ItemComputed
  <2>7. CASE ItemsJoined(u) BY <2>7, HandlerFrameInv DEF ItemsJoined
  <2>8. CASE KeyStored(u) BY <2>8, HandlerFrameInv DEF KeyStored
  <2>9. CASE Ready(u) BY <2>9, HandlerFrameInv DEF Ready
  <2>10. CASE Bump(u)
    <3>1. mutex = me => mutex' = me
      BY <2>10 DEF Bump, Finish
    <3>2. seed'[me] = seed[me] /\ task'[me] = task[me] /\ pc'[me] = pc[me]
      BY <2>10, FinishFrame DEF Bump
    <3>3. \A m \in Miners : /\ miner'[m].pc = miner[m].pc /\ miner'[m].job = miner[m].job
                            /\ miner'[m].cut = miner[m].cut /\ ~miner'[m].fresh
      BY <2>10 DEF Bump
    <3>4. UNCHANGED <<pool, data, job, connected>>
      BY <2>10 DEF Bump
    <3>5. HandlerFrame
      BY <3>1, <3>2, <3>3, <3>4
    <3> QED BY <3>5, HandlerFrameInv
  <2>11. CASE Up(u)
    <3>1. mutex = me => mutex' = me
      BY <2>11 DEF Up, Finish
    <3>2. seed'[me] = seed[me] /\ task'[me] = task[me] /\ pc'[me] = pc[me]
      BY <2>11, FinishFrame DEF Up
    <3>3. connected'["user"] = connected["user"] /\ UNCHANGED <<pool, data, job, miner>>
      BY <2>11 DEF Up
    <3>4. HandlerFrame
      BY <3>1, <3>2, <3>3
    <3> QED BY <3>4, HandlerFrameInv
  <2> QED
    BY <2>1, <2>2, <2>3, <2>4, <2>5, <2>6, <2>7, <2>8, <2>9, <2>10, <2>11, <2>12
       DEF Update
<1> QED BY <1>1, <1>2

\* The steps of the handler itself.
LEMMA HandlerOwn ==
  ASSUME TypeOK, TypeOK', HandlerInv, Update(me)
  PROVE  HandlerInv'
<1> SUFFICES ASSUME protocol = "stratum" PROVE HandlerInv'
  BY UpdateCases DEF HandlerInv
<1> USE MeIsAnUpdater DEF HandlerInv, TypeOK, Goto, pool, data, work, Handling, Busy,
                          Rebuilding
<1> USE DEF me
<1>1. CASE Lock(me) BY <1>1 DEF Lock, AfterLock
<1>2. CASE Assign(me) BY <1>2 DEF Assign, AfterAssign
<1>3. CASE Compare(me) BY <1>3 DEF Compare, AfterData
<1>4. CASE InitCache(me) BY <1>4 DEF InitCache
<1>12. CASE KeepCache(me) BY <1>12 DEF KeepCache
<1>5. CASE CacheFilled(me) BY <1>5 DEF CacheFilled
<1>6. CASE ItemComputed(me) BY <1>6 DEF ItemComputed
<1>7. CASE ItemsJoined(me) BY <1>7 DEF ItemsJoined
<1>8. CASE KeyStored(me) BY <1>8 DEF KeyStored
<1>9. CASE Ready(me) BY <1>9 DEF Ready, AfterData
<1>10. CASE Bump(me)
  <2>1. task[me] = "job" /\ pc[me] = "bump" /\ pc'[me] = "rest"
    BY <1>10 DEF Bump, AfterBump
  <2>2. seed' = [seed EXCEPT ![me] = None] /\ task' = [task EXCEPT ![me] = "poll"]
    BY <1>10, <2>1 DEF Bump, AfterBump, Finish
  <2>3. \A m \in Miners : /\ miner'[m].pc = miner[m].pc
                          /\ miner'[m].cut = miner[m].cut /\ ~miner'[m].fresh
    BY <1>10 DEF Bump
  <2>4. UNCHANGED <<pool, data, job, connected>>
    BY <1>10 DEF Bump
  <2> QED BY <2>1, <2>2, <2>3, <2>4
<1>11. CASE Up(me) BY <1>11 DEF Up, Finish
<1> QED
  BY <1>1, <1>2, <1>3, <1>4, <1>5, <1>6, <1>7, <1>8, <1>9, <1>10, <1>11, <1>12
     DEF Update

LEMMA HandlerMiner ==
  ASSUME TypeOK, HandlerInv, NEW m \in Miners, MinerNext(m)
  PROVE  HandlerInv'
<1> USE MeIsAnUpdater DEF TypeOK, pool, data, work
<1>1. CASE MinerCopy(m)
  <2> SUFFICES ASSUME protocol = "stratum" PROVE HandlerInv'
    BY <1>1 DEF MinerCopy, HandlerInv
  <2>1. pc[me] \notin Handling /\ job["user"] = cacheKey["user"]
    BY <1>1 DEF MinerCopy, HandlerInv, me
  <2>2. \A n \in Miners :
          miner'[n].pc \in InLoop /\ miner'[n].fresh /\ ~miner'[n].cut
            => miner'[n].job["user"] = cacheKey["user"]
    BY <1>1, <2>1 DEF MinerCopy, HandlerInv, me, Handling, Busy, Rebuilding
  <2>3. ~connected["user"] => \A n \in Miners : miner'[n].pc \in InLoop => miner'[n].cut
    BY <1>1 DEF MinerCopy, HandlerInv
  <2> QED
    BY <1>1, <2>1, <2>2, <2>3 DEF MinerCopy, HandlerInv, me, Handling, Busy, Rebuilding
<1>2. ASSUME NEW from, NEW to \in {"idle", "wait", "copy"}, MinerGoto(m, from, to)
      PROVE  HandlerInv'
  <2>1. \A n \in Miners : miner'[n].pc \in InLoop
           => miner[n].pc \in InLoop /\ miner'[n] = miner[n]
    BY <1>2 DEF MinerGoto, Unborn, InLoop
  <2>2. HandlerFrame
    BY <1>2, <2>1 DEF MinerGoto, HandlerFrame
  <2> QED BY <2>2, HandlerFrameInv
<1>3. CASE MinerIdle(m) BY <1>2, <1>3 DEF MinerIdle
<1>4. CASE MinerWaits(m) BY <1>2, <1>4 DEF MinerWaits
<1>5. CASE MinerThrows(m) BY <1>2, <1>5 DEF MinerThrows
<1>6. CASE MinerLeaves(m) BY <1>2, <1>6 DEF MinerLeaves
<1>7. ASSUME NEW to \in InLoop, miner[m].pc \in InLoop,
             miner' = [miner EXCEPT ![m].pc = to],
             UNCHANGED <<pool, data, work, mutex, job, connected, pc>>
      PROVE  HandlerInv'
  <2>1. \A n \in Miners : /\ miner'[n].job = miner[n].job
                          /\ miner'[n].fresh = miner[n].fresh
                          /\ miner'[n].cut = miner[n].cut
                          /\ miner'[n].pc \in InLoop => miner[n].pc \in InLoop
    BY <1>7
  <2>2. HandlerFrame
    BY <1>7, <2>1 DEF HandlerFrame
  <2> QED BY <2>2, HandlerFrameInv
<1>8. CASE MinerHeld(m) BY <1>7, <1>8 DEF MinerHeld, InLoop
<1>9. CASE MinerReleased(m)
  <2>1. CASE connected["user"]
    BY <1>7, <1>9, <2>1 DEF MinerReleased, InLoop
  <2>2. CASE ~connected["user"]
    BY <1>2, <1>9, <2>2 DEF MinerReleased
  <2> QED BY <2>1, <2>2
<1> QED BY <1>1, <1>3, <1>4, <1>5, <1>6, <1>8, <1>9 DEF MinerNext, MinerSteps

LEMMA HandlerStep ==
  ASSUME TypeOK, TypeOK', DataInv, HandlerInv, [Next]_vars
  PROVE  HandlerInv'
<1> USE MeIsAnUpdater, UpdaterKinds
<1>1. ASSUME NEW k \in Kinds, SeedChanges(k) PROVE HandlerInv'
  <2>1. HandlerFrame BY <1>1 DEF SeedChanges, HandlerFrame, data, work
  <2> QED BY <2>1, HandlerFrameInv
<1>2. ASSUME NEW k \in Kinds, Receive(k) \/ Life(k) PROVE HandlerInv'
  <2> USE DEF Begin, Goto, TypeOK, pool, data, work
  <2>0. protocol' = protocol
    BY <1>2 DEF Receive, Life, Poll, BlockAccepted, JobArrives, LoginReply, Lost, Left,
                Reconnect, LoginFails
  <2>1. CASE protocol # "stratum" BY <2>0, <2>1 DEF HandlerInv
  <2>2. CASE protocol = "stratum" /\ k # "user"
    <3>1. Session(k) # me BY <2>2
    <3>0. Cleared(k) => connected'["user"] = connected["user"] /\ miner' = miner
      <4> SUFFICES ASSUME Cleared(k)
                   PROVE  connected'["user"] = connected["user"] /\ miner' = miner
        OBVIOUS
      <4>1. \A m \in Miners : miner'[m] = [miner[m] EXCEPT !.cut = miner[m].cut \/ FALSE]
        BY <2>2 DEF Cleared
      <4>2. \A m \in Miners : miner[m] \in MinerType /\ miner[m].cut \in BOOLEAN
        BY DEF MinerType
      <4>3. \A m \in Miners : [miner[m] EXCEPT !.cut = miner[m].cut \/ FALSE] = miner[m]
        BY <4>2 DEF MinerType
      <4>4. \A m \in Miners : miner'[m] = miner[m]
        BY <4>1, <4>3, Zenon
      <4>6. miner' = miner
        BY <4>4 DEF MinerType
      <4>5. connected' = [connected EXCEPT ![k] = FALSE]
        BY DEF Cleared
      <4> QED BY <2>2, <4>5, <4>6
    <3>2. HandlerFrame
      BY <1>2, <2>2, <3>0, <3>1
         DEF Receive, Life, Poll, BlockAccepted, JobArrives, LoginReply, Lost, Left,
             Reconnect, LoginFails, HandlerFrame
    <3> QED BY <3>2, HandlerFrameInv
  <2>3. CASE protocol = "stratum" /\ k = "user"
    <3> USE <2>3 DEF HandlerInv, me, Handling, Busy, Rebuilding
    <3>1. CASE JobArrives(k) BY <3>1 DEF JobArrives
    <3>2. CASE LoginReply(k) BY <3>2 DEF LoginReply
    <3>0. Cleared(k) =>
            /\ ~connected'["user"]
            /\ \A m \in Miners : /\ miner'[m].pc = miner[m].pc
                                 /\ miner'[m].pc \in InLoop => miner'[m].cut
      BY DEF Cleared
    <3>3. CASE Lost(k) BY <3>0, <3>3 DEF Lost
    <3>4. CASE Left(k) BY <3>4 DEF Left
    <3>5. CASE Reconnect(k) BY <3>0, <3>5 DEF Reconnect
    <3>6. CASE LoginFails(k) BY <3>6 DEF LoginFails
    <3> QED
      BY <1>2, <3>1, <3>2, <3>3, <3>4, <3>5, <3>6 DEF Receive, Life, Poll, BlockAccepted
  <2> QED BY <2>1, <2>2, <2>3
<1>3. ASSUME NEW u \in Updaters, Update(u) PROVE HandlerInv'
  <2>1. CASE u = me BY <1>3, <2>1, HandlerOwn
  <2>2. CASE u # me
    <3>1. ASSUME u[1] = "user", protocol = "stratum" PROVE FALSE
      <4>1. u = Submitter("user")
        BY <2>2, <3>1, TwoUpdaters DEF Of, me
      <4>2. pc[u] = "rest"
        BY <3>1, <4>1 DEF DataInv, StratumInv
      <4> QED BY <1>3, <4>2, UpdateCases
    <3> QED BY <1>3, <2>2, <3>1, HandlerOther
  <2> QED BY <2>1, <2>2
<1>4. ASSUME NEW m \in Miners, MinerNext(m) PROVE HandlerInv'
  BY <1>4, HandlerMiner
<1>5. ASSUME NEW k \in Connections, OtherJob(k) PROVE HandlerInv'
  <2>1. k # "user" BY <1>5, DataAssumption DEF OtherJob
  <2>2. HandlerFrame BY <1>5, <2>1 DEF OtherJob, TypeOK, HandlerFrame, pool, data, work
  <2> QED BY <2>2, HandlerFrameInv
<1>6. CASE UNCHANGED vars
  <2>1. HandlerFrame BY <1>6 DEF vars, HandlerFrame, pool, data, work
  <2> QED BY <2>1, HandlerFrameInv
<1> QED BY <1>1, <1>2, <1>3, <1>4, <1>5, <1>6 DEF Next

\* With stratum, a miner whose copy of the user's job is up to date, and which has not
\* been in its loop since before the last loss of the connection, hashes it on a
\* dataset that was made, every item of it, from that job's seed, unless a handler
\* is at work on a newer answer: for any number of miners, items and epochs.  The
\* model lets a login rebuild the data under the miners that the loss has not ended.
THEOREM MinersHashTheirSeed == Spec => []HashesOnItsSeed
<1>1. Init => HandlerInv
  BY MeIsAnUpdater
     DEF Init, HandlerInv, me, Session, Updaters, Handling, Busy, Rebuilding, Unborn, None,
         InLoop
<1>2. TypeOK /\ TypeOK' /\ DataInv /\ HandlerInv /\ [Next]_vars => HandlerInv'
  BY HandlerStep
<1>3. TypeOK /\ DataInv /\ HandlerInv => HashesOnItsSeed
  <2> SUFFICES ASSUME TypeOK, DataInv, HandlerInv, NEW m \in Miners, protocol = "stratum",
                      miner[m].pc = "hash", miner[m].fresh, ~miner[m].cut,
                      pc[me] \notin Busy
               PROVE  MadeFrom("user", miner[m].job["user"])
    BY DEF HashesOnItsSeed, me
  <2>1. miner[m].job["user"] = cacheKey["user"]
    BY DEF HandlerInv, me, Busy, Rebuilding, InLoop
  <2>2. /\ pc[Submitter("user")] \notin Writing /\ pc[me] \notin Writing
        /\ ~clash["user"]
    BY MeIsAnUpdater DEF DataInv, StratumInv, Writing, Busy, Rebuilding
  <2>3. Writers("user") = {}
    BY <2>2, MeIsAnUpdater, TwoUpdaters DEF me, Writers
  <2>4. MadeFrom("user", cacheKey["user"])
    BY <2>2, <2>3, MeIsAnUpdater DEF DataInv, RebuildInv
  <2> QED BY <2>1, <2>4
<1> QED BY <1>1, <1>2, <1>3, DataInvariant, PTL DEF Spec
=============================================================================
