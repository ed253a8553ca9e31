---------------------------- MODULE RandomXData ----------------------------
(***************************************************************************)
(* The RandomX cache and dataset of each connection, which the thread that *)
(* learns of a new seed rebuilds in place while the miners hash.           *)
(*                                                                         *)
(* Solo (rx0_session): the session polls get_block_template without a      *)
(* lock, and its submit thread, after an accepted block, runs the same     *)
(* rx0_getTemplate while it holds `mutex': two threads may rebuild the     *)
(* same dataset.  Stratum (rx0_stratum_session_nossl): the handlers of     *)
(* `job' and of the login's reply rebuild it, holding `mutex'.             *)
(*                                                                         *)
(* A rebuild (updateVM, randomx_update_data) clears randomx_ready, fills   *)
(* the cache unless its key says that it is the seed's already, computes   *)
(* every dataset item from it, stores the key of the whole, and sets       *)
(* randomx_ready.  Two rebuilds of a connection that overlap write the     *)
(* same memory: the cache and each item may then be any mixture, and the   *)
(* keys do not show it.  Miners copy both jobs under `mutex', then hash    *)
(* until jobCounter moves: miner[m].fresh says that it has not moved since *)
(* the copy, miner[m].cut that the user's connection has been down since.  *)
(***************************************************************************)
EXTENDS Integers

CONSTANTS Miners,  \* the miner threads
          Kinds,   \* the connections looked into: {"user", "dev"}, or {"user"};
                   \* of another only the first job is there
          Items,   \* the items of a dataset
          MaxSeed  \* bound: MaxSeed[k], the seeds the pool of connection k uses

ASSUME DataAssumption ==
  /\ Kinds \subseteq {"user", "dev"}
  /\ "user" \in Kinds
  /\ MaxSeed \in [Kinds -> Nat \ {0}]

VARIABLES
  protocol,   \* "solo" or "stratum", of both connections
  mutex,      \* the updater that holds `mutex', or Free
  current,    \* current[k]: the seed of the pool's blocks, counted from 1
  job,        \* job, devJob: the seed of the published job
  cacheKey,   \* randomx_cacheKey, randomx_cacheKey_dev: a seed
  ownKey,     \* rxCache->cacheKey, rxCache_dev->cacheKey: a seed
  ready,      \* randomx_ready, randomx_ready_dev
  cache,      \* rxCache, rxCache_dev: the seed it was made from
  dataset,    \* rxDataset, rxDataset_dev: the seed each item was made from
  clash,      \* clash[k]: two rebuilds have overlapped since the cache was last
              \* begun anew by one alone
  connected,  \* isConnected, devConnected
  pc,         \* pc[u]: where updater u is
  task,       \* task[u]: what it works on, "poll", "job" or "login"
  seed,       \* seed[u]: the seed in the answer it works on
  todo,       \* todo[u]: the items it has still to compute
  miner       \* miner[m]: where it is, the seeds of the jobs it copied

pool == <<protocol, current>>
data == <<cacheKey, ownKey, ready, cache, dataset, clash>>
work == <<task, seed, todo>>
vars == <<pool, data, work, mutex, job, connected, pc, miner>>

\* Mutant of None: -1 stands for no seed.
MinusOne == 0 - 1

\* Both connections have a job and are mined for.
Connections == {"user", "dev"}

\* No seed's data: an empty job, the key of zeros, a cache that is being written.
None == 0

\* What two rebuilds at once leave behind.
Mixed == -1

\* Nobody holds the mutex.
Free == <<>>

\* The threads that can rebuild the data of connection k.
Session(k) == <<k, "session">>
Submitter(k) == <<k, "submit">>
Updaters == Kinds \X {"session", "submit"}

Rebuilding == {"init", "argon", "items", "key", "on"}
Busy == Rebuilding \cup {"lock", "assign", "compare", "bump", "up"}
Phases == Busy \cup {"away", "login", "rest", "leaving"}

\* A rebuild that may still write data or key.
Writing == {"init", "argon", "items", "key"}

Unborn == [pc |-> "idle", job |-> [k \in Connections |-> None], fresh |-> FALSE,
           cut |-> FALSE]

Init ==
  /\ protocol \in {"solo", "stratum"}
  /\ mutex = Free
  /\ current = [k \in Kinds |-> 1]
  /\ job = [k \in Connections |-> None]
  /\ cacheKey = [k \in Kinds |-> None]
  /\ ownKey = [k \in Kinds |-> None]
  /\ ready = [k \in Kinds |-> FALSE]
  /\ cache = [k \in Kinds |-> None]
  /\ dataset = [k \in Kinds |-> [i \in Items |-> None]]
  /\ clash = [k \in Kinds |-> FALSE]
  /\ connected = [k \in Kinds |-> FALSE]
  /\ pc = [u \in Updaters |-> IF u[2] = "session" THEN "away" ELSE "rest"]
  /\ task = [u \in Updaters |-> "poll"]
  /\ seed = [u \in Updaters |-> None]
  /\ todo = [u \in Updaters |-> {}]
  /\ miner = [m \in Miners |-> Unborn]

Goto(u, from, to) ==
  /\ pc[u] = from
  /\ pc' = [pc EXCEPT ![u] = to]

-----------------------------------------------------------------------------
(***************************************************************************)
(* Jobs and templates arrive.                                              *)
(***************************************************************************)
\* The pool's chain enters the next epoch.
SeedChanges(k) ==
  /\ current[k] < MaxSeed[k]
  /\ current' = [current EXCEPT ![k] = @ + 1]
  /\ UNCHANGED <<protocol, data, work, mutex, job, connected, pc, miner>>

\* Updater u begins to work on an answer that carries the current seed.
Begin(u, what, from, to) ==
  /\ Goto(u, from, to)
  /\ task' = [task EXCEPT ![u] = what]
  /\ seed' = [seed EXCEPT ![u] = current[u[1]]]
  /\ UNCHANGED <<pool, data, todo, job, connected, miner>>

\* The session's loop, every 5 seconds: get_block_template is answered.
Poll(k) ==
  /\ protocol = "solo"
  /\ Begin(Session(k), "poll", "rest", "assign")
  /\ UNCHANGED mutex

\* The submit thread, holding the mutex: a block was accepted, so there has been a
\* dataset.  Its session may be waiting for it already.
BlockAccepted(k) ==
  /\ protocol = "solo"
  /\ cacheKey[k] # None
  /\ pc[Session(k)] # "away"
  /\ mutex = Free
  /\ Begin(Submitter(k), "poll", "rest", "assign")
  /\ mutex' = Submitter(k)

\* A line with a job arrives ...
JobArrives(k) ==
  /\ protocol = "stratum"
  /\ connected[k]
  /\ Begin(Session(k), "job", "rest", "lock")
  /\ UNCHANGED mutex

\* ... or with the reply to the login, which carries a job as well.
LoginReply(k) ==
  /\ Begin(Session(k), "login", "login", "lock")
  /\ UNCHANGED mutex

\* The first job of a connection that is not looked into (miners cannot be hashing).
OtherJob(k) ==
  /\ k \notin Kinds
  /\ job[k] = None
  /\ job' = [job EXCEPT ![k] = 1]
  /\ UNCHANGED <<pool, data, work, mutex, connected, pc, miner>>

AfterLock(t) == IF t = "job" THEN "compare" ELSE "assign"

\* handleRandomXStratumPacket and handleRandomXStratumResponse take the mutex.
Lock(u) ==
  /\ mutex = Free
  /\ Goto(u, "lock", AfterLock(task[u]))
  /\ mutex' = u
  /\ UNCHANGED <<pool, data, work, job, connected, miner>>

-----------------------------------------------------------------------------
(***************************************************************************)
(* What an updater does with the answer.  The order is the code's: a poll  *)
(* assigns, compares and rebuilds, bumps, goes up; a job compares and      *)
(* rebuilds, assigns, bumps; a login assigns, compares and rebuilds, goes  *)
(* up (and does not bump).                                                 *)
(***************************************************************************)
\* Mutant of AfterAssign: updateVM is not called.
NoUpdateVM(t) == "bump"

AfterAssign(t) == IF t = "job" THEN "bump" ELSE "compare"

AfterData(t) == CASE t = "poll" -> "bump" [] t = "job" -> "assign" [] OTHER -> "up"

AfterBump(t) == IF t = "poll" THEN "up" ELSE "rest"

\* The handler returns: its lock's scope ends, and its locals with it.
Finish(u, to) ==
  IF to = "rest"
  THEN /\ mutex' = IF mutex = u THEN Free ELSE mutex
       /\ task' = [task EXCEPT ![u] = "poll"]
       /\ seed' = [seed EXCEPT ![u] = None]
       /\ UNCHANGED todo
  ELSE UNCHANGED <<mutex, work>>

Assign(u) ==
  /\ Goto(u, "assign", AfterAssign(task[u]))
  /\ job' = [job EXCEPT ![u[1]] = seed[u]]
  /\ UNCHANGED <<pool, data, work, mutex, connected, miner>>

\* Somebody else may still write the data of u's connection.
Rivals(u) == {v \in Updaters \ {u} : v[1] = u[1] /\ pc[v] \in Writing}

\* Mutant of Compare: randomx_ready is not cleared before the rebuild.
CompareOnly(u) ==
  LET k == u[1] IN
  /\ Goto(u, "compare", IF seed[u] = cacheKey[k] THEN AfterData(task[u]) ELSE "init")
  /\ clash' = [clash EXCEPT ![k] = @ \/ (seed[u] # cacheKey[k] /\ Rivals(u) # {})]
  /\ UNCHANGED <<pool, cacheKey, ownKey, ready, cache, dataset, work, mutex, job,
                 connected, miner>>

\* updateVM: the seed is the one the data was made from, or they are torn down.
Compare(u) ==
  LET k == u[1] IN
  /\ Goto(u, "compare", IF seed[u] = cacheKey[k] THEN AfterData(task[u]) ELSE "init")
  /\ ready' = [ready EXCEPT ![k] = @ /\ seed[u] = cacheKey[k]]
  /\ clash' = [clash EXCEPT ![k] = @ \/ (seed[u] # cacheKey[k] /\ Rivals(u) # {})]
  /\ UNCHANGED <<pool, cacheKey, ownKey, cache, dataset, work, mutex, job, connected,
                 miner>>

\* randomx_init_cache leaves a cache of that key as it is, whatever is in it ...
KeepCache(u) ==
  /\ ownKey[u[1]] = seed[u]
  /\ Goto(u, "init", "items")
  /\ todo' = [todo EXCEPT ![u] = Items]
  /\ UNCHANGED <<pool, data, task, seed, mutex, job, connected, miner>>

\* ... or begins to overwrite it; alone, that is a clean start ...
InitCache(u) ==
  LET k == u[1] IN
  /\ ownKey[k] # seed[u]
  /\ Goto(u, "init", "argon")
  /\ cache' = [cache EXCEPT ![k] = None]
  /\ clash' = [clash EXCEPT ![k] = Rivals(u) # {}]
  /\ UNCHANGED <<pool, cacheKey, ownKey, ready, dataset, work, mutex, job, connected,
                 miner>>

\* What a rebuild makes of v, which is as it should be unless another interfered.
Made(k, v) == {v} \cup {x \in {Mixed} : clash[k]}

\* ... and has filled it for its seed.
CacheFilled(u) ==
  LET k == u[1] IN
  /\ Goto(u, "argon", "items")
  /\ \E v \in Made(k, seed[u]) : cache' = [cache EXCEPT ![k] = v]
  /\ ownKey' = [ownKey EXCEPT ![k] = seed[u]]
  /\ todo' = [todo EXCEPT ![u] = Items]
  /\ UNCHANGED <<pool, cacheKey, ready, dataset, clash, task, seed, mutex, job,
                 connected, miner>>

\* One of the threads of randomx_update_data reads what the cache holds at several
\* places and writes the item; another rebuild may come between.
ItemComputed(u) ==
  LET k == u[1] IN
  /\ pc[u] = "items"
  /\ \E i \in todo[u], v \in Made(k, cache[k]) :
       /\ dataset' = [dataset EXCEPT ![k] = [@ EXCEPT ![i] = v]]
       /\ todo' = [todo EXCEPT ![u] = @ \ {i}]
  /\ UNCHANGED <<pool, cacheKey, ownKey, ready, cache, clash, task, seed, mutex, job,
                 connected, pc, miner>>

\* Mutant of ItemsJoined: the threads are not joined.
ItemsDetached(u) ==
  /\ Goto(u, "items", "key")
  /\ UNCHANGED <<pool, data, work, mutex, job, connected, miner>>

\* All of them are joined.
ItemsJoined(u) ==
  /\ todo[u] = {}
  /\ Goto(u, "items", "key")
  /\ UNCHANGED <<pool, data, work, mutex, job, connected, miner>>

\* refKey = the new seed_hash.
KeyStored(u) ==
  /\ Goto(u, "key", "on")
  /\ cacheKey' = [cacheKey EXCEPT ![u[1]] = seed[u]]
  /\ UNCHANGED <<pool, ownKey, ready, cache, dataset, clash, work, mutex, job,
                 connected, miner>>

\* status = true.
Ready(u) ==
  /\ Goto(u, "on", AfterData(task[u]))
  /\ ready' = [ready EXCEPT ![u[1]] = TRUE]
  /\ UNCHANGED <<pool, cacheKey, ownKey, cache, dataset, clash, work, mutex, job,
                 connected, miner>>

\* Mutant of Bump: the miners are not told.
NoBump(u) ==
  /\ Goto(u, "bump", AfterBump(task[u]))
  /\ Finish(u, AfterBump(task[u]))
  /\ UNCHANGED <<pool, data, job, connected, miner>>

\* jobCounter++, which ends the hash loop of every miner.
Bump(u) ==
  /\ Goto(u, "bump", AfterBump(task[u]))
  /\ Finish(u, AfterBump(task[u]))
  /\ miner' = [m \in Miners |-> [miner[m] EXCEPT !.fresh = FALSE]]
  /\ UNCHANGED <<pool, data, job, connected>>

Up(u) ==
  /\ Goto(u, "up", "rest")
  /\ Finish(u, "rest")
  /\ connected' = [connected EXCEPT ![u[1]] = TRUE]
  /\ UNCHANGED <<pool, data, job, miner>>

-----------------------------------------------------------------------------
(***************************************************************************)
(* The connection is lost and made again.                                  *)
(***************************************************************************)
\* The miners in their loops, or in the one inside it that waits for a free slot.
InLoop == {"hash", "slot"}

\* isConnected or devConnected is cleared.
Cleared(k) ==
  /\ connected' = [connected EXCEPT ![k] = FALSE]
  /\ miner' = [m \in Miners |->
                 [miner[m] EXCEPT !.cut = @ \/ (k = "user" /\ miner[m].pc \in InLoop)]]

\* A poll fails, or stratum times out: setForDisconnected.
Lost(k) ==
  /\ Goto(Session(k), "rest", "leaving")
  /\ Cleared(k)
  /\ UNCHANGED <<pool, data, work, mutex, job>>

\* The session has waited for its submit thread, if it is not left waiting, and returns.
Left(k) ==
  /\ pc[Submitter(k)] = "rest"
  /\ Goto(Session(k), "leaving", "away")
  /\ UNCHANGED <<pool, data, work, mutex, job, connected, miner>>

\* getWork_v2 tries again, at first and then after about 10 seconds.  It waits for
\* ever if a block's template came in while the session was leaving.
Reconnect(k) ==
  /\ ~connected[k]
  /\ Goto(Session(k), "away", IF protocol = "solo" THEN "rest" ELSE "login")
  /\ Cleared(k)
  /\ UNCHANGED <<pool, data, work, mutex, job>>

\* There is no connection, or the login cannot be written; or it is answered with an
\* error, which is ignored, or not at all, and the session reads on.
LoginFails(k) ==
  /\ \E to \in {"away", "rest"} : Goto(Session(k), "login", to)
  /\ UNCHANGED <<pool, data, work, mutex, job, connected, miner>>

-----------------------------------------------------------------------------
(***************************************************************************)
(* The miners (mineRx0).                                                   *)
(***************************************************************************)
MinerGoto(m, from, to) ==
  /\ miner[m].pc = from
  /\ miner' = [miner EXCEPT ![m] = [Unborn EXCEPT !.pc = to]]
  /\ UNCHANGED <<pool, data, work, mutex, job, connected, pc>>

MinerIdle(m) ==
  /\ connected["user"]
  /\ MinerGoto(m, "idle", "wait")

\* while (!randomx_ready && !randomx_ready_dev)
MinerWaits(m) ==
  /\ \E k \in Kinds : ready[k]
  /\ MinerGoto(m, "wait", "copy")

\* Mutant of MinerThrows: a job may come without its "blob".
BlobMissing(m) ==
  /\ mutex = Free
  /\ MinerGoto(m, "copy", IF connected["user"] THEN "wait" ELSE "idle")

\* A job that is still empty has no "blob": both are read, and at() throws.
MinerThrows(m) ==
  /\ mutex = Free
  /\ \E k \in Connections : job[k] = None
  /\ MinerGoto(m, "copy", IF connected["user"] THEN "wait" ELSE "idle")

MinerCopy(m) ==
  /\ miner[m].pc = "copy"
  /\ mutex = Free
  /\ \A k \in Connections : job[k] # None
  /\ miner' = [miner EXCEPT ![m] = [pc |-> "hash", job |-> job, fresh |-> TRUE,
                                   cut |-> ~connected["user"]]]
  /\ UNCHANGED <<pool, data, work, mutex, job, connected, pc>>

\* A share is found while the slot it goes to is taken: that of either connection.
MinerHeld(m) ==
  /\ miner[m].pc = "hash"
  /\ miner' = [miner EXCEPT ![m].pc = "slot"]
  /\ UNCHANGED <<pool, data, work, mutex, job, connected, pc>>

\* The counter has moved, which ends the wait for the slot too, or the user's
\* connection is lost, which does not.
MinerLeaves(m) ==
  /\ \/ ~miner[m].fresh
     \/ ~connected["user"] /\ miner[m].pc = "hash"
  /\ \E from \in InLoop :
       MinerGoto(m, from, IF connected["user"] THEN "wait" ELSE "idle")

\* The slot is free: the share goes in, and the miner hashes on while it is connected.
MinerReleased(m) ==
  /\ miner[m].pc = "slot"
  /\ miner[m].fresh
  /\ \/ /\ connected["user"]
        /\ miner' = [miner EXCEPT ![m].pc = "hash"]
        /\ UNCHANGED <<pool, data, work, mutex, job, connected, pc>>
     \/ /\ ~connected["user"]
        /\ MinerGoto(m, "slot", "idle")

-----------------------------------------------------------------------------
Update(u) ==
  \/ Lock(u) \/ Assign(u) \/ Compare(u) \/ KeepCache(u) \/ InitCache(u) \/ CacheFilled(u)
  \/ ItemComputed(u) \/ ItemsJoined(u) \/ KeyStored(u) \/ Ready(u) \/ Bump(u) \/ Up(u)

Receive(k) ==
  Poll(k) \/ BlockAccepted(k) \/ JobArrives(k) \/ LoginReply(k)

Life(k) == Lost(k) \/ Left(k) \/ Reconnect(k) \/ LoginFails(k)

MinerSteps(m) ==
  MinerIdle(m) \/ MinerWaits(m) \/ MinerThrows(m) \/ MinerCopy(m) \/ MinerLeaves(m)

MinerNext(m) == MinerSteps(m) \/ MinerHeld(m) \/ MinerReleased(m)

Next ==
  \/ \E k \in Kinds : SeedChanges(k) \/ Receive(k) \/ Life(k)
  \/ \E k \in Connections : OtherJob(k)
  \/ \E u \in Updaters : Update(u)
  \/ \E m \in Miners : MinerNext(m)

Spec == Init /\ [][Next]_vars

\* Threads are scheduled, and get the mutex at last when they wait for it.  Nothing is
\* assumed of the pools, of a session that waits for its submit thread, nor of a miner
\* that waits for its slot.
Fairness ==
  /\ \A u \in Updaters : WF_vars(Update(u))
  /\ \A k \in Kinds : SF_vars(Lock(Session(k)))
  /\ \A m \in Miners : SF_vars(MinerSteps(m))

FairSpec == Spec /\ Fairness

-----------------------------------------------------------------------------
TypeOK ==
  /\ protocol \in {"solo", "stratum"}
  /\ mutex \in Updaters \cup {Free}
  /\ current \in [Kinds -> Nat]
  /\ job \in [Connections -> Nat]
  /\ cacheKey \in [Kinds -> Nat]
  /\ ownKey \in [Kinds -> Nat]
  /\ ready \in [Kinds -> BOOLEAN]
  /\ cache \in [Kinds -> Nat \cup {Mixed}]
  /\ dataset \in [Kinds -> [Items -> Nat \cup {Mixed}]]
  /\ clash \in [Kinds -> BOOLEAN]
  /\ connected \in [Kinds -> BOOLEAN]
  /\ pc \in [Updaters -> Phases]
  /\ task \in [Updaters -> {"poll", "job", "login"}]
  /\ seed \in [Updaters -> Nat]
  /\ todo \in [Updaters -> SUBSET Items]
  /\ miner \in [Miners -> [pc : {"idle", "wait", "copy"} \cup InLoop,
                           job : [Connections -> Nat], fresh : BOOLEAN,
                           cut : BOOLEAN]]

MadeFrom(k, s) == \A i \in Items : dataset[k][i] = s

\* Whoever may write the cache, the dataset or the key of connection k.
Of(k) == {u \in Updaters : u[1] = k}
Writers(k) == {u \in Of(k) : pc[u] \in Writing}

\* Overlapping rebuilds apart, every item of a dataset that nobody writes was made
\* from the seed its key names, so the next comparison in updateVM is right to keep
\* it: though the cache has a key of its own that the rebuild trusts, though an epoch
\* may end during the rebuild, and though an overlap may have gone before, once one
\* rebuild alone has filled the cache anew.
KeyNamesDataset ==
  \A k \in Kinds : Writers(k) = {} /\ ~clash[k] => MadeFrom(k, cacheKey[k])

\* With stratum, randomx_ready is never set while the dataset is torn.
ReadyMeansBuilt ==
  protocol = "stratum" => \A k \in Kinds : ready[k] => MadeFrom(k, cacheKey[k])

\* With stratum, a miner whose copy of the user's job is up to date hashes it on the
\* dataset of that job's seed, unless a handler is at work: the handler's order
\* (data, job, counter) and the mutex see to that.  A login rebuilds and does not
\* bump, and nothing makes it wait for the miners: one that has stayed in its loop
\* since the connection was lost, in the wait for a slot say, is left out.
HashesOnItsSeed ==
  protocol = "stratum" =>
    \A m \in Miners :
      /\ miner[m].pc = "hash" /\ miner[m].fresh /\ ~miner[m].cut
      /\ pc[Session("user")] \notin Busy
      => MadeFrom("user", miner[m].job["user"])

\* The inductive invariant behind the first two: until two rebuilds overlap there is
\* one writer, and what it has done is of its seed.
RebuildInv(k) ==
  ~clash[k] =>
    /\ \A u, v \in Writers(k) : u = v
    /\ \A u \in Of(k) :
         /\ pc[u] = "items" => cache[k] = seed[u] /\ ownKey[k] = seed[u]
         /\ pc[u] = "key" => todo[u] = {}
         /\ pc[u] \in {"items", "key"}
              => \A i \in Items : i \in todo[u] \/ dataset[k][i] = seed[u]
    /\ (\A u \in Of(k) : pc[u] # "argon") => cache[k] = ownKey[k]
    /\ Writers(k) = {} => MadeFrom(k, cacheKey[k])

StratumInv(k) ==
  protocol = "stratum" =>
    /\ ~clash[k]
    /\ pc[Submitter(k)] = "rest"
    /\ pc[Session(k)] \in Writing => ~ready[k]

DataInv == \A k \in Kinds : RebuildInv(k) /\ StratumInv(k)

\* The one behind the third: what a stratum handler of the user's connection has
\* achieved at each of its steps, and that miners cannot copy meanwhile.
Handling == Busy \ {"lock"}

HandlerInv ==
  LET u == Session("user") IN
  protocol = "stratum" =>
    /\ pc[u] \in Handling => mutex = u
    /\ pc[u] \in Busy => task[u] \in {"job", "login"}
    /\ pc[u] \in {"login"} \/ (pc[u] \in Busy /\ task[u] = "login") => ~connected["user"]
    /\ pc[u] \notin Handling => job["user"] \in {None, cacheKey["user"]}
    /\ pc[u] \in Handling /\ task[u] = "login" /\ pc[u] # "assign" => job["user"] = seed[u]
    /\ pc[u] \in {"on", "bump", "up"} => cacheKey["user"] = seed[u]
    /\ pc[u] = "assign" /\ task[u] = "job" => cacheKey["user"] = seed[u]
    /\ pc[u] = "bump" => job["user"] = seed[u]
    /\ pc[u] = "bump" => task[u] = "job"
    /\ pc[u] = "up" => task[u] = "login"
    /\ ~connected["user"] => \A m \in Miners : miner[m].pc \in InLoop => miner[m].cut
    /\ ~(task[u] = "job" /\ pc[u] \in {"on", "assign", "bump"})
         => \A m \in Miners :
              /\ miner[m].pc \in InLoop /\ miner[m].fresh /\ ~miner[m].cut
              => miner[m].job["user"] = cacheKey["user"]

\* The user's pool goes on giving jobs, which the session gets.
JobsKeepComing == []<>(pc[Session("user")] = "bump")

\* While the pool gives jobs, the published job is of the current seed at last, and
\* the dataset, overlapping rebuilds apart, and both stay so.
Settles ==
  JobsKeepComing
    => <>[](/\ ready["user"]
            /\ clash["user"] \/ MadeFrom("user", current["user"])
            /\ job["user"] = current["user"])

\* While the user's pool gives jobs, and the other has given one, every miner hashes
\* again and again: losses of the connection, waits for a slot and rebuilds hold it
\* up for a time only.
MinersHash ==
  JobsKeepComing /\ <>(\A k \in Connections : job[k] # None)
    => \A m \in Miners : []<>(miner[m].pc = "hash")
=============================================================================
