------------------------------ MODULE JobFeed ------------------------------
(***************************************************************************)
(* How a job gets from a pool into the hash loop of the miners, in two     *)
(* ways.                                                                   *)
(*                                                                         *)
(* "stratum" (handleSpectreStratumPacket and mineSpectre): a session       *)
(* publishes a job under `mutex': the job object, then the height, then    *)
(* jobCounter.  A miner copies the job objects of both connections and     *)
(* jobCounter under `mutex', but reads the heights outside of it, and      *)
(* decodes its copy of the template into its work buffer only when the     *)
(* height differs from the one it remembers.  set_difficulty bumps the     *)
(* plain int jobCounter without the mutex.                                 *)
(*                                                                         *)
(* "getwork" (dero_session and mineDero): a session takes no lock: it      *)
(* assigns the job, says that it is connected, and bumps jobCounter.  A    *)
(* miner copies as above and decodes every copy; it looks at no height.    *)
(*                                                                         *)
(* Every unlocked access is a step of its own.                             *)
(*                                                                         *)
(* A header (the template's contents) is a number; the pool numbers the    *)
(* headers of a connection in the order it makes them.  Targets, extra     *)
(* nonces and shutdown are left out, and so is the tearing of a Dero job   *)
(* that is assigned while it is copied.                                    *)
(***************************************************************************)
EXTENDS Integers, Sequences

CONSTANTS Miners,
          Kinds,     \* {"user"} or {"user", "dev"}
          Feeds,     \* a subset of {"stratum", "getwork"}
          MaxJobs,   \* bound: notify packets per connection
          MaxBumps,  \* bound: set_difficulty is sent while jobCounter is below it
          Drops      \* the connections that may be lost and made again

ASSUME FeedAssumption ==
  /\ Kinds \subseteq {"user", "dev"} /\ "user" \in Kinds
  /\ Feeds \subseteq {"stratum", "getwork"}
  /\ MaxJobs \in Nat /\ MaxBumps \in Nat /\ Drops \subseteq Kinds

VARIABLES
  feed,       \* how this miner gets its jobs
  mutex,      \* the kind whose handler holds `mutex', or "none"
  pool,       \* pool[k][id]: the header of job id; the pool's own record
  job,        \* job, devJob: [id, header]; id 0: the empty object
  height,     \* ourHeight, devHeight
  jobCounter,
  cache,      \* cache[k]: the session's jobCache, or Garbage
  connected,  \* isConnected, devConnected
  sess,       \* sess[k]: where the session's packet handler is
  read,       \* read[k]: the value of jobCounter its increment has loaded
  miner,      \* miner[m]: where the miner is, and its locals
  lost        \* history: an increment of jobCounter has been overwritten

vars == <<feed, mutex, pool, job, height, jobCounter, cache, connected, sess, read, miner,
          lost>>
published == <<pool, job, height, jobCounter, cache, connected>>

NoJob == [id |-> 0, header |-> 0]
Garbage == -1   \* an uninitialised jobCache equal to no header

SessPc == {"idle", "height", "load", "store", "up"}
MinerPc == {"wait", "copy", "gate", "decode", "gateDev", "decodeDev",
            "loop", "try", "hash", "found", "claim"}

\* localJobCounter, the copies of job and devJob, localOurHeight / localDevHeight,
\* the header decoded into work / devWork, devMine, and the buffer WORK refers to.
Locals == [pc |-> "wait", counter |-> -1, copy |-> [k \in Kinds |-> NoJob],
           local |-> [k \in Kinds |-> 0], work |-> [k \in Kinds |-> 0],
           kind |-> "user", buffer |-> "user"]

Init ==
  /\ feed \in Feeds
  /\ mutex = "none"
  /\ pool = [k \in Kinds |-> <<>>]
  /\ job = [k \in Kinds |-> NoJob]
  /\ height = [k \in Kinds |-> 0]
  /\ jobCounter = 0
  /\ cache = [k \in Kinds |-> Garbage]
  /\ connected = [k \in Kinds |-> FALSE]
  /\ sess = [k \in Kinds |-> "idle"]
  /\ read = [k \in Kinds |-> 0]
  /\ miner = [m \in Miners |-> Locals]
  /\ lost = FALSE

-----------------------------------------------------------------------------
(***************************************************************************)
(* The session of kind k.                                                  *)
(***************************************************************************)
SessGoto(k, from, to) ==
  /\ sess[k] = from
  /\ sess' = [sess EXCEPT ![k] = to]

\* The newest header of a connection, 0 before the first.
Newest(k) == IF pool[k] = <<>> THEN 0 ELSE pool[k][Len(pool[k])]

\* mining.notify: the job id is always stored, the template only when the header
\* differs from the cached one; then the height and jobCounter are bumped too.
\* A pool also sends a header again under a new job id.
Notify(k, header) ==
  /\ feed = "stratum"
  /\ mutex = "none"
  /\ Len(pool[k]) < MaxJobs
  /\ header \in {Newest(k), Newest(k) + 1} \ {0}
  /\ SessGoto(k, "idle", IF header = cache[k] THEN "up" ELSE "height")
  /\ mutex' = k
  /\ pool' = [pool EXCEPT ![k] = Append(@, header)]
  /\ job' = [job EXCEPT ![k] = [id |-> Len(pool[k]) + 1,
                                header |-> IF header = cache[k] THEN @.header ELSE header]]
  /\ cache' = [cache EXCEPT ![k] = header]
  /\ UNCHANGED <<feed, height, jobCounter, connected, read, miner, lost>>

\* Dero's getwork: the job is assigned whatever it contains, without a lock.
Getwork(k, header) ==
  /\ feed = "getwork"
  /\ Len(pool[k]) < MaxJobs
  /\ header \in {Newest(k), Newest(k) + 1} \ {0}
  /\ SessGoto(k, "idle", "up")
  /\ pool' = [pool EXCEPT ![k] = Append(@, header)]
  /\ job' = [job EXCEPT ![k] = [id |-> Len(pool[k]) + 1, header |-> header]]
  /\ UNCHANGED <<feed, mutex, height, jobCounter, cache, connected, read, miner, lost>>

\* Mutant of BumpHeight: the height is decremented.
HeightBackwards(k) ==
  /\ SessGoto(k, "height", "load")
  /\ height' = [height EXCEPT ![k] = @ - 1]
  /\ UNCHANGED <<feed, mutex, pool, job, jobCounter, cache, connected, read, miner, lost>>

BumpHeight(k) ==
  /\ SessGoto(k, "height", "load")
  /\ height' = [height EXCEPT ![k] = @ + 1]
  /\ UNCHANGED <<feed, mutex, pool, job, jobCounter, cache, connected, read, miner, lost>>

\* jobCounter++ is a load and a store.
LoadCounter(k) ==
  /\ SessGoto(k, "load", "store")
  /\ read' = [read EXCEPT ![k] = jobCounter]
  /\ UNCHANGED <<feed, mutex, published, miner, lost>>

StoreCounter(k) ==
  /\ SessGoto(k, "store", IF mutex = k THEN "up" ELSE "idle")
  /\ jobCounter' = read[k] + 1
  /\ lost' = (lost \/ jobCounter # read[k])
  /\ read' = [read EXCEPT ![k] = 0]
  /\ UNCHANGED <<feed, mutex, pool, job, height, cache, connected, miner>>

\* Where the handler that sets isConnected goes on: for Dero jobCounter comes last.
AfterUp == IF feed = "getwork" THEN "load" ELSE "idle"

\* The connection is up.  The notify handler ends with it and releases the lock.
Up(k) ==
  /\ SessGoto(k, "up", AfterUp)
  /\ connected' = [connected EXCEPT ![k] = TRUE]
  /\ mutex' = IF feed = "getwork" THEN mutex ELSE "none"
  /\ UNCHANGED <<feed, pool, job, height, jobCounter, cache, read, miner, lost>>

\* mining.set_difficulty, after the first job of its connection.
SetDifficulty(k) ==
  /\ feed = "stratum"
  /\ jobCounter < MaxBumps
  /\ pool[k] # <<>>
  /\ SessGoto(k, "idle", "load")
  /\ UNCHANGED <<feed, mutex, published, read, miner, lost>>

\* The connection is lost and a new session begins.  Its jobCache is not
\* initialised: it may hold what the old one left on the stack.
Reconnect(k) ==
  /\ k \in Drops
  /\ connected[k]
  /\ SessGoto(k, "idle", "idle")
  /\ connected' = [connected EXCEPT ![k] = FALSE]
  /\ \E c \in {cache[k], Garbage} : cache' = [cache EXCEPT ![k] = c]
  /\ UNCHANGED <<feed, mutex, pool, job, height, jobCounter, read, miner, lost>>

-----------------------------------------------------------------------------
(***************************************************************************)
(* The miner threads.                                                      *)
(***************************************************************************)
MinerStep(m, from, new) ==
  /\ miner[m].pc = from
  /\ miner' = [miner EXCEPT ![m] = new]
  /\ UNCHANGED <<feed, mutex, published, sess, read, lost>>

At(m, pc) == [miner[m] EXCEPT !.pc = pc]

\* Where the inner and the outer loop resume.
Inner == IF connected["user"] THEN "loop" ELSE "wait"
Outer == IF connected["user"] THEN "copy" ELSE "wait"

\* An exception in the loop body (at("template") of an empty object).
Thrown(m) == [At(m, Outer) EXCEPT !.counter = -1, !.local = [k \in Kinds |-> -1]]

\* Mutant of Wait: both connections have to be up.
WaitsForAll(m) == (\A k \in Kinds : connected[k]) /\ MinerStep(m, "wait", At(m, "copy"))

Wait(m) == connected["user"] /\ MinerStep(m, "wait", At(m, "copy"))

\* Mutant of Copy: devJob is not copied again.
CopiesUserJob(m) ==
  /\ mutex = "none"
  /\ MinerStep(m, "copy", [At(m, "gate") EXCEPT !.copy = [@ EXCEPT !["user"] = job["user"]],
                                                !.counter = jobCounter])

Copy(m) ==
  /\ mutex = "none"
  /\ MinerStep(m, "copy", [At(m, "gate") EXCEPT !.copy = job, !.counter = jobCounter])

\* Mutant of Outdated: a Dero miner keeps what it has decoded once.
DecodesOnce(m, k) ==
  IF feed = "getwork" THEN miner[m].work[k] = 0 ELSE miner[m].local[k] # height[k]

\* The copy is decoded: always, or when the height has moved.
Outdated(m, k) == feed = "getwork" \/ miner[m].local[k] # height[k]

\* A template with a height means the height was bumped under the same lock, so
\* the test for two zero heights never holds here.
Gate(m) ==
  MinerStep(m, "gate",
    IF miner[m].copy["user"].id = 0 THEN Thrown(m)
    ELSE At(m, IF Outdated(m, "user") THEN "decode" ELSE "gateDev"))

\* Mutant of Decoded: the template is taken from the global job, not the copy.
DecodesGlobal(m, k, pc) ==
  [At(m, pc) EXCEPT !.work = [@ EXCEPT ![k] = job[k].header],
                    !.local = [@ EXCEPT ![k] = height[k]]]

\* The template comes from the copy; the height is read again, from the global.
Decoded(m, k, pc) ==
  [At(m, pc) EXCEPT !.work = [@ EXCEPT ![k] = miner[m].copy[k].header],
                    !.local = [@ EXCEPT ![k] = height[k]]]

Decode(m) == MinerStep(m, "decode", Decoded(m, "user", "gateDev"))

GateDev(m) ==
  MinerStep(m, "gateDev",
    IF "dev" \notin Kinds \/ ~connected["dev"] THEN At(m, "loop")
    ELSE IF miner[m].copy["dev"].id = 0 THEN Thrown(m)
    ELSE At(m, IF Outdated(m, "dev") THEN "decodeDev" ELSE "loop"))

DecodeDev(m) ==
  "dev" \in Kinds /\ MinerStep(m, "decodeDev", Decoded(m, "dev", "loop"))

Current(m) == miner[m].counter = jobCounter

\* while (localJobCounter == jobCounter): a nonce is tried for one connection.
Try(m, k) ==
  /\ Current(m)
  /\ k = "dev" => connected["dev"] /\ (height["dev"] > 0 \/ feed = "getwork")
  /\ MinerStep(m, "loop", [At(m, "try") EXCEPT !.kind = k, !.buffer = k])

LoopEnds(m) == ~Current(m) /\ MinerStep(m, "loop", At(m, Outer))

\* Spectre looks at devConnected again to choose the buffer: a nonce for a dev
\* connection that was lost in between is tried on the user's header.
Buffer(m) == IF feed = "getwork" \/ (\A k \in Kinds \ {"user"} : connected[k])
             THEN miner[m].kind ELSE "user"

\* Before the hash jobCounter is tested again, and after it jobCounter and the height
\* of the user's job, whichever connection the nonce was for; not so for Dero.
BeforeHash(m) ==
  MinerStep(m, "try",
    [At(m, IF feed = "getwork" \/ Current(m) THEN "hash" ELSE Outer)
       EXCEPT !.buffer = Buffer(m)])

Left(m) == feed = "stratum" /\ (~Current(m) \/ miner[m].local["user"] # height["user"])

HashEnds(m) ==
  \/ Left(m) /\ MinerStep(m, "hash", At(m, Outer))
  \/ ~Left(m) /\ MinerStep(m, "hash", At(m, "found"))
  \/ ~Left(m) /\ MinerStep(m, "hash", At(m, Inner))

\* Mutant of Announced: jobCounter is not tested.
HeightOnly(m) == miner[m].local[miner[m].kind] = height[miner[m].kind]

\* The share waits for its slot as long as the job is current, and is given up or
\* claimed.
Announced(m) ==
  /\ Current(m)
  /\ feed = "stratum" => miner[m].local[miner[m].kind] = height[miner[m].kind]

\* Dero's break leaves the loop over the batch only.
GiveUp(m) ==
  /\ ~Announced(m)
  /\ MinerStep(m, "found", At(m, IF feed = "getwork" THEN Inner ELSE Outer))

PassCheck(m) == Announced(m) /\ MinerStep(m, "found", At(m, "claim"))

\* The share is made of the job id of the copy and the nonce found for the buffer.
\* Without a job id (a copy older than the dev pool's first job) it throws.
Claim(m) ==
  MinerStep(m, "claim",
    IF miner[m].copy[miner[m].kind].id = 0 THEN Thrown(m)
    ELSE At(m, Inner))

-----------------------------------------------------------------------------
SessNext(k) ==
  \/ \E header \in 1..MaxJobs : Notify(k, header) \/ Getwork(k, header)
  \/ BumpHeight(k) \/ LoadCounter(k) \/ StoreCounter(k) \/ Up(k)
  \/ SetDifficulty(k) \/ Reconnect(k)

MinerNext(m) ==
  \/ Wait(m) \/ Copy(m) \/ Gate(m) \/ Decode(m) \/ GateDev(m) \/ DecodeDev(m)
  \/ \E k \in Kinds : Try(m, k)
  \/ LoopEnds(m) \/ BeforeHash(m) \/ HashEnds(m) \/ GiveUp(m) \/ PassCheck(m) \/ Claim(m)

Next == \/ \E k \in Kinds : SessNext(k)
        \/ \E m \in Miners : MinerNext(m)

Spec == Init /\ [][Next]_vars

\* A handler that has begun runs to its end; miners are scheduled, and get the
\* mutex at last.  Nothing is assumed of the pool or of hashes.
Handling(k) == BumpHeight(k) \/ LoadCounter(k) \/ StoreCounter(k) \/ Up(k)

Fairness == /\ \A k \in Kinds : WF_vars(Handling(k))
            /\ \A m \in Miners : WF_vars(MinerNext(m)) /\ SF_vars(Copy(m))

FairSpec == Spec /\ Fairness

-----------------------------------------------------------------------------
JobType == [id : 0..MaxJobs, header : 0..MaxJobs]
MinerType == [pc : MinerPc, counter : Nat \cup {-1}, copy : [Kinds -> JobType],
              local : [Kinds -> Nat \cup {-1}], work : [Kinds -> 0..MaxJobs],
              kind : Kinds, buffer : Kinds]

TypeOK ==
  /\ feed \in Feeds
  /\ mutex \in Kinds \cup {"none"}
  /\ pool \in [Kinds -> Seq(1..MaxJobs)]
  /\ job \in [Kinds -> JobType]
  /\ height \in [Kinds -> Nat]
  /\ jobCounter \in Nat
  /\ cache \in [Kinds -> 1..MaxJobs \cup {Garbage}]
  /\ connected \in [Kinds -> BOOLEAN]
  /\ sess \in [Kinds -> SessPc]
  /\ read \in [Kinds -> Nat]
  /\ miner \in [Miners -> MinerType]
  /\ lost \in BOOLEAN

\* The job a miner is about to name in a share, and the header its nonce is for.
Claiming(m) == miner[m].pc = "claim" /\ miner[m].copy[miner[m].kind].id # 0
Named(m) == pool[miner[m].kind][miner[m].copy[miner[m].kind].id]
Hashed(m) == miner[m].work[miner[m].buffer]
OwnBuffer(m) == miner[m].buffer = miner[m].kind

\* The unlocked decode can only lag: a share names the job it was mined for or a
\* later one, never an earlier one (unless the buffer is the other connection's).
LabelNeverOlder ==
  \A m \in Miners : Claiming(m) /\ OwnBuffer(m) => Hashed(m) <= Named(m)

\* The inductive invariant behind it: the pool's headers never decrease, the
\* published job is the pool's newest and the cache is its header or garbage, a
\* miner's copy is a job the pool has sent, and its buffer lags its copy.
PoolOrdered(k) == \A i, j \in 1..Len(pool[k]) : i <= j => pool[k][i] <= pool[k][j]
IsJobOf(j, k) == IF j.id = 0 THEN j.header = 0
                 ELSE j.id <= Len(pool[k]) /\ j.header = pool[k][j.id]

FeedInv ==
  \A k \in Kinds :
    /\ PoolOrdered(k)
    /\ job[k].id = Len(pool[k]) /\ IsJobOf(job[k], k)
    /\ cache[k] \in {Garbage, job[k].header}
    /\ feed = "getwork" => cache[k] = Garbage
    /\ \A m \in Miners : /\ IsJobOf(miner[m].copy[k], k)
                          /\ miner[m].work[k] <= miner[m].copy[k].header

\* "// JOB ID": the job id in a share is that of the job whose header was hashed.
ShareNamesItsJob ==
  \A m \in Miners : Claiming(m) /\ OwnBuffer(m) => Hashed(m) = Named(m)

\* A Dero miner that passes its last test has mined the job it names: always for the
\* user; for the dev connection unless its session has just said that it is
\* connected and has yet to bump jobCounter, when a miner that copied the new job but
\* did not decode it tries the old buffer, or an increment was lost.
Late(k) == k # "user" /\ (sess[k] \in {"load", "store"} \/ lost)

GetworkNamesItsJob ==
  feed = "getwork" =>
    \A m \in Miners :
      LET k == miner[m].kind IN
      miner[m].pc = "found" /\ Announced(m) /\ ~Late(k)
        => miner[m].work[k] = miner[m].copy[k].header

\* The inductive invariant behind it: a miner that did not decode its copy for the dev
\* connection has seen it down, and once it is up again the bump of jobCounter,
\* which only grows while no increment is lost, is still to come.
Mining == {"loop", "try", "hash", "found", "claim"}
PastGate == {"gateDev", "decodeDev"} \cup Mining
Trying == {"try", "hash", "found"}

Follows(r) ==
  /\ ~lost => r.counter <= jobCounter
  /\ r.pc \in PastGate => r.work["user"] = r.copy["user"].header
  /\ \A k \in Kinds \ {"user"} :
       ~lost /\ r.counter = jobCounter /\ r.work[k] # r.copy[k].header =>
         /\ r.pc \in Mining => ~connected[k] \/ sess[k] \in {"load", "store"}
         /\ r.pc \in Trying /\ r.kind = k => sess[k] \in {"load", "store"}

GetworkInv == feed = "getwork" => \A m \in Miners : Follows(miner[m])

\* The handler has published a job and has still to bump jobCounter for it.
Announcing(k) == sess[k] \in {"height", "load", "store"} \/ (feed = "getwork" /\ sess[k] = "up")

\* A share that passes the last test before it is claimed names the newest header,
\* or the handler of a newer one has not come to jobCounter yet: the two unlocked
\* tests replace the lock the miner does not hold.  Two sessions that bump the
\* plain int at once can overwrite an increment, and only then does it fail.
LabelFresh ==
  [][\A m \in Miners : PassCheck(m) =>
       LET k == miner[m].kind
       IN  miner[m].copy[k].header = job[k].header \/ Announcing(k) \/ lost]_vars

\* The invariant behind it: while jobCounter is what the miner saw, its copies are the
\* published jobs, or the bump is still to come.
FreshInv ==
  ~lost =>
    \A m \in Miners :
      /\ miner[m].counter <= jobCounter
      /\ Current(m) => \A k \in Kinds : miner[m].copy[k].header = job[k].header \/ Announcing(k)

\* The feed implements JobBoard: a miner's copies are what both connections had posted
\* at one moment, a work buffer gets what its miner then holds and nothing else, and
\* what is posted only moves on to the pool's next header, stale caches included.
Board == INSTANCE JobBoard WITH
           posted <- [k \in Kinds |-> job[k].header],
           held <- [m \in Miners |-> [k \in Kinds |-> miner[m].copy[k].header]],
           mined <- [m \in Miners |-> miner[m].work]
BoardSpec == Board!Spec

\* Miners follow the pool: once a header is published every miner gets to a copy of
\* it or of a later one, or the user's connection is lost, or an increment was.
MinersFollow ==
  \A m \in Miners, k \in Kinds, h \in 1..MaxJobs :
    job[k].header = h ~> miner[m].copy[k].header >= h \/ ~connected["user"] \/ lost
=============================================================================
