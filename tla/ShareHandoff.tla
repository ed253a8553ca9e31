---------------------------- MODULE ShareHandoff ----------------------------
(***************************************************************************)
(* How a found share travels from a miner thread to the pool, and how the  *)
(* threads around that hand-off stop and restart.                          *)
(*                                                                         *)
(* Threads:                                                                *)
(*   - one session thread per kind of connection, "user" and "dev"         *)
(*     (getWork_v2 running dero_session as a coroutine);                   *)
(*   - the submit thread that every session starts;                        *)
(*   - the miner threads (mineDero, mineXelis), which serve both           *)
(*     connections.                                                        *)
(*                                                                         *)
(* They share plain globals: submitting / submittingDev (here              *)
(* submitting[k]), share / devShare, ONE data_ready flag and ONE condition *)
(* variable cv for both connections, jobCounter, isConnected / devConnected*)
(* (connected[k]) and ABORT_MINER.  `mutex' protects the submit threads    *)
(* and the miners' copy of the job; miners and sessions write the flags    *)
(* and notify WITHOUT it.  Every access to a global that another thread    *)
(* can interleave with is a step of its own.                               *)
(*                                                                         *)
(* abort and submitThread are locals of the session coroutine that its     *)
(* submit thread captures by reference.                                    *)
(***************************************************************************)
EXTENDS Naturals, FiniteSets, Functions

CONSTANTS Miners,     \* the miner threads
          Kinds,      \* the connections in use: {"user"} or {"user", "dev"}
          Renotify,   \* the stratum sessions of Spectre, Kas, Astrix and Verus
                      \* (TRUE) wake their submit thread a second time after a
                      \* failed read, and leave on a job time-out, a failed
                      \* pong or an exception too; FALSE: Dero, Shai and Xelis
                      \* solo
          XelisMiner, \* the miners run mineXelis, which claims a slot before its
                      \* last look at the job and wakes the submit threads when
                      \* it sees the connection lost; FALSE: mineDero
          MineTime,   \* the program was started with --mine-time > 5
          MaxJobs,    \* bound: jobs the pool of each kind sends; a pool accepts
                      \* a connection only while it has one to send
          MaxClaims   \* bound: shares claimed, beyond which no nonce is tried

ASSUME HandoffAssumption ==
  /\ Kinds \subseteq {"user", "dev"}
  /\ "user" \in Kinds
  /\ Renotify \in BOOLEAN
  /\ XelisMiner \in BOOLEAN
  /\ MineTime \in BOOLEAN
  /\ MaxJobs \in Nat
  /\ MaxClaims \in Nat

VARIABLES
  mutex,        \* owner of `mutex': a kind (its submit thread) or "none"
  data_ready,   \* the flag both submit threads wait for
  submitting,   \* submitting[k]: a share of kind k is claimed and not yet sent
  connected,    \* isConnected, devConnected
  posted,       \* posted[k]: how often job / devJob has been assigned
  jobCounter,   \* bumped after every job, of either kind
  ABORT_MINER,  \* set by the --mine-time timer
  interrupted,  \* interrupted[k]: main has interrupted the session's thread
  sess,         \* sess[k]: where the session thread is
  leaving,      \* leaving[k]: why the session leaves its read loop: "fail" (a
                \* failed read), "other" (time-out, pong, exception), "abort"
  abort,        \* abort[k]: the session's local flag
  submitThread, \* submitThread[k]: the session's local flag
  inflight,     \* inflight[k]: an async_write whose handler can still run
  sub,          \* sub[k]: where the submit thread is
  miner,        \* miner[m]: where the miner is, and its locals
  claims,       \* history: claims[k] counts the shares claimed
  sent          \* history: sent[k] counts the messages written

flags == <<data_ready, submitting, connected, posted, jobCounter, ABORT_MINER,
           interrupted>>
sessVars == <<sess, leaving, abort, submitThread, inflight>>
sessVarsButPc == <<leaving, abort, submitThread, inflight>>
history == <<claims, sent>>
vars == <<mutex, flags, sessVars, sub, miner, history>>

\* The session thread: getWork_v2's retry loop ("sleep", "connecting", "linger"),
\* the read loop of the session ("top" .. "loop"), setForDisconnected ("conn" ..
\* "notify"), and the two ways a session ends: it spins until its submit thread
\* is gone, or interrupts and joins it.  The thread is over when it has returned
\* ("closed") or main's interruption was thrown inside the session ("cut").
SessPc == {"sleep", "connecting", "top", "read", "post", "bump", "loop", "conn",
           "submit", "abort", "ready", "notify", "renotify", "spin",
           "interrupt", "join", "linger", "closed", "cut"}

ReadLoop == {"top", "read", "post", "bump", "loop"}

\* The session's coroutine has returned; its locals are gone.
Returned == {"sleep", "connecting", "linger", "closed"}

\* The submit thread.
SubPc == {"none", "start", "test", "pred", "enq", "wait", "relock", "check",
          "clear", "unready", "end"}

MinerPc == {"idle", "copy", "hash", "hashing", "slot", "claim", "fill",
            "notify", "nudge", "nudged", "nudgeAgain", "nudgedAgain", "closed"}

\* A miner and its locals: localJobCounter, whether its copy of devJob holds a
\* job, the connection it mines for (devMine), and `submit'.
MinerState == [pc : MinerPc, job : Nat, hasDev : BOOLEAN, kind : Kinds,
               submit : BOOLEAN]

Unborn == [pc |-> "idle", job |-> 0, hasDev |-> FALSE, kind |-> "user",
           submit |-> FALSE]

Init ==
  /\ mutex = "none"
  /\ data_ready = FALSE
  /\ submitting = [k \in Kinds |-> FALSE]
  /\ connected = [k \in Kinds |-> FALSE]
  /\ posted = [k \in Kinds |-> 0]
  /\ jobCounter = 0
  /\ ABORT_MINER = FALSE
  /\ interrupted = [k \in Kinds |-> FALSE]
  /\ sess = [k \in Kinds |-> "connecting"]
  /\ leaving = [k \in Kinds |-> "fail"]
  /\ abort = [k \in Kinds |-> FALSE]
  /\ submitThread = [k \in Kinds |-> FALSE]
  /\ inflight = [k \in Kinds |-> FALSE]
  /\ sub = [k \in Kinds |-> "none"]
  /\ miner = [m \in Miners |-> Unborn]
  /\ claims = [k \in Kinds |-> 0]
  /\ sent = [k \in Kinds |-> 0]

-----------------------------------------------------------------------------
(***************************************************************************)
(* cv.notify_all(): every thread blocked in cv.wait now has to get the     *)
(* mutex back.  A thread that has evaluated its predicate but is not       *)
(* blocked yet ("enq") is not woken.                                       *)
(***************************************************************************)
Woken == [k \in Kinds |-> IF sub[k] = "wait" THEN "relock" ELSE sub[k]]

-----------------------------------------------------------------------------
(***************************************************************************)
(* The session thread of kind k.                                           *)
(***************************************************************************)
SessGoto(k, from, to) ==
  /\ sess[k] = from
  /\ sess' = [sess EXCEPT ![k] = to]

\* The back-off sleep ends: the next connection attempt starts, or the program
\* is closing and the thread returns.
Retry(k) ==
  /\ SessGoto(k, "sleep", IF ABORT_MINER THEN "closed" ELSE "connecting")
  /\ connected' = [connected EXCEPT ![k] = @ /\ ABORT_MINER]
  /\ UNCHANGED <<mutex, data_ready, submitting, posted, jobCounter, ABORT_MINER,
                 interrupted, sessVarsButPc, sub, miner, history>>

\* Resolving, connecting or a handshake fails: the coroutine throws or returns.
ConnectFails(k) ==
  /\ SessGoto(k, "connecting", "sleep")
  /\ UNCHANGED <<mutex, flags, sessVarsButPc, sub, miner, history>>

\* The handshakes succeed; the session's locals are initialised and its submit
\* thread is created, but has not begun to run.
Connect(k) ==
  /\ posted[k] < MaxJobs
  /\ SessGoto(k, "connecting", "top")
  /\ abort' = [abort EXCEPT ![k] = FALSE]
  /\ submitThread' = [submitThread EXCEPT ![k] = FALSE]
  /\ inflight' = [inflight EXCEPT ![k] = FALSE]
  /\ sub' = [sub EXCEPT ![k] = "start"]
  /\ UNCHANGED <<mutex, flags, leaving, miner, history>>

\* A message that is no usable job: it does not parse, or a field is missing, which
\* dero_session finds out once job / devJob is assigned.
ReadOther(k) ==
  /\ SessGoto(k, "read", "loop")
  /\ \/ UNCHANGED posted
     \/ posted[k] < MaxJobs /\ posted' = [posted EXCEPT ![k] = @ + 1]
  /\ UNCHANGED <<mutex, data_ready, submitting, connected, jobCounter,
                 ABORT_MINER, interrupted, sessVarsButPc, sub, miner, history>>

\* A job arrives: job / devJob is assigned, without the mutex ...
ReadJob(k) ==
  /\ posted[k] < MaxJobs
  /\ SessGoto(k, "read", "post")
  /\ posted' = [posted EXCEPT ![k] = @ + 1]
  /\ UNCHANGED <<mutex, data_ready, submitting, connected, jobCounter,
                 ABORT_MINER, interrupted, sessVarsButPc, sub,
                 miner, history>>

\* ... then the connection is declared up ...
PostConnected(k) ==
  /\ SessGoto(k, "post", "bump")
  /\ connected' = [connected EXCEPT ![k] = TRUE]
  /\ UNCHANGED <<mutex, data_ready, submitting, posted, jobCounter, ABORT_MINER,
                 interrupted, sessVarsButPc, sub, miner, history>>

\* Mutant of BumpJobCounter: the counter is decremented.
BumpBackwards(k) ==
  /\ SessGoto(k, "bump", "loop")
  /\ jobCounter' = jobCounter - 1
  /\ UNCHANGED <<mutex, data_ready, submitting, connected, posted, ABORT_MINER,
                 interrupted, sessVarsButPc, sub, miner, history>>

\* ... and the miners are told last.
BumpJobCounter(k) ==
  /\ SessGoto(k, "bump", "loop")
  /\ jobCounter' = jobCounter + 1
  /\ UNCHANGED <<mutex, data_ready, submitting, connected, posted, ABORT_MINER,
                 interrupted, sessVarsButPc, sub, miner, history>>

\* The completion handler of async_write runs on the session's io_context, hence
\* only while the coroutine is suspended in its read.  An error sets abort and
\* notifies nobody.
WriteCompletes(k) ==
  /\ sess[k] = "read"
  /\ inflight[k]
  /\ inflight' = [inflight EXCEPT ![k] = FALSE]
  /\ \E error \in BOOLEAN : abort' = [abort EXCEPT ![k] = @ \/ error]
  /\ UNCHANGED <<mutex, flags, sess, leaving, submitThread, sub, miner, history>>

\* The read fails or its 60 seconds expire.  The session does not yield to its
\* io_context again: a write that is still pending completes when abort is gone.
ReadFails(k) ==
  /\ SessGoto(k, "read", "conn")
  /\ leaving' = [leaving EXCEPT ![k] = "fail"]
  /\ inflight' = [inflight EXCEPT ![k] = FALSE]
  /\ UNCHANGED <<mutex, flags, abort, submitThread, sub, miner, history>>

\* A stratum session also leaves when no job has come for too long, when its pong
\* cannot be written and when the body of the loop throws.
OtherExit(k) ==
  /\ Renotify
  /\ \/ SessGoto(k, "top", "conn") /\ ~ABORT_MINER
     \/ SessGoto(k, "read", "conn")
  /\ leaving' = [leaving EXCEPT ![k] = "other"]
  /\ inflight' = [inflight EXCEPT ![k] = FALSE]
  /\ UNCHANGED <<mutex, flags, abort, submitThread, sub, miner, history>>

\* The end of an iteration of the read loop, and the loop's own condition.  A
\* program that closes between the two skips setForDisconnected.
LoopEnds(k) ==
  /\ SessGoto(k, "loop", IF ABORT_MINER THEN "conn" ELSE "top")
  /\ leaving' = [leaving EXCEPT ![k] = IF ABORT_MINER THEN "abort" ELSE @]
  /\ UNCHANGED <<mutex, flags, abort, submitThread, inflight, sub, miner,
                 history>>

LoopTop(k) ==
  /\ SessGoto(k, "top", IF ABORT_MINER THEN "interrupt" ELSE "read")
  /\ leaving' = [leaving EXCEPT ![k] = IF ABORT_MINER THEN "abort" ELSE @]
  /\ UNCHANGED <<mutex, flags, abort, submitThread, inflight, sub, miner,
                 history>>

\* setForDisconnected: five writes, none of them under the mutex.
SetForDisconnected(k) ==
  /\ \/ /\ SessGoto(k, "conn", "submit")
        /\ connected' = [connected EXCEPT ![k] = FALSE]
        /\ UNCHANGED <<submitting, abort, data_ready, sub>>
     \/ /\ SessGoto(k, "submit", "abort")
        /\ submitting' = [submitting EXCEPT ![k] = FALSE]
        /\ UNCHANGED <<connected, abort, data_ready, sub>>
     \/ /\ SessGoto(k, "abort", "ready")
        /\ abort' = [abort EXCEPT ![k] = TRUE]
        /\ UNCHANGED <<connected, submitting, data_ready, sub>>
     \/ /\ SessGoto(k, "ready", "notify")
        /\ data_ready' = TRUE
        /\ UNCHANGED <<connected, submitting, abort, sub>>
     \/ /\ SessGoto(k, "notify",
                    CASE leaving[k] = "abort" -> "interrupt"
                      [] leaving[k] = "fail" /\ Renotify -> "renotify"
                      [] OTHER -> "spin")
        /\ sub' = Woken
        /\ UNCHANGED <<connected, submitting, abort, data_ready>>
  /\ UNCHANGED <<mutex, posted, jobCounter, ABORT_MINER, interrupted, leaving,
                 submitThread, inflight, miner, history>>

\* Mutant of NotifyAgain: the second notification is missing.
SleepOnly(k) ==
  /\ SessGoto(k, "renotify", "spin")
  /\ UNCHANGED <<mutex, flags, sessVarsButPc, sub, miner, history>>

\* sleep_for(200ms); cv.notify_all(), after a failed read only.  The sleep is taken
\* to outlast the few instructions between a submit thread's test of its predicate
\* and its blocking.
NotifyAgain(k) ==
  /\ sub[k] # "enq"
  /\ SessGoto(k, "renotify", "spin")
  /\ sub' = Woken
  /\ UNCHANGED <<mutex, flags, sessVarsButPc, miner, history>>

\* Mutant of SpinEnds: the session returns without waiting.
ReturnAtOnce(k) ==
  /\ SessGoto(k, "spin", "sleep")
  /\ UNCHANGED <<mutex, flags, sessVarsButPc, sub, miner, history>>

\* for (;;) if (!submitThread) break;  then the session returns, and getWork_v2
\* reports the lost connection and sleeps.
SpinEnds(k) ==
  /\ ~submitThread[k]
  /\ SessGoto(k, "spin", "sleep")
  /\ UNCHANGED <<mutex, flags, sessVarsButPc, sub, miner, history>>

\* After the read loop: cv.notify_all(); subThread.interrupt().
Interrupt(k) ==
  /\ SessGoto(k, "interrupt", "join")
  /\ sub' = Woken
  /\ UNCHANGED <<mutex, flags, sessVarsButPc, miner, history>>

\* subThread.join() returns and so does the session.  getWork_v2 returns at
\* CHECK_CLOSE, which it reaches only once connected is FALSE: nobody clears it
\* any more when setForDisconnected was skipped.
Joined(k) ==
  /\ sub[k] = "none"
  /\ SessGoto(k, "join", IF connected[k] THEN "linger" ELSE "closed")
  /\ UNCHANGED <<mutex, flags, sessVarsButPc, sub, miner, history>>

\* Interruption points of the session's thread: the waits of join and of the sleep
\* before the second notification throw inside the coroutine, whose stack is
\* unwound while the submit thread runs on; the sleep of `while (*B)' throws in
\* getWork_v2 itself.
SessionCut(k) ==
  /\ interrupted[k]
  /\ \/ sub[k] # "none" /\ SessGoto(k, "join", "cut")
     \/ SessGoto(k, "renotify", "cut")
     \/ SessGoto(k, "linger", "closed")
  /\ UNCHANGED <<mutex, flags, sessVarsButPc, sub, miner, history>>

-----------------------------------------------------------------------------
(***************************************************************************)
(* The submit thread of kind k.  It holds the mutex from the moment it     *)
(* leaves "test" or "relock" until it blocks in cv.wait, ends, or has      *)
(* cleared data_ready.                                                     *)
(***************************************************************************)
SubGoto(k, from, to) ==
  /\ sub[k] = from
  /\ sub' = [sub EXCEPT ![k] = to]

\* A thread whose session has returned before it began to run works on a dead
\* stack: no step of it is followed.
SubStart(k) ==
  /\ sess[k] \notin Returned
  /\ SubGoto(k, "start", "test")
  /\ submitThread' = [submitThread EXCEPT ![k] = TRUE]
  /\ UNCHANGED <<mutex, flags, sess, leaving, abort, inflight, miner, history>>

\* while(!abort) { unique_lock lock(mutex); ...
SubLock(k) ==
  /\ ~abort[k]
  /\ mutex = "none"
  /\ SubGoto(k, "test", "pred")
  /\ mutex' = k
  /\ UNCHANGED <<flags, sessVars, miner, history>>

SubLoopEnds(k) ==
  /\ abort[k]
  /\ SubGoto(k, "test", "end")
  /\ UNCHANGED <<mutex, flags, sessVars, miner, history>>

\* The predicate of cv.wait.
SubPredicate(k) ==
  /\ SubGoto(k, "pred", IF (data_ready /\ submitting[k]) \/ abort[k]
                        THEN "check" ELSE "enq")
  /\ UNCHANGED <<mutex, flags, sessVars, miner, history>>

\* The session has called subThread.interrupt(), which turns the next (or the
\* current) cv.wait of its submit thread into an exception.
Interrupted(k) == sess[k] \in {"join", "cut"} /\ leaving[k] = "abort"

\* Blocking and releasing the mutex are one step.
SubBlock(k) ==
  /\ ~Interrupted(k)
  /\ SubGoto(k, "enq", "wait")
  /\ mutex' = "none"
  /\ UNCHANGED <<flags, sessVars, miner, history>>

\* A wake-up nobody asked for, which condition variables allow.
SubSpurious(k) ==
  /\ SubGoto(k, "wait", "relock")
  /\ UNCHANGED <<mutex, flags, sessVars, miner, history>>

SubRelock(k) ==
  /\ ~Interrupted(k)
  /\ mutex = "none"
  /\ SubGoto(k, "relock", "pred")
  /\ mutex' = k
  /\ UNCHANGED <<flags, sessVars, miner, history>>

\* if (abort) break;  or the body of the try block throws: the lock's scope ends.
SubBreak(k) ==
  /\ SubGoto(k, "check", "end")
  /\ mutex' = "none"
  /\ UNCHANGED <<flags, sessVars, miner, history>>

\* The share is serialised and its write started.
SubSend(k) ==
  /\ ~abort[k]
  /\ SubGoto(k, "check", "clear")
  /\ sent' = [sent EXCEPT ![k] = @ + 1]
  /\ inflight' = [inflight EXCEPT ![k] = sess[k] \in ReadLoop]
  /\ UNCHANGED <<mutex, flags, sess, leaving, abort, submitThread, miner, claims>>

\* Mutant of SubClear: the slot stays claimed after its share is written.
SubKeepsSlot(k) ==
  /\ SubGoto(k, "clear", "unready")
  /\ UNCHANGED <<mutex, flags, sessVars, miner, history>>

SubClear(k) ==
  /\ SubGoto(k, "clear", "unready")
  /\ submitting' = [submitting EXCEPT ![k] = FALSE]
  /\ UNCHANGED <<mutex, data_ready, connected, posted, jobCounter, ABORT_MINER,
                 interrupted, sessVars, miner, history>>

\* data_ready is cleared, whichever kind it was set for.
SubUnready(k) ==
  /\ SubGoto(k, "unready", "test")
  /\ data_ready' = FALSE
  /\ mutex' = "none"
  /\ UNCHANGED <<submitting, connected, posted, jobCounter, ABORT_MINER,
                 interrupted, sessVars, miner, history>>

SubEnd(k) ==
  /\ SubGoto(k, "end", "none")
  /\ submitThread' = [submitThread EXCEPT ![k] = FALSE]
  /\ UNCHANGED <<mutex, flags, sess, leaving, abort, inflight, miner, history>>

\* A thread that is interrupted in cv.wait takes the mutex back, throws out of the
\* thread function, and never resets submitThread.
SubInterrupted(k) ==
  /\ Interrupted(k)
  /\ sub[k] \in {"enq", "wait", "relock"}
  /\ mutex = IF sub[k] = "enq" THEN k ELSE "none"
  /\ sub' = [sub EXCEPT ![k] = "none"]
  /\ mutex' = "none"
  /\ UNCHANGED <<flags, sessVars, miner, history>>

-----------------------------------------------------------------------------
(***************************************************************************)
(* The miner threads, and the timer of --mine-time.                        *)
(***************************************************************************)
MinerGoto(m, from, to) ==
  /\ miner[m].pc = from
  /\ miner' = [miner EXCEPT ![m].pc = to]

\* The miner is back at the top of one of its loops, where its other locals are
\* dead (each is assigned again before it is read) and are reset.
MinerResumes(m, from, to) ==
  /\ miner[m].pc = from
  /\ miner' = [miner EXCEPT
       ![m] = [Unborn EXCEPT !.pc = to,
                             !.job = IF to = "hash" THEN miner[m].job ELSE 0,
                             !.hasDev = to = "hash" /\ miner[m].hasDev]]

\* Where the miner resumes when it leaves the hash loop, and where it resumes
\* after one pass of it.
AfterLoop == IF connected["user"] THEN "copy"
             ELSE IF XelisMiner THEN "nudgeAgain" ELSE "idle"
AfterHash == IF connected["user"] THEN "hash"
             ELSE IF XelisMiner THEN "nudge" ELSE "idle"
AfterThrow == IF connected["user"] THEN "copy" ELSE "idle"

\* waitForJob: while (!isConnected) { CHECK_CLOSE; sleep }
MinerIdle(m) ==
  /\ connected["user"] \/ ABORT_MINER
  /\ MinerGoto(m, "idle", IF connected["user"] THEN "copy" ELSE "closed")
  /\ UNCHANGED <<mutex, flags, sessVars, sub, history>>

\* while (!ABORT_MINER) { lock; myJob = job; myJobDev = devJob; ... }
MinerCopy(m) ==
  /\ miner[m].pc = "copy"
  /\ ~ABORT_MINER
  /\ mutex = "none"
  /\ miner' = [miner EXCEPT
       ![m] = [@ EXCEPT !.pc = "hash",
                        !.job = jobCounter,
                        !.hasDev = "dev" \in Kinds /\ posted["dev"] > 0]]
  /\ UNCHANGED <<mutex, flags, sessVars, sub, history>>

MinerAborts(m) ==
  /\ ABORT_MINER
  /\ MinerGoto(m, "copy", "idle")
  /\ UNCHANGED <<mutex, flags, sessVars, sub, history>>

\* The top of the hash loop: the job is no longer current (mineXelis looks again
\* after the hash), or CHECK_CLOSE (which mineXelis has not), or a nonce is tried
\* for one of the connections.
MinerNewJob(m) ==
  /\ miner[m].job # jobCounter
  /\ \/ MinerResumes(m, "hash", AfterLoop)
     \/ XelisMiner /\ MinerResumes(m, "hashing", AfterLoop)
  /\ UNCHANGED <<mutex, flags, sessVars, sub, history>>

MinerCloses(m) ==
  /\ miner[m].job = jobCounter
  /\ ABORT_MINER /\ ~XelisMiner
  /\ MinerResumes(m, "hash", "closed")
  /\ UNCHANGED <<mutex, flags, sessVars, sub, history>>

MinerTries(m, k) ==
  /\ miner[m].pc = "hash"
  /\ miner[m].job = jobCounter
  /\ ABORT_MINER => XelisMiner
  /\ k = "dev" => connected["dev"]
  /\ FoldFunction(+, 0, claims) < MaxClaims
  /\ miner' = [miner EXCEPT ![m] = [@ EXCEPT !.pc = "hashing", !.kind = k]]
  /\ UNCHANGED <<mutex, flags, sessVars, sub, history>>

MinerMisses(m) ==
  /\ XelisMiner => miner[m].job = jobCounter
  /\ MinerResumes(m, "hashing", AfterHash)
  /\ UNCHANGED <<mutex, flags, sessVars, sub, history>>

\* The slot the spin loop looks at: a dev share looks at the user's slot once the
\* dev connection is down.
SlotFree(m) ==
  ~submitting[IF miner[m].kind = "dev" /\ connected["dev"] THEN "dev" ELSE "user"]

\* The hash meets the target; `submit' was read just before.
MinerFinds(m) ==
  /\ miner[m].pc = "hashing"
  /\ XelisMiner => miner[m].job = jobCounter
  /\ miner' = [miner EXCEPT
       ![m] = [@ EXCEPT !.pc = "slot",
                        !.submit = IF XelisMiner THEN SlotFree(m)
                                   ELSE ~submitting[miner[m].kind]]]
  /\ UNCHANGED <<mutex, flags, sessVars, sub, history>>

\* The spin: mineDero gives the share up when the job has changed, mineXelis goes
\* on with it.
MinerSlot(m) ==
  /\ \/ /\ miner[m].submit \/ SlotFree(m)
        /\ MinerGoto(m, "slot", "claim")
     \/ /\ ~miner[m].submit
        /\ miner[m].job # jobCounter
        /\ IF XelisMiner THEN MinerGoto(m, "slot", "claim")
           ELSE MinerResumes(m, "slot", AfterHash)
  /\ UNCHANGED <<mutex, flags, sessVars, sub, history>>

\* mineDero checks the job once more and then claims the slot; mineXelis claims it.
MinerClaim(m) ==
  LET k == miner[m].kind IN
  /\ \/ /\ miner[m].job # jobCounter /\ ~XelisMiner
        /\ MinerResumes(m, "claim", AfterHash)
        /\ UNCHANGED <<submitting, claims>>
     \/ /\ miner[m].job = jobCounter \/ XelisMiner
        /\ MinerGoto(m, "claim", "fill")
        /\ submitting' = [submitting EXCEPT ![k] = TRUE]
        /\ claims' = [claims EXCEPT ![k] = @ + 1]
  /\ UNCHANGED <<mutex, data_ready, connected, posted, jobCounter, ABORT_MINER,
                 interrupted, sessVars, sub, sent>>

\* share / devShare is filled and data_ready set.  A miner whose copy of devJob is
\* still null throws here, with the slot claimed, and copies the job again; and
\* mineXelis, which checks the job only now, leaves its loop with the slot claimed.
Replaced(m) == XelisMiner /\ miner[m].job # jobCounter

MinerFill(m) ==
  /\ \/ /\ Replaced(m)
        /\ MinerResumes(m, "fill", AfterLoop)
        /\ UNCHANGED data_ready
     \/ /\ ~Replaced(m)
        /\ miner[m].kind = "dev" /\ ~miner[m].hasDev
        /\ MinerResumes(m, "fill", AfterThrow)
        /\ UNCHANGED data_ready
     \/ /\ ~Replaced(m)
        /\ miner[m].kind = "dev" => miner[m].hasDev
        /\ MinerGoto(m, "fill", "notify")
        /\ data_ready' = TRUE
  /\ UNCHANGED <<mutex, submitting, connected, posted, jobCounter, ABORT_MINER,
                 interrupted, sessVars, sub, history>>

MinerNotify(m) ==
  /\ MinerResumes(m, "notify", AfterHash)
  /\ sub' = Woken
  /\ UNCHANGED <<mutex, flags, sessVars, history>>

\* mineXelis, which finds the connection lost at the end of its hash loop's body and
\* then behind the loop: data_ready = true; cv.notify_all(), both times.
MinerNudges(m) ==
  /\ \/ MinerGoto(m, "nudge", "nudged")
     \/ MinerGoto(m, "nudgeAgain", "nudgedAgain")
  /\ data_ready' = TRUE
  /\ UNCHANGED <<mutex, submitting, connected, posted, jobCounter, ABORT_MINER,
                 interrupted, sessVars, sub, history>>

MinerNudged(m) ==
  /\ \/ MinerResumes(m, "nudged", AfterLoop)
     \/ MinerResumes(m, "nudgedAgain", "idle")
  /\ sub' = Woken
  /\ UNCHANGED <<mutex, flags, sessVars, history>>

\* The timer main starts once the user connection has been up.
MineTimeExpires ==
  /\ MineTime
  /\ posted["user"] > 0
  /\ ~ABORT_MINER
  /\ ABORT_MINER' = TRUE
  /\ UNCHANGED <<mutex, data_ready, submitting, connected, posted, jobCounter,
                 interrupted, sessVars, sub, miner, history>>

\* Mutant of MainInterrupts: main interrupts the miners only.
MinersOnly(k) == FALSE

\* main sees ABORT_MINER: GETWORK.interrupt(); DEVWORK.interrupt();
MainInterrupts(k) ==
  /\ ABORT_MINER
  /\ ~interrupted[k]
  /\ k = "dev" => interrupted["user"]
  /\ interrupted' = [interrupted EXCEPT ![k] = TRUE]
  /\ UNCHANGED <<mutex, data_ready, submitting, connected, posted, jobCounter,
                 ABORT_MINER, sessVars, sub, miner, history>>

-----------------------------------------------------------------------------
SessRead(k) == ReadOther(k) \/ ReadJob(k) \/ ReadFails(k) \/ OtherExit(k)

SessNext(k) ==
  \/ Retry(k) \/ ConnectFails(k) \/ Connect(k) \/ SessRead(k)
  \/ PostConnected(k) \/ BumpJobCounter(k) \/ WriteCompletes(k)
  \/ LoopTop(k) \/ LoopEnds(k)
  \/ SetForDisconnected(k) \/ NotifyAgain(k) \/ SpinEnds(k)
  \/ Interrupt(k) \/ Joined(k) \/ SessionCut(k)

SubNext(k) ==
  \/ SubStart(k) \/ SubLock(k) \/ SubLoopEnds(k) \/ SubPredicate(k)
  \/ SubBlock(k) \/ SubSpurious(k) \/ SubRelock(k) \/ SubBreak(k)
  \/ SubSend(k) \/ SubClear(k) \/ SubUnready(k) \/ SubEnd(k)
  \/ SubInterrupted(k)

MinerNext(m) ==
  \/ MinerIdle(m) \/ MinerCopy(m) \/ MinerAborts(m) \/ MinerNewJob(m)
  \/ MinerCloses(m) \/ \E k \in Kinds : MinerTries(m, k)
  \/ MinerMisses(m) \/ MinerFinds(m) \/ MinerSlot(m) \/ MinerClaim(m)
  \/ MinerFill(m) \/ MinerNotify(m) \/ MinerNudges(m) \/ MinerNudged(m)

Next ==
  \/ \E k \in Kinds : SessNext(k) \/ SubNext(k)
  \/ \E m \in Miners : MinerNext(m)
  \/ MineTimeExpires
  \/ \E k \in Kinds : MainInterrupts(k)

Spec == Init /\ [][Next]_vars

(***************************************************************************)
(* Fairness: every thread keeps being scheduled.  A session is never stuck *)
(* in a read (it expires after 60 seconds).  Threads that wait for the     *)
(* mutex get it at last (strong fairness); a miner that polls a slot may   *)
(* miss the moments when it is free (weak fairness).  main, which spins on *)
(* ABORT_MINER, interrupts the sessions.  Nothing is assumed of spurious   *)
(* wake-ups, of hashes that meet a target, or of the timer.                *)
(***************************************************************************)
SubProgress(k) == SubNext(k) /\ ~(sub[k] = "wait" /\ sub'[k] = "relock")

Fairness ==
  /\ \A k \in Kinds : WF_vars(SessNext(k)) /\ SF_vars(SubProgress(k))
  /\ \A k \in Kinds : WF_vars(MainInterrupts(k))
  /\ \A m \in Miners : WF_vars(MinerNext(m)) /\ SF_vars(MinerCopy(m))

FairSpec == Spec /\ Fairness

-----------------------------------------------------------------------------
TypeOK ==
  /\ mutex \in Kinds \cup {"none"}
  /\ data_ready \in BOOLEAN
  /\ submitting \in [Kinds -> BOOLEAN]
  /\ connected \in [Kinds -> BOOLEAN]
  /\ posted \in [Kinds -> Nat]
  /\ jobCounter \in Nat
  /\ ABORT_MINER \in BOOLEAN
  /\ interrupted \in [Kinds -> BOOLEAN]
  /\ sess \in [Kinds -> SessPc]
  /\ leaving \in [Kinds -> {"fail", "other", "abort"}]
  /\ abort \in [Kinds -> BOOLEAN]
  /\ submitThread \in [Kinds -> BOOLEAN]
  /\ inflight \in [Kinds -> BOOLEAN]
  /\ sub \in [Kinds -> SubPc]
  /\ miner \in [Miners -> MinerState]
  /\ claims \in [Kinds -> Nat]
  /\ sent \in [Kinds -> Nat]

\* Every message a submit thread writes answers a claim of its own: however
\* miners, sessions and wake-ups interleave, and across reconnections, a claimed
\* slot is never written out twice (dero_session's submit thread clears the flag
\* under the same mutex it tested it under).
SendsAnswerClaims == \A k \in Kinds : sent[k] <= claims[k]

\* A session that has returned has outlived its submit thread, which holds
\* references into its stack, with the two exceptions the code leaves: a thread
\* that has not begun to run (it sets submitThread itself), and main's
\* interruption, which throws the session out of its wait ("cut").  The loop on
\* submitThread, through every wake-up, and the join see to the rest.
WaitedForSubmitThread ==
  \A k \in Kinds : sess[k] \in Returned => sub[k] \in {"none", "start"}

\* The inductive invariant behind the two: a submit thread that runs has said so;
\* a set flag that is not already being answered, and a submit thread that has
\* decided to write, each stand for a claim nobody has answered.
Unanswered(k) == sent[k] < claims[k]

HandoffInv ==
  /\ WaitedForSubmitThread
  /\ SendsAnswerClaims
  /\ \A k \in Kinds :
       /\ sub[k] \notin {"none", "start"} => submitThread[k]
       /\ submitting[k] /\ sub[k] # "clear" => Unanswered(k)
       /\ sub[k] = "check" /\ ~abort[k] => Unanswered(k)

\* "ERROR: lost connection ... Will try to reconnect in about 10 seconds": a
\* session whose READ failed gets to the next connection attempt, or the program
\* is closing.  The other ways out notify once and promise nothing.
Reconnects ==
  \A k \in Kinds : sess[k] = "conn" /\ leaving[k] = "fail"
                     ~> sess[k] \in {"connecting", "closed", "cut"}

\* Once the program closes every session's thread ends, or waits for a submit
\* thread on its way to a reconnection: neither a join whose notification came too
\* early nor a connection still marked as up, which getWork_v2 waits for to go
\* down, holds a session that has left its read loop.
ShutdownEnds ==
  \A k \in Kinds : ABORT_MINER ~> sess[k] \in {"closed", "cut", "spin"}

=============================================================================
