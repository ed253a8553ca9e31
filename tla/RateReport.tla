----------------------------- MODULE RateReport -----------------------------
(***************************************************************************)
(* The status line (update_handler, and the part of getWork_v2 that        *)
(* touches its data).                                                      *)
(*                                                                         *)
(* Miners add to the atomic counter.  Once a second update_handler, on     *)
(* main's io_context, moves it into the vector rate30sec and averages that.*)
(* A session thread whose connection is lost clears the vector.  A thread  *)
(* of the statistics server (--broadcast) averages it for each /stats.     *)
(* Nothing locks it: each access is a step of its own.                     *)
(***************************************************************************)
EXTENDS Naturals, Sequences

CONSTANTS Window,    \* 30 / 1: the vector grows to one entry more
          Interval,  \* --report-interval
          Losable,   \* the user's connection can be lost
          Broadcast, \* --broadcast: the statistics server runs
          MaxHashes  \* bound: hashes the miners do

ASSUME ReportAssumption ==
  /\ Window \in Nat /\ Interval \in Nat \ {0} /\ MaxHashes \in Nat
  /\ Losable \in BOOLEAN /\ Broadcast \in BOOLEAN

VARIABLES
  counter,      \* hashes not reported yet
  rate30sec,    \* hashes of each of the last seconds
  isConnected,
  sess,         \* the user's session thread: "up", "lost" or "down"
  rep,          \* where update_handler is
  currentHashes, total, size, \* its locals; total and size give the mean
  reportCounter,
  srv,          \* where the statistics server is
  srvTotal,     \* its sum of the rates
  alive,        \* the process runs
  sampled,      \* history: a rate was entered since the connection was last up
  done,         \* history: hashes the miners did
  reported      \* history: hashes entered into the vector

locals == <<currentHashes, total, size>>
server == <<srv, srvTotal, alive>>
history == <<sampled, done, reported>>
vars == <<counter, rate30sec, isConnected, sess, rep, locals, reportCounter,
          server, history>>

RepPc == {"idle", "load", "store", "push", "sum", "mean", "scale", "print"}

Init ==
  /\ counter = 0 /\ rate30sec = <<>>
  /\ isConnected = TRUE /\ sess = "up"
  /\ rep = "idle" /\ currentHashes = 0 /\ total = 0 /\ size = 0
  /\ reportCounter = 0
  /\ srv = "idle" /\ srvTotal = 0 /\ alive = TRUE
  /\ sampled = FALSE /\ done = 0 /\ reported = 0

\* A miner counts a hash.
Hash ==
  /\ done < MaxHashes
  /\ counter' = counter + 1
  /\ done' = done + 1
  /\ UNCHANGED <<rate30sec, isConnected, sess, rep, locals, reportCounter,
                 server, sampled, reported>>

-----------------------------------------------------------------------------
RepGoto(from, to) == rep = from /\ rep' = to

\* The timer fires while the connection is up (otherwise the handler returns).
Tick ==
  /\ isConnected
  /\ RepGoto("idle", "load")
  /\ reportCounter' = reportCounter + 1
  /\ UNCHANGED <<counter, rate30sec, isConnected, sess, locals, server, history>>

\* counter.load() and counter.store(0) are two steps.
Load ==
  /\ RepGoto("load", "store")
  /\ currentHashes' = counter
  /\ UNCHANGED <<counter, rate30sec, isConnected, sess, total, size,
                 reportCounter, server, history>>

\* Mutant of Store: the counter keeps its value.
StoreNothing ==
  /\ RepGoto("store", "push")
  /\ UNCHANGED <<counter, rate30sec, isConnected, sess, locals, reportCounter,
                 server, history>>

\* Mutant of Store: the value loaded is subtracted once too often.
SubtractsTwice ==
  /\ RepGoto("store", "push")
  /\ counter' = counter - 2 * currentHashes
  /\ UNCHANGED <<rate30sec, isConnected, sess, locals, reportCounter, server,
                 history>>

Store ==
  /\ RepGoto("store", "push")
  /\ counter' = 0
  /\ UNCHANGED <<rate30sec, isConnected, sess, locals, reportCounter, server,
                 history>>

\* Mutant of Push: a second without a hash gets no entry.
PushNonZero ==
  /\ RepGoto("push", "sum")
  /\ rate30sec' = IF currentHashes = 0 THEN rate30sec ELSE Append(rate30sec, currentHashes)
  /\ reported' = reported + currentHashes
  /\ sampled' = TRUE
  /\ UNCHANGED <<counter, isConnected, sess, locals, reportCounter, server, done>>

Push ==
  /\ RepGoto("push", "sum")
  /\ rate30sec' = Append(IF Len(rate30sec) <= Window THEN rate30sec ELSE Tail(rate30sec),
                         currentHashes)
  /\ reported' = reported + currentHashes
  /\ sampled' = TRUE
  /\ UNCHANGED <<counter, isConnected, sess, locals, reportCounter, server, done>>

Total(s) == LET sum[i \in 0..Len(s)] == IF i = 0 THEN 0 ELSE sum[i - 1] + s[i]
            IN  sum[Len(s)]

Sum ==
  /\ RepGoto("sum", "mean")
  /\ total' = Total(rate30sec)
  /\ UNCHANGED <<counter, rate30sec, isConnected, sess, currentHashes, size,
                 reportCounter, server, history>>

Mean ==
  /\ RepGoto("mean", "scale")
  /\ size' = Len(rate30sec)
  /\ UNCHANGED <<counter, rate30sec, isConnected, sess, currentHashes, total,
                 reportCounter, server, history>>

\* for (;;) { if (hashrate < 1000) break; hashrate /= 1000.0; }  divides a finite
\* mean down; total / 0 is NaN or infinity, and the loop goes on for ever.
Scale ==
  /\ size # 0
  /\ RepGoto("scale", "print")
  /\ UNCHANGED <<counter, rate30sec, isConnected, sess, locals, reportCounter,
                 server, history>>

Due == reportCounter >= Interval

\* The status line, when it is due.
Report ==
  /\ RepGoto("print", "idle")
  /\ reportCounter' = IF Due THEN 0 ELSE reportCounter
  /\ currentHashes' = 0 /\ total' = 0 /\ size' = 0
  /\ UNCHANGED <<counter, rate30sec, isConnected, sess, server, history>>

-----------------------------------------------------------------------------
\* The session finds its connection lost; back in getWork_v2 it clears the rates,
\* after this loss and after every attempt that fails.
Lose ==
  /\ Losable
  /\ sess = "up" /\ sess' = "lost"
  /\ isConnected' = FALSE
  /\ UNCHANGED <<counter, rate30sec, rep, locals, reportCounter, server, history>>

ClearRates ==
  /\ sess \in {"lost", "down"} /\ sess' = "down"
  /\ rate30sec' = <<>>
  /\ UNCHANGED <<counter, isConnected, rep, locals, reportCounter, server, history>>

Recover ==
  /\ sess = "down" /\ sess' = "up"
  /\ isConnected' = TRUE
  /\ sampled' = FALSE
  /\ UNCHANGED <<counter, rate30sec, rep, locals, reportCounter, server, done,
                 reported>>

-----------------------------------------------------------------------------
Client == <<counter, rate30sec, isConnected, sess, rep, locals, reportCounter,
            history>>

\* A client asks for /stats: the rates are summed,
Accumulate ==
  /\ Broadcast
  /\ srv = "idle" /\ srv' = "divide"
  /\ srvTotal' = Total(rate30sec)
  /\ UNCHANGED <<alive, Client>>

\* and divided, as integers, by their number.  Division by zero is undefined: it
\* ends the process, or the answer holds some number.
Divide ==
  /\ srv = "divide" /\ srv' = "idle"
  /\ srvTotal' = 0
  /\ alive' \in IF rate30sec = <<>> THEN BOOLEAN ELSE {TRUE}
  /\ UNCHANGED Client

-----------------------------------------------------------------------------
Handler == Tick \/ Load \/ Store \/ Push \/ Sum \/ Mean \/ Scale \/ Report
Session == Lose \/ ClearRates \/ Recover

Stats == Accumulate \/ Divide

Next == alive /\ (Hash \/ Handler \/ Session \/ Stats)

Spec == Init /\ [][Next]_vars

\* The timer fires and its handler runs; a lost connection is made again.
Fairness == WF_vars(alive /\ Handler) /\ WF_vars(alive /\ Recover)
FairSpec == Spec /\ Fairness

-----------------------------------------------------------------------------
TypeOK ==
  /\ counter \in Nat /\ rate30sec \in Seq(Nat)
  /\ isConnected \in BOOLEAN /\ sess \in {"up", "lost", "down"}
  /\ rep \in RepPc
  /\ currentHashes \in Nat /\ total \in Nat /\ size \in Nat
  /\ reportCounter \in Nat
  /\ srv \in {"idle", "divide"} /\ srvTotal \in Nat /\ alive \in BOOLEAN
  /\ sampled \in BOOLEAN /\ done \in Nat /\ reported \in Nat

\* No hash enters the rates twice, whatever is added between the load and the store
\* of the counter (hashes added there are lost, never counted again).
NeverOverReports ==
  reported + counter + (IF rep = "push" THEN currentHashes ELSE 0) <= done

\* A /stats request can end the process only before the connection has brought its
\* first second of rates, or while it is lost: clearing the rates and entering one
\* leave no other moment at which the server divides by nothing.
StatsSafeWhileMining == [][alive /\ ~alive' => sess # "up" \/ ~sampled]_vars

\* While the connection stays up every tick of the timer comes to its end.
TickReturns == rep = "load" ~> rep = "idle" \/ ~isConnected \/ ~alive

\* "Your desired status update interval in seconds": status lines keep coming as
\* long as the connection is up from some point on.
StatusKeepsComing == <>[](isConnected /\ alive) => []<>(rep = "print" /\ Due)
=============================================================================
