# tnn-miner in TLA+

tnn-miner is a CPU/GPU miner for some fifteen coins, written in C++ around Boost.Asio
coroutines and plain global variables. This directory holds TLA+ models of its
concurrent core, the TLC runs that check them, and theorems about them proved with
TLAPS. Paths below are relative to the repository; `src/net/...` is the implementation.

What makes the program hard to test is the same everywhere in it: the threads talk
through globals without locks, one flag and one condition variable serve two
connections, and each session reimplements the same life cycle slightly differently.

## 1. Inventory

### Threads and what they share

| Thread | Code | Reads and writes |
|---|---|---|
| main, then its `io_context` | `src/core/miner.cpp`, `src/core/reporter.cpp` | creates everything; once a second `update_handler` moves `counter` into `rate30sec`; the `--mine-time` timer sets `ABORT_MINER`; joins the miners |
| GETWORK, DEVWORK | `getWork_v2` (`miner.cpp:1394-1557`) | one connection each, retried for ever; runs the coin's session coroutine on an `io_context` of its own |
| submit thread, one per session | inside every `*_session` | waits on `cv` for `data_ready` and its slot, writes `share` / `devShare` to the stream; for RandomX solo it also fetches a template and may rebuild the dataset |
| N miners | `src/coins/mine_*.cpp` | copy `job` / `devJob` under `mutex`, hash, claim a slot (`submitting` / `submittingDev`), fill `share`, notify |
| dataset threads | `randomx_update_data` | compute the RandomX dataset's items, and are joined |
| statistics server | `src/broadcast/broadcastServer.cpp` | reads the rates and the accepted/rejected counts |

The globals are in `src/net/net.cpp` and `miner.cpp`: `job`/`devJob`, heights and
difficulties, `jobCounter` (a plain int), `isConnected`/`devConnected`, `submitting`/
`submittingDev`, `share`/`devShare`, and ONE `data_ready`, ONE `cv`, ONE `mutex`, ONE
`wsMutex` for both connections.

### Components

| Component | State | Operations | What is hard | What makes it correct |
|---|---|---|---|---|
| Share hand-off and connection life cycle | slots, `data_ready`, `cv`, session's `abort` and `submitThread` | claim, fill, notify; wait, write, clear; `setForDisconnected`, spin, join | notifications without the mutex, one flag for two connections, references into a coroutine's stack, shutdown | no message without a claim, a session that returns has waited for its submit thread, a failed read leads to the next attempt, shutdown ends |
| Job feed and work decoding (Spectre, Dero) | `job`, height, `jobCounter`, job cache; each miner's copies and work buffers | notify, set_difficulty, getwork, reconnect; copy, decode, hash, re-check, claim | template, id and height read at different times; lost increments; uninitialised cache and buffers | a share names the job it was mined for; no share for a replaced job; every job reaches the miners |
| Line framing (Spectre, BTC; Kas, Astrix, Verus) | streambufs of the login, `packetBuffer`, `chopQueue` | subscribe read, authorize read, main read | TCP cuts and joins packets anywhere; three readers in a row; overflow; pieces glued, vector cleared while iterated | packets handled once, in order, none lost |
| Status line and statistics server | `counter`, `rate30sec`, `reportCounter` | tick; /stats; clearing on a lost connection | two-step swap of the counter; vector cleared under its readers | no hash counted twice; ticks end; lines keep coming; /stats does not divide by zero |
| Xelis stratum sessions | `lastReceivedJobTime`, connection, height, `miner_work` | login, time-out test, read, packets | one clock for two connections; read errors ignored; notify filter; a template edited in place that outlives its session | no live session ended for silence, a dead one noticed, no template of two sessions' parts |
| RandomX sessions | cache, dataset, the key of each, `randomx_ready` | poll, job, login, rebuild on a new seed | two threads rebuild in place; miners hash on what is rebuilt; every packet kind has its own order | but for overlapping rebuilds the key names the dataset; stratum miners hash on their job's seed; a new seed reaches the miners |
| Nonces of the miners | thread id, shared or own count, extranonce | decode, increment, compose the word | a racy global count, resets by several threads, wrap-around | threads do not repeat each other's nonces, the extranonce is kept |
| Xelis getwork, Xatum, Verus, Shai sessions | as their relatives | as their relatives | Xatum's template is never replaced | as their relatives |
| Options, wallet checks | program options | parse, choose protocol, dev fee | sequential | one protocol per coin, sane bounds |
| Resolution, hash functions, GPU kernels, OS access, vendored code | | | I/O, numeric, or third-party | not modelled |

`PROJECT.json` lists the same parts with their files and status, and under `hazards`
the places where each can go wrong, at their lines; section 5 has the ones of less weight.

## 2. Modules

| Module | Models | Code |
|---|---|---|
| `ShareHandoff` | session, submit and miner threads, every unlocked access a step | `net/dero/net_dero.cpp`, `coins/mine_dero.cpp`, `coins/mine_xelis.cpp`, `net/net.hpp`, `core/miner.cpp` |
| `JobFeed` | from a pool's packet to a claimed share, by stratum or getwork | `net/spectre/net_spectre_stratum.cpp`, `coins/mine_spectre.cpp`, `net/dero/net_dero.cpp`, `coins/mine_dero.cpp` |
| `JobBoard` | what the feed promises: headers posted in order, taken all at once, mined on as taken | the abstract specification of the above |
| `NonceSpace` | how the miner threads share out the nonces of a job | `coins/mine_*.cpp`, and the sessions as far as they reset the count |
| `RandomXData` | rebuilding cache and dataset under hashing miners | `net/rx0/*.cpp`, `coins/mine_rx0.cpp`, `crypto/randomx/*.cpp` |
| `LineFraming` | reassembly of lines over the three readers of a session, for both kinds of main loop | `net/spectre/net_spectre_stratum.cpp`, `net/kas/net_kas_stratum.cpp` |
| `RateReport` | the timer handler and the statistics server against miners and a lost connection | `core/reporter.cpp`, `core/miner.cpp`, `broadcast/broadcastServer.cpp` |
| `XelisSession` | time-outs and read errors of two sessions on one clock; the template | `net/xelis/net_xelis_stratum.cpp` |
| `*Proofs` | theorems about the module of that name | |
| `LeastNumber` | a lemma on sets of naturals the proofs use for induction | |
| `MC*` | the instances TLC checks | |

The modules overlap on purpose and never contradict each other:
`ShareHandoff` knows when a job arrives but not what is in it, `JobFeed` knows jobs but
ends where a share is claimed, `NonceSpace` is the inner loop that `JobFeed` calls `Try`,
`XelisSession` and `LineFraming` look inside the one step that `ShareHandoff` calls a
read. `map` in `PROJECT.json` gives the lines behind every definition.

### ShareHandoff

`sess[k]`, `sub[k]` and `miner[m].pc` are program counters. A step is one access to a
global that another thread can interleave with; locals that are dead are reset.

- `cv.wait` is: test the predicate holding `mutex` (`SubPredicate`), enqueue and unlock in
  one step (`SubBlock`), wake by a notification, spuriously, or by an interruption. A
  notification that finds the thread between the test and the enqueue is lost, since
  no notifier holds the mutex.
- `abort` and `submitThread` belong to the session's stack. A submit thread that has not begun to run
  when its session returns works on a dead stack from its first step: no step of it is followed
  (`SubStart`).
- The write's completion handler runs on the session's `io_context`, hence only while the
  session is suspended in its read. What it finds if the session is gone is not modelled.
- A session has several ways out, and `leaving` says which it took. With `Renotify` (the stratum
  sessions of Spectre, Kas, Astrix, Verus) a FAILED READ sleeps 200 ms and notifies a second time (`NotifyAgain`); a time-out, a pong that cannot
  be written and an exception (`OtherExit`) notify once. `Renotify = FALSE` is Dero, Shai and Xelis
  solo, which notify once on every way. So do Xatum, whose loop has a sleep more, and the stratum sessions of Xelis and
  RandomX, whose second notification is in a branch for errors after some bytes, which Asio never reports.
  `NotifyAgain` is disabled while the submit thread is between its test and the enqueue: 200 ms outlast
  a few instructions.
- At shutdown main interrupts GETWORK and DEVWORK (`MainInterrupts`). Their waits are interruption points: in the join, or
  in the 200 ms, the exception unwinds the coroutine's stack and the submit thread runs on (`SessionCut`, `"cut"`);
  in `while (*B)` of `getWork_v2` it ends the thread. `"linger"` is that loop, in which a session waits that came past
  `setForDisconnected` with its connection still marked as up.
- `LoopEnds` and `LoopTop` are two steps because the abort test at `net_dero.cpp:254` and the
  loop condition at `:145` are.
- With `XelisMiner` miners are those of `mineXelis`, which differ in two places: they claim the
  slot before their last test of the job (`Replaced`: the break leaves it claimed, with an
  older share in it), and they notify once more when they find the connection lost.
- The jobs' contents are left out, `DERO_BATCH` is 1, and the interruption of the miner
  threads has no effect: their hot loops have no interruption point.

### JobFeed

`feed` says how jobs come. By stratum the packet handler is split at every unlocked access:
`Notify` (under `mutex`), `BumpHeight`, `LoadCounter`, `StoreCounter`. `jobCounter++` in
`set_difficulty` takes no lock, so `StoreCounter` writes back a value that may be stale; `lost`
records that an increment was overwritten. A new session's `cache` is `Garbage` or what the old
one left: the `jobCache` on its stack is uninitialised. By getwork (Dero; Shai publishes the same
way) the session holds no lock at all: `Getwork` assigns the job, `Up` says that the connection is
there, `LoadCounter` and `StoreCounter` follow.

Miners copy the jobs under the mutex. Spectre's read the heights outside of it and decode only
when one has moved (`Outdated`); Dero's decode every copy, the dev job only if `devConnected` is
set by then. `Buffer` is the second reading of `devConnected`, by which Spectre can put a dev nonce
into the user's header. A header is a number, in the order the pool made it. Targets, extra
nonces, the wait on difficulty 0 and shutdown are left out, and so is the tearing of a job that
Dero assigns while it is copied.

### NonceSpace

A nonce is a word of fields: the thread's number, a count, and perhaps the pool's extranonce.
`style` is where the count lives and when it starts again, of which the eight miner loops have
four kinds; `(*nonce)++` on the shared ones is a load and a store, and the word is made from a third
reading. `Word` gives the layout as a sum of multiples instead of shifts: `TidSpan`, `CountSpan` and
`ExtraSpan` are the numbers of values of each field, and what does not fit is cut off as the masks do.
`hashed`, `twice`, `threw` and `lost` are history. Only the user's job is looked at; jobs of
the dev connection move `jobCounter`, and the first of them (`DevJob`) sets `devConnected` over copies of an empty dev job:
`Throws` is the way through `at("template")` and the catch, which sets `localOurHeight` to -1, so that the same job
is decoded again.

### RandomXData

An updater is a session or, in solo mode, its submit thread. What it works on (`task`: a poll, a
job, a login's reply) decides the order of assign, compare and rebuild, bump, and the connected
flag: `AfterLock`, `AfterAssign`, `AfterData` and `AfterBump` are that order. A rebuild is
`KeepCache` or `InitCache` and `CacheFilled`, one `ItemComputed` per item, the join, the key, the flag. `randomx_init_cache`
looks at a key of its own (`ownKey`), and keeps a cache that has it, whatever is in it. Two rebuilds of one connection
that overlap (`clash`) write the same Argon2 memory and the same items: what either makes then may be its seed's or
`Mixed`, and both keys say nothing of it. `clash` ends when one rebuild alone begins the cache anew. A pool's seed is a
number that only grows. A miner that has a share while its slot is taken waits in a loop (`"slot"`) that looks at
`jobCounter` and not at the connection, so it can outlast a loss, a login and a rebuild (`cut`: the user's connection
has been down since it copied). Of the connection that is not
looked into only the first job is there (`OtherJob`), since miners copy both and cannot hash before they have both. Targets, shares
and the session's time-outs are left out.

### LineFraming

A byte is its position in the stream, a text the sequence of the positions of its bytes, and packet
p the text that ends with the newline at `EndOf[p]`. Nothing else matters of a byte: a line parses
when it is the whole body of one packet. What a session has read and not yet taken apart is always
the stream from `from` to `pos`. `read_until` may return any amount that contains a newline, up to `MaxRead`
(`ReadUntil`). Each of the two login reads (`LoginRead`, then `LoginLine` per line, then `LoginDone`) has a streambuf of
its own, dropped afterwards; a fragment that does not parse stops that reader's loop. `ConnectionLost` is
the end of stream and whatever else ends the session. The main loop is `"buffered"` (Spectre, BTC: `Receive`, `TakePacket` per line, `EndOfPass`) or
`"chopped"` (Kas, Astrix, Verus: `NextLine` per line, with `TakeLine`): there a line that fails, for whatever
reason, goes to `chopQueue` and is joined to the next that fails. `packets.clear()` inside the loop over `packets`
leaves destroyed strings; the next one read is the old text, another text, or an exception.

### RateReport

Each access to `counter` and `rate30sec` is a step. The mean is kept as the pair `total`,
`size`; `size = 0` is a division by zero, for which no comparison in `Scale` is true. The test and the
`push_back` are one step; an `erase` on a vector emptied in between is undefined and not
followed. The statistics server sums and divides the same vector as integers: there a division by
zero ends the process or gives some number (`alive`).

### XelisSession

Asio returns zero bytes with an error, so the branch `ec && trans > 0` is dead and a failed
read goes back to the top of the loop, where only the job clock can end the session. A session that has
called `setForDisconnected` is `"leaving"`, and may stay so: its submit thread gets one notification, and
`stream.shutdown()` of a dead stream may block. If the shutdown throws, the catch prints that and the loop goes on without
a submit thread (`ShutdownThrows`), or throws again, out of the session (`Leave`). `own[k]`
is a history variable: the silence of connection k alone. A job that the notify filter
(line 31) drops does not count as one, there or in the code.

`blob[k]` is `miner_work` by places: for each place the text that belongs there as this session's
pool sent it, an extranonce put there by set_extranonce, or something older. The reply to the
subscription may come with the login or late, after jobs.

## 3. What TLC checks

| Run | Instance | States | Shows |
|---|---|---|---|
| `handoff` | 1 miner (Xelis's), user and dev, 1 job each, 1 claim | 1.95 M | types, `SendsAnswerClaims`: no message without a claim although both connections share the flag and the cv; no deadlock |
| `handoff_reconnect` | 1 miner, user, 2 jobs, 1 claim, `Renotify`, `--mine-time` | 168 k | `WaitedForSubmitThread`; `Reconnects`: a failed read with its second notification always leads to the next attempt; `ShutdownEnds`: at shutdown every session ends, joined or interrupted, or is held by the loop on `submitThread` of a reconnection |
| `handoff_lostwakeup` | 1 miner, user, no second notification | violation | `Reconnects` fails for Dero: the notification falls before the enqueue, the session waits for ever |
| `feed` | 1 miner, user and dev, both feeds, 2 jobs, 2 bumps, user may drop | 232 k | `LabelNeverOlder`, `GetworkNamesItsJob`, `LabelFresh`, `MinersFollow`, and `BoardSpec`: implements `JobBoard` |
| `feed_mislabel` | 1 miner, user, stratum, 2 jobs | violation | `ShareNamesItsJob`: old header, new job id |
| `nonces` | 2 threads, 4 styles, 2 jobs, counts to 3 in words of 2 | 5.45 M | `ThreadsApart`, `ExtraNonceKept`, `NonceNeverRepeats` |
| `randomx` | 1 miner, user solo and stratum, 3 seeds, 1 item | 281 k | `KeyNamesDataset`, `ReadyMeansBuilt`, `HashesOnItsSeed`, `Settles`, `MinersHash` |
| `framing` | 8 packets, one too long, one whose handler throws, reads of up to 8 units, both loops | 24 k | `HandledInOrder`, `MainLoopLosesNone`, `ChoppedPacketsMended` |
| `framing_split` | same, buffered loop | violation | `SplitPacketsHandled`: the head of a packet is thrown away with the login's streambuf |
| `rate` | 3 entries, 4 hashes, connection may be lost, statistics server | 106 k | `NeverOverReports`, `TickReturns`, `StatsSafeWhileMining` |
| `rate_hang` | same, no server | violation | `StatusKeepsComing`: after a division by zero the unit loop never ends |
| `xelis` | user and dev, 90 s as 2 ticks, 60 s as 1 | 420 k | `TimeoutAfterSilence`, `DeadConnectionNoticed`, `TemplateWhole` |

Every property of a passing run has a mutant in `PROJECT.json`: a change of one mapped
definition, of the kind a careless edit would make, under which TLC finds it violated.

**Bounds.** In the hand-off, what goes wrong needs one claim, one lost connection and one or
two jobs; the two connections matter more than a second miner, since miners touch a session only
through the slot and the flag, and the theorems below hold for any number. In the feed
one miner shows what any of them does, because miners write nothing that sessions or other
miners read. Two headers are needed for old-versus-new, two connections for the lost
increment. In `nonces` a word has two counts with and two without an extranonce, so that
counting to three wraps around; a bump lets a thread copy the same job again, and `perJob` has two, one of them the
dev connection's first job, over which it throws. In `randomx` three seeds let two rebuilds overlap and a lone one
mend what they left; with one item a dataset is of a seed, of an older one or `Mixed`, and the theorems hold for any
number of items; both protocols are initial states. In the framing run `Limit` is between the packet sizes so that an overflow happens
inside a line, and `MaxRead` lets one read span several packets. In the rate run the window
fills and slides, and every second tick prints. The Xelis time-outs keep their order
(60 s < 90 s).

**Deadlock** is checked except where the system really stops: the shutdown run
(`handoff_reconnect`), the feed and the nonces (the pool's and the counts' bounds are used up and
miners wait), the framing (the stream ends) and the rates (the process may have died of a division).

**Fairness.** Threads are scheduled: weak fairness for each session, submit and miner
thread and for the reporter; strong fairness only for acquiring `mutex`, which several threads
take in turn. In `ShareHandoff` that includes the session's read, which returns because
`dero_session` gives it 60 seconds (`expires_after`, line 154), the connection attempt, which
succeeds or fails because its operations expire too, and main, which spins on `ABORT_MINER`; which of the outcomes
comes is left open.
In `JobFeed` only a handler that has begun is fair: the pool need not send anything. In
`RateReport` a lost connection is made again, which is what `Reconnects` is about. In
`XelisSession` time passes and the loop runs; nothing is assumed of the login, in which a read blocks without expiry,
nor of a session that leaves. In `RandomXData` updaters that rebuild get on, and handlers and miners get `mutex` at last;
nothing is assumed of the pools, of a session that waits for its submit thread, or of a miner that waits for its slot.
That the user's pool goes on giving jobs to a session is the premise of its two liveness properties
(`JobsKeepComing`). Spurious wake-ups are possible and never relied upon
(`SubProgress` excludes them), nor is the `--mine-time` timer.

### Disagreements met

1. `handoff_lostwakeup`: a lost notification keeps a Dero session from reconnecting.
2. `feed_mislabel` (`mine_spectre.cpp:65`): a share with the old header and the new job id.
3. `framing_split` (`net_spectre_stratum.cpp:404`): the "persistent" buffer begins after the login.
4. `rate_hang` (`reporter.cpp:91`): an endless loop after `rate30sec` was cleared.

What a property has to leave out because the code really does it is said beside the property. In the hand-off: a submit
thread that had not begun, and a session thrown out of its wait by the interruption (`WaitedForSubmitThread`); the ways
out that notify once, which can hang as in disagreement 1 (`Reconnects`). In the nonces: a thread that resets the
SHARED count makes others repeat nonces, a RandomX thread starts its own again with every copy, and one that throws
decodes the same job twice (`Forward`). In RandomX: overlapping rebuilds of the solo session (`clash`), hashes on a
dataset being rebuilt by solo mode or by a handler at work, and a miner that has stayed in its loop over a lost
connection (`cut`, in `HashesOnItsSeed`). A Dero miner may name a new dev job for an old buffer in one window (`Late`),
set_extranonce overwrites the end of a Xelis header (`TemplateWhole` ends with it), a handler's exception spoils
`chopQueue` (`spoiled`).

## 4. What is proved

TLAPS proves, for every value of the constants (any set of miners, one or two connections, any
bounds). The named assumptions say only that constants have their types, that the user's
connection is in use, that packets follow each other in the stream and none is empty
(`FramingAssumption`), and that the threads' numbers fit their field of the nonce (`NonceAssumption`):

| Theorem | Module | Statement |
|---|---|---|
| `TypeCorrect` | `ShareHandoffProofs` | `TypeOK` |
| `NeverMoreSendsThanClaims` | | `SendsAnswerClaims` |
| `SessionOutlivesSubmitThread` | | `WaitedForSubmitThread` |
| `FeedTypeCorrect` | `JobFeedProofs` | `TypeOK` |
| `NeverLabelledOlder` | | `LabelNeverOlder` |
| `GetworkSharesMatch` | | `GetworkNamesItsJob` |
| `FreshOrAnnounced` | | `LabelFresh` |
| `FeedImplementsBoard` | | `Spec => BoardSpec` |
| `FramingInvariant` | `LineFramingProofs` | the inductive invariant `IInv` of the framing |
| `FramingTypeCorrect` | | `TypeOK` |
| `PacketsInOrder` | | `HandledInOrder` |
| `BufferLosesNone` | | `MainLoopLosesNone` |
| `QueueMendsPackets` | | `ChoppedPacketsMended` |
| `ReportTypeCorrect` | `RateReportProofs` | `TypeOK` |
| `RatesNeverInflated` | | `NeverOverReports` |
| `StatsDivideByRates` | | `StatsSafeWhileMining` |
| `SilenceIsReal` | `XelisSessionProofs` | `TimeoutAfterSilence` |
| `XelisTypeCorrect` | | `TypeOK` |
| `TemplateIsWhole` | | `TemplateWhole` |
| `DataTypeCorrect` | `RandomXDataProofs` | `TypeOK` |
| `DatasetNamedByKey` | | `KeyNamesDataset` |
| `ReadyOnlyWhenBuilt` | | `ReadyMeansBuilt` |
| `MinersHashTheirSeed` | | `HashesOnItsSeed` |
| `NonceTypeCorrect` | `NonceSpaceProofs` | `TypeOK` |
| `ThreadsStayApart` | | `ThreadsApart` |
| `ExtraNonceOnTop` | | `ExtraNonceKept` |
| `NoNonceRepeated` | | `NonceNeverRepeats` |

**The hand-off.** `SendsAnswerClaims` is not inductive: nothing in it says why the submit thread's
write has a claim to answer. `HandoffInv` says so in three parts: a submit thread past its
start has set `submitThread` (so the session's spin really waits for it, which gives
`WaitedForSubmitThread`, together with the join, which returns only when the thread is gone); a set slot that is
not being cleared stands for an unanswered claim; and so does a submit thread that has passed its predicate and is
about to write. Miners only set slots together with `claims`, sessions only clear them, and the one dangerous window,
between the write and the clearing of the slot, is excluded by `sub # "clear"`.

**The feed.** `LabelNeverOlder` rests on `FeedInv`: the pool's headers never decrease, the published job is
its newest, each copy is a job the pool has sent and each work buffer lags its copy. The
unlocked decode can then only lag, lost increments and stale caches included. `LabelFresh` and
`GetworkNamesItsJob` rest on jobCounter instead: while no increment is lost it only grows, and no
miner's copy of it is ahead. So as long as a miner's copy equals it, the miner's jobs are the published
ones or a bump is still to come (`FreshInv`), and a dev job a Dero miner did not decode belongs to a
connection that is down or has just come up (`GetworkInv`). For the refinement of `JobBoard` the headers are the
mapping: `posted` is `job[k].header`, `held` the headers of a miner's copies, `mined` its work buffers. `Notify` and
`Getwork` map to `Post` or, for a header sent again, to a stutter, and that a template left out because
of a stale `jobCache` changes nothing is where `FeedInv` is needed; the copy under the lock is `Take`, a
decode is `MineOn`, and every other step stutters.

**The framing.** `HandledInOrder` needs that whatever was handled or is kept in `chopQueue` ended before `from`, and
that what is kept has failed, so that joining cannot make an old packet again (`Behind`). That no packet is
lost is a statement about where `from` is. In the buffered loop (`BufferWhole`), if `from` is inside a packet
then the login cut it or it does not fit; every other packet behind `from` was handled. In the chopped loop
(`QueueWhole`) everything read is taken apart in one pass, so a packet that was cut is cut at `pos`, and until `spoiled`
`chopQueue` holds exactly its beginning, unless only its newline was missing. `Piece(a, b)` joined to `Piece(b, c)` is
`Piece(a, c)`, which is why positions stand for bytes; that every position is in one packet at most, and that
there is a first newline after it, are lemmas (`StreamFacts`, `Containing`).

**The nonces.** The word is a sum of fields, each cut off by a remainder, so `ThreadsApart` is that two numbers
`a + T * x` with `a < T` are equal only if their fields are (`FieldsApart`), and `ExtraNonceKept` that a
division undoes the sum (`TopField`). `NonceNeverRepeats` is inductive with four more parts: a hashed word was
laid out for the thread that hashed it (`WordsLaidOut`); heights and job numbers move together and no miner is ahead
of them (`Clocks`); and every word a thread hashed for the current job belongs to a count from 1 to the
present one (`Counted`), which for a thread's own count holds because a job is decoded once by a thread that has
not thrown (`OwnCounts`), and for the
shared one because jobCounter tells every miner in the middle of a nonce that it was set back
(`SharedCounts`).

**The rates.** `reported + counter + (the value loaded and not yet pushed)` never exceeds what the miners did.
That the sum over `rate30sec` is a natural (`TypeOK`) is an induction
over its length, done without an induction rule: the lengths for which the sum is not one would have a least element
(`LeastNumber`). For the server, `RatesInv`: while the session is up and a rate was entered since, the vector is not empty.

**Xelis.** `silence <= own[k]`: whatever sets one connection's silence back sets the shared clock back. For
the template, what has been written at each place since the session began, by the step the session is at.

**RandomX.** `KeyNamesDataset` needs `RebuildInv`: until two rebuilds overlap there is one writer, the cache is
of its own key whenever nobody fills it, and an item that is not of the writer's seed is on the writer's list; `KeepCache`
is safe because of the second. An overlap is left behind by `InitCache` alone, which makes the cache anew for a
writer that is then the only one. For stratum (`StratumInv`) there is never an overlap. For
`HashesOnItsSeed`, `HandlerInv` says what a handler has achieved at each of its steps, and that a miner which has not
been cut off has the job of the key.

Every invariant, every safety property of steps and the refinement that a passing run checks are stated by a theorem
above. Only model-checked is the liveness (`Reconnects`, `ShutdownEnds`, `MinersFollow`, `TickReturns`, `DeadConnectionNoticed`,
`Settles`, `MinersHash`), since the prover does not reason about fairness; the properties of the runs that expect a
violation are false.

## 5. Not modelled, and why

Undefined behaviour inside libraries, with outcomes that cannot be enumerated: torn reads of
`boost::json::value`s assigned while copied (`net_dero.cpp:170`, the Xelis handlers from
`net_xelis_stratum.cpp:83`), buffers and references that outlive their coroutine
(`net_dero.cpp:124`), a vector iterated while it is reallocated (`broadcastServer.cpp:24`),
`get_array()` on the reply to a refused subscription (`net_xelis_stratum.cpp:187`).

Time inside a library: the login reads block without expiry (`net_xelis_stratum.cpp:293`,
`net_spectre_stratum.cpp:360`); the models give them no fairness. A failed pong in the Xelis session
spins for the submit thread while `wsMutex` is held (`:459`): `wsMutex` is not a variable of any module.

What a share contains: `ShareHandoff` counts claims and messages. That a miner fills `share` while another fills it, or
that a slot left claimed by mineXelis is sent with an older share, shows in no property.

A solo RandomX session that has left while its submit thread was fetching the template after an accepted block: the
thread sets the connection up again, and `getWork_v2` waits for it to go down (`miner.cpp:1520`), for ever.
`Reconnect` has that wait, and no property calls it wrong; the properties of liveness start from a pool whose jobs come.

Sequential code in which reading shows the effect at once, and a run would only repeat the line:

- Xatum's `emplace` does not replace `miner_work`, so from the second job on the first template is mined
  (`net_xelis_xatum.cpp:119`); its static `currentBlob` returns early after a reconnection with the same blob (`:100`).
- `mine_rx0.cpp:297` computes the target before it decides for which connection to mine: dev shares are
  tested against the user's. `myJobDev.at("blob")` (`:295`) throws until the dev pool has sent a job (`MinerThrows`).
- set_extranonce bumps neither height nor `jobCounter` (`net_kas_stratum.cpp:157`): `SetExtraNonce` of
  `NonceSpace` is that, and no property calls it wrong.
- The cases of `do_session_v2` for the Kas family have no `break` (`net.hpp:246`); `PROTO_XELIS_SOLO` is
  never assigned (`net.hpp:171`); `mineVerus` has no loop.
- Options: `--shai` is never read; a coin id of 0 stands for an unknown coin as well as for a known one; the
  wallet checks are inverted: Shai's refuses the wallets that carry its prefix, Dero's and Xelis's only one that
  carries every prefix (`miner.cpp:234-247`); the dev profile copies the user's protocol (`:1189`). They
  show at the first start.

Situations outside the models' assumptions: more than 65536 threads (2048 in RandomX) share nonces; an
extranonce of seven or eight bytes overlaps the thread's number; ten bits of Shai's nonce
are random (`mine_shai.cpp:275`). After
`--mine-time` a miner can be in a loop without a `CHECK_CLOSE` (`miner.cpp:1285`): `ShareHandoff` has the
loops, and no run is spent on it.

Hash functions, GPU kernels, operating-system access, resolution, vendored code: numeric, I/O, or third-party.
They are nearly all of the repository's lines; a hash is a nondeterministic hit or miss.

## 6. Plan

Done: the hand-off, both feeds, the framing with `chopQueue`, the rates and the statistics server, the Xelis clock and
template, the RandomX data, the nonces; the abstract specification of the feed; the proofs of section 4. Next, in this order:

1. Abstract specifications of the framing (a queue that delivers the packets in order) and of the RandomX data (a dataset
   that is for one seed or being rebuilt), with their refinements.
2. The Xatum session as a second kind in `XelisSession`; the options as operators checked against
   a reference table.

To run: `tlc -config MCFeed.cfg MCFeed` for a run, `tlapm JobFeedProofs.tla` for the proofs of a module.
