------------------------------ MODULE NonceSpace ------------------------------
(***************************************************************************)
(* How the miner threads share out the nonces of the user's job.           *)
(*                                                                         *)
(* A nonce is a word of three fields: the thread's number, a count, and,   *)
(* if the pool gave one, the extranonce on top.  Where the count lives and *)
(* when it starts again is the miner's style:                              *)
(*   "shared"       one global count, a plain uint64_t that every thread   *)
(*                  increments without a lock (Astrix, Waglayla, Spectre); *)
(*   "sharedReset"  the same, set to 0 by every thread that decodes a new  *)
(*                  template (Hoosat, Nexellia);                           *)
(*   "perJob"       a count of the thread's own, from 0 for each template  *)
(*                  (Yespower, Xelis);                                     *)
(*   "perCopy"      a count of the thread's own, from 0 each time it       *)
(*                  copies the job, whether it changed or not (RandomX).   *)
(* The session sets the global count to 0 before it publishes a new header.*)
(* jobCounter also moves when the other connection's job arrives.          *)
(*                                                                         *)
(* A miner whose pass throws forgets what it has decoded and starts over.  *)
(* One throw needs nothing unusual from a pool: the dev connection is up   *)
(* as soon as its first job is, and a miner that took its copies before    *)
(* looks for a template in an empty dev job.                               *)
(***************************************************************************)
EXTENDS Integers

CONSTANTS
  Miners,     \* thread numbers, counted from 0
  TidSpan,    \* 256 * 256, or 2^11 in RandomX: the words of one count
  RandSpan,   \* 256 random values between thread and count, or 1
  CountSpan,  \* counts that fit in a word without extranonce
  ExtraSpan,  \* counts that fit below the extranonce
  ExtraNonces,\* the extranonces the pool gives
  Styles,     \* the styles considered
  MaxJobs, MaxCount,  \* bounds: jobs, counts,
  MaxBumps            \* and how often else jobCounter moves, by style

NoExtra == -1

\* At most 65536 threads; an extranonce leaves room for the thread's number, so it
\* has six bytes at most.
ASSUME NonceAssumption ==
  /\ TidSpan \in Nat \ {0} /\ Miners \subseteq 0..(TidSpan - 1)
  /\ RandSpan \in Nat \ {0} /\ CountSpan \in Nat \ {0} /\ ExtraSpan \in Nat \ {0}
  /\ ExtraNonces \subseteq Nat
  /\ Styles \subseteq {"shared", "sharedReset", "perJob", "perCopy"}
  /\ MaxJobs \in Nat /\ MaxCount \in Nat /\ MaxBumps \in [Styles -> Nat]

VARIABLES
  style,
  job,           \* number of the job published last
  extra,         \* its extranonce
  height,        \* ourHeight
  jobCounter,
  announcing,    \* the session holds the mutex and has yet to publish a job
  devUp,         \* devJob has a template and devConnected is set
  nonce0,        \* the global count
  pc,            \* where each miner is
  own,           \* a miner's own count
  myJob,         \* its copy of the job: number and extranonce
  myDev,         \* its copy of devJob has a template
  work,          \* number of the job its header was decoded from
  localHeight, localCounter, \* its localOurHeight and localJobCounter
  loaded,        \* the count it has read to increment
  hashed,        \* history: the words it hashed for the job published last
  twice,         \* history: the miners that hashed one of those again
  threw,         \* history: the miners that threw since that job was published
  lost           \* history: an increment of nonce0 was lost since the last reset

published == <<job, extra, height, jobCounter, announcing, devUp>>
copies == <<myJob, myDev, localHeight, localCounter>>
history == <<hashed, twice, threw, lost>>
vars == <<style, published, nonce0, pc, own, copies, work, loaded, history>>

Pc == {"copy", "test", "label", "reset", "loop", "store", "use"}
Sharing == style \in {"shared", "sharedReset"}

Init ==
  /\ style \in Styles
  /\ job = 1 /\ extra = NoExtra /\ height = 1 /\ jobCounter = 1
  /\ announcing = FALSE /\ devUp = FALSE
  /\ nonce0 = 0
  /\ pc = [m \in Miners |-> "copy"]
  /\ own = [m \in Miners |-> 0]
  /\ myJob = [m \in Miners |-> [number |-> 0, extra |-> NoExtra]]
  /\ myDev = [m \in Miners |-> FALSE]
  /\ work = [m \in Miners |-> 0]
  /\ localHeight = [m \in Miners |-> 0]
  /\ localCounter = [m \in Miners |-> 0]
  /\ loaded = [m \in Miners |-> 0]
  /\ hashed = [m \in Miners |-> {}]
  /\ twice = {} /\ threw = {}
  /\ lost = FALSE

-----------------------------------------------------------------------------
\* The session of the user's connection.

\* A notify, under the mutex: with a new header the global count starts again,
Announce ==
  /\ ~announcing /\ job < MaxJobs
  /\ announcing' = TRUE
  /\ \/ nonce0' = 0 /\ lost' = FALSE
     \/ UNCHANGED <<nonce0, lost>>
  /\ UNCHANGED <<style, job, extra, height, jobCounter, devUp, pc, own, copies, work,
                 loaded, hashed, twice, threw>>

\* and then the job is there.
Publish ==
  /\ announcing /\ announcing' = FALSE
  /\ job' = job + 1 /\ height' = height + 1 /\ jobCounter' = jobCounter + 1
  /\ hashed' = [m \in Miners |-> {}] /\ twice' = {} /\ threw' = {}
  /\ UNCHANGED <<style, extra, devUp, nonce0, pc, own, copies, work, loaded, lost>>

\* mining.set_extranonce changes the job and tells no miner.
SetExtraNonce(e) ==
  /\ Sharing
  /\ ~announcing
  /\ extra' = e
  /\ UNCHANGED <<style, job, height, jobCounter, announcing, devUp, nonce0, pc, own,
                 copies, work, loaded, history>>

\* A new difficulty, or a later job of the other connection.
OtherJob ==
  /\ ~announcing /\ jobCounter - job < MaxBumps[style]
  /\ jobCounter' = jobCounter + 1
  /\ UNCHANGED <<style, job, extra, height, announcing, devUp, nonce0, pc, own, copies,
                 work, loaded, history>>

\* The first job of the other connection.
DevJob ==
  /\ ~announcing /\ ~devUp /\ jobCounter - job < MaxBumps[style]
  /\ devUp' = TRUE
  /\ jobCounter' = jobCounter + 1
  /\ UNCHANGED <<style, job, extra, height, announcing, nonce0, pc, own, copies,
                 work, loaded, history>>

-----------------------------------------------------------------------------
\* The miner m.
Goto(m, from, to) == pc[m] = from /\ pc' = [pc EXCEPT ![m] = to]

\* Mutant of Copy: every style starts its own count with every copy.
CopyRestarts(m) ==
  /\ ~announcing
  /\ myJob' = [myJob EXCEPT ![m] = [number |-> job, extra |-> extra]]
  /\ myDev' = [myDev EXCEPT ![m] = devUp]
  /\ localCounter' = [localCounter EXCEPT ![m] = jobCounter]
  /\ own' = [own EXCEPT ![m] = 0]
  /\ \/ /\ style = "perCopy"
        /\ Goto(m, "copy", "loop")
        /\ work' = [work EXCEPT ![m] = job]
     \/ /\ style # "perCopy"
        /\ Goto(m, "copy", "test")
        /\ UNCHANGED work
  /\ UNCHANGED <<style, published, nonce0, localHeight, loaded, history>>

\* The job is copied under the mutex.  RandomX decodes it there and then.
Copy(m) ==
  /\ ~announcing
  /\ myJob' = [myJob EXCEPT ![m] = [number |-> job, extra |-> extra]]
  /\ myDev' = [myDev EXCEPT ![m] = devUp]
  /\ localCounter' = [localCounter EXCEPT ![m] = jobCounter]
  /\ \/ /\ style = "perCopy"
        /\ Goto(m, "copy", "loop")
        /\ work' = [work EXCEPT ![m] = job]
        /\ own' = [own EXCEPT ![m] = 0]
     \/ /\ style # "perCopy"
        /\ Goto(m, "copy", "test")
        /\ UNCHANGED <<work, own>>
  /\ UNCHANGED <<style, published, nonce0, localHeight, loaded, history>>

\* The others decode it if the height has moved since they last did,
Test(m) ==
  /\ \/ /\ localHeight[m] # height
        /\ Goto(m, "test", "label")
        /\ work' = [work EXCEPT ![m] = myJob[m].number]
     \/ /\ localHeight[m] = height
        /\ Goto(m, "test", "loop")
        /\ UNCHANGED work
  /\ UNCHANGED <<style, published, nonce0, own, copies, loaded, history>>

\* read the height again to remember it, and start their own count,
Label(m) ==
  /\ Goto(m, "label", IF style = "sharedReset" THEN "reset" ELSE "loop")
  /\ localHeight' = [localHeight EXCEPT ![m] = height]
  /\ own' = [own EXCEPT ![m] = 0]
  /\ UNCHANGED <<style, published, nonce0, myJob, myDev, localCounter, work, loaded,
                 history>>

\* Mutant of Reset: the next increment is to give 0.
ResetBelowZero(m) ==
  /\ Goto(m, "reset", "loop")
  /\ nonce0' = -1
  /\ UNCHANGED <<style, published, own, copies, work, loaded, history>>

\* or the global one.
Reset(m) ==
  /\ Goto(m, "reset", "loop")
  /\ nonce0' = 0
  /\ UNCHANGED <<style, published, own, copies, work, loaded, history>>

\* The loop ends when jobCounter has moved.
Leave(m) ==
  /\ localCounter[m] # jobCounter
  /\ Goto(m, "loop", "copy")
  /\ UNCHANGED <<style, published, nonce0, own, copies, work, loaded, history>>

\* Then the dev job is decoded, if that connection is up.  A copy taken before it was
\* has no template, which throws, and the miner starts over as if it had no job.  In
\* the loop the fields of a dev share are looked up in the same copy.
Throws(m) ==
  /\ devUp /\ ~myDev[m]
  /\ Goto(m, "loop", "copy")
  /\ localHeight' = [localHeight EXCEPT ![m] = -1]
  /\ localCounter' = [localCounter EXCEPT ![m] = -1]
  /\ threw' = threw \cup {m}
  /\ UNCHANGED <<style, published, nonce0, own, myJob, myDev, work, loaded, hashed,
                 twice, lost>>

Count(m) == IF Sharing THEN nonce0 ELSE own[m]

\* (*nonce)++ is a load
Load(m) ==
  /\ localCounter[m] = jobCounter
  /\ Count(m) < MaxCount
  /\ Goto(m, "loop", "store")
  /\ loaded' = [loaded EXCEPT ![m] = Count(m)]
  /\ UNCHANGED <<style, published, nonce0, own, copies, work, history>>

\* and a store, which drops what other threads and the session stored in between.
Store(m) ==
  /\ Goto(m, "store", "use")
  /\ \/ /\ Sharing
        /\ nonce0' = loaded[m] + 1
        /\ lost' = (lost \/ nonce0 # loaded[m])
        /\ UNCHANGED own
     \/ /\ ~Sharing
        /\ own' = [own EXCEPT ![m] = loaded[m] + 1]
        /\ UNCHANGED <<nonce0, lost>>
  /\ loaded' = [loaded EXCEPT ![m] = 0]
  /\ UNCHANGED <<style, published, copies, work, hashed, twice, threw>>

-----------------------------------------------------------------------------
\* Mutant of Word: the count is not kept below the extranonce.
WordUnmasked(m, r, c, e) ==
  IF e = NoExtra
  THEN m + TidSpan * (r + RandSpan * c)
  ELSE m + TidSpan * (c + ExtraSpan * e)

\* Mutant of Word: the count is shifted by too little for the thread's number.
WordOverlapping(m, r, c, e) ==
  IF e = NoExtra
  THEN m + r + RandSpan * (c % CountSpan)
  ELSE m + (c % ExtraSpan) + ExtraSpan * e

\* n: the shifts and masks lay out fields that do not overlap, a sum of multiples.
Word(m, r, c, e) ==
  IF e = NoExtra
  THEN m + TidSpan * (r + RandSpan * (c % CountSpan))
  ELSE m + TidSpan * ((c % ExtraSpan) + ExtraSpan * e)

\* For the history: hashes of the job published last.
Record(m, h) ==
  IF work[m] = job
  THEN /\ hashed' = [hashed EXCEPT ![m] = @ \cup {h}]
       /\ twice' = twice \cup {o \in {m} : h \in hashed[m]}
  ELSE UNCHANGED <<hashed, twice>>

\* The count is read again for the nonce, written into the header and hashed; all but
\* RandomX give up before the hash when jobCounter has moved.
Use(m, r) ==
  /\ \/ /\ style # "perCopy" /\ localCounter[m] # jobCounter
        /\ Goto(m, "use", "copy")
        /\ UNCHANGED <<hashed, twice>>
     \/ /\ style = "perCopy" \/ localCounter[m] = jobCounter
        /\ Goto(m, "use", "loop")
        /\ Record(m, [extra |-> myJob[m].extra, word |-> Word(m, r, Count(m), myJob[m].extra)])
  /\ UNCHANGED <<style, published, nonce0, own, copies, work, loaded, threw, lost>>

-----------------------------------------------------------------------------
Session ==
  \/ Announce \/ Publish \/ OtherJob \/ DevJob
  \/ \E e \in ExtraNonces : SetExtraNonce(e)

Miner(m) ==
  \/ Copy(m) \/ Test(m) \/ Label(m) \/ Reset(m) \/ Throws(m) \/ Leave(m)
  \/ Load(m) \/ Store(m)
  \/ \E r \in 0..(RandSpan - 1) : Use(m, r)

Next == Session \/ \E m \in Miners : Miner(m)

Spec == Init /\ [][Next]_vars

-----------------------------------------------------------------------------
Copied == [number : 0..job, extra : ExtraNonces \cup {NoExtra}]

Hashes == [extra : ExtraNonces \cup {NoExtra}, word : Nat]

TypeOK ==
  /\ style \in Styles
  /\ job \in Nat /\ extra \in ExtraNonces \cup {NoExtra}
  /\ height \in Nat /\ jobCounter \in Nat
  /\ announcing \in BOOLEAN /\ devUp \in BOOLEAN /\ myDev \in [Miners -> BOOLEAN]
  /\ nonce0 \in Nat /\ pc \in [Miners -> Pc]
  /\ own \in [Miners -> Nat] /\ loaded \in [Miners -> Nat]
  /\ myJob \in [Miners -> Copied] /\ work \in [Miners -> 0..job]
  /\ localHeight \in [Miners -> Nat \cup {-1}]
  /\ localCounter \in [Miners -> Nat \cup {-1}]
  /\ hashed \in [Miners -> SUBSET Hashes]
  /\ twice \subseteq Miners /\ threw \subseteq Miners
  /\ lost \in BOOLEAN

\* Two threads never hash the same nonce for the current job, however their increments of the
\* shared count fall, and when the count has wrapped around.
ThreadsApart ==
  \A m, o \in Miners : m # o =>
    \A h \in hashed[m], k \in hashed[o] : h.word # k.word

\* A nonce keeps on top the extranonce by which the pool tells its miners apart, and
\* which it requires of a share.
ExtraNonceKept ==
  \A m \in Miners : \A h \in hashed[m] :
    h.extra # NoExtra => h.word \div (TidSpan * ExtraSpan) = h.extra

\* A count that goes forward within the current job: the thread's own, unless it has
\* thrown since the job came, or the global one as long as no increment of it was lost
\* and no session has reset it for the next job.
Forward(m) ==
  \/ style = "perJob" /\ m \notin threw /\ own[m] <= CountSpan
  \/ style = "shared" /\ ~lost /\ ~announcing /\ nonce0 <= CountSpan /\ nonce0 <= ExtraSpan

\* No thread tries a nonce of the current job again while its count goes forward and
\* fits in the word: other bumps of jobCounter, the first dev job, extranonces that
\* change, late decoding of a replaced job do not make it start again, except for the
\* thread that throws over the first dev job.  The global count survives that too.
NonceNeverRepeats ==
  \A m \in Miners : Forward(m) => m \notin twice
=============================================================================
