---------------------------- MODULE XelisSession ----------------------------
(***************************************************************************)
(* The Xelis stratum sessions: how they notice that a connection is dead,  *)
(* and how they put a job's template together (xelis_stratum_session,      *)
(* handleXStratumPacket and handleXStratumResponse; the session without    *)
(* TLS has the same loop).                                                 *)
(*                                                                         *)
(* The loop ends on the age of the last job alone: a failed read returns   *)
(* an error with zero bytes, which the branch `ec && trans > 0' does not   *)
(* take.  lastReceivedJobTime is one variable for the user's and the dev   *)
(* connection; jobs that the notify filter drops do not refresh it.        *)
(*                                                                         *)
(* The template, miner_work, is one text of 224 hex digits that outlives   *)
(* the session.  Each packet writes its part at fixed places: the reply to *)
(* the subscription the extranonce and the key, mining.notify the header   *)
(* and the time, mining.set_extranonce an extranonce elsewhere.            *)
(*                                                                         *)
(* A session that gives its connection up is "leaving": it has called      *)
(* setForDisconnected, waits for its submit thread, and then shuts the TLS *)
(* stream down, which may block or throw; what it catches lets it go on    *)
(* with its loop.                                                          *)
(*                                                                         *)
(* Time advances in ticks; a read hands over one packet.  Left out: the    *)
(* end of the program (ABORT_MINER), and what the submit thread does       *)
(* (ShareHandoff has both): here the wait for it may end or not.           *)
(***************************************************************************)
EXTENDS Naturals

CONSTANTS Kinds,       \* {"user"} or {"user", "dev"}
          JobTimeout,  \* 90 s, in ticks
          ReadTimeout  \* 60 s, in ticks

ASSUME XelisAssumption ==
  /\ Kinds \subseteq {"user", "dev"} /\ "user" \in Kinds
  /\ JobTimeout \in Nat \ {0} /\ ReadTimeout \in Nat \ {0}

VARIABLES
  sess,       \* sess[k]: "connecting" (getWork_v2), "subscribe", "check", "read",
              \* "leaving" (behind setForDisconnected)
  open,       \* open[k]: the stream works
  connected,  \* isConnected, devConnected
  userHeight, \* ourHeight > 0
  silence,    \* ticks since lastReceivedJobTime, up to the first beyond JobTimeout
  left,       \* left[k]: ticks until the read of session k expires
  own,        \* history: own[k] is silence counted for connection k alone
  blob,       \* blob[k][c]: the text at place c of the job's miner_work
  terms       \* history: terms[k], the extranonce the pool has given this session

vars == <<sess, open, connected, userHeight, silence, left, own, blob, terms>>

\* Hex digits 0-47, 48-63, 64-79, 96-111, 112-159 and 160-223.  (80-95 is the
\* nonce: the miner writes it.)
HeaderCells == {"header", "headerEnd", "time"}
ReplyCells  == {"extra", "extraEnd", "key"}
Cells == HeaderCells \cup ReplyCells

\* What stands at a place: the text that belongs there, as this session's pool sent
\* it last; an extranonce that set_extranonce put there; anything older; nothing,
\* while there is no miner_work.
Texts == Cells \cup {"moved", "old", "absent"}
NoBlob == [c \in Cells |-> "absent"]
OldBlob == [c \in Cells |-> "old"]

\* The texts that belong to the places `cells' are written there.
Put(b, cells) == [c \in Cells |-> IF c \in cells THEN c ELSE b[c]]

SessPc == {"connecting", "subscribe", "check", "read", "leaving"}
InLoop(k) == sess[k] \in {"check", "read"}

Init ==
  /\ sess = [k \in Kinds |-> "connecting"]
  /\ open = [k \in Kinds |-> FALSE]
  /\ connected = [k \in Kinds |-> FALSE]
  /\ userHeight = FALSE
  /\ silence = 0
  /\ left = [k \in Kinds |-> 0]
  /\ own = [k \in Kinds |-> 0]
  /\ blob = [k \in Kinds |-> NoBlob]
  /\ terms = [k \in Kinds |-> "none"]

SessGoto(k, from, to) ==
  /\ sess[k] = from
  /\ sess' = [sess EXCEPT ![k] = to]

-----------------------------------------------------------------------------
\* Connect and TLS handshake; the subscription is written.  What the last session
\* left in miner_work stays.
Connect(k) ==
  /\ SessGoto(k, "connecting", "subscribe")
  /\ open' = [open EXCEPT ![k] = TRUE]
  /\ blob' = [blob EXCEPT ![k] = IF @ = NoBlob THEN NoBlob ELSE OldBlob]
  /\ terms' = [terms EXCEPT ![k] = "none"]
  /\ UNCHANGED <<connected, userHeight, silence, left, own>>

\* Any step of the login fails, or the reply is not one JSON text: the coroutine
\* returns or throws, and getWork_v2 starts over.
LoginFails(k) ==
  /\ SessGoto(k, "subscribe", "connecting")
  /\ open' = [open EXCEPT ![k] = FALSE]
  /\ UNCHANGED <<connected, userHeight, silence, left, own, blob, terms>>

\* Mutant of Granted: the extranonce is written where set_extranonce writes it.
GrantedInHeader(k) ==
  LET b == IF blob[k] = NoBlob THEN OldBlob ELSE blob[k]
  IN  /\ blob' = [blob EXCEPT ![k] = [Put(b, {"key"}) EXCEPT !.headerEnd = "moved",
                                     !.time = "moved", !.extra = "moved"]]
      /\ terms' = [terms EXCEPT ![k] = "granted"]

\* The reply to the subscription: extranonce and key are written into miner_work.
Granted(k) ==
  /\ blob' = [blob EXCEPT ![k] = Put(IF @ = NoBlob THEN OldBlob ELSE @, ReplyCells)]
  /\ terms' = [terms EXCEPT ![k] = "granted"]

\* The first line is read (a blocking read, without expiry), the authorization
\* written, and the job clock set.  A first line that is not the reply to the
\* subscription is lost: it has no id, and the exception is only printed.
Subscribed(k) ==
  /\ SessGoto(k, "subscribe", "check")
  /\ silence' = 0
  /\ own' = [own EXCEPT ![k] = 0]
  /\ Granted(k) \/ UNCHANGED <<blob, terms>>
  /\ UNCHANGED <<open, connected, userHeight, left>>

\* Then the reply comes later, in the loop.
LateReply(k) ==
  /\ open[k] /\ terms[k] = "none"
  /\ SessGoto(k, "read", "check")
  /\ Granted(k)
  /\ UNCHANGED <<open, connected, userHeight, silence, left, own>>

\* Mutant of Expired: the comparison is off by one.
ExpiresEarly == silence >= JobTimeout

Expired == silence > JobTimeout

\* setForDisconnected.  No read is pending any more.
GivesUp(k) ==
  /\ connected' = [connected EXCEPT ![k] = FALSE]
  /\ left' = [left EXCEPT ![k] = 0]

\* The top of the loop.
TimesOut(k) ==
  /\ Expired
  /\ SessGoto(k, "check", "leaving")
  /\ GivesUp(k)
  /\ UNCHANGED <<open, userHeight, silence, own, blob, terms>>

\* The submit thread has ended.  The stream is shut down and the session returns, or
\* the shutdown throws twice, the second time out of the session: getWork_v2.
Leave(k) ==
  /\ SessGoto(k, "leaving", "connecting")
  /\ open' = [open EXCEPT ![k] = FALSE]
  /\ UNCHANGED <<connected, userHeight, silence, left, own, blob, terms>>

\* The shutdown throws once: the catch prints it and the loop goes on, without a
\* submit thread and on a stream in whatever state.
ShutdownThrows(k) ==
  /\ SessGoto(k, "leaving", "check")
  /\ \E works \in BOOLEAN : open' = [open EXCEPT ![k] = @ /\ works]
  /\ UNCHANGED <<connected, userHeight, silence, left, own, blob, terms>>

\* Mutant of BeginRead: the time is added to what was left of the last read's.
AddsTime(k) ==
  /\ ~Expired
  /\ SessGoto(k, "check", "read")
  /\ left' = [left EXCEPT ![k] = left[k] + ReadTimeout]
  /\ UNCHANGED <<open, connected, userHeight, silence, own, blob, terms>>

BeginRead(k) ==
  /\ ~Expired
  /\ SessGoto(k, "check", "read")
  /\ left' = [left EXCEPT ![k] = ReadTimeout]
  /\ UNCHANGED <<open, connected, userHeight, silence, own, blob, terms>>

\* Mutant of ReadFails: the read is begun again without the test for silence.
ReadsAgain(k) ==
  /\ ~open[k]
  /\ SessGoto(k, "read", "read")
  /\ left' = [left EXCEPT ![k] = ReadTimeout]
  /\ UNCHANGED <<open, connected, userHeight, silence, own, blob, terms>>

\* A read on a stream that is closed fails at once, with no bytes: the loop goes on.
ReadFails(k) ==
  /\ ~open[k]
  /\ SessGoto(k, "read", "check")
  /\ UNCHANGED <<open, connected, userHeight, silence, left, own, blob, terms>>

\* A read that expires closes the stream; it also returns no bytes.
ReadExpires(k) ==
  /\ open[k]
  /\ left[k] = 0
  /\ SessGoto(k, "read", "check")
  /\ open' = [open EXCEPT ![k] = FALSE]
  /\ UNCHANGED <<connected, userHeight, silence, left, own, blob, terms>>

\* mining.notify without the clean flag, once the USER's connection has a height.
Dropped(k, clean) == userHeight /\ ~clean

\* The job clock is set before the template is looked at: without miner_work the
\* handler throws, and nothing else is done.
Notify(k, clean) ==
  /\ open[k]
  /\ SessGoto(k, "read", "check")
  /\ IF Dropped(k, clean)
     THEN UNCHANGED <<silence, own>>
     ELSE silence' = 0 /\ own' = [own EXCEPT ![k] = 0]
  /\ IF Dropped(k, clean) \/ blob[k] = NoBlob
     THEN UNCHANGED <<connected, userHeight, blob>>
     ELSE /\ blob' = [blob EXCEPT ![k] = Put(@, HeaderCells)]
          /\ connected' = [connected EXCEPT ![k] = TRUE]
          /\ userHeight' = (userHeight \/ k = "user")
  /\ UNCHANGED <<open, left, terms>>

\* mining.set_extranonce overwrites 64 digits from the 48th on, and what is left of
\* the reply's extranonce is out of date.  It bumps the height, of the user's
\* connection too.
SetExtraNonce(k) ==
  /\ open[k] /\ blob[k] # NoBlob
  /\ SessGoto(k, "read", "check")
  /\ blob' = [blob EXCEPT ![k].headerEnd = "moved", ![k].time = "moved",
                          ![k].extra = "moved", ![k].extraEnd = "old"]
  /\ terms' = [terms EXCEPT ![k] = "changed"]
  /\ userHeight' = (userHeight \/ k = "user")
  /\ UNCHANGED <<open, connected, silence, left, own>>

\* Difficulty, print, responses, pings that are answered, text that does not parse,
\* an extranonce for a template that is not there.
OtherPacket(k) ==
  /\ open[k]
  /\ SessGoto(k, "read", "check")
  /\ UNCHANGED <<open, connected, userHeight, silence, left, own, blob, terms>>

\* The answer to a ping breaks off after some bytes: the one error that is acted on.
PongFails(k) ==
  /\ open[k]
  /\ SessGoto(k, "read", "leaving")
  /\ GivesUp(k)
  /\ UNCHANGED <<open, userHeight, silence, own, blob, terms>>

\* The pool, or the network, closes the connection.
PoolCloses(k) ==
  /\ open[k] /\ InLoop(k)
  /\ open' = [open EXCEPT ![k] = FALSE]
  /\ UNCHANGED <<sess, connected, userHeight, silence, left, own, blob, terms>>

Later(n) == IF n > JobTimeout THEN n ELSE n + 1

\* An open read expires when no time is left.
Tick ==
  /\ \A k \in Kinds : sess[k] = "read" /\ open[k] => left[k] > 0
  /\ silence' = Later(silence)
  /\ own' = [k \in Kinds |-> Later(own[k])]
  /\ left' = [k \in Kinds |-> IF sess[k] = "read" /\ open[k] THEN left[k] - 1 ELSE left[k]]
  /\ UNCHANGED <<sess, open, connected, userHeight, blob, terms>>

-----------------------------------------------------------------------------
\* What a session does by itself, how it leaves, and what its pool does.
Loop(k) == TimesOut(k) \/ BeginRead(k) \/ ReadFails(k) \/ ReadExpires(k)
Leaves(k) == Leave(k) \/ ShutdownThrows(k)
Pool(k) == \/ Subscribed(k) \/ LateReply(k) \/ LoginFails(k) \/ PoolCloses(k)
           \/ \E clean \in BOOLEAN : Notify(k, clean)
           \/ SetExtraNonce(k) \/ OtherPacket(k) \/ PongFails(k)

Next == Tick \/ \E k \in Kinds : Connect(k) \/ Loop(k) \/ Leaves(k) \/ Pool(k)

Spec == Init /\ [][Next]_vars

\* Sessions run and time passes.  Nothing is assumed of the pools, nor of a session
\* that leaves: its submit thread may have missed the one notification, and the
\* shutdown of a dead stream may block.
Fairness == WF_vars(Tick) /\ \A k \in Kinds : WF_vars(Loop(k))
FairSpec == Spec /\ Fairness

-----------------------------------------------------------------------------
TypeOK ==
  /\ sess \in [Kinds -> SessPc]
  /\ open \in [Kinds -> BOOLEAN]
  /\ connected \in [Kinds -> BOOLEAN]
  /\ userHeight \in BOOLEAN
  /\ silence \in 0..(JobTimeout + 1)
  /\ left \in [Kinds -> 0..ReadTimeout]
  /\ own \in [Kinds -> 0..(JobTimeout + 1)]
  /\ blob \in [Kinds -> [Cells -> Texts]]
  /\ terms \in [Kinds -> {"none", "granted", "changed"}]

\* While the miners may hash (the connection counts as connected), and the pool has
\* not changed the extranonce of its reply, the template is whole: every place
\* holds what this pool sent for it, and nothing of an earlier session is left.
TemplateWhole ==
  \A k \in Kinds : connected[k] /\ terms[k] = "granted" => blob[k] = [c \in Cells |-> c]

\* Although the clock is shared, a session is ended for silence only when its own
\* connection has had no job that counts for longer than JobTimeout.
TimeoutAfterSilence ==
  [][\A k \in Kinds : sess[k] = "check" /\ sess'[k] = "leaving"
                        => own[k] > JobTimeout]_vars

\* A session stays for ever in its loop on a dead connection only while the clock is
\* set back again and again by the jobs and the logins of the other connection:
\* alone, it always gets as far as setForDisconnected, so that the miners stop.
SetsClockBack(j) == own[j] # 0 /\ own'[j] = 0

DeadConnectionNoticed ==
  \A k \in Kinds : <>[](InLoop(k) /\ ~open[k])
                     => \E j \in Kinds \ {k} : []<><<SetsClockBack(j)>>_vars
=============================================================================
