---------------------------- MODULE LineFraming ----------------------------
(***************************************************************************)
(* How the stratum sessions turn the pool's byte stream into packets.  The *)
(* pool sends packets, each a line; TCP delivers the bytes in pieces of    *)
(* any size.  Three pieces of code read them: the subscribe and the        *)
(* authorize step, each with one blocking read_until and a streambuf of    *)
(* its own, and the main loop, of which there are two kinds:               *)
(*   "buffered"  spectre_stratum_session: a persistent packetBuffer;       *)
(*   "chopped"   kas_stratum_session (Astrix and Verus have the same): a   *)
(*               line that fails is kept in chopQueue, and the next line   *)
(*               that fails is joined to it.                               *)
(*                                                                         *)
(* A byte is its position in the stream, and a text the sequence of the    *)
(* positions of its bytes.  What a session has read and not yet taken      *)
(* apart (packetBuffer, the lines of a streambuf) is always the end of     *)
(* what it has received: the text from `from' to pos.  A line parses       *)
(* (boost::json::parse) when it is the whole body of one packet and throws *)
(* otherwise.  The main loop of btc_stratum_session is the first kind.     *)
(***************************************************************************)
EXTENDS Naturals, Sequences

CONSTANTS Readers,   \* a subset of {"buffered", "chopped"}
          EndOf,     \* EndOf[p]: position of the newline of packet p
          AuthReply, \* the packet that answers mining.authorize
          Replies,   \* packets without "method"
          Throwing,  \* replies whose handler throws (an "error" of another form)
          MaxRead,   \* most units one read_until returns
          Limit      \* 65536 in the code

Packets == 1..Len(EndOf)

\* The packets follow each other in the stream; none is empty.
ASSUME FramingAssumption ==
  /\ Readers \subseteq {"buffered", "chopped"}
  /\ EndOf \in Seq(Nat) /\ \A p \in Packets : EndOf[p] > 1
  /\ \A p, q \in Packets : p < q => EndOf[p] + 1 < EndOf[q]
  /\ AuthReply \in Packets /\ Replies \subseteq Packets /\ Throwing \subseteq Replies
  /\ MaxRead \in Nat /\ Limit \in Nat

VARIABLES reader,  \* the session's kind
          phase,   \* "subscribe", "authorize", "main" or "closed"
          pos,     \* units of the stream taken from the socket
          from,    \* units of the stream taken apart
          busy,    \* a read is being taken apart
          handled, \* the packets given to a handler, in order
          mainAt,  \* history: pos when the main loop was entered
          cleared, \* packets.clear() was called while its lines are taken
          chop,    \* chopQueue: <<>> for "NULL", <<text>> for text
          spoiled  \* history: something other than a cut packet has failed, or
                   \* lines were left when packets was cleared

chopped == <<cleared, chop, spoiled>>
vars == <<reader, phase, pos, from, busy, handled, mainAt, chopped>>

StartOf(p) == IF p = 1 THEN 1 ELSE EndOf[p - 1] + 1
Piece(a, b) == [i \in 1..(b - a) |-> a + i]
Body(p) == Piece(StartOf(p) - 1, EndOf[p] - 1)

Parses(text) == \E p \in Packets : text = Body(p)
PacketOf(text) == CHOOSE p \in Packets : text = Body(p)

\* Packet p's newline is the first one in what has been read.
FirstNewline(p) ==
  /\ from < EndOf[p] /\ EndOf[p] <= pos
  /\ \A q \in Packets : from < EndOf[q] => EndOf[p] <= EndOf[q]

Terminated == \E p \in Packets : from < EndOf[p] /\ EndOf[p] <= pos

\* std::getline: the next line ends at e, before a newline or where the text ends; the
\* one after it begins behind next.
GetLine(e, next) ==
  \/ \E p \in Packets : FirstNewline(p) /\ e = EndOf[p] - 1 /\ next = EndOf[p]
  \/ ~Terminated /\ from < pos /\ e = pos /\ next = pos

\* boost::asio::read_until: at least one newline, and whatever has come with it.
ReadUntil(n) ==
  /\ n <= MaxRead
  /\ \E p \in Packets : pos + n <= EndOf[p]
  /\ \E p \in Packets : pos < EndOf[p] /\ EndOf[p] <= pos + n

Init == /\ reader \in Readers
        /\ phase = "subscribe" /\ pos = 0 /\ from = 0 /\ busy = FALSE
        /\ handled = <<>> /\ mainAt = 0
        /\ cleared = FALSE /\ chop = <<>> /\ spoiled = FALSE

-----------------------------------------------------------------------------
\* The login.  Nothing of the answer to mining.authorize, or of what follows it, is
\* on the wire before the subscription was read.
LoginRead(n) ==
  /\ phase \in {"subscribe", "authorize"} /\ ~busy
  /\ ReadUntil(n)
  /\ phase = "subscribe" => pos + n < StartOf(AuthReply)
  /\ pos' = pos + n /\ busy' = TRUE
  /\ UNCHANGED <<reader, phase, from, handled, mainAt, chopped>>

\* A line that does not parse ends the loop through the catch; only Spectre skips
\* empty ones.  Packets without "method" are ignored.
LoginLine ==
  /\ phase \in {"subscribe", "authorize"} /\ busy
  /\ \E e, next \in from..pos :
       /\ GetLine(e, next)
       /\ LET line == Piece(from, e)
          IN  /\ from' = IF Parses(line) \/ (line = <<>> /\ reader = "buffered")
                         THEN next ELSE pos
              /\ handled' = IF Parses(line) /\ PacketOf(line) \notin Replies
                            THEN Append(handled, PacketOf(line)) ELSE handled
  /\ UNCHANGED <<reader, phase, pos, busy, mainAt, chopped>>

\* Mutant of LoginDone: the entry into the main loop is recorded one unit late.
DoneOffByOne ==
  /\ busy /\ from = pos
  /\ busy' = FALSE
  /\ \/ phase = "subscribe" /\ phase' = "authorize" /\ UNCHANGED mainAt
     \/ phase = "authorize" /\ phase' = "main" /\ mainAt' = pos + 1
  /\ UNCHANGED <<reader, pos, from, handled, chopped>>

LoginDone ==
  /\ busy /\ from = pos
  /\ busy' = FALSE
  /\ \/ phase = "subscribe" /\ phase' = "authorize" /\ UNCHANGED mainAt
     \/ phase = "authorize" /\ phase' = "main" /\ mainAt' = pos
  /\ UNCHANGED <<reader, pos, from, handled, chopped>>

-----------------------------------------------------------------------------
\* Mutant of Receive: packetBuffer is local to one pass.
ForgetsRest(n) ==
  /\ phase = "main" /\ ~busy
  /\ ReadUntil(n)
  /\ pos' = pos + n /\ busy' = TRUE
  /\ from' = pos
  /\ cleared' = FALSE
  /\ UNCHANGED <<reader, phase, handled, mainAt, chop, spoiled>>

\* One pass of the main loop begins: the read is appended to packetBuffer, or its lines
\* are put into a new vector, packets.
Receive(n) ==
  /\ phase = "main" /\ ~busy
  /\ ReadUntil(n)
  /\ pos' = pos + n /\ busy' = TRUE
  /\ cleared' = FALSE
  /\ UNCHANGED <<reader, phase, from, handled, mainAt, chop, spoiled>>

\* Mutant of TakePacket: the line stays in packetBuffer.
TakePacketTwice ==
  /\ phase = "main" /\ busy /\ reader = "buffered"
  /\ \E p \in Packets :
       /\ FirstNewline(p)
       /\ LET line == Piece(from, EndOf[p] - 1)
          IN  handled' = IF Parses(line) THEN Append(handled, PacketOf(line)) ELSE handled
  /\ UNCHANGED <<reader, phase, pos, from, busy, mainAt, chopped>>

\* A complete line is taken out of packetBuffer, and handled if it parses.
TakePacket ==
  /\ phase = "main" /\ busy /\ reader = "buffered"
  /\ \E p \in Packets :
       /\ FirstNewline(p)
       /\ from' = EndOf[p]
       /\ LET line == Piece(from, EndOf[p] - 1)
          IN  handled' = IF Parses(line) THEN Append(handled, PacketOf(line)) ELSE handled
  /\ UNCHANGED <<reader, phase, pos, busy, mainAt, chopped>>

\* No line is left; a packetBuffer that has grown too long is cleared.
EndOfPass ==
  /\ phase = "main" /\ busy
  /\ IF reader = "buffered" THEN ~Terminated ELSE from = pos
  /\ busy' = FALSE
  /\ from' = IF pos - from > Limit THEN pos ELSE from
  /\ UNCHANGED <<reader, phase, pos, handled, mainAt, chopped>>

-----------------------------------------------------------------------------
\* The lines of the other kind fail when they do not parse, or their handler throws.
Succeeds(text) == Parses(text) /\ PacketOf(text) \notin Throwing
Given(text) == IF Parses(text) THEN <<PacketOf(text)>> ELSE <<>>

\* For the history: what a packet that is cut once, and whose handler does not throw,
\* puts before and after the cut, which is nothing when only its newline is cut off.
CutPacket(text) ==
  \/ text = <<>>
  \/ \E p \in Packets \ Throwing : \E c \in StartOf(p)..(EndOf[p] - 2) :
       \/ text = Piece(StartOf(p) - 1, c)
       \/ chop # <<>> /\ text = Piece(c, EndOf[p] - 1)

\* Mutant of QueueAfter: chopQueue is not set back to "NULL" after the joined text
\* was handled.
QueueKept(joined, mended) == <<joined>>

QueueAfter(joined, mended) == IF mended THEN <<>> ELSE <<joined>>

\* A line that fails is kept, or joined to what is kept; the joined text succeeds, and
\* chopQueue is "NULL" again, or fails and is kept.  Joining clears the vector the
\* loop is running through.
TakeLine(text) ==
  LET joined == IF chop = <<>> THEN text ELSE chop[1] \o text
      mended == chop # <<>> /\ Succeeds(joined)
  IN  IF Succeeds(text)
      THEN /\ handled' = Append(handled, PacketOf(text))
           /\ UNCHANGED chopped
      ELSE /\ chop' = QueueAfter(joined, mended)
           /\ cleared' = (cleared \/ chop # <<>>)
           /\ handled' = handled \o Given(text)
                           \o (IF chop = <<>> THEN <<>> ELSE Given(joined))
           /\ spoiled' = (spoiled \/ ~CutPacket(text) \/ (cleared' /\ from' # pos))

\* After packets.clear() the loop goes on over strings that are destroyed: what is
\* copied is the old text or anything else.
Garbage == <<0>>
NextLine ==
  /\ phase = "main" /\ busy /\ reader = "chopped"
  /\ \E e, next \in from..pos :
       /\ GetLine(e, next)
       /\ from' = next
       /\ \E text \in {Piece(from, e)} \cup (IF cleared THEN {Garbage} ELSE {}) : TakeLine(text)
  /\ UNCHANGED <<reader, phase, pos, busy, mainAt>>

-----------------------------------------------------------------------------
\* End of stream or an error on the socket: the login reads throw and fall through to
\* the main loop, whose own read then fails.  In a pass the answer to a ping can fail,
\* and the copy of a destroyed string can throw.
ConnectionLost ==
  /\ phase # "closed" /\ (busy => phase = "main")
  /\ phase' = "closed"
  /\ UNCHANGED <<reader, pos, from, busy, handled, mainAt, chopped>>

Next == \/ \E n \in 1..MaxRead : LoginRead(n) \/ Receive(n)
        \/ LoginLine \/ LoginDone \/ TakePacket \/ NextLine \/ EndOfPass
        \/ ConnectionLost

Spec == Init /\ [][Next]_vars

-----------------------------------------------------------------------------
TypeOK ==
  /\ reader \in Readers
  /\ phase \in {"subscribe", "authorize", "main", "closed"}
  /\ pos \in Nat /\ from \in 0..pos /\ mainAt \in 0..from
  /\ busy \in BOOLEAN /\ cleared \in BOOLEAN /\ spoiled \in BOOLEAN
  /\ handled \in Seq(Packets)
  /\ chop \in Seq(Seq(0..pos)) /\ Len(chop) <= 1

HandledPackets == {handled[i] : i \in DOMAIN handled}
Received(p) == EndOf[p] <= pos
Fits(p) == EndOf[p] - StartOf(p) <= Limit

\* The handlers see packets in the order the pool sent them and none twice, over the
\* login and the main loop, whatever was joined (a job handled late would replace a
\* newer one).  Only a reply whose handler throws may come to it again, from chopQueue.
HandledInOrder ==
  \A i, j \in DOMAIN handled : i < j /\ handled[j] \notin Throwing => handled[i] < handled[j]

\* After each pass the main loop has given every packet to its handler that began after
\* the login, has been received whole and fits the buffer, however the bytes were cut,
\* what the login left half-read in front of it, and after an overflow was cleared.
MainLoopLosesNone ==
  phase = "main" /\ reader = "buffered" /\ ~busy =>
    \A p \in Packets : StartOf(p) > mainAt /\ Received(p) /\ Fits(p)
                         => p \in HandledPackets

\* A packet that comes in two reads is put together again, and none is lost, as long
\* as nothing fails but packets that are cut, and packets is not cleared with lines
\* left in it.
ChoppedPacketsMended ==
  phase = "main" /\ reader = "chopped" /\ ~busy /\ ~spoiled =>
    \A p \in Packets : StartOf(p) > mainAt /\ Received(p) => p \in HandledPackets

\* "Persistent packet buffer for handling split packets": a packet with a method
\* that was received whole has been handled, wherever the pieces were cut.
SplitPacketsHandled ==
  phase # "closed" /\ reader = "buffered" /\ ~busy =>
    \A p \in Packets \ Replies : Received(p) /\ Fits(p) => p \in HandledPackets
=============================================================================
