-------------------------- MODULE LineFramingProofs --------------------------
(***************************************************************************)
(* Packets are handled in order and none is lost, for any stream and       *)
(* however it is cut.                                                      *)
(***************************************************************************)
EXTENDS LineFraming, LeastNumber, SequenceTheorems, TLAPS

\* What has been taken apart ends inside packet q, or in front of its newline.
Inside(q) == StartOf(q) <= from /\ from < EndOf[q]

\* The stream goes on at least to pos, and what was handled or is kept in chopQueue was
\* taken apart before; what is kept has failed.
Behind ==
  /\ \E p \in Packets : pos <= EndOf[p]
  /\ \A i \in DOMAIN handled : EndOf[handled[i]] <= from + 1
  /\ chop # <<>> => /\ ~Succeeds(chop[1])
                    /\ \A i \in DOMAIN chop[1] : chop[1][i] <= from
  /\ phase \in {"subscribe", "authorize"} => mainAt = 0 /\ chop = <<>> /\ ~spoiled
  /\ phase \in {"subscribe", "authorize"} /\ ~busy => from = pos

\* packetBuffer begins with a packet, or with the rest of one that does not count.
BufferWhole ==
  phase = "main" /\ reader = "buffered" =>
    /\ \A q \in Packets : Inside(q) => StartOf(q) <= mainAt \/ ~Fits(q)
    /\ \A p \in Packets : StartOf(p) > mainAt /\ EndOf[p] <= from /\ Fits(p)
                            => p \in HandledPackets
    /\ ~busy => ~Terminated

\* A packet that was cut is the first line of the next read, and until then chopQueue
\* holds its beginning and nothing else, or the packet was handled without its newline.
QueueWhole ==
  phase = "main" /\ reader = "chopped" =>
    /\ ~busy => from = pos
    /\ \A q \in Packets : Inside(q) /\ from < pos => EndOf[q] <= pos
    /\ \A q \in Packets : Inside(q) /\ StartOf(q) <= mainAt => chop = <<>>
    /\ ~spoiled =>
         /\ busy /\ from < pos => ~cleared
         /\ \A p \in Packets : StartOf(p) > mainAt /\ EndOf[p] <= from => p \in HandledPackets
         /\ \A q \in Packets : Inside(q) =>
              \/ StartOf(q) <= mainAt
              \/ EndOf[q] = from + 1 /\ q \in HandledPackets
              \/ /\ EndOf[q] > from + 1 /\ q \notin Throwing
                 /\ chop = <<Piece(StartOf(q) - 1, from)>>
         /\ chop # <<>> /\ chop[1] # <<>> =>
              \E q \in Packets : /\ Inside(q) /\ EndOf[q] > from + 1
                                 /\ chop[1] = Piece(StartOf(q) - 1, from)

IInv == TypeOK /\ HandledInOrder /\ Behind /\ BufferWhole /\ QueueWhole

-----------------------------------------------------------------------------
\* Packets follow each other in the stream.
LEMMA StreamFacts ==
  /\ Len(EndOf) \in Nat
  /\ \A p \in Packets : /\ EndOf[p] \in Nat /\ StartOf(p) \in Nat
                         /\ 1 <= StartOf(p) /\ StartOf(p) < EndOf[p]
  /\ \A p, q \in Packets : p < q => EndOf[p] < StartOf(q)
  /\ \A p, q \in Packets : EndOf[p] = EndOf[q] => p = q
<1>1. Len(EndOf) \in Nat /\ \A p \in Packets : EndOf[p] \in Nat
  BY FramingAssumption DEF Packets
<1>2. ASSUME NEW p \in Packets
      PROVE  StartOf(p) \in Nat /\ 1 <= StartOf(p) /\ StartOf(p) < EndOf[p]
  <2>1. CASE p = 1
    BY <1>1, <2>1, FramingAssumption DEF StartOf
  <2>2. CASE p # 1
    <3>1. p - 1 \in Packets /\ p - 1 < p
      BY <1>1, <2>2 DEF Packets
    <3>2. EndOf[p - 1] + 1 < EndOf[p]
      BY <3>1, FramingAssumption
    <3> QED BY <1>1, <2>2, <3>1, <3>2 DEF StartOf
  <2> QED BY <2>1, <2>2
<1>3. ASSUME NEW p \in Packets, NEW q \in Packets, p < q
      PROVE  EndOf[p] < StartOf(q)
  <2>1. q # 1 /\ q - 1 \in Packets /\ (p = q - 1 \/ p < q - 1)
    BY <1>1, <1>3 DEF Packets
  <2>2. EndOf[p] <= EndOf[q - 1]
    BY <1>1, <2>1, FramingAssumption
  <2> QED BY <1>1, <2>1, <2>2 DEF StartOf
<1>4. ASSUME NEW p \in Packets, NEW q \in Packets, EndOf[p] = EndOf[q]
      PROVE  p = q
  BY <1>1, <1>4, FramingAssumption DEF Packets
<1> QED BY <1>1, <1>2, <1>3, <1>4

\* A piece of the stream is a text of the given length.
LEMMA PieceFacts ==
  ASSUME NEW a \in Nat, NEW b \in Nat, a <= b
  PROVE  /\ Piece(a, b) \in Seq(0..b) /\ Piece(a, b) \in Seq(Nat)
         /\ Len(Piece(a, b)) = b - a
         /\ \A i \in 1..(b - a) : Piece(a, b)[i] = a + i
<1>1. b - a \in Nat
  OBVIOUS
<1>2. Piece(a, b) \in [1..(b - a) -> 0..b]
  <2>1. \A i \in 1..(b - a) : a + i \in 0..b
    OBVIOUS
  <2> QED BY <2>1 DEF Piece
<1>3. Piece(a, b) \in Seq(0..b)
  BY <1>1, <1>2
<1>4. Len(Piece(a, b)) = b - a
  BY <1>1, <1>2, <1>3
<1>5. Piece(a, b) \in Seq(Nat)
  BY <1>3, SeqMonotonic
<1> QED BY <1>3, <1>4, <1>5 DEF Piece

LEMMA PieceEmpty ==
  ASSUME NEW a \in Nat, NEW b \in Nat
  PROVE  Piece(a, b) = <<>> <=> b <= a
<1>1. ASSUME b <= a PROVE Piece(a, b) = <<>>
  <2>1. 1..(b - a) = {}
    BY <1>1
  <2> QED BY <2>1 DEF Piece
<1>2. ASSUME a < b PROVE Piece(a, b) # <<>>
  <2>1. Len(Piece(a, b)) = b - a
    BY <1>2, PieceFacts
  <2> QED BY <1>2, <2>1
<1> QED BY <1>1, <1>2

\* A piece that is not empty says where it was cut.
LEMMA PieceEq ==
  ASSUME NEW a \in Nat, NEW b \in Nat, NEW c \in Nat, NEW d \in Nat,
         Piece(a, b) = Piece(c, d), c < d
  PROVE  a = c /\ b = d
<1>1. a < b
  BY PieceEmpty
<1>2. Len(Piece(a, b)) = b - a /\ Piece(a, b)[1] = a + 1
  <2>1. 1 \in 1..(b - a) /\ a <= b
    BY <1>1
  <2>2. /\ Len(Piece(a, b)) = b - a
        /\ \A i \in 1..(b - a) : Piece(a, b)[i] = a + i
    BY <2>1, PieceFacts
  <2> QED BY <2>1, <2>2
<1>3. Len(Piece(c, d)) = d - c /\ Piece(c, d)[1] = c + 1
  <2>1. 1 \in 1..(d - c) /\ c <= d
    OBVIOUS
  <2>2. /\ Len(Piece(c, d)) = d - c
        /\ \A i \in 1..(d - c) : Piece(c, d)[i] = c + i
    BY <2>1, PieceFacts
  <2> QED BY <2>1, <2>2
<1> QED BY <1>2, <1>3

\* Two pieces that meet make one.
LEMMA PieceConcat ==
  ASSUME NEW a \in Nat, NEW b \in Nat, NEW c \in Nat, a <= b, b <= c
  PROVE  Piece(a, b) \o Piece(b, c) = Piece(a, c)
<1> DEFINE s == Piece(a, b)
           t == Piece(b, c)
           u == Piece(a, c)
<1>1. s \in Seq(Nat) /\ Len(s) = b - a /\ \A i \in 1..(b - a) : s[i] = a + i
  BY PieceFacts
<1>2. t \in Seq(Nat) /\ Len(t) = c - b /\ \A i \in 1..(c - b) : t[i] = b + i
  BY PieceFacts
<1>3. u \in Seq(Nat) /\ Len(u) = c - a /\ \A i \in 1..(c - a) : u[i] = a + i
  BY PieceFacts
<1> HIDE DEF s, t, u
<1>4. s \o t \in Seq(Nat) /\ Len(s \o t) = c - a
  BY <1>1, <1>2, ConcatProperties
<1>5. ASSUME NEW i \in 1..(c - a) PROVE (s \o t)[i] = a + i
  <2>1. (s \o t)[i] = IF i <= Len(s) THEN s[i] ELSE t[i - Len(s)]
    BY <1>1, <1>2, ConcatProperties
  <2>2. CASE i <= b - a
    BY <1>1, <2>1, <2>2
  <2>3. CASE ~(i <= b - a)
    <3>1. i - (b - a) \in 1..(c - b)
      BY <2>3
    <3>2. (s \o t)[i] = t[i - (b - a)]
      BY <1>1, <2>1, <2>3
    <3> QED BY <1>2, <3>1, <3>2
  <2> QED BY <2>2, <2>3
<1>6. s \o t = u
  BY <1>3, <1>4, <1>5, SeqEqual
<1> QED BY <1>6 DEF s, t, u

\* A text that parses is the body of one packet.
LEMMA ParsedBody ==
  /\ \A p \in Packets : Parses(Body(p)) /\ PacketOf(Body(p)) = p
  /\ \A text : Parses(text) => /\ PacketOf(text) \in Packets
                              /\ text = Body(PacketOf(text))
<1>1. ASSUME NEW p \in Packets, NEW q \in Packets, Body(p) = Body(q)
      PROVE  p = q
  <2>1. /\ StartOf(p) - 1 \in Nat /\ EndOf[p] - 1 \in Nat
        /\ StartOf(q) - 1 \in Nat /\ EndOf[q] - 1 \in Nat
        /\ StartOf(q) - 1 < EndOf[q] - 1
    BY StreamFacts
  <2>2. EndOf[p] - 1 = EndOf[q] - 1
    BY <1>1, <2>1, PieceEq DEF Body
  <2> QED BY <2>2, StreamFacts
<1>2. ASSUME NEW text, Parses(text)
      PROVE  PacketOf(text) \in Packets /\ text = Body(PacketOf(text))
  BY <1>2 DEF Parses, PacketOf
<1>3. ASSUME NEW p \in Packets
      PROVE  Parses(Body(p)) /\ PacketOf(Body(p)) = p
  <2>1. Parses(Body(p))
    BY DEF Parses
  <2>2. PacketOf(Body(p)) \in Packets /\ Body(p) = Body(PacketOf(Body(p)))
    BY <1>2, <2>1
  <2> QED BY <1>1, <2>1, <2>2
<1> QED BY <1>2, <1>3

\* The empty text does not parse, and a piece that does is cut where its packet
\* begins and ends.
LEMMA ParsedPiece ==
  /\ ~Parses(<<>>)
  /\ \A a, b \in Nat : Parses(Piece(a, b)) =>
       /\ PacketOf(Piece(a, b)) \in Packets
       /\ a = StartOf(PacketOf(Piece(a, b))) - 1
       /\ b = EndOf[PacketOf(Piece(a, b))] - 1
<1>1. \A p \in Packets : /\ StartOf(p) - 1 \in Nat /\ EndOf[p] - 1 \in Nat
                         /\ StartOf(p) - 1 < EndOf[p] - 1
  BY StreamFacts
<1>2. ~Parses(<<>>)
  BY <1>1, PieceEmpty DEF Parses, Body
<1>3. ASSUME NEW a \in Nat, NEW b \in Nat, Parses(Piece(a, b))
      PROVE  /\ PacketOf(Piece(a, b)) \in Packets
             /\ a = StartOf(PacketOf(Piece(a, b))) - 1
             /\ b = EndOf[PacketOf(Piece(a, b))] - 1
  <2> DEFINE p == PacketOf(Piece(a, b))
  <2>1. p \in Packets /\ Piece(a, b) = Body(p)
    BY <1>3, ParsedBody
  <2> HIDE DEF p
  <2>2. a = StartOf(p) - 1 /\ b = EndOf[p] - 1
    BY <1>1, <2>1, PieceEq DEF Body
  <2> QED BY <2>1, <2>2 DEF p
<1> QED BY <1>2, <1>3

\* The last unit of a text that parses is in front of its packet's newline.
LEMMA LastUnit ==
  ASSUME NEW s \in Seq(Nat), NEW t \in Seq(Nat), t # <<>>, Parses(s \o t)
  PROVE  t[Len(t)] = EndOf[PacketOf(s \o t)] - 1
<1> DEFINE p == PacketOf(s \o t)
           a == StartOf(p) - 1
           b == EndOf[p] - 1
<1>1. p \in Packets /\ s \o t = Piece(a, b)
  BY ParsedBody DEF Body
<1> HIDE DEF p
<1>2. a \in Nat /\ b \in Nat /\ a < b
  BY <1>1, StreamFacts
<1> HIDE DEF a, b
<1>3. Len(s \o t) = b - a /\ (s \o t)[b - a] = b
  <2>1. a <= b /\ b - a \in 1..(b - a) /\ a + (b - a) = b
    BY <1>2
  <2>2. Len(Piece(a, b)) = b - a
    BY <1>2, <2>1, PieceFacts
  <2>3. \A i \in 1..(b - a) : Piece(a, b)[i] = a + i
    BY <1>2, <2>1, PieceFacts
  <2> QED BY <1>1, <2>1, <2>2, <2>3
<1>4. Len(s) \in Nat /\ Len(t) \in Nat \ {0}
  BY LenProperties, EmptySeq
<1>5. /\ Len(s \o t) = Len(s) + Len(t)
      /\ \A i \in 1..(Len(s) + Len(t)) :
           (s \o t)[i] = IF i <= Len(s) THEN s[i] ELSE t[i - Len(s)]
  BY ConcatProperties
<1>6. (s \o t)[Len(s) + Len(t)] = t[Len(t)]
  BY <1>4, <1>5
<1>7. t[Len(t)] = b
  BY <1>3, <1>5, <1>6
<1> QED BY <1>7 DEF b, p

-----------------------------------------------------------------------------
\* The line in front of the first newline.
LEMMA FirstLine ==
  ASSUME TypeOK, NEW p \in Packets, FirstNewline(p)
  PROVE  /\ StartOf(p) <= from + 1 /\ from < EndOf[p] /\ EndOf[p] <= pos
         /\ \A q \in Packets : EndOf[q] <= EndOf[p] => EndOf[q] <= from \/ q = p
<1>1. from \in Nat /\ pos \in Nat
  BY DEF TypeOK
<1>2. from < EndOf[p] /\ EndOf[p] <= pos
      /\ \A q \in Packets : from < EndOf[q] => EndOf[p] <= EndOf[q]
  BY DEF FirstNewline
<1>3. StartOf(p) <= from + 1
  <2>1. CASE p = 1
    BY <1>1, <2>1 DEF StartOf
  <2>2. CASE p # 1
    <3>1. p - 1 \in Packets /\ p - 1 < p
      BY <2>2, StreamFacts DEF Packets
    <3>2. EndOf[p - 1] < StartOf(p) /\ StartOf(p) < EndOf[p] /\ EndOf[p - 1] \in Nat
          /\ EndOf[p] \in Nat /\ StartOf(p) \in Nat
      BY <3>1, StreamFacts
    <3>3. ~(from < EndOf[p - 1])
      BY <1>1, <1>2, <3>1, <3>2
    <3> QED BY <1>1, <2>2, <3>2, <3>3 DEF StartOf
  <2> QED BY <2>1, <2>2
<1>4. ASSUME NEW q \in Packets, EndOf[q] <= EndOf[p]
      PROVE  EndOf[q] <= from \/ q = p
  BY <1>1, <1>2, <1>4, StreamFacts
<1> QED BY <1>2, <1>3, <1>4

\* A unit of the stream belongs to one packet.
LEMMA OnePacket ==
  ASSUME NEW f \in Nat, NEW p \in Packets, NEW q \in Packets,
         StartOf(p) <= f, f <= EndOf[p], StartOf(q) <= f, f <= EndOf[q]
  PROVE  p = q
<1>1. ~(p < q) /\ ~(q < p)
  BY StreamFacts
<1> QED BY <1>1, StreamFacts DEF Packets

LEMMA Containing ==
  ASSUME NEW f \in Nat, NEW r \in Packets, f < EndOf[r]
  PROVE  \E q \in Packets : StartOf(q) <= f + 1 /\ f < EndOf[q]
<1> DEFINE T == {q \in Packets : f < EndOf[q]}
<1>1. T \in SUBSET Nat /\ T # {}
  BY StreamFacts DEF Packets
<1>2. PICK q \in T : \A x \in T : q <= x
  BY <1>1, LeastElement
<1>3. CASE q = 1
  BY <1>2, <1>3 DEF StartOf
<1>4. CASE q # 1
  <2>1. q - 1 \in Packets /\ ~(q <= q - 1)
    BY <1>2, <1>4, StreamFacts DEF Packets
  <2>2. ~(f < EndOf[q - 1])
    BY <1>2, <2>1
  <2> QED BY <1>2, <1>4, <2>1, <2>2, StreamFacts DEF StartOf
<1> QED BY <1>3, <1>4

LEMMA LineRange ==
  ASSUME TypeOK, NEW e \in from..pos, NEW next \in from..pos, GetLine(e, next)
  PROVE  /\ from \in Nat /\ pos \in Nat /\ e \in Nat /\ next \in Nat
         /\ from <= e /\ e <= next /\ next <= e + 1 /\ next <= pos /\ from < next
         /\ Piece(from, e) \in Seq(0..pos) /\ Piece(from, e) \in Seq(0..e)
<1>1. from \in Nat /\ pos \in Nat /\ e \in Nat /\ next \in Nat /\ from <= e /\ e <= pos
  BY DEF TypeOK
<1>2. e <= next /\ next <= e + 1 /\ next <= pos /\ from < next
  <2>1. CASE \E p \in Packets : FirstNewline(p) /\ e = EndOf[p] - 1 /\ next = EndOf[p]
    BY <1>1, <2>1, StreamFacts DEF FirstNewline
  <2>2. CASE from < pos /\ e = pos /\ next = pos
    BY <1>1, <2>2
  <2> QED BY <2>1, <2>2 DEF GetLine
<1>3. Piece(from, e) \in Seq(0..e)
  BY <1>1, PieceFacts
<1>4. 0..e \subseteq 0..pos
  BY <1>1
<1>5. Piece(from, e) \in Seq(0..pos)
  BY <1>3, <1>4, SeqMonotonic
<1> QED BY <1>1, <1>2, <1>3, <1>5

\* The three things that can happen to a line of the other kind: it succeeds, it is
\* kept, or it is joined to what is kept.
Mended(text) == Succeeds(chop[1] \o text)
Spoils(text) == ~CutPacket(text) \/ (cleared' /\ from' # pos)

LineSucceeds(text) ==
  /\ Succeeds(text)
  /\ handled' = Append(handled, PacketOf(text))
  /\ cleared' = cleared /\ chop' = chop /\ spoiled' = spoiled

LineKept(text) ==
  /\ ~Succeeds(text) /\ chop = <<>> /\ chop' = <<text>>
  /\ handled' = handled \o Given(text) \o <<>>
  /\ cleared' = (cleared \/ FALSE) /\ spoiled' = (spoiled \/ Spoils(text))

LineJoined(text) ==
  /\ ~Succeeds(text) /\ chop # <<>>
  /\ chop' = IF Mended(text) THEN <<>> ELSE <<chop[1] \o text>>
  /\ handled' = handled \o Given(text) \o Given(chop[1] \o text)
  /\ cleared' = (cleared \/ TRUE) /\ spoiled' = (spoiled \/ Spoils(text))

LEMMA TakeLineCases ==
  ASSUME NEW text, TakeLine(text)
  PROVE  LineSucceeds(text) \/ LineKept(text) \/ LineJoined(text)
<1>1. CASE Succeeds(text)
  BY <1>1 DEF TakeLine, LineSucceeds, chopped
<1>2. CASE ~Succeeds(text) /\ chop = <<>>
  <2>1. LineKept(text)
    BY <1>2 DEF TakeLine, LineKept, QueueAfter, Spoils
  <2> QED BY <2>1
<1>3. CASE ~Succeeds(text) /\ chop # <<>>
  <2>1. LineJoined(text)
    BY <1>3 DEF TakeLine, LineJoined, QueueAfter, Spoils, Mended
  <2> QED BY <2>1
<1> QED BY <1>1, <1>2, <1>3

\* What a line is, when it is taken: the next one of the stream, or something else.
LEMMA TakenLine ==
  ASSUME TypeOK, NextLine
  PROVE  \E e, next \in from..pos : \E text \in Seq(0..pos) :
           /\ GetLine(e, next) /\ from' = next
           /\ text = Piece(from, e) \/ (cleared /\ text = Garbage)
           /\ TakeLine(text)
<1>1. PICK e \in from..pos, next \in from..pos :
        /\ GetLine(e, next) /\ from' = next
        /\ \E text \in {Piece(from, e)} \cup (IF cleared THEN {Garbage} ELSE {}) :
             TakeLine(text)
  BY DEF NextLine
<1>2. PICK text \in {Piece(from, e)} \cup (IF cleared THEN {Garbage} ELSE {}) :
        TakeLine(text)
  BY <1>1
<1>3. text = Piece(from, e) \/ (cleared /\ text = Garbage)
  BY <1>2
<1>4. Piece(from, e) \in Seq(0..pos)
  BY <1>1, LineRange
<1>5. Garbage \in Seq(0..pos)
  BY DEF Garbage, TypeOK
<1> QED BY <1>1, <1>2, <1>3, <1>4, <1>5

LEMMA GivenPackets ==
  ASSUME NEW text
  PROVE  Given(text) \in Seq(Packets)
BY ParsedBody DEF Given

-----------------------------------------------------------------------------
LEMMA InitInvariant == Init => IInv
<1> SUFFICES ASSUME Init PROVE IInv
  OBVIOUS
<1>1. TypeOK
  <2>1. reader \in Readers /\ phase \in {"subscribe", "authorize", "main", "closed"}
    BY DEF Init
  <2>2. pos \in Nat /\ from \in 0..pos /\ mainAt \in 0..from
    BY DEF Init
  <2>3. busy \in BOOLEAN /\ cleared \in BOOLEAN /\ spoiled \in BOOLEAN
    BY DEF Init
  <2>4. handled \in Seq(Packets) /\ chop \in Seq(Seq(0..pos)) /\ Len(chop) <= 1
    BY EmptySeq DEF Init
  <2> QED BY <2>1, <2>2, <2>3, <2>4 DEF TypeOK
<1>2. HandledInOrder
  BY DEF Init, HandledInOrder
<1>3. Behind
  <2>1. AuthReply \in Packets /\ EndOf[AuthReply] \in Nat
    BY FramingAssumption, StreamFacts
  <2> QED BY <2>1 DEF Init, Behind
<1>4. BufferWhole /\ QueueWhole
  BY DEF Init, BufferWhole, QueueWhole
<1> QED BY <1>1, <1>2, <1>3, <1>4 DEF IInv

LEMMA Grow ==
  ASSUME NEW m \in Nat, NEW n \in Nat, m <= n, NEW s \in Seq(Seq(0..m))
  PROVE  s \in Seq(Seq(0..n))
<1>1. 0..m \subseteq 0..n
  OBVIOUS
<1>2. Seq(0..m) \subseteq Seq(0..n)
  BY <1>1, SeqMonotonic
<1> QED BY <1>2, SeqMonotonic

LEMMA StepType ==
  ASSUME TypeOK, [Next]_vars
  PROVE  TypeOK'
<1> USE DEF TypeOK
<1>1. ASSUME NEW n \in 1..MaxRead, LoginRead(n) \/ Receive(n)
      PROVE  TypeOK'
  <2>1. n \in Nat /\ pos' = pos + n /\ chop' = chop /\ from' = from
    BY <1>1, FramingAssumption DEF LoginRead, Receive, chopped
  <2>2. chop' \in Seq(Seq(0..pos'))
    BY <2>1, Grow
  <2>3. CASE LoginRead(n)
    BY <2>1, <2>2, <2>3 DEF LoginRead, chopped
  <2>4. CASE Receive(n)
    <3>1. phase' = phase /\ reader' = reader /\ handled' = handled /\ mainAt' = mainAt
      BY <2>4 DEF Receive
    <3>2. busy' \in BOOLEAN /\ cleared' \in BOOLEAN /\ spoiled' \in BOOLEAN
      BY <2>4 DEF Receive
    <3> QED BY <2>1, <2>2, <3>1, <3>2
  <2> QED BY <1>1, <2>3, <2>4
<1>2. CASE LoginLine
  <2>1. PICK e \in from..pos, next \in from..pos :
          /\ GetLine(e, next)
          /\ from' \in {next, pos}
          /\ handled' = IF Parses(Piece(from, e)) /\ PacketOf(Piece(from, e)) \notin Replies
                        THEN Append(handled, PacketOf(Piece(from, e))) ELSE handled
    BY <1>2 DEF LoginLine
  <2>2. handled' \in Seq(Packets)
    BY <2>1, ParsedBody
  <2>3. from' \in 0..pos /\ mainAt \in 0..from'
    BY <2>1
  <2> QED BY <1>2, <2>2, <2>3 DEF LoginLine, chopped
<1>3. CASE LoginDone
  BY <1>3 DEF LoginDone, chopped
<1>4. CASE TakePacket
  <2>1. PICK p \in Packets :
          /\ FirstNewline(p) /\ from' = EndOf[p]
          /\ handled' = IF Parses(Piece(from, EndOf[p] - 1))
                        THEN Append(handled, PacketOf(Piece(from, EndOf[p] - 1))) ELSE handled
    BY <1>4 DEF TakePacket
  <2>2. handled' \in Seq(Packets)
    BY <2>1, ParsedBody
  <2>3. from' \in 0..pos /\ mainAt \in 0..from'
    BY <2>1, StreamFacts DEF FirstNewline
  <2> QED BY <1>4, <2>2, <2>3 DEF TakePacket, chopped
<1>5. CASE NextLine
  <2>1. PICK e \in from..pos, next \in from..pos, text \in Seq(0..pos) :
          GetLine(e, next) /\ from' = next /\ TakeLine(text)
    BY <1>5, TakenLine
  <2>2. handled' \in Seq(Packets)
    <3>1. Given(text) \in Seq(Packets) /\ Given(chop[1] \o text) \in Seq(Packets)
      BY GivenPackets
    <3>2. Succeeds(text) => PacketOf(text) \in Packets
      BY ParsedBody DEF Succeeds
    <3>3. CASE LineSucceeds(text)
      BY <3>2, <3>3 DEF LineSucceeds
    <3>4. CASE LineKept(text)
      BY <3>1, <3>4, ConcatProperties, EmptySeq DEF LineKept
    <3>5. CASE LineJoined(text)
      BY <3>1, <3>5, ConcatProperties DEF LineJoined
    <3> QED BY <2>1, <3>3, <3>4, <3>5, TakeLineCases
  <2>3. cleared' \in BOOLEAN /\ spoiled' \in BOOLEAN
    BY <2>1, TakeLineCases DEF LineSucceeds, LineKept, LineJoined
  <2>4. chop' \in Seq(Seq(0..pos)) /\ Len(chop') <= 1
    <3>1. CASE LineSucceeds(text)
      BY <3>1 DEF LineSucceeds
    <3>2. CASE LineKept(text)
      BY <3>2 DEF LineKept
    <3>3. CASE LineJoined(text)
      <4>1. chop[1] \in Seq(0..pos)
        BY <3>3 DEF LineJoined
      <4>2. chop[1] \o text \in Seq(0..pos)
        BY <4>1, ConcatProperties
      <4>3. CASE Mended(text)
        BY <3>3, <4>3, EmptySeq DEF LineJoined
      <4>4. CASE ~Mended(text)
        <5>1. chop' = <<chop[1] \o text>>
          BY <3>3, <4>4 DEF LineJoined
        <5> QED BY <4>2, <5>1
      <4> QED BY <4>3, <4>4
    <3> QED BY <2>1, <3>1, <3>2, <3>3, TakeLineCases
  <2>5. from' \in 0..pos /\ mainAt \in 0..from'
    BY <2>1
  <2> QED BY <1>5, <2>2, <2>3, <2>4, <2>5 DEF NextLine
<1>6. CASE EndOfPass
  <2>1. from' \in 0..pos /\ mainAt \in 0..from'
    BY <1>6 DEF EndOfPass
  <2>2. UNCHANGED <<reader, phase, pos, handled, mainAt, chop>>
    BY <1>6 DEF EndOfPass, chopped
  <2>3. busy' \in BOOLEAN /\ cleared' \in BOOLEAN /\ spoiled' \in BOOLEAN
    BY <1>6 DEF EndOfPass, chopped
  <2> QED BY <2>1, <2>2, <2>3
<1>7. CASE ConnectionLost
  BY <1>7 DEF ConnectionLost, chopped
<1>8. CASE UNCHANGED vars
  BY <1>8 DEF vars, chopped
<1> QED BY <1>1, <1>2, <1>3, <1>4, <1>5, <1>6, <1>7, <1>8 DEF Next

-----------------------------------------------------------------------------
\* Packets handled in order, all of them before unit f + 1.
Ordered(h) == \A i, j \in DOMAIN h : i < j /\ h[j] \notin Throwing => h[i] < h[j]
Below(h, f) == \A i \in DOMAIN h : EndOf[h[i]] <= f + 1

LEMMA AppendInOrder ==
  ASSUME NEW h \in Seq(Packets), NEW p \in Packets, NEW f \in Nat, NEW g \in Nat,
         Ordered(h), Below(h, f), f <= g, EndOf[p] <= g + 1,
         p \in Throwing \/ f + 1 < EndOf[p]
  PROVE  Ordered(Append(h, p)) /\ Below(Append(h, p), g)
<1> DEFINE k == Append(h, p)
<1>1. /\ Len(h) \in Nat /\ DOMAIN h = 1..Len(h) /\ DOMAIN k = 1..(Len(h) + 1)
      /\ \A i \in 1..Len(h) : k[i] = h[i] /\ h[i] \in Packets
      /\ k[Len(h) + 1] = p
  OBVIOUS
<1> HIDE DEF k
<1>2. Below(k, g)
  <2> SUFFICES ASSUME NEW i \in DOMAIN k PROVE EndOf[k[i]] <= g + 1
    BY DEF Below
  <2>1. CASE i = Len(h) + 1
    BY <1>1, <2>1
  <2>2. CASE i \in 1..Len(h)
    <3>1. EndOf[h[i]] <= f + 1 /\ EndOf[h[i]] \in Nat
      BY <1>1, <2>2, StreamFacts DEF Below
    <3> QED BY <1>1, <2>2, <3>1
  <2> QED BY <1>1, <2>1, <2>2
<1>3. Ordered(k)
  <2> SUFFICES ASSUME NEW i \in DOMAIN k, NEW j \in DOMAIN k, i < j, k[j] \notin Throwing
               PROVE  k[i] < k[j]
    BY DEF Ordered
  <2>1. i \in 1..Len(h)
    BY <1>1
  <2>2. CASE j \in 1..Len(h)
    BY <1>1, <2>1, <2>2 DEF Ordered
  <2>3. CASE j = Len(h) + 1
    <3>1. f + 1 < EndOf[p] /\ EndOf[h[i]] <= f + 1
      BY <1>1, <2>1, <2>3 DEF Below
    <3>2. ~(p < h[i]) /\ p # h[i]
      BY <1>1, <2>1, <3>1, StreamFacts
    <3> QED BY <1>1, <2>1, <2>3, <3>2 DEF Packets
  <2> QED BY <1>1, <2>2, <2>3
<1> QED BY <1>2, <1>3 DEF k

\* A line of the stream that parses is the packet behind all that was handled.
LEMMA LineInOrder ==
  ASSUME TypeOK, Ordered(handled), Below(handled, from),
         NEW e \in from..pos, NEW g \in Nat, e <= g, from <= g, Parses(Piece(from, e))
  PROVE  LET h == Append(handled, PacketOf(Piece(from, e)))
         IN  Ordered(h) /\ Below(h, g)
<1> DEFINE p == PacketOf(Piece(from, e))
<1>1. handled \in Seq(Packets) /\ from \in Nat /\ e \in Nat
  BY DEF TypeOK
<1>2. p \in Packets /\ from = StartOf(p) - 1 /\ e = EndOf[p] - 1
  BY <1>1, ParsedPiece
<1> HIDE DEF p
<1>3. EndOf[p] <= g + 1 /\ from + 1 < EndOf[p]
  BY <1>1, <1>2, StreamFacts
<1>4. Ordered(Append(handled, p)) /\ Below(Append(handled, p), g)
  BY <1>1, <1>2, <1>3, AppendInOrder
<1> QED BY <1>4 DEF p

LEMMA GrowBelow ==
  ASSUME NEW h \in Seq(Packets), NEW f \in Nat, NEW g \in Nat, f <= g, Below(h, f)
  PROVE  Below(h, g)
<1> SUFFICES ASSUME NEW i \in DOMAIN h PROVE EndOf[h[i]] <= g + 1
  BY DEF Below
<1>1. EndOf[h[i]] <= f + 1 /\ EndOf[h[i]] \in Nat
  BY StreamFacts DEF Below
<1> QED BY <1>1

LEMMA LastOfPiece ==
  ASSUME NEW a \in Nat, NEW b \in Nat, a < b
  PROVE  Piece(a, b)[Len(Piece(a, b))] = b
<1>1. Len(Piece(a, b)) = b - a /\ \A i \in 1..(b - a) : Piece(a, b)[i] = a + i
  BY PieceFacts
<1>2. b - a \in 1..(b - a)
  OBVIOUS
<1> QED BY <1>1, <1>2

LEMMA GarbageFails ==
  /\ ~Parses(Garbage)
  /\ \A s \in Seq(Nat) : ~Parses(s \o Garbage)
<1>1. Garbage \in Seq(Nat) /\ Garbage # <<>> /\ Garbage[Len(Garbage)] = 0
  BY DEF Garbage
<1> HIDE DEF Garbage
<1>2. ASSUME NEW s \in Seq(Nat), Parses(s \o Garbage) PROVE FALSE
  <2>1. PacketOf(s \o Garbage) \in Packets
    BY <1>2, ParsedBody
  <2>2. 0 = EndOf[PacketOf(s \o Garbage)] - 1
    BY <1>1, <1>2, LastUnit
  <2> QED BY <2>1, <2>2, StreamFacts
<1>3. <<>> \in Seq(Nat) /\ <<>> \o Garbage = Garbage
  BY <1>1, ConcatEmptySeq, EmptySeq
<1> QED BY <1>2, <1>3

LEMMA LineTaken ==
  ASSUME TypeOK, Ordered(handled), Below(handled, from),
         NEW e \in from..pos, NEW next \in from..pos, GetLine(e, next),
         NEW text, text = Piece(from, e) \/ text = Garbage
  PROVE  /\ text \in Seq(Nat) /\ \A i \in DOMAIN text : text[i] <= next
         /\ text # <<>> => text[Len(text)] = e \/ text = Garbage
         /\ Parses(text) => text = Piece(from, e)
         /\ Ordered(handled \o Given(text)) /\ Below(handled \o Given(text), next)
<1>1. /\ from \in Nat /\ pos \in Nat /\ e \in Nat /\ next \in Nat
      /\ from <= e /\ e <= next
      /\ Piece(from, e) \in Seq(0..e) /\ handled \in Seq(Packets)
  BY LineRange DEF TypeOK
<1>2. Garbage \in Seq(0..e)
  BY <1>1 DEF Garbage
<1>3. text \in Seq(0..e)
  BY <1>1, <1>2
<1>4. text \in Seq(Nat)
  BY <1>1, <1>3, SeqMonotonic
<1>5. \A i \in DOMAIN text : text[i] <= next
  <2>1. \A i \in DOMAIN text : text[i] \in 0..e
    BY <1>3
  <2> QED BY <1>1, <2>1
<1>6. text # <<>> => text[Len(text)] = e \/ text = Garbage
  <2> SUFFICES ASSUME text # <<>>, text = Piece(from, e) PROVE text[Len(text)] = e
    OBVIOUS
  <2>1. from < e
    BY <1>1, PieceEmpty
  <2> QED BY <1>1, <2>1, LastOfPiece
<1>7. Parses(text) => text = Piece(from, e)
  BY GarbageFails
<1>8. Ordered(handled \o Given(text)) /\ Below(handled \o Given(text), next)
  <2>1. CASE Parses(text)
    <3>1. Given(text) = <<PacketOf(Piece(from, e))>>
      BY <1>7, <2>1 DEF Given
    <3>2. handled \o Given(text) = Append(handled, PacketOf(Piece(from, e)))
      BY <1>1, <1>7, <2>1, <3>1, ParsedBody
    <3>3. from <= next /\ Parses(Piece(from, e))
      BY <1>1, <1>7, <2>1
    <3> QED BY <1>1, <3>2, <3>3, LineInOrder
  <2>2. CASE ~Parses(text)
    <3>1. handled \o Given(text) = handled
      BY <1>1, <2>2, ConcatEmptySeq DEF Given
    <3>2. from <= next
      BY <1>1
    <3>3. Below(handled, next)
      BY <1>1, <3>2, GrowBelow
    <3> QED BY <3>1, <3>3
  <2> QED BY <2>1, <2>2
<1> QED BY <1>4, <1>5, <1>6, <1>7, <1>8

LEMMA OrderNextLine ==
  ASSUME TypeOK, HandledInOrder, Behind, NextLine
  PROVE  Ordered(handled') /\ Below(handled', from')
         /\ (chop' # <<>> => /\ ~Succeeds(chop'[1])
                             /\ \A i \in DOMAIN chop'[1] : chop'[1][i] <= from')
<1>1. PICK e \in from..pos, next \in from..pos, text \in Seq(0..pos) :
        /\ GetLine(e, next) /\ from' = next
        /\ text = Piece(from, e) \/ (cleared /\ text = Garbage)
        /\ TakeLine(text)
  BY TakenLine
<1>2. Ordered(handled) /\ Below(handled, from)
  BY DEF HandledInOrder, Behind, Ordered, Below
<1> DEFINE h == handled \o Given(text)
           J == chop[1] \o text
<1>3. /\ text \in Seq(Nat) /\ \A i \in DOMAIN text : text[i] <= next
      /\ text # <<>> => text[Len(text)] = e \/ text = Garbage
      /\ Parses(text) => text = Piece(from, e)
      /\ Ordered(h) /\ Below(h, next)
  BY <1>1, <1>2, LineTaken
<1>4. /\ from \in Nat /\ pos \in Nat /\ e \in Nat /\ next \in Nat
      /\ from <= e /\ e <= next /\ from <= next
      /\ handled \in Seq(Packets) /\ Given(text) \in Seq(Packets) /\ h \in Seq(Packets)
  BY <1>1, LineRange, GivenPackets, ConcatProperties DEF TypeOK
<1>5. CASE LineSucceeds(text)
  <2>1. handled' = h /\ chop' = chop
    BY <1>4, <1>5, ParsedBody DEF LineSucceeds, Succeeds, Given
  <2>2. chop # <<>> => ~Succeeds(chop[1]) /\ \A i \in DOMAIN chop[1] : chop[1][i] <= from
    BY DEF Behind
  <2>3. chop # <<>> => chop[1] \in Seq(0..pos)
    BY DEF TypeOK
  <2>4. ASSUME chop # <<>>, NEW i \in DOMAIN chop[1] PROVE chop[1][i] <= next
    <3>1. chop[1][i] <= from
      BY <2>2, <2>4
    <3>2. i \in 1..Len(chop[1]) /\ chop[1] \in Seq(0..pos)
      BY <2>3, <2>4, LenProperties
    <3>3. chop[1][i] \in 0..pos
      BY <3>2, ElementOfSeq
    <3> QED BY <1>4, <3>1, <3>3
  <2> QED BY <1>1, <1>3, <2>1, <2>2, <2>4
<1>6. CASE LineKept(text)
  <2>1. handled' = h
    BY <1>4, <1>6, ConcatEmptySeq DEF LineKept
  <2>2. chop' = <<text>> /\ ~Succeeds(text)
    BY <1>6 DEF LineKept
  <2> QED BY <1>1, <1>3, <2>1, <2>2
<1>7. CASE LineJoined(text)
  <2>1. /\ ~Succeeds(text) /\ chop # <<>>
        /\ chop' = IF Succeeds(J) THEN <<>> ELSE <<J>>
        /\ handled' = h \o Given(J)
    BY <1>7 DEF LineJoined, Mended
  <2>2. /\ ~Succeeds(chop[1])
        /\ \A i \in DOMAIN chop[1] : chop[1][i] <= from
    BY <2>1 DEF Behind
  <2>3. chop[1] \in Seq(0..pos) /\ chop[1] \in Seq(Nat)
    <3>1. chop[1] \in Seq(0..pos)
      BY <2>1 DEF TypeOK
    <3> QED BY <1>4, <3>1, SeqMonotonic
  <2>4. J \in Seq(Nat) /\ \A i \in DOMAIN J : J[i] <= next
    <3>1. /\ J \in Seq(Nat) /\ Len(J) = Len(chop[1]) + Len(text)
          /\ \A i \in 1..(Len(chop[1]) + Len(text)) :
               J[i] = IF i <= Len(chop[1]) THEN chop[1][i] ELSE text[i - Len(chop[1])]
      BY <1>3, <2>3, ConcatProperties
    <3> HIDE DEF J
    <3>2. ASSUME NEW i \in DOMAIN J PROVE J[i] <= next
      <4>1. /\ i \in 1..(Len(chop[1]) + Len(text))
            /\ Len(chop[1]) \in Nat /\ DOMAIN chop[1] = 1..Len(chop[1])
            /\ Len(text) \in Nat /\ DOMAIN text = 1..Len(text)
        <5>1. Len(chop[1]) \in Nat /\ DOMAIN chop[1] = 1..Len(chop[1])
          BY <2>3, LenProperties
        <5>2. Len(text) \in Nat /\ DOMAIN text = 1..Len(text)
          BY <1>3, LenProperties
        <5>3. DOMAIN J = 1..Len(J)
          BY <3>1, LenProperties
        <5> QED BY <3>1, <5>1, <5>2, <5>3
      <4>2. CASE i <= Len(chop[1])
        <5>1. i \in DOMAIN chop[1] /\ J[i] = chop[1][i]
          BY <3>1, <4>1, <4>2
        <5>2. chop[1][i] \in Nat
          BY <2>3, <4>1, <5>1, ElementOfSeq
        <5> QED BY <1>4, <2>2, <5>1, <5>2
      <4>3. CASE ~(i <= Len(chop[1]))
        <5>1. i - Len(chop[1]) \in 1..Len(text)
          BY <4>1, <4>3
        <5>2. J[i] = text[i - Len(chop[1])]
          BY <3>1, <4>1, <4>3
        <5> QED BY <1>3, <4>1, <5>1, <5>2
      <4> QED BY <4>2, <4>3
    <3> QED BY <3>1, <3>2
  <2>5. Ordered(h \o Given(J)) /\ Below(h \o Given(J), next)
    <3>1. CASE ~Parses(J)
      <4>1. h \o Given(J) = h
        BY <1>4, <3>1, ConcatEmptySeq DEF Given
      <4> QED BY <1>3, <4>1
    <3>2. CASE Parses(J)
      <4> DEFINE P == PacketOf(J)
      <4>1. P \in Packets /\ h \o Given(J) = Append(h, P)
        BY <1>4, <3>2, ParsedBody DEF Given
      <4>2. CASE text = <<>>
        <5>1. J = chop[1]
          BY <2>3, <4>2, ConcatEmptySeq
        <5>2. P \in Throwing
          BY <2>2, <3>2, <5>1 DEF Succeeds
        <5>3. J # <<>> /\ <<>> \o J = J /\ <<>> \in Seq(Nat)
          BY <2>3, <3>2, <5>1, ParsedPiece, ConcatEmptySeq, EmptySeq
        <5>4. J[Len(J)] = EndOf[P] - 1
          BY <2>4, <3>2, <5>3, LastUnit
        <5>5. Len(J) \in DOMAIN J
          BY <2>4, <5>3
        <5>6. J[Len(J)] <= next
          BY <2>4, <5>5
        <5> HIDE DEF J, P, h
        <5>7. EndOf[P] <= next + 1
          BY <1>4, <4>1, <5>4, <5>6, StreamFacts
        <5>8. Ordered(Append(h, P)) /\ Below(Append(h, P), next)
          BY <1>3, <1>4, <4>1, <5>2, <5>7, AppendInOrder
        <5> QED BY <4>1, <5>8
      <4>3. CASE text # <<>>
        <5>1. text[Len(text)] = EndOf[P] - 1
          BY <1>3, <2>3, <3>2, <4>3, LastUnit
        <5>2. text # Garbage
          BY <2>3, <3>2, GarbageFails
        <5>3. text = Piece(from, e) /\ EndOf[P] = e + 1
          <6>1. text[Len(text)] = e /\ text = Piece(from, e)
            BY <1>1, <1>3, <4>3, <5>2
          <6>2. EndOf[P] \in Nat
            BY <4>1, StreamFacts
          <6> QED BY <1>4, <5>1, <6>1, <6>2
        <5>4. from < e
          BY <1>4, <4>3, <5>3, PieceEmpty
        <5>5. CASE Parses(text)
          <6>1. PacketOf(text) \in Packets /\ e = EndOf[PacketOf(text)] - 1
            BY <1>4, <5>3, <5>5, ParsedPiece
          <6>2. P = PacketOf(text)
            BY <1>4, <4>1, <5>3, <6>1, StreamFacts
          <6>3. P \in Throwing
            BY <2>1, <5>5, <6>2 DEF Succeeds
          <6> HIDE DEF J, P, h
          <6>4. EndOf[P] <= next + 1
            BY <1>4, <5>3
          <6>5. Ordered(Append(h, P)) /\ Below(Append(h, P), next)
            BY <1>3, <1>4, <4>1, <6>3, <6>4, AppendInOrder
          <6> QED BY <4>1, <6>5
        <5>6. CASE ~Parses(text)
          <6>1. h = handled
            BY <1>4, <5>6, ConcatEmptySeq DEF Given
          <6> HIDE DEF J, P, h
          <6>2. EndOf[P] <= next + 1 /\ from + 1 < EndOf[P]
            BY <1>4, <5>3, <5>4
          <6>3. Ordered(Append(handled, P)) /\ Below(Append(handled, P), next)
            BY <1>2, <1>4, <4>1, <6>2, AppendInOrder
          <6> QED BY <4>1, <6>1, <6>3
        <5> QED BY <5>5, <5>6
      <4> QED BY <4>2, <4>3
    <3> QED BY <3>1, <3>2
  <2>6. chop' # <<>> => ~Succeeds(chop'[1]) /\ chop'[1] = J
    BY <2>1
  <2> HIDE DEF J, h
  <2>7. Ordered(handled') /\ Below(handled', from')
    BY <1>1, <2>1, <2>5
  <2> QED BY <1>1, <2>4, <2>6, <2>7
<1> QED BY <1>1, <1>5, <1>6, <1>7, TakeLineCases

\* What Behind says of the state, named for the steps.
KeptFailed(c, f) ==
  c # <<>> => ~Succeeds(c[1]) /\ \A i \in DOMAIN c[1] : c[1][i] <= f

LEMMA StepOrder ==
  ASSUME TypeOK, HandledInOrder, Behind, [Next]_vars
  PROVE  HandledInOrder' /\ Behind'
<1> DEFINE Login == phase \in {"subscribe", "authorize"}
           Clean == /\ Login => mainAt = 0 /\ chop = <<>> /\ ~spoiled
                    /\ Login /\ ~busy => from = pos
           Covered == \E p \in Packets : pos <= EndOf[p]
<1>1. /\ from \in Nat /\ pos \in Nat /\ from <= pos /\ handled \in Seq(Packets)
      /\ Covered
      /\ Ordered(handled) /\ Below(handled, from)
      /\ KeptFailed(chop, from)
      /\ Clean
  BY DEF TypeOK, HandledInOrder, Behind, Ordered, Below, KeptFailed
<1>2. SUFFICES /\ Ordered(handled') /\ Below(handled', from')
               /\ Covered' /\ KeptFailed(chop', from') /\ Clean'
  BY DEF HandledInOrder, Behind, Ordered, Below, KeptFailed
<1>3. ASSUME NEW n \in 1..MaxRead, LoginRead(n) \/ Receive(n)
      PROVE  /\ Ordered(handled') /\ Below(handled', from')
             /\ Covered' /\ KeptFailed(chop', from') /\ Clean'
  <2>1. /\ handled' = handled /\ from' = from /\ chop' = chop /\ phase' = phase
        /\ mainAt' = mainAt /\ spoiled' = spoiled /\ busy' /\ pos' = pos + n
        /\ ReadUntil(n)
    BY <1>3 DEF LoginRead, Receive, chopped
  <2>2. Covered'
    BY <2>1 DEF ReadUntil
  <2> QED BY <1>1, <2>1, <2>2
<1>4. CASE LoginLine
  <2>1. PICK e \in from..pos, next \in from..pos :
          /\ GetLine(e, next)
          /\ from' = IF Parses(Piece(from, e)) \/ (Piece(from, e) = <<>> /\ reader = "buffered")
                     THEN next ELSE pos
          /\ handled' = IF Parses(Piece(from, e)) /\ PacketOf(Piece(from, e)) \notin Replies
                        THEN Append(handled, PacketOf(Piece(from, e))) ELSE handled
    BY <1>4 DEF LoginLine
  <2>2. /\ phase' = phase /\ pos' = pos /\ busy' = busy /\ mainAt' = mainAt /\ busy
        /\ chop' = chop /\ spoiled' = spoiled /\ Login
    BY <1>4 DEF LoginLine, chopped
  <2>3. e \in Nat /\ next \in Nat /\ e <= next /\ from <= next /\ next <= pos
    BY <2>1, LineRange
  <2>4. Ordered(handled') /\ Below(handled', from')
    <3>1. CASE handled' = handled
      <4>1. from' \in Nat /\ from <= from'
        BY <1>1, <2>1, <2>3
      <4> QED BY <1>1, <3>1, <4>1, GrowBelow
    <3>2. CASE handled' # handled
      <4>1. /\ Parses(Piece(from, e)) /\ from' = next
            /\ handled' = Append(handled, PacketOf(Piece(from, e)))
        BY <2>1, <3>2
      <4> QED BY <1>1, <2>1, <2>3, <4>1, LineInOrder
    <3> QED BY <3>1, <3>2
  <2>5. Covered' /\ KeptFailed(chop', from') /\ Clean'
    BY <1>1, <2>2 DEF KeptFailed
  <2> QED BY <2>4, <2>5
<1>5. CASE LoginDone
  <2>1. handled' = handled /\ from' = from /\ chop' = chop /\ pos' = pos /\ from = pos
        /\ spoiled' = spoiled
    BY <1>5 DEF LoginDone, chopped
  <2>2. Clean'
    <3>1. CASE phase = "subscribe" /\ phase' = "authorize" /\ mainAt' = mainAt
      BY <1>1, <2>1, <3>1
    <3>2. CASE phase' = "main"
      BY <3>2
    <3> QED BY <1>5, <3>1, <3>2 DEF LoginDone
  <2> QED BY <1>1, <2>1, <2>2
<1>6. CASE TakePacket
  <2>1. PICK p \in Packets :
          /\ FirstNewline(p) /\ from' = EndOf[p]
          /\ handled' = IF Parses(Piece(from, EndOf[p] - 1))
                        THEN Append(handled, PacketOf(Piece(from, EndOf[p] - 1))) ELSE handled
    BY <1>6 DEF TakePacket
  <2>2. phase' = "main" /\ pos' = pos /\ chop' = chop
    BY <1>6 DEF TakePacket, chopped
  <2>3. from < EndOf[p] /\ EndOf[p] <= pos /\ EndOf[p] \in Nat
    BY <2>1, StreamFacts DEF FirstNewline
  <2>4. Ordered(handled') /\ Below(handled', from')
    <3>1. CASE ~Parses(Piece(from, EndOf[p] - 1))
      BY <1>1, <2>1, <2>3, <3>1, GrowBelow
    <3>2. CASE Parses(Piece(from, EndOf[p] - 1))
      <4>1. EndOf[p] - 1 \in from..pos /\ EndOf[p] - 1 <= EndOf[p] /\ from <= EndOf[p]
        BY <1>1, <2>3
      <4> QED BY <1>1, <2>1, <2>3, <3>2, <4>1, LineInOrder
    <3> QED BY <3>1, <3>2
  <2>5. KeptFailed(chop', from')
    <3> SUFFICES ASSUME chop # <<>>, NEW i \in DOMAIN chop[1] PROVE chop[1][i] <= from'
      BY <1>1, <2>2 DEF KeptFailed
    <3>1. chop[1] \in Seq(0..pos)
      BY DEF TypeOK
    <3>2. chop[1][i] \in 0..pos
      BY <3>1, LenProperties, ElementOfSeq
    <3>3. chop[1][i] <= from
      BY <1>1 DEF KeptFailed
    <3> QED BY <1>1, <2>1, <2>3, <3>2, <3>3
  <2>6. Covered' /\ Clean'
    BY <1>1, <2>2
  <2> QED BY <2>4, <2>5, <2>6
<1>7. CASE NextLine
  <2>1. phase' = "main" /\ pos' = pos
    BY <1>7 DEF NextLine
  <2>2. Covered' /\ Clean'
    BY <1>1, <2>1
  <2>3. Ordered(handled') /\ Below(handled', from') /\ KeptFailed(chop', from')
    BY <1>7, OrderNextLine DEF KeptFailed
  <2> QED BY <2>2, <2>3
<1>8. CASE EndOfPass
  <2>1. phase' = "main" /\ pos' = pos /\ chop' = chop /\ handled' = handled
        /\ from' \in {from, pos}
    BY <1>8 DEF EndOfPass, chopped
  <2>2. Covered' /\ Clean'
    BY <1>1, <2>1
  <2>3. Below(handled', from')
    BY <1>1, <2>1, GrowBelow
  <2>4. KeptFailed(chop', from')
    <3> SUFFICES ASSUME chop # <<>>, NEW i \in DOMAIN chop[1] PROVE chop[1][i] <= from'
      BY <1>1, <2>1 DEF KeptFailed
    <3>1. chop[1] \in Seq(0..pos)
      BY DEF TypeOK
    <3>2. chop[1][i] \in 0..pos
      BY <3>1, LenProperties, ElementOfSeq
    <3>3. chop[1][i] <= from
      BY <1>1 DEF KeptFailed
    <3> QED BY <1>1, <2>1, <3>2, <3>3
  <2> QED BY <1>1, <2>1, <2>2, <2>3, <2>4
<1>9. CASE ConnectionLost
  <2>1. phase' = "closed" /\ UNCHANGED <<pos, from, handled, chop>>
    BY <1>9 DEF ConnectionLost, chopped
  <2> QED BY <1>1, <2>1
<1>10. CASE UNCHANGED vars
  <2>1. UNCHANGED <<pos, from, handled, chop, phase, busy, mainAt, spoiled>>
    BY <1>10 DEF vars, chopped
  <2> QED BY <1>1, <2>1
<1> QED BY <1>3, <1>4, <1>5, <1>6, <1>7, <1>8, <1>9, <1>10 DEF Next

-----------------------------------------------------------------------------
\* Nothing of the packet whose newline was taken is left.
LEMMA NotInside ==
  ASSUME NEW p \in Packets, NEW q \in Packets, StartOf(q) <= EndOf[p], EndOf[p] < EndOf[q]
  PROVE  FALSE
<1>1. p \in Nat /\ q \in Nat
  BY DEF Packets
<1>2. CASE p < q
  BY <1>2, StreamFacts
<1>3. CASE q < p
  BY <1>3, StreamFacts
<1>4. CASE p = q
  BY <1>4, StreamFacts
<1> QED BY <1>1, <1>2, <1>3, <1>4

LEMMA BufferTakePacket ==
  ASSUME TypeOK, BufferWhole, TakePacket
  PROVE  BufferWhole'
<1>1. PICK p \in Packets :
        /\ FirstNewline(p) /\ from' = EndOf[p]
        /\ handled' = IF Parses(Piece(from, EndOf[p] - 1))
                      THEN Append(handled, PacketOf(Piece(from, EndOf[p] - 1))) ELSE handled
  BY DEF TakePacket
<1>2. /\ phase = "main" /\ reader = "buffered" /\ busy /\ mainAt' = mainAt /\ busy' = busy
      /\ handled \in Seq(Packets) /\ from \in Nat /\ mainAt \in Nat
  BY DEF TakePacket, TypeOK
<1>3. /\ StartOf(p) <= from + 1 /\ from < EndOf[p]
      /\ \A q \in Packets : EndOf[q] <= EndOf[p] => EndOf[q] <= from \/ q = p
  BY <1>1, FirstLine
<1>4. /\ \A q \in Packets : Inside(q) => StartOf(q) <= mainAt \/ ~Fits(q)
      /\ \A q \in Packets : StartOf(q) > mainAt /\ EndOf[q] <= from /\ Fits(q)
                              => q \in HandledPackets
  BY <1>2 DEF BufferWhole
<1>5. ASSUME NEW q \in Packets, StartOf(q) <= from', from' < EndOf[q] PROVE FALSE
  BY <1>1, <1>5, NotInside
<1>6. ASSUME NEW q \in HandledPackets PROVE q \in HandledPackets'
  <2>1. PICK i \in DOMAIN handled : handled[i] = q
    BY DEF HandledPackets
  <2>2. i \in DOMAIN handled' /\ handled'[i] = q
    <3>1. CASE handled' = handled
      BY <2>1, <3>1
    <3>2. CASE handled' # handled
      <4>1. PICK x : handled' = Append(handled, x)
        BY <1>1, <3>2
      <4>2. Len(handled) \in Nat /\ i \in 1..Len(handled)
        BY <1>2, <2>1, LenProperties
      <4> QED BY <1>2, <2>1, <4>1, <4>2
    <3> QED BY <3>1, <3>2
  <2> QED BY <2>2 DEF HandledPackets
<1>7. ASSUME NEW q \in Packets, StartOf(q) > mainAt, EndOf[q] <= from', Fits(q)
      PROVE  q \in HandledPackets'
  <2>1. CASE EndOf[q] <= from
    BY <1>4, <1>6, <1>7, <2>1
  <2>2. CASE q = p
    <3>1. StartOf(p) = from + 1
      BY <1>2, <1>3, <1>4, <1>7, <2>2, StreamFacts DEF Inside
    <3>2. Piece(from, EndOf[p] - 1) = Body(p)
      BY <1>2, <3>1 DEF Body
    <3>3. handled' = Append(handled, p)
      BY <1>1, <3>2, ParsedBody
    <3>4. Len(handled) + 1 \in DOMAIN handled' /\ handled'[Len(handled) + 1] = p
      BY <1>2, <3>3
    <3> QED BY <2>2, <3>4 DEF HandledPackets
  <2> QED BY <1>1, <1>3, <1>7, <2>1, <2>2
<1>8. BufferWhole'
  BY <1>2, <1>5, <1>7 DEF BufferWhole, Inside, Fits, StartOf, Packets
<1> QED BY <1>8

LEMMA BufferEndOfPass ==
  ASSUME TypeOK, BufferWhole, EndOfPass
  PROVE  BufferWhole'
<1> SUFFICES ASSUME reader = "buffered" PROVE BufferWhole'
  BY DEF BufferWhole, EndOfPass
<1>1. /\ phase = "main" /\ busy /\ ~Terminated /\ phase' = "main"
      /\ from' = (IF pos - from > Limit THEN pos ELSE from)
      /\ pos' = pos /\ handled' = handled /\ mainAt' = mainAt
      /\ from \in Nat /\ pos \in Nat /\ from <= pos /\ mainAt \in Nat /\ mainAt <= from
      /\ Limit \in Nat
  BY FramingAssumption DEF EndOfPass, TypeOK
<1>2. /\ \A q \in Packets : Inside(q) => StartOf(q) <= mainAt \/ ~Fits(q)
      /\ \A q \in Packets : StartOf(q) > mainAt /\ EndOf[q] <= from /\ Fits(q)
                              => q \in HandledPackets
  BY <1>1 DEF BufferWhole
<1>3. \A q \in Packets : ~(from < EndOf[q] /\ EndOf[q] <= pos)
  BY <1>1 DEF Terminated
<1>4. ASSUME NEW q \in Packets, StartOf(q) <= from', from' < EndOf[q]
      PROVE  StartOf(q) <= mainAt \/ ~Fits(q)
  <2>1. CASE StartOf(q) <= from
    BY <1>1, <1>2, <1>4, <2>1, StreamFacts DEF Inside
  <2>2. CASE from < StartOf(q)
    <3>1. from' = pos /\ pos - from > Limit
      BY <1>1, <1>4, <2>2, StreamFacts
    <3>2. StartOf(q) = from + 1
      <4>1. CASE q = 1
        BY <1>1, <2>2, <4>1 DEF StartOf
      <4>2. CASE q # 1
        <5>1. q - 1 \in Packets /\ StartOf(q) = EndOf[q - 1] + 1 /\ EndOf[q - 1] \in Nat
          BY <4>2, StreamFacts DEF Packets, StartOf
        <5>2. ~(from < EndOf[q - 1] /\ EndOf[q - 1] <= pos)
          BY <1>3, <5>1
        <5> QED BY <1>1, <1>4, <2>2, <3>1, <5>1, <5>2
      <4> QED BY <4>1, <4>2
    <3> QED BY <1>1, <1>4, <3>1, <3>2, StreamFacts DEF Fits
  <2> QED BY <1>1, <2>1, <2>2, StreamFacts
<1>5. ASSUME NEW q \in Packets, StartOf(q) > mainAt, EndOf[q] <= from', Fits(q)
      PROVE  q \in HandledPackets'
  <2>1. EndOf[q] <= from
    BY <1>1, <1>3, <1>5, StreamFacts
  <2> QED BY <1>1, <1>2, <1>5, <2>1 DEF HandledPackets
<1>6. ~Terminated'
  <2> SUFFICES ASSUME NEW q \in Packets, from' < EndOf[q], EndOf[q] <= pos PROVE FALSE
    BY <1>1 DEF Terminated, Packets
  <2> QED BY <1>1, <1>3, StreamFacts
<1>7. BufferWhole'
  BY <1>1, <1>4, <1>5, <1>6 DEF BufferWhole, Inside, Fits, StartOf, Packets
<1> QED BY <1>7

LEMMA StepBuffer ==
  ASSUME TypeOK, Behind, BufferWhole, [Next]_vars
  PROVE  BufferWhole'
<1>1. ASSUME NEW n \in 1..MaxRead, LoginRead(n) PROVE BufferWhole'
  BY <1>1 DEF LoginRead, BufferWhole
<1>2. ASSUME NEW n \in 1..MaxRead, Receive(n) PROVE BufferWhole'
  <2>1. phase = "main" /\ reader' = reader /\ from' = from /\ handled' = handled
        /\ mainAt' = mainAt /\ busy'
    BY <1>2 DEF Receive
  <2> QED BY <2>1 DEF BufferWhole, Inside, Fits, HandledPackets, StartOf, Packets
<1>3. CASE LoginLine
  BY <1>3 DEF LoginLine, BufferWhole
<1>4. CASE LoginDone
  <2>1. CASE phase' # "main"
    BY <2>1 DEF BufferWhole
  <2>2. CASE phase' = "main"
    <3>1. /\ from' = pos /\ mainAt' = pos /\ pos' = pos /\ pos \in Nat
      BY <1>4, <2>2 DEF LoginDone, TypeOK
    <3>2. \A q \in Packets : /\ StartOf(q) \in Nat /\ EndOf[q] \in Nat
                             /\ StartOf(q) < EndOf[q]
      BY StreamFacts
    <3>3. ~Terminated'
      BY <3>1, <3>2 DEF Terminated, Packets
    <3> QED BY <3>1, <3>2, <3>3 DEF BufferWhole, Inside, Fits, StartOf, Packets
  <2> QED BY <2>1, <2>2
<1>5. CASE TakePacket
  BY <1>5, BufferTakePacket
<1>6. CASE NextLine
  BY <1>6 DEF NextLine, BufferWhole
<1>7. CASE EndOfPass
  BY <1>7, BufferEndOfPass
<1>8. CASE ConnectionLost
  BY <1>8 DEF ConnectionLost, BufferWhole
<1>9. CASE UNCHANGED vars
  BY <1>9 DEF vars, chopped, BufferWhole, Inside, Fits, HandledPackets, Terminated, StartOf, Packets
<1> QED BY <1>1, <1>2, <1>3, <1>4, <1>5, <1>6, <1>7, <1>8, <1>9 DEF Next

-----------------------------------------------------------------------------
LEMMA GivenHandled ==
  ASSUME TypeOK, NEW text, TakeLine(text)
  PROVE  /\ \A q \in HandledPackets : q \in HandledPackets'
         /\ Parses(text) => PacketOf(text) \in HandledPackets'
         /\ LineJoined(text) /\ Parses(chop[1] \o text) =>
              PacketOf(chop[1] \o text) \in HandledPackets'
<1>1. handled \in Seq(Packets) /\ Given(text) \in Seq(Packets)
      /\ Given(chop[1] \o text) \in Seq(Packets)
  BY GivenPackets DEF TypeOK
<1>2. PICK t \in Seq(Packets) :
        /\ handled' = handled \o t
        /\ Parses(text) => PacketOf(text) \in {t[i] : i \in 1..Len(t)}
        /\ LineJoined(text) /\ Parses(chop[1] \o text) =>
             PacketOf(chop[1] \o text) \in {t[i] : i \in 1..Len(t)}
  <2>1. CASE LineSucceeds(text)
    <3> DEFINE t == <<PacketOf(text)>>
    <3> PacketOf(text) \in Packets
      BY <2>1, ParsedBody DEF LineSucceeds, Succeeds
    <3>0. handled' = Append(handled, PacketOf(text))
      BY <2>1 DEF LineSucceeds
    <3>1. t \in Seq(Packets) /\ handled' = handled \o t /\ Len(t) = 1 /\ t[1] = PacketOf(text)
      BY <1>1, <3>0
    <3>2. ~LineJoined(text)
      BY <2>1 DEF LineSucceeds, LineJoined
    <3>3. PacketOf(text) \in {t[i] : i \in 1..Len(t)}
      BY <3>1
    <3> HIDE DEF t
    <3> QED BY <3>1, <3>2, <3>3
  <2>2. CASE LineKept(text)
    <3> DEFINE t == Given(text)
    <3>1. handled' = handled \o t
      BY <1>1, <2>2, ConcatEmptySeq, ConcatProperties DEF LineKept
    <3>2. ~LineJoined(text)
      BY <2>2 DEF LineKept, LineJoined
    <3>3. Parses(text) => Len(t) = 1 /\ t[1] = PacketOf(text)
      BY DEF Given
    <3>4. t \in Seq(Packets)
      BY <1>1
    <3> HIDE DEF t
    <3>5. Parses(text) => PacketOf(text) \in {t[i] : i \in 1..Len(t)}
      BY <3>3
    <3> QED BY <3>1, <3>2, <3>4, <3>5
  <2>3. CASE LineJoined(text)
    <3> DEFINE a == Given(text)
               b == Given(chop[1] \o text)
               t == a \o b
    <3>1. a \in Seq(Packets) /\ b \in Seq(Packets) /\ t \in Seq(Packets)
      BY <1>1, ConcatProperties
    <3>2. handled' = handled \o t
      BY <1>1, <2>3, ConcatAssociative DEF LineJoined
    <3>3. Parses(text) => Len(a) = 1 /\ a[1] = PacketOf(text)
      BY DEF Given
    <3>4. Parses(chop[1] \o text) => Len(b) = 1 /\ b[1] = PacketOf(chop[1] \o text)
      BY DEF Given
    <3>5. /\ Len(t) = Len(a) + Len(b) /\ Len(a) \in Nat /\ Len(b) \in Nat
          /\ \A i \in 1..(Len(a) + Len(b)) :
               t[i] = IF i <= Len(a) THEN a[i] ELSE b[i - Len(a)]
      BY <3>1, ConcatProperties, LenProperties
    <3> HIDE DEF a, b, t
    <3>6. ASSUME Parses(text) PROVE PacketOf(text) \in {t[i] : i \in 1..Len(t)}
      <4>1. Len(a) = 1 /\ a[1] = PacketOf(text)
        BY <3>3, <3>6
      <4>2. 1 \in 1..(Len(a) + Len(b)) /\ 1 <= Len(a)
        BY <3>5, <4>1
      <4>3. t[1] = a[1]
        BY <3>5, <4>2
      <4> QED BY <3>5, <4>1, <4>2, <4>3
    <3>7. ASSUME Parses(chop[1] \o text)
          PROVE  PacketOf(chop[1] \o text) \in {t[i] : i \in 1..Len(t)}
      <4>1. Len(b) = 1 /\ b[1] = PacketOf(chop[1] \o text)
        BY <3>4, <3>7
      <4>2. Len(a) + 1 \in 1..(Len(a) + Len(b)) /\ ~(Len(a) + 1 <= Len(a))
            /\ (Len(a) + 1) - Len(a) = 1
        BY <3>5, <4>1
      <4>3. t[Len(a) + 1] = b[1]
        BY <3>5, <4>2
      <4> QED BY <3>5, <4>1, <4>2, <4>3
    <3> QED BY <3>1, <3>2, <3>6, <3>7
  <2> QED BY <2>1, <2>2, <2>3, TakeLineCases
<1>3. /\ Len(handled \o t) = Len(handled) + Len(t)
      /\ \A i \in 1..(Len(handled) + Len(t)) :
           (handled \o t)[i] = IF i <= Len(handled) THEN handled[i] ELSE t[i - Len(handled)]
      /\ handled \o t \in Seq(Packets)
  BY <1>1, ConcatProperties
<1>4. Len(handled) \in Nat /\ Len(t) \in Nat /\ DOMAIN handled = 1..Len(handled)
      /\ DOMAIN handled' = 1..(Len(handled) + Len(t))
  BY <1>1, <1>2, <1>3, LenProperties
<1>5. ASSUME NEW q \in HandledPackets PROVE q \in HandledPackets'
  <2>1. PICK i \in DOMAIN handled : handled[i] = q
    BY DEF HandledPackets
  <2>2. i \in DOMAIN handled' /\ handled'[i] = q
    BY <1>2, <1>3, <1>4, <2>1
  <2> QED BY <2>2 DEF HandledPackets
<1>6. ASSUME NEW i \in 1..Len(t) PROVE t[i] \in HandledPackets'
  <2>1. Len(handled) + i \in DOMAIN handled' /\ handled'[Len(handled) + i] = t[i]
    BY <1>2, <1>3, <1>4
  <2> QED BY <2>1 DEF HandledPackets
<1> QED BY <1>2, <1>5, <1>6

\* A cut that counts as one: where the pieces of the packet begin and end.
LEMMA CutAt ==
  ASSUME NEW a \in Nat, NEW b \in Nat, CutPacket(Piece(a, b)), a < b
  PROVE  \E p \in Packets \ Throwing :
           \/ a = StartOf(p) - 1 /\ b <= EndOf[p] - 2
           \/ chop # <<>> /\ StartOf(p) <= a /\ a <= EndOf[p] - 2 /\ b = EndOf[p] - 1
<1>1. Piece(a, b) # <<>>
  BY PieceEmpty
<1>2. PICK p \in Packets \ Throwing : \E c \in StartOf(p)..(EndOf[p] - 2) :
        \/ Piece(a, b) = Piece(StartOf(p) - 1, c)
        \/ chop # <<>> /\ Piece(a, b) = Piece(c, EndOf[p] - 1)
  BY <1>1 DEF CutPacket
<1>3. PICK c \in StartOf(p)..(EndOf[p] - 2) :
        \/ Piece(a, b) = Piece(StartOf(p) - 1, c)
        \/ chop # <<>> /\ Piece(a, b) = Piece(c, EndOf[p] - 1)
  BY <1>2
<1>4. StartOf(p) \in Nat /\ EndOf[p] \in Nat /\ 1 <= StartOf(p) /\ StartOf(p) < EndOf[p]
  BY StreamFacts
<1>5. StartOf(p) - 1 \in Nat /\ EndOf[p] - 1 \in Nat /\ c \in Nat
      /\ StartOf(p) - 1 < c /\ c < EndOf[p] - 1 /\ StartOf(p) <= c /\ c <= EndOf[p] - 2
  BY <1>4
<1>6. CASE Piece(a, b) = Piece(StartOf(p) - 1, c)
  <2>1. a = StartOf(p) - 1 /\ b = c
    BY <1>5, <1>6, PieceEq
  <2> QED BY <1>5, <2>1
<1>7. CASE chop # <<>> /\ Piece(a, b) = Piece(c, EndOf[p] - 1)
  <2>1. a = c /\ b = EndOf[p] - 1
    BY <1>5, <1>7, PieceEq
  <2> QED BY <1>5, <1>7, <2>1
<1> QED BY <1>3, <1>6, <1>7

LEMMA QueueNewline ==
  ASSUME TypeOK, Behind, QueueWhole, phase = "main", reader = "chopped", busy,
         UNCHANGED <<reader, phase, pos, busy, mainAt>>,
         NEW p \in Packets, FirstNewline(p), from' = EndOf[p],
         NEW text \in Seq(0..pos), TakeLine(text),
         text = Piece(from, EndOf[p] - 1) \/ (cleared /\ text = Garbage)
  PROVE  QueueWhole'
<1>1. /\ from \in Nat /\ pos \in Nat /\ mainAt \in Nat /\ mainAt <= from /\ from < pos
      /\ StartOf(p) \in Nat /\ EndOf[p] \in Nat /\ 1 <= StartOf(p) /\ StartOf(p) < EndOf[p]
      /\ StartOf(p) <= from + 1 /\ from < EndOf[p] /\ EndOf[p] <= pos
      /\ \A q \in Packets : EndOf[q] <= EndOf[p] => EndOf[q] <= from \/ q = p
  BY FirstLine, StreamFacts DEF TypeOK
<1>2. ASSUME NEW q \in Packets, StartOf(q) <= from', from' < EndOf[q] PROVE FALSE
  BY <1>2, NotInside
<1>3. ASSUME NEW q \in Packets, Inside(q) PROVE q = p
  <2>1. StartOf(q) \in Nat /\ EndOf[q] \in Nat
    BY StreamFacts
  <2>2. StartOf(q) <= from + 1 /\ from + 1 <= EndOf[q] /\ from + 1 <= EndOf[p]
        /\ from + 1 \in Nat
    BY <1>1, <1>3, <2>1 DEF Inside
  <2> QED BY <1>1, <2>2, OnePacket
<1>4. SUFFICES ASSUME ~spoiled'
               PROVE  /\ from' < pos => ~cleared'
                      /\ \A q \in Packets : StartOf(q) > mainAt /\ EndOf[q] <= from'
                                              => q \in HandledPackets'
                      /\ chop' # <<>> => chop'[1] = <<>>
  BY <1>2 DEF QueueWhole, Inside, StartOf, Packets
<1>5. ~spoiled
  BY <1>4, TakeLineCases DEF LineSucceeds, LineKept, LineJoined
<1>6. /\ ~cleared
      /\ \A q \in Packets : StartOf(q) > mainAt /\ EndOf[q] <= from => q \in HandledPackets
      /\ \A q \in Packets : Inside(q) =>
           \/ StartOf(q) <= mainAt
           \/ EndOf[q] = from + 1 /\ q \in HandledPackets
           \/ /\ EndOf[q] > from + 1 /\ q \notin Throwing
              /\ chop = <<Piece(StartOf(q) - 1, from)>>
      /\ chop # <<>> /\ chop[1] # <<>> =>
           \E q \in Packets : /\ Inside(q) /\ EndOf[q] > from + 1
                              /\ chop[1] = Piece(StartOf(q) - 1, from)
      /\ \A q \in Packets : Inside(q) /\ StartOf(q) <= mainAt => chop = <<>>
  BY <1>1, <1>5 DEF QueueWhole
<1>7. text = Piece(from, EndOf[p] - 1)
  BY <1>6
<1>8. from \in Nat /\ EndOf[p] - 1 \in Nat /\ from <= EndOf[p] - 1
  BY <1>1
<1>9. /\ \A q \in HandledPackets : q \in HandledPackets'
      /\ Parses(text) => PacketOf(text) \in HandledPackets'
      /\ LineJoined(text) /\ Parses(chop[1] \o text) =>
           PacketOf(chop[1] \o text) \in HandledPackets'
  BY GivenHandled
<1>10. ASSUME Parses(text) PROVE PacketOf(text) = p /\ StartOf(p) = from + 1
  <2>1. /\ PacketOf(text) \in Packets
        /\ from = StartOf(PacketOf(text)) - 1 /\ EndOf[p] - 1 = EndOf[PacketOf(text)] - 1
    BY <1>7, <1>8, <1>10, ParsedPiece
  <2>2. PacketOf(text) = p
    BY <1>1, <2>1, StreamFacts
  <2> QED BY <1>1, <2>1, <2>2
<1>11. ASSUME StartOf(p) = from + 1 PROVE text = Body(p) /\ Parses(text) /\ PacketOf(text) = p
  BY <1>1, <1>7, <1>11, ParsedBody DEF Body
<1>12. ASSUME p \in HandledPackets' \/ StartOf(p) <= mainAt
       PROVE  \A q \in Packets : StartOf(q) > mainAt /\ EndOf[q] <= from'
                                   => q \in HandledPackets'
  <2> SUFFICES ASSUME NEW q \in Packets, StartOf(q) > mainAt, EndOf[q] <= from'
               PROVE  q \in HandledPackets'
    OBVIOUS
  <2>1. CASE q = p
    BY <1>1, <1>12, <2>1
  <2>2. CASE EndOf[q] <= from
    BY <1>6, <1>9, <2>2
  <2> QED BY <1>1, <2>1, <2>2
<1>13. CASE LineSucceeds(text)
  <2>1. Parses(text) /\ chop' = chop /\ cleared' = cleared
    BY <1>13 DEF LineSucceeds, Succeeds
  <2>2. p \in HandledPackets' /\ StartOf(p) = from + 1
    BY <1>9, <1>10, <2>1
  <2>3. \A q \in Packets : ~Inside(q)
    BY <1>1, <1>3, <2>2 DEF Inside
  <2> QED BY <1>6, <1>12, <2>1, <2>2, <2>3
<1>14. CASE ~Succeeds(text)
  <2>1. CutPacket(text) /\ (from' < pos => ~cleared')
    <3>1. ~Spoils(text)
      BY <1>4, <1>14, TakeLineCases DEF LineSucceeds, LineKept, LineJoined
    <3> QED BY <1>1, <3>1 DEF Spoils
  <2>2. CASE StartOf(p) = from + 1
    <3>1. p \in Throwing /\ from < EndOf[p] - 1
      BY <1>1, <1>11, <1>14, <2>2 DEF Succeeds
    <3>2. PICK q \in Packets \ Throwing :
            \/ from = StartOf(q) - 1
            \/ EndOf[p] - 1 = EndOf[q] - 1
      BY <1>7, <1>8, <2>1, <3>1, CutAt
    <3>3. StartOf(q) \in Nat /\ EndOf[q] \in Nat /\ StartOf(q) < EndOf[q]
      BY StreamFacts
    <3>4. CASE from = StartOf(q) - 1
      <4>1. StartOf(q) <= from + 1 /\ from + 1 <= EndOf[q] /\ from + 1 \in Nat
            /\ from + 1 <= EndOf[p]
        BY <1>1, <3>3, <3>4
      <4>2. p = q
        BY <1>1, <4>1, OnePacket
      <4> QED BY <3>1, <4>2
    <3>5. CASE EndOf[p] - 1 = EndOf[q] - 1
      <4>1. p = q
        BY <1>1, <3>3, <3>5, StreamFacts
      <4> QED BY <3>1, <4>1
    <3> QED BY <3>2, <3>4, <3>5
  <2>3. CASE Inside(p) /\ StartOf(p) <= mainAt
    <3>1. chop = <<>>
      BY <1>6, <2>3
    <3>2. chop' = <<text>>
      BY <1>14, <3>1, TakeLineCases DEF LineSucceeds, LineKept, LineJoined
    <3>3. text = <<>>
      <4> SUFFICES ASSUME from < EndOf[p] - 1 PROVE FALSE
        BY <1>7, <1>8, PieceEmpty
      <4>1. PICK q \in Packets \ Throwing : from = StartOf(q) - 1
        BY <1>7, <1>8, <2>1, <3>1, CutAt
      <4>2. StartOf(q) \in Nat /\ EndOf[q] \in Nat /\ StartOf(q) < EndOf[q]
        BY StreamFacts
      <4>3. StartOf(q) <= from + 1 /\ from + 1 <= EndOf[q] /\ from + 1 \in Nat
            /\ from + 1 <= EndOf[p]
        BY <1>1, <4>1, <4>2
      <4>4. p = q
        BY <1>1, <4>3, OnePacket
      <4> QED BY <1>1, <2>3, <4>1, <4>4 DEF Inside
    <3> QED BY <1>12, <2>1, <2>3, <3>2, <3>3
  <2>4. CASE Inside(p) /\ EndOf[p] = from + 1 /\ p \in HandledPackets
    <3>1. text = <<>>
      BY <1>1, <1>7, <1>8, <2>4, PieceEmpty
    <3>2. chop # <<>> => chop[1] = <<>>
      BY <1>1, <1>3, <1>6, <2>4
    <3>3. chop' = <<<<>>>>
      <4>1. CASE chop = <<>>
        BY <1>14, <3>1, <4>1, TakeLineCases DEF LineSucceeds, LineKept, LineJoined
      <4>2. CASE chop # <<>>
        <5>1. chop[1] \o text = <<>>
          BY <3>1, <3>2, <4>2
        <5>2. ~Mended(text)
          BY <5>1, ParsedPiece DEF Mended, Succeeds
        <5> QED BY <1>14, <4>2, <5>1, <5>2, TakeLineCases DEF LineSucceeds, LineKept, LineJoined
      <4> QED BY <4>1, <4>2
    <3> QED BY <1>9, <1>12, <2>1, <2>4, <3>3
  <2>5. CASE /\ Inside(p) /\ p \notin Throwing
             /\ chop = <<Piece(StartOf(p) - 1, from)>>
    <3>1. chop # <<>> /\ chop[1] = Piece(StartOf(p) - 1, from)
      BY <2>5
    <3>2. StartOf(p) - 1 \in Nat /\ StartOf(p) - 1 <= from
      BY <1>1, <2>5 DEF Inside
    <3>3. chop[1] \o text = Body(p)
      BY <1>7, <1>8, <3>1, <3>2, PieceConcat DEF Body
    <3>4. Parses(chop[1] \o text) /\ PacketOf(chop[1] \o text) = p /\ Mended(text)
      BY <2>5, <3>3, ParsedBody DEF Mended, Succeeds
    <3>5. LineJoined(text)
      BY <1>14, <3>1, TakeLineCases DEF LineSucceeds, LineKept
    <3>6. chop' = <<>> /\ p \in HandledPackets'
      BY <1>9, <3>4, <3>5 DEF LineJoined
    <3> QED BY <1>12, <2>1, <3>6
  <2>6. StartOf(p) = from + 1 \/ Inside(p)
    BY <1>1 DEF Inside
  <2> QED BY <1>6, <2>2, <2>3, <2>4, <2>5, <2>6
<1> QED BY <1>13, <1>14, TakeLineCases DEF LineKept, LineJoined

LEMMA QueueNoNewline ==
  ASSUME TypeOK, Behind, QueueWhole, phase = "main", reader = "chopped", busy,
         UNCHANGED <<reader, phase, pos, busy, mainAt>>,
         ~Terminated, from < pos, from' = pos,
         NEW text \in Seq(0..pos), TakeLine(text),
         text = Piece(from, pos) \/ (cleared /\ text = Garbage)
  PROVE  QueueWhole'
<1>1. /\ from \in Nat /\ pos \in Nat /\ mainAt \in Nat /\ mainAt <= from /\ from < pos
      /\ \A q \in Packets : ~(from < EndOf[q] /\ EndOf[q] <= pos)
      /\ \A q \in Packets : /\ StartOf(q) \in Nat /\ EndOf[q] \in Nat
                            /\ 1 <= StartOf(q) /\ StartOf(q) < EndOf[q]
  BY StreamFacts DEF TypeOK, Terminated
<1>2. \A q \in Packets : ~Inside(q)
  BY <1>1 DEF QueueWhole, Inside
\* The packet that has begun behind from.
<1>3. PICK r \in Packets : StartOf(r) = from + 1 /\ pos < EndOf[r]
  <2>1. PICK s \in Packets : pos <= EndOf[s]
    BY DEF Behind
  <2>2. from < EndOf[s]
    BY <1>1, <2>1
  <2>3. PICK r \in Packets : StartOf(r) <= from + 1 /\ from < EndOf[r]
    BY <1>1, <2>2, Containing
  <2> QED BY <1>1, <1>2, <2>3 DEF Inside
<1>4. ASSUME NEW q \in Packets, StartOf(q) <= from', from' < EndOf[q] PROVE q = r
  <2>1. StartOf(q) <= pos /\ pos <= EndOf[q] /\ StartOf(r) <= pos /\ pos <= EndOf[r]
    BY <1>1, <1>3, <1>4
  <2> QED BY <1>1, <2>1, OnePacket
<1>5. SUFFICES ASSUME ~spoiled'
      PROVE  /\ \A q \in Packets : StartOf(q) > mainAt /\ EndOf[q] <= pos
                                     => q \in HandledPackets'
             /\ \/ EndOf[r] = pos + 1 /\ r \in HandledPackets'
                \/ /\ EndOf[r] > pos + 1 /\ r \notin Throwing
                   /\ chop' = <<Piece(StartOf(r) - 1, pos)>>
             /\ chop' # <<>> /\ chop'[1] # <<>> =>
                  EndOf[r] > pos + 1 /\ chop'[1] = Piece(StartOf(r) - 1, pos)
  <2> DEFINE Left ==
        /\ \A q \in Packets : StartOf(q) > mainAt /\ EndOf[q] <= pos => q \in HandledPackets'
        /\ \/ EndOf[r] = pos + 1 /\ r \in HandledPackets'
           \/ /\ EndOf[r] > pos + 1 /\ r \notin Throwing
              /\ chop' = <<Piece(StartOf(r) - 1, pos)>>
        /\ chop' # <<>> /\ chop'[1] # <<>> =>
             EndOf[r] > pos + 1 /\ chop'[1] = Piece(StartOf(r) - 1, pos)
  <2>1. ~spoiled' => Left
    BY <1>5
  <2>2. StartOf(r) > mainAt /\ StartOf(r) <= pos /\ pos < EndOf[r]
    BY <1>1, <1>3
  <2>3. \A q \in Packets : StartOf(q) <= pos /\ pos < EndOf[q] => q = r
    BY <1>4
  <2>4. ~spoiled' =>
          /\ \A q \in Packets : StartOf(q) > mainAt /\ EndOf[q] <= pos => q \in HandledPackets'
          /\ \A q \in Packets : StartOf(q) <= pos /\ pos < EndOf[q] =>
               \/ StartOf(q) <= mainAt
               \/ EndOf[q] = pos + 1 /\ q \in HandledPackets'
               \/ /\ EndOf[q] > pos + 1 /\ q \notin Throwing
                  /\ chop' = <<Piece(StartOf(q) - 1, pos)>>
          /\ chop' # <<>> /\ chop'[1] # <<>> =>
               \E q \in Packets : /\ StartOf(q) <= pos /\ pos < EndOf[q] /\ EndOf[q] > pos + 1
                                  /\ chop'[1] = Piece(StartOf(q) - 1, pos)
    BY <2>1, <2>2, <2>3
  <2>5. \A q \in Packets : StartOf(q) <= pos /\ pos < EndOf[q] /\ StartOf(q) <= mainAt
                             => chop' = <<>>
    BY <1>1, <2>2, <2>3
  <2> HIDE DEF Left
  <2> QED BY <1>1, <2>4, <2>5 DEF QueueWhole, Inside, StartOf, Packets
<1>6. ~spoiled
  BY <1>5, TakeLineCases DEF LineSucceeds, LineKept, LineJoined
<1>7. /\ ~cleared
      /\ \A q \in Packets : StartOf(q) > mainAt /\ EndOf[q] <= from => q \in HandledPackets
      /\ chop # <<>> => chop[1] = <<>>
  BY <1>1, <1>2, <1>6 DEF QueueWhole
<1>8. text = Piece(from, pos) /\ text = Piece(StartOf(r) - 1, pos) /\ text # <<>>
  BY <1>1, <1>3, <1>7, PieceEmpty
<1>8a. from \in Nat /\ pos \in Nat /\ text = Piece(from, pos) /\ from < pos
  BY <1>1, <1>8
<1>9. /\ \A q \in HandledPackets : q \in HandledPackets'
      /\ Parses(text) => PacketOf(text) \in HandledPackets'
  BY GivenHandled
<1>10. \A q \in Packets : StartOf(q) > mainAt /\ EndOf[q] <= pos => q \in HandledPackets'
  BY <1>1, <1>7, <1>9
<1>11. CASE LineSucceeds(text)
  <2>1. Parses(text) /\ chop' = chop
    BY <1>11 DEF LineSucceeds, Succeeds
  <2>2. PacketOf(text) \in Packets /\ pos = EndOf[PacketOf(text)] - 1
        /\ from = StartOf(PacketOf(text)) - 1
    BY <1>8a, <2>1, ParsedPiece
  <2>3. StartOf(PacketOf(text)) <= from + 1 /\ from + 1 <= EndOf[PacketOf(text)]
        /\ StartOf(r) <= from + 1 /\ from + 1 <= EndOf[r] /\ from + 1 \in Nat
    BY <1>1, <1>3, <2>2
  <2>4. PacketOf(text) = r
    BY <2>2, <2>3, OnePacket
  <2>5. EndOf[r] = pos + 1 /\ r \in HandledPackets'
    BY <1>1, <1>9, <2>1, <2>2, <2>4
  <2> QED BY <1>7, <1>10, <2>1, <2>5
<1>12. CASE ~Succeeds(text)
  <2>1. CutPacket(text)
    BY <1>5, <1>12, TakeLineCases DEF LineSucceeds, LineKept, LineJoined, Spoils
  <2>2. PICK p \in Packets \ Throwing :
          \/ from = StartOf(p) - 1 /\ pos <= EndOf[p] - 2
          \/ StartOf(p) <= from /\ from <= EndOf[p] - 2 /\ pos = EndOf[p] - 1
    BY <1>8a, <2>1, CutAt
  <2>3. ~(StartOf(p) <= from /\ from <= EndOf[p] - 2 /\ pos = EndOf[p] - 1)
    BY <1>1, <1>2 DEF Inside
  <2>4. StartOf(p) <= from + 1 /\ from + 1 <= EndOf[p]
        /\ StartOf(r) <= from + 1 /\ from + 1 <= EndOf[r] /\ from + 1 \in Nat
    BY <1>1, <1>3, <2>2, <2>3
  <2>5. p = r
    BY <2>4, OnePacket
  <2>6. EndOf[r] > pos + 1 /\ r \notin Throwing
    BY <1>1, <2>2, <2>3, <2>5
  <2>7. chop' = <<text>>
    <3>1. CASE chop = <<>>
      BY <1>12, <3>1, TakeLineCases DEF LineSucceeds, LineKept, LineJoined
    <3>2. CASE chop # <<>>
      <4>1. chop[1] \o text = text
        BY <1>7, <3>2, ConcatEmptySeq
      <4> QED BY <1>12, <3>2, <4>1, TakeLineCases DEF LineSucceeds, LineKept, LineJoined, Mended
    <3> QED BY <3>1, <3>2
  <2> QED BY <1>8, <1>10, <2>6, <2>7
<1> QED BY <1>11, <1>12, TakeLineCases DEF LineKept, LineJoined

LEMMA QueueNextLine ==
  ASSUME TypeOK, Behind, QueueWhole, NextLine
  PROVE  QueueWhole'
<1>1. PICK e \in from..pos, next \in from..pos, text \in Seq(0..pos) :
        /\ GetLine(e, next) /\ from' = next
        /\ text = Piece(from, e) \/ (cleared /\ text = Garbage)
        /\ TakeLine(text)
  BY TakenLine
<1>2. /\ phase = "main" /\ reader = "chopped" /\ busy
      /\ UNCHANGED <<reader, phase, pos, busy, mainAt>>
  BY DEF NextLine
<1>3. ASSUME NEW p \in Packets, FirstNewline(p), e = EndOf[p] - 1, next = EndOf[p]
      PROVE  QueueWhole'
  <2>1. from' = EndOf[p]
    BY <1>1, <1>3
  <2>2. text = Piece(from, EndOf[p] - 1) \/ (cleared /\ text = Garbage)
    BY <1>1, <1>3
  <2> QED BY <1>1, <1>2, <1>3, <2>1, <2>2, QueueNewline
<1>4. ASSUME ~Terminated, from < pos, e = pos, next = pos
      PROVE  QueueWhole'
  <2>1. from' = pos
    BY <1>1, <1>4
  <2>2. text = Piece(from, pos) \/ (cleared /\ text = Garbage)
    BY <1>1, <1>4
  <2> QED BY <1>1, <1>2, <1>4, <2>1, <2>2, QueueNoNewline
<1> QED BY <1>1, <1>3, <1>4 DEF GetLine

LEMMA StepQueue ==
  ASSUME TypeOK, Behind, QueueWhole, [Next]_vars
  PROVE  QueueWhole'
<1>1. ASSUME NEW n \in 1..MaxRead, LoginRead(n) PROVE QueueWhole'
  BY <1>1 DEF LoginRead, QueueWhole
<1>2. ASSUME NEW n \in 1..MaxRead, Receive(n) PROVE QueueWhole'
  <2> SUFFICES ASSUME reader = "chopped" PROVE QueueWhole'
    BY <1>2 DEF Receive, QueueWhole
  <2>1. /\ phase = "main" /\ ~busy /\ busy' /\ pos' = pos + n /\ from' = from
        /\ handled' = handled /\ mainAt' = mainAt /\ chop' = chop /\ spoiled' = spoiled
        /\ ~cleared' /\ ReadUntil(n) /\ from \in Nat /\ pos \in Nat
    BY <1>2 DEF Receive, TypeOK
  <2>2. from = pos
    BY <2>1 DEF QueueWhole
  <2>3. PICK p \in Packets : pos < EndOf[p] /\ EndOf[p] <= pos + n
    BY <2>1 DEF ReadUntil
  <2>4. ASSUME NEW q \in Packets, Inside(q) PROVE EndOf[q] <= pos'
    <3>1. /\ StartOf(q) \in Nat /\ EndOf[q] \in Nat /\ EndOf[p] \in Nat
          /\ StartOf(q) <= EndOf[p] /\ n \in Nat
      BY <2>1, <2>2, <2>3, <2>4, StreamFacts, FramingAssumption DEF Inside
    <3>2. ~(EndOf[p] < EndOf[q])
      BY <3>1, NotInside
    <3> QED BY <2>1, <2>3, <3>1, <3>2
  <2>5. /\ \A q \in Packets : Inside(q) /\ StartOf(q) <= mainAt => chop = <<>>
        /\ ~spoiled =>
             /\ \A q \in Packets : StartOf(q) > mainAt /\ EndOf[q] <= from => q \in HandledPackets
             /\ \A q \in Packets : Inside(q) =>
                  \/ StartOf(q) <= mainAt
                  \/ EndOf[q] = from + 1 /\ q \in HandledPackets
                  \/ /\ EndOf[q] > from + 1 /\ q \notin Throwing
                     /\ chop = <<Piece(StartOf(q) - 1, from)>>
             /\ chop # <<>> /\ chop[1] # <<>> =>
                  \E q \in Packets : /\ Inside(q) /\ EndOf[q] > from + 1
                                     /\ chop[1] = Piece(StartOf(q) - 1, from)
    BY <2>1 DEF QueueWhole
  <2>6. HandledPackets' = HandledPackets /\ \A q \in Packets : Inside(q)' <=> Inside(q)
    BY <2>1 DEF HandledPackets, Inside
  <2> QED BY <2>1, <2>4, <2>5, <2>6 DEF QueueWhole
<1>3. CASE LoginLine
  BY <1>3 DEF LoginLine, QueueWhole
<1>4. CASE LoginDone
  <2>1. CASE phase' # "main"
    BY <2>1 DEF QueueWhole
  <2>2. CASE phase' = "main"
    <3>1. /\ from' = pos /\ mainAt' = pos /\ pos' = pos /\ pos \in Nat /\ busy' = FALSE
          /\ chop' = <<>>
      BY <1>4, <2>2 DEF LoginDone, TypeOK, Behind, chopped
    <3>2. \A q \in Packets : /\ StartOf(q) \in Nat /\ EndOf[q] \in Nat
                             /\ StartOf(q) < EndOf[q]
      BY StreamFacts
    <3>3. \A q \in Packets : /\ Inside(q)' => StartOf(q) <= mainAt'
                             /\ ~(StartOf(q) > mainAt' /\ EndOf[q] <= from')
      BY <3>1, <3>2 DEF Inside
    <3> QED BY <3>1, <3>2, <3>3 DEF QueueWhole
  <2> QED BY <2>1, <2>2
<1>5. CASE TakePacket
  BY <1>5 DEF TakePacket, QueueWhole
<1>6. CASE NextLine
  BY <1>6, QueueNextLine
<1>7. CASE EndOfPass
  <2> SUFFICES ASSUME reader = "chopped" PROVE QueueWhole'
    BY <1>7 DEF EndOfPass, QueueWhole
  <2>1. /\ phase = "main" /\ busy /\ from = pos /\ from' = from /\ pos' = pos /\ handled' = handled
        /\ mainAt' = mainAt /\ chop' = chop /\ spoiled' = spoiled
    BY <1>7 DEF EndOfPass, chopped, TypeOK
  <2>2. HandledPackets' = HandledPackets /\ \A q \in Packets : Inside(q)' <=> Inside(q)
    BY <2>1 DEF HandledPackets, Inside
  <2>3. ~(from' < pos') /\ from' = pos'
    BY <2>1 DEF TypeOK
  <2> QED BY <2>1, <2>2, <2>3 DEF QueueWhole
<1>8. CASE ConnectionLost
  BY <1>8 DEF ConnectionLost, QueueWhole
<1>9. CASE UNCHANGED vars
  BY <1>9 DEF vars, chopped, QueueWhole, Inside, HandledPackets
<1> QED BY <1>1, <1>2, <1>3, <1>4, <1>5, <1>6, <1>7, <1>8, <1>9 DEF Next

-----------------------------------------------------------------------------
\* The invariant on which the four properties rest is inductive: what the end of the
\* stream read so far, packetBuffer and chopQueue hold between two steps.
THEOREM FramingInvariant == Spec => []IInv
<1>1. Init => IInv
  BY InitInvariant
<1>2. IInv /\ [Next]_vars => IInv'
  BY StepType, StepOrder, StepBuffer, StepQueue DEF IInv
<1> QED BY <1>1, <1>2, PTL DEF Spec

\* Every variable keeps its type: what is taken apart was received, the main loop was
\* entered before, and chopQueue holds at most one text of what was received.
THEOREM FramingTypeCorrect == Spec => []TypeOK
<1>1. IInv => TypeOK
  BY DEF IInv
<1> QED BY <1>1, FramingInvariant, PTL

\* For any stream of packets and however its bytes are cut into reads, the handlers of
\* the login and of both kinds of main loop see the packets in the order they were sent
\* and none twice, but a reply whose handler throws (spectre 525-566, kas 551-673).
THEOREM PacketsInOrder == Spec => []HandledInOrder
<1>1. IInv => HandledInOrder
  BY DEF IInv
<1> QED BY <1>1, FramingInvariant, PTL

\* With packetBuffer, no packet is lost that begins in the main loop and fits the
\* buffer, whatever the login has left half-read in front of it (spectre 495-576).
THEOREM BufferLosesNone == Spec => []MainLoopLosesNone
<1>1. IInv => MainLoopLosesNone
  <2> SUFFICES ASSUME IInv, phase = "main", reader = "buffered", ~busy,
                      NEW p \in Packets, StartOf(p) > mainAt, Received(p), Fits(p)
               PROVE  p \in HandledPackets
    BY DEF MainLoopLosesNone
  <2>1. EndOf[p] <= from
    BY StreamFacts DEF IInv, TypeOK, BufferWhole, Terminated, Received
  <2> QED BY <2>1 DEF IInv, BufferWhole
<1> QED BY <1>1, FramingInvariant, PTL

\* With chopQueue, none is lost as long as nothing has failed but packets that were
\* cut, and packets was not cleared with lines left in it (kas 551-673).
THEOREM QueueMendsPackets == Spec => []ChoppedPacketsMended
<1>1. IInv => ChoppedPacketsMended
  <2> SUFFICES ASSUME IInv, phase = "main", reader = "chopped", ~busy, ~spoiled,
                      NEW p \in Packets, StartOf(p) > mainAt, Received(p)
               PROVE  p \in HandledPackets
    BY DEF ChoppedPacketsMended
  <2>1. EndOf[p] <= from
    BY DEF IInv, QueueWhole, Received
  <2> QED BY <2>1 DEF IInv, QueueWhole
<1> QED BY <1>1, FramingInvariant, PTL
=============================================================================
