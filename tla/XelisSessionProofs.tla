------------------------- MODULE XelisSessionProofs -------------------------
(***************************************************************************)
(* TypeOK, TimeoutAfterSilence and TemplateWhole of XelisSession, for one  *)
(* or two connections and any time-outs.  The shared clock never shows     *)
(* more silence than any one connection has had: whatever sets own[k] back *)
(* sets the clock back too.  The template is whole because the header is   *)
(* written by every job that makes the connection count as connected, and  *)
(* no packet but set_extranonce writes outside its own places.             *)
(***************************************************************************)
EXTENDS XelisSession, TLAPS

\* TypeOK is needed for the sums, and for the values of the EXCEPTs.
IInv == TypeOK /\ \A k \in Kinds : silence <= own[k]

USE XelisAssumption

\* What a packet writes are texts.
LEMMA TextsWritten ==
  /\ \A cells : \A b \in [Cells -> Texts] : Put(b, cells) \in [Cells -> Texts]
  /\ NoBlob \in [Cells -> Texts] /\ OldBlob \in [Cells -> Texts]
  BY DEF Put, NoBlob, OldBlob, Texts

\* Every step that is not the clock's keeps the clock below own, or sets both back.
LEMMA Inductive == IInv /\ [Next]_vars => IInv'
<1> SUFFICES ASSUME IInv, [Next]_vars PROVE IInv'
  OBVIOUS
<1> USE DEF IInv, TypeOK, SessPc, SessGoto
<1>1. CASE Tick
  <2>1. Later(silence) \in 0..(JobTimeout + 1)
    BY DEF Later
  <2>2. \A k \in Kinds : /\ Later(own[k]) \in 0..(JobTimeout + 1)
                         /\ Later(silence) <= Later(own[k])
    BY DEF Later
  <2>3. left' \in [Kinds -> 0..ReadTimeout]
    <3>1. \A k \in Kinds : (IF sess[k] = "read" /\ open[k] THEN left[k] - 1 ELSE left[k])
                             \in 0..ReadTimeout
      BY <1>1 DEF Tick
    <3> QED BY <1>1, <3>1 DEF Tick
  <2> QED BY <1>1, <2>1, <2>2, <2>3 DEF Tick
<1> DEFINE Typed == blob' \in [Kinds -> [Cells -> Texts]]
                    /\ terms' \in [Kinds -> {"none", "granted", "changed"}]
<1>g. ASSUME NEW k \in Kinds, Granted(k) PROVE Typed
  <2>1. Put(IF blob[k] = NoBlob THEN OldBlob ELSE blob[k], ReplyCells) \in [Cells -> Texts]
    BY TextsWritten
  <2> QED BY <1>g, <2>1 DEF Granted
<1>2. ASSUME NEW k \in Kinds, Connect(k) PROVE IInv'
  <2>1. Typed
    BY <1>2, TextsWritten DEF Connect
  <2> QED BY <1>2, <2>1 DEF Connect
<1>6. ASSUME NEW k \in Kinds, Leaves(k) PROVE IInv'
  <2>1. open' \in [Kinds -> BOOLEAN]
    BY <1>6 DEF Leaves, Leave, ShutdownThrows
  <2>2. sess' \in [Kinds -> SessPc]
    BY <1>6 DEF Leaves, Leave, ShutdownThrows
  <2> QED BY <1>6, <2>1, <2>2 DEF Leaves, Leave, ShutdownThrows
<1>3. ASSUME NEW k \in Kinds, Loop(k) PROVE IInv'
  <2>1. CASE TimesOut(k) BY <2>1 DEF TimesOut, GivesUp
  <2>2. CASE BeginRead(k) BY <2>2 DEF BeginRead
  <2>3. CASE ReadFails(k) BY <2>3 DEF ReadFails
  <2>4. CASE ReadExpires(k) BY <2>4 DEF ReadExpires
  <2> QED BY <1>3, <2>1, <2>2, <2>3, <2>4 DEF Loop
<1>4. ASSUME NEW k \in Kinds, Pool(k) PROVE IInv'
  <2>1. CASE Subscribed(k)
    <3>1. Typed BY <2>1, <1>g DEF Subscribed
    <3>2. silence' = 0 /\ own' = [own EXCEPT ![k] = 0]
      BY <2>1 DEF Subscribed
    <3>3. /\ silence' \in 0..(JobTimeout + 1) /\ own' \in [Kinds -> 0..(JobTimeout + 1)]
          /\ \A j \in Kinds : silence' <= own'[j]
      BY <3>2
    <3>4. sess' = [sess EXCEPT ![k] = "check"] /\ UNCHANGED <<open, connected, userHeight, left>>
      BY <2>1 DEF Subscribed
    <3> QED BY <3>1, <3>3, <3>4
  <2>2. CASE LoginFails(k) BY <2>2 DEF LoginFails
  <2>3. CASE PoolCloses(k) BY <2>3 DEF PoolCloses
  <2>4. ASSUME NEW clean \in BOOLEAN, Notify(k, clean) PROVE IInv'
    <3>1. /\ sess' = [sess EXCEPT ![k] = "check"]
          /\ UNCHANGED <<open, left, terms>>
      BY <2>4 DEF Notify
    <3>2. /\ silence' \in 0..(JobTimeout + 1) /\ own' \in [Kinds -> 0..(JobTimeout + 1)]
          /\ \A j \in Kinds : silence' <= own'[j]
      <4>1. CASE UNCHANGED <<silence, own>> BY <4>1
      <4>2. CASE silence' = 0 /\ own' = [own EXCEPT ![k] = 0]
        <5>1. own' \in [Kinds -> 0..(JobTimeout + 1)] /\ silence' \in 0..(JobTimeout + 1)
          BY <4>2
        <5> QED BY <4>2, <5>1
      <4> QED BY <2>4, <4>1, <4>2 DEF Notify
    <3>3. /\ connected' \in [Kinds -> BOOLEAN] /\ userHeight' \in BOOLEAN
          /\ blob' \in [Kinds -> [Cells -> Texts]]
      <4>1. CASE UNCHANGED <<connected, userHeight, blob>> BY <4>1
      <4>2. CASE /\ blob' = [blob EXCEPT ![k] = Put(@, HeaderCells)]
                 /\ connected' = [connected EXCEPT ![k] = TRUE]
                 /\ userHeight' = (userHeight \/ k = "user")
        <5>1. Put(blob[k], HeaderCells) \in [Cells -> Texts]
          BY TextsWritten
        <5>2. blob' \in [Kinds -> [Cells -> Texts]]
          BY <4>2, <5>1
        <5> QED BY <4>2, <5>2
      <4> QED BY <2>4, <4>1, <4>2 DEF Notify
    <3> QED BY <3>1, <3>2, <3>3
  <2>5. CASE SetExtraNonce(k)
    <3>1. Typed
      BY <2>5 DEF SetExtraNonce, Texts
    <3> QED BY <2>5, <3>1 DEF SetExtraNonce
  <2>6. CASE OtherPacket(k) BY <2>6 DEF OtherPacket
  <2>7. CASE PongFails(k) BY <2>7 DEF PongFails, GivesUp
  <2>8. CASE LateReply(k)
    <3>1. Typed BY <2>8, <1>g DEF LateReply
    <3> QED BY <2>8, <3>1 DEF LateReply
  <2> QED BY <1>4, <2>1, <2>2, <2>3, <2>4, <2>5, <2>6, <2>7, <2>8 DEF Pool
<1>5. CASE UNCHANGED vars
  BY <1>5 DEF vars
<1> QED BY <1>1, <1>2, <1>3, <1>4, <1>5, <1>6 DEF Next

\* Only TimesOut takes a session from the top of its loop to setForDisconnected.
LEMMA OnlyTimesOut ==
  ASSUME IInv, [Next]_vars, NEW k \in Kinds, sess[k] = "check", sess'[k] = "leaving"
  PROVE  own[k] > JobTimeout
<1> USE DEF IInv, TypeOK, SessPc, SessGoto
<1>1. CASE \E j \in Kinds : TimesOut(j)
  <2>1. silence > JobTimeout BY <1>1 DEF TimesOut, Expired
  <2> QED BY <2>1
<1>2. CASE \E j \in Kinds : BeginRead(j) \/ ReadFails(j) \/ ReadExpires(j)
  BY <1>2 DEF BeginRead, ReadFails, ReadExpires
<1>3. CASE \E j \in Kinds : Connect(j) \/ Leaves(j) \/ Pool(j)
  <2> PICK j \in Kinds : Connect(j) \/ Leaves(j) \/ Pool(j) BY <1>3
  <2>1. sess[j] # "check" \/ sess' = sess
    BY DEF Connect, Leaves, Leave, ShutdownThrows, Pool, Subscribed, LateReply, LoginFails,
           PoolCloses, Notify, SetExtraNonce, OtherPacket, PongFails
  <2>2. \E t \in SessPc : sess' = [sess EXCEPT ![j] = t] \/ sess' = sess
    BY DEF Connect, Leaves, Leave, ShutdownThrows, Pool, Subscribed, LateReply, LoginFails,
           PoolCloses, Notify, SetExtraNonce, OtherPacket, PongFails
  <2> QED BY <2>1, <2>2
<1>4. CASE Tick \/ UNCHANGED vars
  BY <1>4 DEF Tick, vars
<1> QED BY <1>1, <1>2, <1>3, <1>4 DEF Next, Loop

\* Every variable of the sessions keeps its type, and the clock never runs ahead of
\* a connection (lastReceivedJobTime is set by every job that counts).
THEOREM XelisInvariant == Spec => []IInv
<1>1. ASSUME Init PROVE IInv
  <2>1. 0 \in 0..(JobTimeout + 1) /\ 0 \in 0..ReadTimeout
    OBVIOUS
  <2>2. silence = 0 /\ own = [k \in Kinds |-> 0] /\ left = [k \in Kinds |-> 0]
    BY <1>1 DEF Init
  <2>3. /\ silence \in 0..(JobTimeout + 1)
        /\ own \in [Kinds -> 0..(JobTimeout + 1)]
        /\ left \in [Kinds -> 0..ReadTimeout]
        /\ \A k \in Kinds : silence <= own[k]
    BY <2>1, <2>2
  <2>4. /\ sess \in [Kinds -> SessPc] /\ open \in [Kinds -> BOOLEAN]
        /\ connected \in [Kinds -> BOOLEAN] /\ userHeight \in BOOLEAN
    BY <1>1 DEF Init, SessPc
  <2>5. /\ blob \in [Kinds -> [Cells -> Texts]]
        /\ terms \in [Kinds -> {"none", "granted", "changed"}]
    BY <1>1, TextsWritten DEF Init
  <2> QED BY <2>3, <2>4, <2>5 DEF IInv, TypeOK
<1> QED BY <1>1, Inductive, PTL DEF Spec

\* A session is ended for silence only when its own pool has been silent for longer
\* than jobTimeout, although the other connection sets the same clock.
THEOREM SilenceIsReal == Spec => TimeoutAfterSilence
<1>1. IInv /\ [Next]_vars
        => [\A k \in Kinds : sess[k] = "check" /\ sess'[k] = "leaving"
                               => own[k] > JobTimeout]_vars
  BY OnlyTimesOut
<1> QED BY <1>1, XelisInvariant, PTL DEF Spec, TimeoutAfterSilence

\* What makes a template whole: the reply's places are right once it has come, and the
\* header's once a job has made the connection count, until set_extranonce writes
\* over both; a session that does not run its loop does not count as connected.
Whole(k, cells) == \A c \in cells : blob[k][c] = c

TemplateInv ==
  \A k \in Kinds :
    /\ connected[k] => InLoop(k)
    /\ terms[k] = "granted" => Whole(k, ReplyCells)
    /\ connected[k] /\ terms[k] # "changed" => Whole(k, HeaderCells)

\* A packet that leaves terms and connected alone, or writes only what is right, keeps
\* the template as it should be.
LEMMA TemplateInductive == IInv /\ TemplateInv /\ [Next]_vars => TemplateInv'
<1> SUFFICES ASSUME IInv, TemplateInv, [Next]_vars, NEW j \in Kinds
             PROVE  /\ connected'[j] => InLoop(j)'
                    /\ terms'[j] = "granted" => Whole(j, ReplyCells)'
                    /\ connected'[j] /\ terms'[j] # "changed" => Whole(j, HeaderCells)'
  BY DEF TemplateInv
<1> DEFINE Goal == /\ connected'[j] => InLoop(j)'
                   /\ terms'[j] = "granted" => Whole(j, ReplyCells)'
                   /\ connected'[j] /\ terms'[j] # "changed" => Whole(j, HeaderCells)'
<1> USE DEF TemplateInv, InLoop, SessGoto, Whole
<1>t. /\ connected \in [Kinds -> BOOLEAN] /\ sess \in [Kinds -> SessPc]
      /\ blob \in [Kinds -> [Cells -> Texts]]
      /\ terms \in [Kinds -> {"none", "granted", "changed"}]
  BY DEF IInv, TypeOK
<1>c. HeaderCells \subseteq Cells /\ ReplyCells \subseteq Cells
  BY DEF Cells
<1>h. blob[j] = NoBlob => ~Whole(j, HeaderCells)
  BY DEF NoBlob, Cells, HeaderCells
<1>g. ASSUME NEW k \in Kinds, Granted(k), terms[k] = "none" \/ ~connected[k],
             UNCHANGED connected, sess' = [sess EXCEPT ![k] = "check"]
      PROVE  Goal
  <2>1. CASE k = j
    <3>1. \A c \in ReplyCells : blob'[j][c] = c
      BY <1>g, <2>1, <1>t, <1>c DEF Granted, Put
    <3>2. connected[j] => \A c \in HeaderCells : blob'[j][c] = c
      BY <1>g, <2>1, <1>t, <1>c, <1>h DEF Granted, Put
    <3> QED BY <1>g, <1>t, <2>1, <3>1, <3>2
  <2>2. CASE k # j
    BY <1>g, <1>t, <2>2 DEF Granted
  <2> QED BY <2>1, <2>2
<1>1. ASSUME NEW k \in Kinds, Connect(k) PROVE Goal
  BY <1>1, <1>t DEF Connect
<1>2. ASSUME NEW k \in Kinds, Loop(k) PROVE Goal
  BY <1>2, <1>t DEF Loop, TimesOut, GivesUp, BeginRead, ReadFails, ReadExpires
<1>10. ASSUME NEW k \in Kinds, Leaves(k) PROVE Goal
  <2>1. UNCHANGED <<connected, blob, terms>> /\ sess[k] = "leaving"
    BY <1>10 DEF Leaves, Leave, ShutdownThrows
  <2>2. \E t \in SessPc : sess' = [sess EXCEPT ![k] = t]
    BY <1>10 DEF Leaves, Leave, ShutdownThrows, SessPc
  <2> QED BY <2>1, <2>2, <1>t
<1>3. ASSUME NEW k \in Kinds, Subscribed(k) PROVE Goal
  <2>1. ~connected[k] /\ UNCHANGED connected /\ sess' = [sess EXCEPT ![k] = "check"]
    BY <1>3 DEF Subscribed
  <2>2. CASE Granted(k) BY <2>1, <2>2, <1>g
  <2>3. CASE UNCHANGED <<blob, terms>> BY <2>1, <2>3, <1>t
  <2> QED BY <1>3, <2>2, <2>3 DEF Subscribed
<1>4. ASSUME NEW k \in Kinds, LateReply(k) PROVE Goal
  BY <1>4, <1>g DEF LateReply
<1>5. ASSUME NEW k \in Kinds, NEW clean \in BOOLEAN, Notify(k, clean) PROVE Goal
  <2>1. sess' = [sess EXCEPT ![k] = "check"] /\ terms' = terms
    BY <1>5 DEF Notify
  <2>2. CASE UNCHANGED <<connected, userHeight, blob>>
    BY <2>1, <2>2, <1>t
  <2>3. CASE /\ blob' = [blob EXCEPT ![k] = Put(@, HeaderCells)]
             /\ connected' = [connected EXCEPT ![k] = TRUE]
    <3>1. \A c \in Cells : blob'[k][c] = IF c \in HeaderCells THEN c ELSE blob[k][c]
      BY <2>3, <1>t DEF Put
    <3>2. CASE k = j BY <2>1, <2>3, <3>1, <3>2, <1>t, <1>c
    <3>3. CASE k # j BY <2>1, <2>3, <3>3, <1>t
    <3> QED BY <3>2, <3>3
  <2> QED BY <1>5, <2>2, <2>3 DEF Notify
<1>6. ASSUME NEW k \in Kinds, SetExtraNonce(k) PROVE Goal
  BY <1>6, <1>t DEF SetExtraNonce
<1>7. ASSUME NEW k \in Kinds, LoginFails(k) \/ PoolCloses(k) \/ OtherPacket(k) \/ PongFails(k)
      PROVE  Goal
  BY <1>7, <1>t DEF LoginFails, PoolCloses, OtherPacket, PongFails,
                    GivesUp
<1>8. ASSUME Tick \/ UNCHANGED vars PROVE Goal
  BY <1>8 DEF Tick, vars
<1>9. Goal
  <2> HIDE DEF Goal
  <2>1. ASSUME NEW k \in Kinds, Pool(k) PROVE Goal
    <3>1. CASE Subscribed(k) BY <3>1, <1>3
    <3>2. CASE LateReply(k) BY <3>2, <1>4
    <3>3. CASE \E clean \in BOOLEAN : Notify(k, clean) BY <3>3, <1>5
    <3>4. CASE SetExtraNonce(k) BY <3>4, <1>6
    <3>5. CASE LoginFails(k) \/ PoolCloses(k) \/ OtherPacket(k) \/ PongFails(k)
      BY <3>5, <1>7
    <3> QED BY <2>1, <3>1, <3>2, <3>3, <3>4, <3>5 DEF Pool
  <2>2. CASE \E k \in Kinds : Connect(k) \/ Loop(k) \/ Leaves(k) \/ Pool(k)
    BY <1>1, <1>2, <1>10, <2>1, <2>2
  <2> QED BY <2>2, <1>8 DEF Next
<1> QED BY <1>9

\* The variables of a session keep their types: no text but those the packets write
\* stands in a template, and no clock or time-out leaves its range.
THEOREM XelisTypeCorrect == Spec => []TypeOK
  BY XelisInvariant, PTL DEF IInv

\* While the miners may hash, the template holds what this session's pool sent, and
\* nothing that an earlier session left in miner_work (which is never cleared).
THEOREM TemplateIsWhole == Spec => []TemplateWhole
<1>1. Init => TemplateInv
  BY DEF Init, TemplateInv
<1>2. IInv /\ TemplateInv => TemplateWhole
  <2> SUFFICES ASSUME IInv, TemplateInv, NEW k \in Kinds, connected[k], terms[k] = "granted"
               PROVE  blob[k] = [c \in Cells |-> c]
    BY DEF TemplateWhole
  <2>1. blob[k] \in [Cells -> Texts]
    BY DEF IInv, TypeOK
  <2>2. \A c \in Cells : blob[k][c] = c
    BY DEF TemplateInv, Whole, Cells
  <2> QED BY <2>1, <2>2
<1> QED BY <1>1, <1>2, XelisInvariant, TemplateInductive, PTL DEF Spec
=============================================================================
