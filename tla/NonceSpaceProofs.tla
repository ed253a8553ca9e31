--------------------------- MODULE NonceSpaceProofs ---------------------------
(***************************************************************************)
(* The fields of a nonce do not run into each other, and a count that only *)
(* goes forward gives every nonce once, for any number of threads and any  *)
(* widths of the fields.                                                   *)
(***************************************************************************)
EXTENDS NonceSpace, TLAPS

-----------------------------------------------------------------------------
\* Arithmetic.

\* Two words with a low field below T are equal only if both their fields are.
LEMMA FieldsApart ==
  ASSUME NEW T \in Nat \ {0}, NEW a \in 0..(T - 1), NEW b \in 0..(T - 1),
         NEW x \in Int, NEW y \in Int, a + T * x = b + T * y
  PROVE  a = b /\ x = y
<1>1. \A u, v \in Int : u < v => T * v >= T * u + T
  <2> TAKE u, v \in Int
  <2> HAVE u < v
  <2>1. T * (v - u - 1) >= 0 OBVIOUS
  <2>2. T * (v - u - 1) = T * v - T * u - T OBVIOUS
  <2> QED BY <2>1, <2>2
<1>2. ~(x < y) BY <1>1
<1>3. ~(y < x) BY <1>1
<1> QED BY <1>2, <1>3

LEMMA Remainder ==
  ASSUME NEW T \in Nat \ {0}, NEW c \in Nat
  PROVE  c % T \in 0..(T - 1) /\ c = T * (c \div T) + (c % T) /\ c \div T \in Nat
  OBVIOUS

\* What is above a field of width Q is read back by a division.
LEMMA TopField ==
  ASSUME NEW Q \in Nat \ {0}, NEW e \in Nat, NEW r \in 0..(Q - 1)
  PROVE  (r + Q * e) \div Q = e
<1> DEFINE n == r + Q * e
           q == n \div Q
           s == n % Q
<1>1. n \in Nat OBVIOUS
<1>2. s \in 0..(Q - 1) /\ n = Q * q + s /\ q \in Nat
  <2> HIDE DEF n
  <2> QED BY <1>1, Remainder
<1> HIDE DEF q, s
<1>3. s + Q * q = r + Q * e BY <1>2
<1>4. q = e BY <1>2, <1>3, FieldsApart
<1> QED BY <1>4 DEF q

-----------------------------------------------------------------------------
\* What Word lays out, read as fields.

LEMMA WordFields ==
  ASSUME NEW m \in Miners, NEW r \in 0..(RandSpan - 1), NEW c \in Nat,
         NEW e \in ExtraNonces \cup {NoExtra}
  PROVE  /\ Word(m, r, c, e) \in Nat
         /\ \E x \in Nat : Word(m, r, c, e) = m + TidSpan * x
<1> USE NonceAssumption DEF NonceAssumption
<1>1. m \in Nat OBVIOUS
<1>2. CASE e = NoExtra
  <2>1. c % CountSpan \in Nat BY Remainder
  <2>2. r + RandSpan * (c % CountSpan) \in Nat
    <3> DEFINE k == c % CountSpan
    <3>1. k \in Nat BY <2>1
    <3> HIDE DEF k
    <3>2. RandSpan * k \in Nat BY <3>1
    <3> QED BY <3>2 DEF k
  <2> DEFINE x == r + RandSpan * (c % CountSpan)
  <2>3. x \in Nat BY <2>2
  <2>4. Word(m, r, c, e) = m + TidSpan * x BY <1>2 DEF Word
  <2> HIDE DEF x
  <2>5. m + TidSpan * x \in Nat BY <1>1, <2>3
  <2> QED BY <2>3, <2>4, <2>5
<1>3. CASE e # NoExtra
  <2>1. c % ExtraSpan \in Nat BY Remainder
  <2> DEFINE x == (c % ExtraSpan) + ExtraSpan * e
  <2>2. e \in Nat BY <1>3
  <2>3. x \in Nat
    <3>1. ExtraSpan * e \in Nat BY <2>2
    <3> QED BY <2>1, <3>1
  <2>4. Word(m, r, c, e) = m + TidSpan * x BY <1>3 DEF Word
  <2> HIDE DEF x
  <2>5. m + TidSpan * x \in Nat BY <1>1, <2>3
  <2> QED BY <2>3, <2>4, <2>5
<1> QED BY <1>2, <1>3

LEMMA WordExtra ==
  ASSUME NEW m \in Miners, NEW r, NEW c \in Nat, NEW e \in ExtraNonces, e # NoExtra
  PROVE  Word(m, r, c, e) \div (TidSpan * ExtraSpan) = e
<1> USE NonceAssumption DEF NonceAssumption
<1> DEFINE k == c % ExtraSpan
           Q == TidSpan * ExtraSpan
           low == m + TidSpan * k
<1>1. k \in 0..(ExtraSpan - 1) BY Remainder
<1>2. Word(m, r, c, e) = m + TidSpan * (k + ExtraSpan * e) BY DEF Word
<1> HIDE DEF k
<1>3. m \in 0..(TidSpan - 1) /\ e \in Nat OBVIOUS
<1>4. Q \in Nat \ {0} OBVIOUS
<1>5. low \in 0..(Q - 1)
  <2>1. TidSpan * k \in Nat BY <1>1
  <2>2. TidSpan * (ExtraSpan - 1 - k) \in Nat BY <1>1
  <2>3. TidSpan * (ExtraSpan - 1 - k) = Q - TidSpan - TidSpan * k BY <1>1
  <2> QED BY <1>1, <1>3, <1>4, <2>1, <2>2, <2>3
<1>6. m + TidSpan * (k + ExtraSpan * e) = low + Q * e BY <1>1, <1>3
<1> HIDE DEF low, Q
<1>7. (low + Q * e) \div Q = e BY <1>3, <1>4, <1>5, TopField
<1> QED BY <1>2, <1>6, <1>7 DEF Q

\* Counts from 1 to the width of their field give words of their own.
LEMMA WordCounts ==
  ASSUME NEW m \in Miners, NEW r \in 0..(RandSpan - 1), NEW s \in 0..(RandSpan - 1),
         NEW c \in Nat, NEW d \in Nat, 1 <= c, c < d, d <= CountSpan,
         NEW e \in ExtraNonces \cup {NoExtra}, e # NoExtra => d <= ExtraSpan
  PROVE  Word(m, r, c, e) # Word(m, s, d, e)
<1> USE NonceAssumption DEF NonceAssumption
<1>1. ASSUME NEW T \in Nat \ {0}, d <= T, c % T = d % T PROVE FALSE
  <2> DEFINE p == c \div T
             q == d \div T
             k == c % T
  <2>1. k \in 0..(T - 1) /\ p \in Nat /\ q \in Nat /\ c = T * p + k /\ d = T * q + k
    BY <1>1, Remainder
  <2> HIDE DEF p, q, k
  <2>2. d - c = T * (q - p) BY <2>1
  <2>3. q > p BY <2>1, <2>2
  <2>4. T * (q - p) >= T
    <3>1. T * (q - p - 1) >= 0 BY <2>1, <2>3
    <3>2. T * (q - p - 1) = T * (q - p) - T BY <2>1
    <3> QED BY <2>1, <3>1, <3>2
  <2> QED BY <1>1, <2>1, <2>2, <2>4
<1>2. CASE e = NoExtra
  <2> DEFINE k == c % CountSpan
             l == d % CountSpan
  <2>1. k \in 0..(CountSpan - 1) /\ l \in 0..(CountSpan - 1) BY Remainder
  <2>2. k # l BY <1>1
  <2>3. /\ Word(m, r, c, e) = m + TidSpan * (r + RandSpan * k)
        /\ Word(m, s, d, e) = m + TidSpan * (s + RandSpan * l)
    BY <1>2 DEF Word
  <2> HIDE DEF k, l
  <2> DEFINE x == r + RandSpan * k
             y == s + RandSpan * l
  <2>4. x \in Int /\ y \in Int BY <2>1
  <2>5. x # y BY <2>1, <2>2, FieldsApart
  <2> HIDE DEF x, y
  <2>6. m + TidSpan * x # m + TidSpan * y BY <2>4, <2>5, FieldsApart
  <2> QED BY <2>3, <2>6 DEF x, y
<1>3. CASE e # NoExtra
  <2> DEFINE k == c % ExtraSpan
             l == d % ExtraSpan
  <2>1. k \in 0..(ExtraSpan - 1) /\ l \in 0..(ExtraSpan - 1) BY Remainder
  <2>2. k # l BY <1>1, <1>3
  <2>3. /\ Word(m, r, c, e) = m + TidSpan * (k + ExtraSpan * e)
        /\ Word(m, s, d, e) = m + TidSpan * (l + ExtraSpan * e)
    BY <1>3 DEF Word
  <2> HIDE DEF k, l
  <2> DEFINE x == k + ExtraSpan * e
             y == l + ExtraSpan * e
  <2>4. x \in Int /\ y \in Int BY <1>3, <2>1
  <2>5. x # y BY <1>3, <2>1, <2>2
  <2> HIDE DEF x, y
  <2>6. m + TidSpan * x # m + TidSpan * y BY <2>4, <2>5, FieldsApart
  <2> QED BY <2>3, <2>6 DEF x, y
<1> QED BY <1>2, <1>3

-----------------------------------------------------------------------------
\* Types.

LEMMA InitType == Init => TypeOK
<1> USE NonceAssumption DEF NonceAssumption
<1> SUFFICES ASSUME Init PROVE TypeOK
  OBVIOUS
<1>1. [number |-> 0, extra |-> NoExtra] \in Copied
  BY DEF Init, Copied
<1>2. myJob \in [Miners -> Copied] BY <1>1 DEF Init
<1>3. hashed \in [Miners -> SUBSET Hashes] BY DEF Init
<1>4. pc \in [Miners -> Pc] BY DEF Init, Pc
<1>5. /\ announcing \in BOOLEAN /\ devUp \in BOOLEAN /\ lost \in BOOLEAN
      /\ myDev \in [Miners -> BOOLEAN]
  BY DEF Init
<1>6. /\ job = 1 /\ extra = NoExtra /\ height = 1 /\ jobCounter = 1 /\ nonce0 = 0
      /\ style \in Styles /\ twice = {} /\ threw = {}
      /\ own = [m \in Miners |-> 0] /\ loaded = [m \in Miners |-> 0]
      /\ work = [m \in Miners |-> 0]
      /\ localHeight = [m \in Miners |-> 0] /\ localCounter = [m \in Miners |-> 0]
  BY DEF Init
<1> QED BY <1>2, <1>3, <1>4, <1>5, <1>6 DEF TypeOK

\* A step of one thread in the types of the functions over threads.
LEMMA SessionType == TypeOK /\ Session => TypeOK'
<1> SUFFICES ASSUME TypeOK, Session PROVE TypeOK'
  OBVIOUS
<1> USE DEF TypeOK
<1>1. CASE Announce
  <2>1. UNCHANGED <<style, job, extra, height, jobCounter, devUp, pc, own, copies, work,
                    loaded, hashed, twice, threw>>
    BY <1>1 DEF Announce
  <2>2. nonce0' \in Nat BY <1>1 DEF Announce
  <2>3. lost' \in BOOLEAN /\ announcing' \in BOOLEAN BY <1>1, Zenon DEF Announce
  <2> QED BY <2>1, <2>2, <2>3 DEF copies, Copied
<1>2. CASE Publish
  <2>1. Copied \subseteq Copied' BY <1>2 DEF Publish, Copied
  <2>2. UNCHANGED <<style, extra, devUp, nonce0, pc, own, myJob, myDev, localHeight,
                    localCounter, work, loaded, lost>>
    BY <1>2 DEF Publish, copies
  <2>3. job' = job + 1 /\ height' = height + 1 /\ jobCounter' = jobCounter + 1
        /\ announcing' = FALSE /\ hashed' = [m \in Miners |-> {}] /\ twice' = {}
        /\ threw' = {}
    BY <1>2 DEF Publish
  <2>4. myJob' \in [Miners -> Copied'] BY <2>1, <2>2
  <2>5. work' \in [Miners -> 0..job'] BY <2>2, <2>3
  <2>6. hashed' \in [Miners -> SUBSET Hashes] BY <2>3
  <2>7. height' \in Nat /\ jobCounter' \in Nat /\ job' \in Nat BY <2>3
  <2>8. announcing' \in BOOLEAN /\ twice' \subseteq Miners /\ threw' \subseteq Miners BY <2>3
  <2> QED BY <2>2, <2>4, <2>5, <2>6, <2>7, <2>8
<1>3. CASE \E e \in ExtraNonces : SetExtraNonce(e)
  BY <1>3 DEF SetExtraNonce, copies, history, Copied
<1>4. CASE OtherJob BY <1>4 DEF OtherJob, copies, history, Copied
<1>5. CASE DevJob BY <1>5 DEF DevJob, copies, history, Copied
<1> QED BY <1>1, <1>2, <1>3, <1>4, <1>5 DEF Session

LEMMA MinerType ==
  ASSUME TypeOK, NEW m \in Miners, Miner(m)
  PROVE  TypeOK'
<1> USE DEF TypeOK, Pc, Goto
<1>1. CASE Copy(m)
  <2>1. [number |-> job, extra |-> extra] \in Copied BY DEF Copied
  <2>2. myJob' \in [Miners -> Copied] BY <1>1, <2>1 DEF Copy
  <2>3. Copied' = Copied BY <1>1 DEF Copy, published, Copied
  <2>4. myDev' \in [Miners -> BOOLEAN] BY <1>1 DEF Copy
  <2> HIDE DEF Copied
  <2> QED BY <1>1, <2>2, <2>3, <2>4 DEF Copy, published, history
<1>2. CASE Test(m)
  <2>1. myJob[m].number \in 0..job BY DEF Copied
  <2>2. Copied' = Copied BY <1>2 DEF Test, published, Copied
  <2> HIDE DEF Copied
  <2> QED BY <1>2, <2>1, <2>2 DEF Test, published, copies, history
<1> USE DEF Copied
<1>3. CASE Label(m)
  <2>1. pc' \in [Miners -> Pc] BY <1>3 DEF Label
  <2> QED BY <1>3, <2>1 DEF Label, published, history
<1>4. CASE Reset(m) BY <1>4 DEF Reset, published, copies, history
<1>5. CASE Leave(m) BY <1>5 DEF Leave, published, copies, history
<1>6. CASE Load(m) BY <1>6 DEF Load, Count, published, copies, history
<1>7. CASE Store(m)
  <2>1. loaded[m] + 1 \in Nat OBVIOUS
  <2>2. UNCHANGED <<style, published, copies, work, hashed, twice, threw>> BY <1>7 DEF Store
  <2>3. pc' \in [Miners -> Pc] /\ loaded' \in [Miners -> Nat] BY <1>7 DEF Store
  <2>4. nonce0' \in Nat /\ own' \in [Miners -> Nat] /\ lost' \in BOOLEAN
    <3>1. CASE Sharing BY <1>7, <2>1, <3>1 DEF Store
    <3>2. CASE ~Sharing BY <1>7, <2>1, <3>2 DEF Store
    <3> QED BY <3>1, <3>2
  <2> QED BY <2>2, <2>3, <2>4 DEF published, copies
<1>8. ASSUME NEW r \in 0..(RandSpan - 1), Use(m, r) PROVE TypeOK'
  <2>1. UNCHANGED <<style, published, nonce0, own, copies, work, loaded, threw, lost>>
    BY <1>8 DEF Use
  <2>2. pc' \in [Miners -> Pc] BY <1>8 DEF Use
  <2>3. hashed' \in [Miners -> SUBSET Hashes] /\ twice' \subseteq Miners
    <3>1. Count(m) \in Nat BY DEF Count
    <3> DEFINE h == [extra |-> myJob[m].extra,
                     word |-> Word(m, r, Count(m), myJob[m].extra)]
    <3>2. h \in Hashes
      <4>1. myJob[m].extra \in ExtraNonces \cup {NoExtra} OBVIOUS
      <4> QED BY <3>1, <4>1, WordFields DEF Hashes
    <3>3. Record(m, h) \/ UNCHANGED <<hashed, twice>> BY <1>8 DEF Use
    <3> HIDE DEF h
    <3> QED BY <3>2, <3>3 DEF Record
  <2> QED BY <2>1, <2>2, <2>3 DEF published, copies
<1>9. CASE Throws(m)
  <2>1. pc' \in [Miners -> Pc] /\ threw' \subseteq Miners BY <1>9 DEF Throws
  <2>2. /\ localHeight' \in [Miners -> Nat \cup {-1}]
        /\ localCounter' \in [Miners -> Nat \cup {-1}]
    BY <1>9 DEF Throws
  <2> QED BY <1>9, <2>1, <2>2 DEF Throws, published
<1> QED BY <1>1, <1>2, <1>3, <1>4, <1>5, <1>6, <1>7, <1>8, <1>9 DEF Miner

LEMMA StepType == TypeOK /\ [Next]_vars => TypeOK'
<1> SUFFICES ASSUME TypeOK, [Next]_vars PROVE TypeOK'
  OBVIOUS
<1>1. CASE Session BY <1>1, SessionType
<1>2. CASE \E m \in Miners : Miner(m) BY <1>2, MinerType
<1>3. CASE UNCHANGED vars
  BY <1>3 DEF TypeOK, Copied, vars, published, copies, history
<1> QED BY <1>1, <1>2, <1>3 DEF Next

\* Every variable keeps its type; a word is a natural number whatever wraps around.
THEOREM NonceTypeCorrect == Spec => []TypeOK
  BY InitType, StepType, PTL DEF Spec

-----------------------------------------------------------------------------
\* Every word hashed for the current job was laid out by Word for the thread that
\* hashed it.
WordsLaidOut ==
  \A m \in Miners : \A h \in hashed[m] :
    \E r \in 0..(RandSpan - 1), c \in Nat : h.word = Word(m, r, c, h.extra)

\* Heights and job numbers move together; no miner is ahead of what was published.
Clocks ==
  /\ height = job
  /\ \A m \in Miners : localHeight[m] <= height /\ localCounter[m] <= jobCounter

\* Each word hashed by m belongs to a count from 1 to the present one, and to one
\* below it when m is about to hash with the present one.
Counted(m) ==
  \A h \in hashed[m] : \E r \in 0..(RandSpan - 1), c \in 1..Count(m) :
    /\ h.word = Word(m, r, c, h.extra)
    /\ pc[m] = "use" => c < Count(m)

\* A miner with a count of its own decodes a job once, so the count does not start
\* again while there are words of the job.
Once(m) ==
  /\ pc[m] # "label" /\ work[m] = job => localHeight[m] = height
  /\ hashed[m] # {} => work[m] = job /\ pc[m] # "label"
  /\ Counted(m)
  /\ m \in twice => hashed[m] # {} /\ own[m] > CountSpan

\* What its increments do to the count whether it has thrown or not.
Increments(m) ==
  /\ pc[m] = "store" => loaded[m] = own[m]
  /\ pc[m] = "use" => own[m] >= 1
  /\ \A h \in hashed[m] : h.extra = NoExtra

\* A throw is over with the next job.
OwnCount(m) == Increments(m) /\ (m \notin threw => Once(m))

OwnCounts ==
  style = "perJob" =>
    /\ extra = NoExtra
    /\ \A m \in Miners : myJob[m].extra = NoExtra /\ OwnCount(m)

\* Only the session sets the shared count back, before it publishes, and every
\* miner that is in the middle of a nonce then is told so by jobCounter.
SharedCount(m) ==
  /\ pc[m] # "reset"
  /\ ~announcing /\ pc[m] = "use" /\ localCounter[m] = jobCounter => nonce0 >= 1
  /\ ~announcing /\ ~lost => Counted(m)
  /\ Forward(m) => m \notin twice

SharedCounts == style = "shared" => \A m \in Miners : SharedCount(m)

IInv == TypeOK /\ WordsLaidOut /\ Clocks /\ OwnCounts /\ SharedCounts

LEMMA InitRest == Init => WordsLaidOut /\ Clocks /\ OwnCounts /\ SharedCounts
<1> SUFFICES ASSUME Init PROVE WordsLaidOut /\ Clocks /\ OwnCounts /\ SharedCounts
  OBVIOUS
<1>1. \A m \in Miners : hashed[m] = {} /\ pc[m] = "copy" /\ work[m] # job
  <2>1. \A m \in Miners : hashed[m] = {} BY DEF Init
  <2>2. \A m \in Miners : pc[m] = "copy" BY DEF Init
  <2>3. \A m \in Miners : work[m] # job
    <3>1. work = [m \in Miners |-> 0] /\ job = 1 BY DEF Init
    <3>2. \A m \in Miners : work[m] = 0 BY <3>1
    <3>3. 0 # job BY <3>1
    <3> QED BY <3>2, <3>3, Zenon
  <2> QED BY <2>1, <2>2, <2>3, Zenon
<1>2. \A m \in Miners : myJob[m].extra = NoExtra BY DEF Init
<1>3. twice = {} /\ extra = NoExtra BY DEF Init
<1>4. WordsLaidOut BY <1>1 DEF WordsLaidOut
<1>5. Clocks BY DEF Init, Clocks
<1>6. \A m \in Miners : Counted(m) BY <1>1 DEF Counted
<1>7. OwnCounts BY <1>1, <1>2, <1>3, <1>6 DEF OwnCounts, OwnCount, Increments, Once
<1>8. SharedCounts BY <1>1, <1>3, <1>6 DEF SharedCounts, SharedCount
<1> QED BY <1>4, <1>5, <1>7, <1>8

-----------------------------------------------------------------------------
\* What a thread's step leaves alone, and what it records.

LEMMA OthersKept ==
  ASSUME TypeOK, NEW m \in Miners, Miner(m), NEW o \in Miners, o # m
  PROVE  /\ UNCHANGED <<style, job, extra, height, jobCounter, announcing>>
         /\ (o \in threw' <=> o \in threw)
         /\ pc'[o] = pc[o] /\ own'[o] = own[o] /\ loaded'[o] = loaded[o]
         /\ work'[o] = work[o] /\ localHeight'[o] = localHeight[o]
         /\ localCounter'[o] = localCounter[o] /\ myJob'[o] = myJob[o]
         /\ hashed'[o] = hashed[o] /\ (o \in twice' <=> o \in twice)
<1> USE DEF TypeOK, Goto, published, copies, history
<1>1. CASE Copy(m) BY <1>1 DEF Copy
<1>2. CASE Test(m) BY <1>2 DEF Test
<1>3. CASE Label(m) BY <1>3 DEF Label
<1>4. CASE Reset(m) BY <1>4 DEF Reset
<1>5. CASE Leave(m) BY <1>5 DEF Leave
<1>6. CASE Load(m) BY <1>6 DEF Load
<1>7. CASE Store(m)
  <2>1. own'[o] = own[o] BY <1>7 DEF Store
  <2> QED BY <1>7, <2>1 DEF Store
<1>8. CASE \E r \in 0..(RandSpan - 1) : Use(m, r)
  <2>1. hashed'[o] = hashed[o] /\ (o \in twice' <=> o \in twice)
    BY <1>8 DEF Use, Record
  <2> QED BY <1>8, <2>1 DEF Use
<1>9. CASE Throws(m) BY <1>9 DEF Throws
<1> QED BY <1>1, <1>2, <1>3, <1>4, <1>5, <1>6, <1>7, <1>8, <1>9 DEF Miner

LEMMA WordsRecorded ==
  ASSUME TypeOK, NEW m \in Miners, Miner(m)
  PROVE  \/ UNCHANGED <<hashed, twice>>
         \/ \E r \in 0..(RandSpan - 1) : Use(m, r)
BY DEF Miner, Copy, Test, Label, Reset, Throws, Leave, Load, Store, history

\* The word that is recorded, if one is.
LEMMA UseRecords ==
  ASSUME TypeOK, NEW m \in Miners, NEW r \in 0..(RandSpan - 1), Use(m, r),
         NEW h \in hashed'[m], h \notin hashed[m]
  PROVE  /\ h.word = Word(m, r, Count(m), h.extra) /\ h.extra = myJob[m].extra
         /\ work[m] = job /\ pc[m] = "use" /\ pc'[m] = "loop" /\ Count(m) \in Nat
         /\ style # "perCopy" => localCounter[m] = jobCounter
<1> USE DEF TypeOK
<1> DEFINE k == [extra |-> myJob[m].extra,
                 word |-> Word(m, r, Count(m), myJob[m].extra)]
<1>1. Record(m, k) /\ Goto(m, "use", "loop")
      /\ (style # "perCopy" => localCounter[m] = jobCounter)
  BY DEF Use
<1>2. work[m] = job /\ h \in hashed[m] \cup {k} BY <1>1 DEF Record
<1>3. h = k BY <1>2
<1>4. Count(m) \in Nat BY DEF Count
<1> QED BY <1>1, <1>2, <1>3, <1>4 DEF Goto

\* A miner that hashes a word again finds it among those recorded.
LEMMA UseRepeats ==
  ASSUME TypeOK, NEW m \in Miners, NEW r \in 0..(RandSpan - 1), Use(m, r),
         m \in twice', m \notin twice
  PROVE  \E h \in hashed[m] :
            /\ h.word = Word(m, r, Count(m), h.extra)
            /\ pc[m] = "use" /\ hashed'[m] # {}
            /\ style # "perCopy" => localCounter[m] = jobCounter
<1> USE DEF TypeOK
<1> DEFINE k == [extra |-> myJob[m].extra,
                 word |-> Word(m, r, Count(m), myJob[m].extra)]
<1>1. Record(m, k) /\ Goto(m, "use", "loop")
      /\ (style # "perCopy" => localCounter[m] = jobCounter)
  BY DEF Use
<1>2. k \in hashed[m] /\ hashed' = [hashed EXCEPT ![m] = @ \cup {k}]
  <2> HIDE DEF k
  <2> QED BY <1>1 DEF Record
<1>3. k.word = Word(m, r, Count(m), k.extra) OBVIOUS
<1>4. k \in hashed'[m]
  <2> HIDE DEF k
  <2> QED BY <1>2
<1> HIDE DEF k
<1> QED BY <1>1, <1>2, <1>3, <1>4 DEF Goto

-----------------------------------------------------------------------------
\* Words and clocks.

LEMMA StepWords == TypeOK /\ WordsLaidOut /\ [Next]_vars => WordsLaidOut'
<1> SUFFICES ASSUME TypeOK, WordsLaidOut, [Next]_vars PROVE WordsLaidOut'
  OBVIOUS
<1>1. CASE UNCHANGED hashed BY <1>1 DEF WordsLaidOut
<1>2. CASE hashed' = [m \in Miners |-> {}] BY <1>2 DEF WordsLaidOut
<1>3. ASSUME NEW m \in Miners, Miner(m) PROVE WordsLaidOut'
  <2> SUFFICES ASSUME NEW o \in Miners, NEW h \in hashed'[o]
               PROVE  \E s \in 0..(RandSpan - 1), c \in Nat : h.word = Word(o, s, c, h.extra)
    BY DEF WordsLaidOut
  <2>1. CASE h \in hashed[o] BY <2>1 DEF WordsLaidOut
  <2>2. CASE h \notin hashed[o]
    <3>1. o = m BY <1>3, <2>2, OthersKept
    <3>2. PICK r \in 0..(RandSpan - 1) : Use(m, r) BY <1>3, <2>2, WordsRecorded
    <3> QED BY <2>2, <3>1, <3>2, UseRecords
  <2> QED BY <2>1, <2>2
<1>4. Session \/ UNCHANGED vars => UNCHANGED hashed \/ hashed' = [m \in Miners |-> {}]
  BY DEF Session, Announce, Publish, OtherJob, DevJob, SetExtraNonce, history, vars
<1> QED BY <1>1, <1>2, <1>3, <1>4 DEF Next

LEMMA StepClocks == TypeOK /\ Clocks /\ [Next]_vars => Clocks'
<1> SUFFICES ASSUME TypeOK, Clocks, [Next]_vars PROVE Clocks'
  OBVIOUS
<1> USE DEF Clocks
<1>1. CASE Session
  <2>1. UNCHANGED copies BY <1>1 DEF Session, Announce, Publish, OtherJob, DevJob, SetExtraNonce
  <2>2. \/ UNCHANGED <<job, height>> /\ jobCounter' \in {jobCounter, jobCounter + 1}
        \/ job' = job + 1 /\ height' = height + 1 /\ jobCounter' = jobCounter + 1
    BY <1>1 DEF Session, Announce, Publish, OtherJob, DevJob, SetExtraNonce
  <2> QED BY <2>1, <2>2 DEF copies, TypeOK
<1>2. ASSUME NEW m \in Miners, Miner(m) PROVE Clocks'
  <2>1. UNCHANGED <<job, height, jobCounter>>
    BY <1>2 DEF Miner, Copy, Test, Label, Reset, Throws, Leave, Load, Store, Use, published
  <2>2. localHeight'[m] \in {localHeight[m], height, -1}
        /\ localCounter'[m] \in {localCounter[m], jobCounter, -1}
    BY <1>2 DEF Miner, Copy, Test, Label, Reset, Throws, Leave, Load, Store, Use, copies, TypeOK
  <2> QED BY <1>2, <2>1, <2>2, OthersKept DEF TypeOK
<1>3. CASE UNCHANGED vars BY <1>3 DEF vars, published, copies
<1> QED BY <1>1, <1>2, <1>3 DEF Next

-----------------------------------------------------------------------------
\* The counts of a thread's own.

LEMMA OwnCountKept ==
  ASSUME NEW o \in Miners, OwnCount(o), style = "perJob", UNCHANGED <<style, job, height>>,
         pc'[o] = pc[o], own'[o] = own[o], loaded'[o] = loaded[o], work'[o] = work[o],
         localHeight'[o] = localHeight[o], hashed'[o] = hashed[o],
         o \in twice' <=> o \in twice, o \in threw' <=> o \in threw
  PROVE  OwnCount(o)'
<1>1. Counted(o) => Counted(o)' BY DEF Counted, Count, Sharing
<1>2. Once(o) => Once(o)' BY <1>1 DEF Once
<1>3. Increments(o)' BY DEF OwnCount, Increments
<1> QED BY <1>2, <1>3 DEF OwnCount

LEMMA IncrementsStep ==
  ASSUME TypeOK, style = "perJob", NEW m \in Miners, Miner(m), Increments(m),
         myJob[m].extra = NoExtra
  PROVE  Increments(m)'
<1> USE DEF TypeOK, Goto
<1>1. Count(m) = own[m] BY DEF Count, Sharing
<1>2. CASE ~\E r \in 0..(RandSpan - 1) : Use(m, r)
  <2>1. UNCHANGED hashed BY <1>2, WordsRecorded
  <2>2. pc'[m] = "store" => loaded'[m] = own'[m]
    BY <1>1, <1>2 DEF Miner, Copy, Test, Label, Reset, Throws, Leave, Load, Store, Increments
  <2>3. pc'[m] = "use" => own'[m] >= 1
    BY <1>2 DEF Miner, Copy, Test, Label, Reset, Throws, Leave, Load, Store, Sharing
  <2> QED BY <2>1, <2>2, <2>3 DEF Increments
<1>3. ASSUME NEW r \in 0..(RandSpan - 1), Use(m, r) PROVE Increments(m)'
  <2>1. pc'[m] \in {"copy", "loop"} BY <1>3 DEF Use
  <2>2. ASSUME NEW h \in hashed'[m], h \notin hashed[m] PROVE h.extra = NoExtra
    BY <1>3, <2>2, UseRecords
  <2> QED BY <2>1, <2>2 DEF Increments
<1> QED BY <1>2, <1>3

LEMMA OnceStep ==
  ASSUME TypeOK, Clocks, style = "perJob", NEW m \in Miners, Miner(m), Increments(m),
         Once(m), myJob[m].extra = NoExtra, m \notin threw'
  PROVE  Once(m)'
<1> USE DEF TypeOK, Goto
<1>1. style' = style /\ job' = job /\ height' = height
  BY DEF Miner, Copy, Test, Label, Reset, Throws, Leave, Load, Store, Use, published
<1>2. Count(m) = own[m] /\ Count(m)' = own'[m] BY <1>1 DEF Count, Sharing
<1>3. ASSUME UNCHANGED <<hashed, twice>>, own'[m] >= own[m], own'[m] \in Nat,
             pc'[m] = "use" => own'[m] > own[m] \/ pc[m] = "use"
      PROVE  /\ Counted(m)'
             /\ m \in twice' => hashed'[m] # {} /\ own'[m] > CountSpan
  <2>1. Counted(m)'
    <3> SUFFICES ASSUME NEW h \in hashed[m]
                 PROVE  \E r \in 0..(RandSpan - 1), c \in 1..own'[m] :
                          /\ h.word = Word(m, r, c, h.extra)
                          /\ pc'[m] = "use" => c < own'[m]
      BY <1>2, <1>3 DEF Counted
    <3>1. PICK r \in 0..(RandSpan - 1), c \in 1..own[m] :
            /\ h.word = Word(m, r, c, h.extra)
            /\ pc[m] = "use" => c < own[m]
      BY <1>2 DEF Increments, Once, Counted
    <3>2. c \in 1..own'[m] /\ (pc'[m] = "use" => c < own'[m]) BY <1>3, <3>1
    <3> QED BY <3>1, <3>2
  <2>2. m \in twice' => own'[m] > CountSpan
    BY <1>3, NonceAssumption DEF Increments, Once, NonceAssumption
  <2> QED BY <1>3, <2>1, <2>2 DEF Increments, Once
<1>4. CASE Copy(m)
  <2>1. pc[m] = "copy" /\ pc'[m] = "test" BY <1>4 DEF Copy
  <2>2. UNCHANGED <<own, work, localHeight, hashed, twice>> BY <1>4 DEF Copy, history
  <2> QED BY <1>1, <1>3, <2>1, <2>2 DEF Increments, Once
<1>5. CASE Test(m)
  <2>1. UNCHANGED <<own, localHeight, hashed, twice>> BY <1>5 DEF Test, copies, history
  <2>2. CASE localHeight[m] # height
    <3>1. pc[m] = "test" /\ pc'[m] = "label" BY <1>5, <2>2 DEF Test
    <3>2. hashed[m] = {} BY <2>2, <3>1 DEF Increments, Once
    <3> QED BY <1>1, <1>3, <2>1, <3>1, <3>2 DEF Increments, Once
  <2>3. CASE localHeight[m] = height
    <3>1. pc[m] = "test" /\ pc'[m] = "loop" /\ work' = work BY <1>5, <2>3 DEF Test
    <3> QED BY <1>1, <1>3, <2>1, <2>3, <3>1 DEF Increments, Once
  <2> QED BY <2>2, <2>3
<1>6. CASE Label(m)
  <2>1. pc[m] = "label" /\ pc'[m] = "loop" /\ localHeight'[m] = height
    BY <1>6 DEF Label
  <2>2. UNCHANGED <<work, hashed, twice>> BY <1>6 DEF Label, history
  <2>3. hashed[m] = {} /\ m \notin twice BY <2>1 DEF Increments, Once
  <2>4. Counted(m)' BY <2>2, <2>3 DEF Counted
  <2> QED BY <1>1, <2>1, <2>2, <2>3, <2>4 DEF Increments, Once
<1>7. CASE Reset(m) \/ Leave(m)
  <2>1. pc[m] \in {"reset", "loop"} /\ pc'[m] \in {"loop", "copy"}
    BY <1>7 DEF Reset, Leave
  <2>2. UNCHANGED <<own, work, localHeight, hashed, twice>>
    BY <1>7 DEF Reset, Leave, copies, history
  <2> QED BY <1>1, <1>3, <2>1, <2>2 DEF Increments, Once
<1>8. CASE Load(m)
  <2>1. pc[m] = "loop" /\ pc'[m] = "store" /\ loaded'[m] = own[m]
    BY <1>2, <1>8 DEF Load
  <2>2. UNCHANGED <<own, work, localHeight, hashed, twice>> BY <1>8 DEF Load, copies, history
  <2> QED BY <1>1, <1>3, <2>1, <2>2 DEF Increments, Once
<1>9. CASE Store(m)
  <2>1. pc[m] = "store" /\ pc'[m] = "use" /\ own'[m] = loaded[m] + 1
    BY <1>9 DEF Store, Sharing
  <2>2. UNCHANGED <<work, localHeight, hashed, twice>> BY <1>9 DEF Store, copies
  <2>3. own'[m] = own[m] + 1 BY <2>1 DEF Increments, Once
  <2> QED BY <1>1, <1>3, <2>1, <2>2, <2>3 DEF Increments, Once
<1>10. ASSUME NEW r \in 0..(RandSpan - 1), Use(m, r) PROVE Once(m)'
  <2>1. pc[m] = "use" /\ pc'[m] \in {"copy", "loop"} BY <1>10 DEF Use
  <2>2. UNCHANGED <<own, work, localHeight>> BY <1>10 DEF Use, copies
  <2>3. own[m] \in Nat /\ own[m] >= 1 BY <2>1 DEF Increments, Once
  <2>4. ASSUME NEW h \in hashed'[m], h \notin hashed[m]
        PROVE  h.word = Word(m, r, own[m], h.extra) /\ h.extra = NoExtra /\ work[m] = job
    BY <1>2, <1>10, <2>4, UseRecords
  <2>5. Counted(m)'
    <3> SUFFICES ASSUME NEW h \in hashed'[m]
                 PROVE  \E s \in 0..(RandSpan - 1), c \in 1..own[m] :
                          h.word = Word(m, s, c, h.extra)
      BY <1>2, <2>1, <2>2 DEF Counted
    <3>1. CASE h \in hashed[m] BY <1>2, <3>1 DEF Increments, Once, Counted
    <3>2. CASE h \notin hashed[m] BY <2>3, <2>4, <3>2
    <3> QED BY <3>1, <3>2
  <2>6. hashed'[m] # {} => work'[m] = job BY <2>2, <2>4 DEF Increments, Once
  <2>8. hashed[m] \subseteq hashed'[m] BY <1>10 DEF Use, Record
  <2>9. m \in twice' => hashed'[m] # {} /\ own'[m] > CountSpan
    <3>1. CASE m \in twice BY <2>2, <2>8, <3>1 DEF Increments, Once
    <3>2. CASE m \in twice' /\ m \notin twice
      <4>1. PICK h \in hashed[m] : h.word = Word(m, r, own[m], h.extra)
        BY <1>2, <1>10, <3>2, UseRepeats
      <4>2. PICK s \in 0..(RandSpan - 1), c \in 1..own[m] :
              h.word = Word(m, s, c, h.extra) /\ c < own[m]
        BY <1>2, <2>1 DEF Increments, Once, Counted
      <4>3. h.extra = NoExtra BY DEF Increments, Once
      <4>4. ~(own[m] <= CountSpan)
        <5> HIDE DEF TypeOK
        <5>1. Word(m, s, c, NoExtra) = Word(m, r, own[m], NoExtra) BY <4>1, <4>2, <4>3
        <5>2. c \in Nat /\ 1 <= c /\ c < own[m] BY <2>3, <4>2
        <5> QED BY <2>3, <5>1, <5>2, WordCounts
      <4> QED BY <2>2, <2>3, <2>8, <4>4, NonceAssumption DEF NonceAssumption
    <3> QED BY <3>1, <3>2
  <2> QED BY <1>1, <2>1, <2>2, <2>5, <2>6, <2>9 DEF Increments, Once
<1>11. CASE Throws(m) BY <1>11 DEF Throws
<1> QED BY <1>4, <1>5, <1>6, <1>7, <1>8, <1>9, <1>10, <1>11 DEF Miner

LEMMA OwnCountStep ==
  ASSUME TypeOK, Clocks, style = "perJob", NEW m \in Miners, Miner(m), OwnCount(m),
         myJob[m].extra = NoExtra
  PROVE  OwnCount(m)'
<1>1. Increments(m)' BY IncrementsStep DEF OwnCount
<1>2. m \in threw => m \in threw'
  BY DEF Miner, Copy, Test, Label, Reset, Throws, Leave, Load, Store, Use, history
<1>3. m \notin threw' => Once(m)' BY <1>2, OnceStep DEF OwnCount
<1> QED BY <1>1, <1>3 DEF OwnCount

LEMMA StepOwnCounts == TypeOK /\ Clocks /\ OwnCounts /\ [Next]_vars => OwnCounts'
<1> SUFFICES ASSUME TypeOK, Clocks, OwnCounts, [Next]_vars, style' = "perJob"
             PROVE  OwnCounts'
  BY DEF OwnCounts
<1>1. style = "perJob"
  BY DEF Next, Session, Announce, Publish, OtherJob, DevJob, SetExtraNonce, Miner, Copy, Test, Label,
         Reset, Throws, Leave, Load, Store, Use, vars
<1>2. extra = NoExtra /\ \A o \in Miners : myJob[o].extra = NoExtra /\ OwnCount(o)
  BY <1>1 DEF OwnCounts
<1>3. ASSUME UNCHANGED <<style, job, height, pc, own, loaded, work, localHeight, hashed,
                         twice, threw, extra, myJob>>
      PROVE  OwnCounts'
  <2>1. ASSUME NEW o \in Miners PROVE OwnCount(o)'
    BY <1>1, <1>2, <1>3, OwnCountKept
  <2> QED BY <1>2, <1>3, <2>1 DEF OwnCounts
<1>4. CASE Announce BY <1>3, <1>4 DEF Announce, copies
<1>5. CASE Publish
  <2>1. UNCHANGED <<style, extra, pc, own, loaded, work, myJob>>
        /\ job' = job + 1 /\ hashed' = [m \in Miners |-> {}] /\ twice' = {}
    BY <1>5 DEF Publish, copies
  <2>2. ASSUME NEW o \in Miners PROVE OwnCount(o)'
    <3>1. hashed'[o] = {} /\ o \notin twice' BY <2>1
    <3>2. Counted(o)' BY <3>1 DEF Counted
    <3>3. work'[o] # job' BY <2>1 DEF TypeOK
    <3> QED BY <1>2, <2>1, <3>1, <3>2, <3>3 DEF OwnCount, Increments, Once
  <2> QED BY <1>2, <2>1, <2>2 DEF OwnCounts
<1>6. CASE \E e \in ExtraNonces : SetExtraNonce(e)
  BY <1>1, <1>6 DEF SetExtraNonce, Sharing
<1>7. CASE OtherJob BY <1>3, <1>7 DEF OtherJob, copies, history
<1>10. CASE DevJob BY <1>3, <1>10 DEF DevJob, copies, history
<1>8. ASSUME NEW m \in Miners, Miner(m) PROVE OwnCounts'
  <2>1. UNCHANGED <<style, job, height, extra>>
    BY <1>8 DEF Miner, Copy, Test, Label, Reset, Throws, Leave, Load, Store, Use, published
  <2>2. \/ UNCHANGED myJob
        \/ myJob' = [myJob EXCEPT ![m] = [number |-> job, extra |-> extra]]
    BY <1>8 DEF Miner, Copy, Test, Label, Reset, Throws, Leave, Load, Store, Use, copies
  <2>3. \A o \in Miners : myJob'[o].extra = NoExtra BY <1>2, <2>2 DEF TypeOK
  <2>4. OwnCount(m)' BY <1>1, <1>2, <1>8, OwnCountStep
  <2>5. ASSUME NEW o \in Miners, o # m PROVE OwnCount(o)'
    <3>1. /\ pc'[o] = pc[o] /\ own'[o] = own[o] /\ loaded'[o] = loaded[o]
          /\ work'[o] = work[o] /\ localHeight'[o] = localHeight[o]
          /\ hashed'[o] = hashed[o] /\ (o \in twice' <=> o \in twice)
          /\ (o \in threw' <=> o \in threw)
      BY <1>8, <2>5, OthersKept
    <3> QED BY <1>1, <1>2, <2>1, <3>1, OwnCountKept
  <2> QED BY <1>2, <2>1, <2>3, <2>4, <2>5 DEF OwnCounts
<1>9. CASE UNCHANGED vars BY <1>3, <1>9 DEF vars, published, copies, history
<1> QED BY <1>4, <1>5, <1>6, <1>7, <1>8, <1>9, <1>10 DEF Next, Session

-----------------------------------------------------------------------------
\* The count the threads share.

LEMMA SharedCountKept ==
  ASSUME TypeOK, style = "shared", style' = "shared", NEW o \in Miners, SharedCount(o),
         UNCHANGED <<announcing, jobCounter>>, lost => lost',
         nonce0' \in Nat, ~lost' => nonce0' >= nonce0,
         nonce0' # nonce0 => nonce0' >= 1,
         pc'[o] = pc[o], localCounter'[o] = localCounter[o], hashed'[o] = hashed[o],
         o \in twice' <=> o \in twice
  PROVE  SharedCount(o)'
<1>1. Count(o) = nonce0 /\ Count(o)' = nonce0' BY DEF Count, Sharing
<1>2. nonce0 \in Nat BY DEF TypeOK
<1>3. ASSUME ~announcing', ~lost' PROVE Counted(o)'
  <2> SUFFICES ASSUME NEW h \in hashed[o]
               PROVE  \E r \in 0..(RandSpan - 1), c \in 1..nonce0' :
                        /\ h.word = Word(o, r, c, h.extra)
                        /\ pc'[o] = "use" => c < nonce0'
    BY <1>1 DEF Counted
  <2>1. PICK r \in 0..(RandSpan - 1), c \in 1..nonce0 :
          /\ h.word = Word(o, r, c, h.extra)
          /\ pc[o] = "use" => c < nonce0
    BY <1>1, <1>3 DEF SharedCount, Counted
  <2>2. c \in 1..nonce0' /\ (pc'[o] = "use" => c < nonce0') BY <1>2, <1>3, <2>1
  <2> QED BY <2>1, <2>2
<1>4. ~announcing' /\ pc'[o] = "use" /\ localCounter'[o] = jobCounter' => nonce0' >= 1
  BY DEF SharedCount
<1>5. Forward(o)' => Forward(o)
  BY <1>2, NonceAssumption DEF Forward, NonceAssumption
<1> QED BY <1>3, <1>4, <1>5 DEF SharedCount

LEMMA SharedCountStep ==
  ASSUME TypeOK, style = "shared", NEW m \in Miners, Miner(m), SharedCount(m)
  PROVE  SharedCount(m)'
<1> USE DEF TypeOK, Goto
<1>1. style' = style /\ UNCHANGED <<announcing, jobCounter>>
  BY DEF Miner, Copy, Test, Label, Reset, Throws, Leave, Load, Store, Use, published
<1>2. Count(m) = nonce0 /\ Count(m)' = nonce0' BY <1>1 DEF Count, Sharing
<1>3. ASSUME UNCHANGED <<nonce0, lost, hashed, twice>>, pc'[m] \notin {"use", "reset"}
      PROVE  SharedCount(m)'
  <2>1. ASSUME ~announcing', ~lost' PROVE Counted(m)'
    <3>1. Counted(m) BY <1>1, <1>3, <2>1 DEF SharedCount
    <3> QED BY <1>2, <1>3, <3>1 DEF Counted
  <2>2. Forward(m)' => Forward(m) BY <1>1, <1>3 DEF Forward
  <2> QED BY <1>3, <2>1, <2>2 DEF SharedCount
<1>4. CASE Copy(m) \/ Test(m) \/ Label(m) \/ Leave(m) \/ Load(m)
  <2>1. UNCHANGED <<nonce0, lost, hashed, twice>>
    BY <1>4 DEF Copy, Test, Label, Leave, Load, history
  <2>2. pc'[m] \notin {"use", "reset"} BY <1>4 DEF Copy, Test, Label, Leave, Load
  <2> QED BY <1>3, <2>1, <2>2
<1>5. CASE Reset(m) BY <1>5 DEF Reset, SharedCount
<1>8. CASE Throws(m)
  <2>1. UNCHANGED <<nonce0, lost, hashed, twice>> /\ pc'[m] = "copy" BY <1>8 DEF Throws
  <2> QED BY <1>3, <2>1
<1>6. CASE Store(m)
  <2>1. /\ pc[m] = "store" /\ pc'[m] = "use" /\ nonce0' = loaded[m] + 1
        /\ lost' = (lost \/ nonce0 # loaded[m]) /\ UNCHANGED <<hashed, twice>>
    BY <1>6 DEF Store, Sharing
  <2>2. nonce0' \in Nat /\ nonce0' >= 1 BY <2>1
  <2>3. ~lost' => ~lost /\ nonce0' = nonce0 + 1 BY <2>1
  <2>4. ASSUME ~announcing', ~lost' PROVE Counted(m)'
    <3> SUFFICES ASSUME NEW h \in hashed[m]
                 PROVE  \E r \in 0..(RandSpan - 1), c \in 1..nonce0' :
                          h.word = Word(m, r, c, h.extra) /\ c < nonce0'
      BY <1>2, <2>1 DEF Counted
    <3>1. PICK r \in 0..(RandSpan - 1), c \in 1..nonce0 : h.word = Word(m, r, c, h.extra)
      BY <1>1, <1>2, <2>3, <2>4 DEF SharedCount, Counted
    <3>2. c \in 1..nonce0' /\ c < nonce0' BY <2>3, <2>4, <3>1
    <3> QED BY <3>1, <3>2
  <2>5. Forward(m)' => Forward(m)
    <3> SUFFICES ASSUME Forward(m)' PROVE Forward(m)
      OBVIOUS
    <3>1. ~lost' /\ ~announcing' /\ nonce0' <= CountSpan /\ nonce0' <= ExtraSpan
      BY <1>1 DEF Forward
    <3>2. nonce0 <= CountSpan /\ nonce0 <= ExtraSpan
      BY <2>3, <3>1, NonceAssumption DEF NonceAssumption
    <3> QED BY <1>1, <2>3, <3>1, <3>2 DEF Forward
  <2> QED BY <2>1, <2>2, <2>4, <2>5 DEF SharedCount
<1>7. ASSUME NEW r \in 0..(RandSpan - 1), Use(m, r) PROVE SharedCount(m)'
  <2>1. pc[m] = "use" /\ pc'[m] \in {"copy", "loop"} BY <1>7 DEF Use
  <2>2. UNCHANGED <<nonce0, lost>> BY <1>7 DEF Use
  <2>3. ASSUME NEW h \in hashed'[m], h \notin hashed[m]
        PROVE  h.word = Word(m, r, nonce0, h.extra) /\ localCounter[m] = jobCounter
    BY <1>2, <1>7, <2>3, UseRecords
  <2>4. ASSUME ~announcing', ~lost' PROVE Counted(m)'
    <3> SUFFICES ASSUME NEW h \in hashed'[m]
                 PROVE  \E s \in 0..(RandSpan - 1), c \in 1..nonce0 :
                          h.word = Word(m, s, c, h.extra)
      BY <1>2, <2>1, <2>2 DEF Counted
    <3>1. CASE h \in hashed[m] BY <1>1, <1>2, <2>2, <2>4, <3>1 DEF SharedCount, Counted
    <3>2. CASE h \notin hashed[m]
      <4>1. nonce0 \in 1..nonce0 BY <1>1, <2>1, <2>3, <2>4, <3>2 DEF SharedCount
      <4> QED BY <2>3, <3>2, <4>1
    <3> QED BY <3>1, <3>2
  <2>5. ASSUME Forward(m)', m \in twice' PROVE FALSE
    <3>1. ~announcing /\ ~lost /\ nonce0 <= CountSpan /\ nonce0 <= ExtraSpan /\ Forward(m)
      BY <1>1, <2>2, <2>5 DEF Forward
    <3>2. m \notin twice BY <3>1 DEF SharedCount
    <3>3. PICK h \in hashed[m] : h.word = Word(m, r, nonce0, h.extra)
      BY <1>2, <1>7, <2>5, <3>2, UseRepeats
    <3>4. PICK s \in 0..(RandSpan - 1), c \in 1..nonce0 :
            h.word = Word(m, s, c, h.extra) /\ c < nonce0
      BY <1>2, <2>1, <3>1 DEF SharedCount, Counted
    <3>5. h.extra \in ExtraNonces \cup {NoExtra} BY DEF Hashes
    <3>6. c \in Nat /\ nonce0 \in Nat /\ 1 <= c BY <3>4
    <3> HIDE DEF TypeOK
    <3> QED BY <3>1, <3>3, <3>4, <3>5, <3>6, WordCounts
  <2> QED BY <2>1, <2>4, <2>5 DEF SharedCount
<1> QED BY <1>4, <1>5, <1>6, <1>7, <1>8 DEF Miner

LEMMA StepSharedCounts == TypeOK /\ Clocks /\ SharedCounts /\ [Next]_vars => SharedCounts'
<1> SUFFICES ASSUME TypeOK, Clocks, SharedCounts, [Next]_vars, style' = "shared",
                    NEW o \in Miners
             PROVE  SharedCount(o)'
  BY DEF SharedCounts
<1>1. style = "shared"
  BY DEF Next, Session, Announce, Publish, OtherJob, DevJob, SetExtraNonce, Miner, Copy, Test, Label,
         Reset, Throws, Leave, Load, Store, Use, vars
<1>2. SharedCount(o) BY <1>1 DEF SharedCounts
<1>3. pc[o] # "reset" /\ nonce0 \in Nat BY <1>2 DEF SharedCount, TypeOK
<1>4. CASE Announce
  <2>1. announcing' /\ UNCHANGED <<pc, style>> BY <1>4 DEF Announce
  <2> QED BY <1>1, <1>3, <2>1 DEF SharedCount, Forward
<1>5. CASE Publish
  <2>1. UNCHANGED <<pc, localCounter>> /\ jobCounter' = jobCounter + 1
        /\ hashed' = [m \in Miners |-> {}] /\ twice' = {}
    BY <1>5 DEF Publish, copies
  <2>2. localCounter'[o] # jobCounter' BY <2>1 DEF Clocks, TypeOK
  <2>3. Counted(o)' BY <2>1 DEF Counted
  <2> QED BY <1>3, <2>1, <2>2, <2>3 DEF SharedCount
<1>6. CASE \E e \in ExtraNonces : SetExtraNonce(e)
  <2>1. UNCHANGED <<style, announcing, jobCounter, nonce0, pc, localCounter, lost, hashed, twice>>
    BY <1>6 DEF SetExtraNonce, copies, history
  <2> QED BY <1>1, <1>2, <1>3, <2>1, SharedCountKept
<1>7. CASE OtherJob \/ DevJob
  <2>1. UNCHANGED <<style, announcing, nonce0, pc, localCounter, lost, hashed, twice>>
        /\ jobCounter' = jobCounter + 1
    BY <1>7 DEF OtherJob, DevJob, copies, history
  <2>2. localCounter'[o] # jobCounter' BY <2>1 DEF Clocks, TypeOK
  <2>3. ~announcing' /\ ~lost' => Counted(o)'
    <3>1. Count(o)' = Count(o) BY <1>1, <2>1 DEF Count, Sharing
    <3> QED BY <1>2, <2>1, <3>1 DEF SharedCount, Counted
  <2>4. Forward(o)' => Forward(o) BY <1>1, <2>1 DEF Forward
  <2> QED BY <1>2, <1>3, <2>1, <2>2, <2>3, <2>4 DEF SharedCount
<1>8. ASSUME NEW m \in Miners, Miner(m) PROVE SharedCount(o)'
  <2>1. CASE o = m BY <1>1, <1>2, <1>8, <2>1, SharedCountStep
  <2>2. CASE o # m
    <3>1. /\ UNCHANGED <<announcing, jobCounter>>
          /\ pc'[o] = pc[o] /\ localCounter'[o] = localCounter[o]
          /\ hashed'[o] = hashed[o] /\ (o \in twice' <=> o \in twice)
      BY <1>8, <2>2, OthersKept
    <3>2. SharedCount(m) BY <1>1 DEF SharedCounts
    <3>3. /\ nonce0' \in Nat /\ (lost => lost') /\ (~lost' => nonce0' >= nonce0)
          /\ (nonce0' # nonce0 => nonce0' >= 1)
      <4>1. CASE Store(m)
        <5>1. nonce0' = loaded[m] + 1 /\ lost' = (lost \/ nonce0 # loaded[m])
          BY <1>1, <4>1 DEF Store, Sharing
        <5>2. (lost => lost') /\ (~lost' => nonce0 = loaded[m]) BY <5>1, Zenon
        <5>3. loaded[m] \in Nat BY DEF TypeOK
        <5> QED BY <1>3, <5>1, <5>2, <5>3
      <4>2. CASE ~Store(m)
        <5>1. UNCHANGED <<nonce0, lost>>
          BY <1>8, <3>2, <4>2 DEF Miner, Copy, Test, Label, Reset, Throws, Leave, Load, Use, history,
                                  Goto, SharedCount
        <5> QED BY <1>3, <5>1
      <4> QED BY <4>1, <4>2
    <3> QED BY <1>1, <1>2, <3>1, <3>3, SharedCountKept
  <2> QED BY <2>1, <2>2
<1>9. CASE UNCHANGED vars
  <2>1. UNCHANGED <<style, announcing, jobCounter, nonce0, pc, localCounter, lost, hashed, twice>>
    BY <1>9 DEF vars, published, copies, history
  <2> QED BY <1>1, <1>2, <1>3, <2>1, SharedCountKept
<1> QED BY <1>4, <1>5, <1>6, <1>7, <1>8, <1>9 DEF Next, Session

-----------------------------------------------------------------------------
\* The invariant on which the three properties rest is inductive: how words are laid
\* out, and what a thread's count says of the nonces it has tried.
THEOREM NonceInvariant == Spec => []IInv
<1>1. Init => IInv BY InitType, InitRest DEF IInv
<1>2. IInv /\ [Next]_vars => IInv'
  BY StepType, StepWords, StepClocks, StepOwnCounts, StepSharedCounts DEF IInv
<1> QED BY <1>1, <1>2, PTL DEF Spec

LEMMA WordsApart == IInv => ThreadsApart
<1> SUFFICES ASSUME IInv, NEW m \in Miners, NEW o \in Miners, m # o,
                    NEW h \in hashed[m], NEW k \in hashed[o], h.word = k.word
             PROVE  FALSE
  BY DEF ThreadsApart
<1>1. h.extra \in ExtraNonces \cup {NoExtra} /\ k.extra \in ExtraNonces \cup {NoExtra}
  BY DEF IInv, TypeOK, Hashes
<1>2. PICK r \in 0..(RandSpan - 1), c \in Nat : h.word = Word(m, r, c, h.extra)
  BY DEF IInv, WordsLaidOut
<1>3. PICK s \in 0..(RandSpan - 1), d \in Nat : k.word = Word(o, s, d, k.extra)
  BY DEF IInv, WordsLaidOut
<1>4. PICK x \in Nat : h.word = m + TidSpan * x BY <1>1, <1>2, WordFields
<1>5. PICK y \in Nat : k.word = o + TidSpan * y BY <1>1, <1>3, WordFields
<1>6. m \in 0..(TidSpan - 1) /\ o \in 0..(TidSpan - 1) /\ TidSpan \in Nat \ {0}
  BY NonceAssumption DEF NonceAssumption
<1>7. m + TidSpan * x = o + TidSpan * y BY <1>4, <1>5, Zenon
<1>8. x \in Int /\ y \in Int OBVIOUS
<1>9. m = o BY <1>6, <1>7, <1>8, FieldsApart
<1> QED BY <1>9

\* No two threads ever hash the same nonce for the current job, for any number of
\* threads up to the width of their field, lost increments and wrapped counts included.
THEOREM ThreadsStayApart == Spec => []ThreadsApart
  BY NonceInvariant, WordsApart, PTL

\* The pool's extranonce is on top of every nonce hashed with it, whatever the count.
THEOREM ExtraNonceOnTop == Spec => []ExtraNonceKept
<1>1. IInv => ExtraNonceKept
  <2> SUFFICES ASSUME IInv, NEW m \in Miners, NEW h \in hashed[m], h.extra # NoExtra
               PROVE  h.word \div (TidSpan * ExtraSpan) = h.extra
    BY DEF ExtraNonceKept
  <2>1. h.extra \in ExtraNonces BY DEF IInv, TypeOK, Hashes
  <2>2. PICK r \in 0..(RandSpan - 1), c \in Nat : h.word = Word(m, r, c, h.extra)
    BY DEF IInv, WordsLaidOut
  <2> QED BY <2>1, <2>2, WordExtra
<1> QED BY <1>1, NonceInvariant, PTL

\* A thread tries no nonce of a job twice while its count goes forward: from the threads'
\* interleaving with each other and with the session nothing else can bring a repetition,
\* and an exception can only to the thread that threw and until the next job.
THEOREM NoNonceRepeated == Spec => []NonceNeverRepeats
<1>1. IInv => NonceNeverRepeats
  <2> SUFFICES ASSUME IInv, NEW m \in Miners, Forward(m) PROVE m \notin twice
    BY DEF NonceNeverRepeats
  <2>1. CASE style = "shared" BY <2>1 DEF IInv, SharedCounts, SharedCount
  <2>2. CASE style = "perJob"
    <3>1. own[m] <= CountSpan /\ m \notin threw BY <2>2 DEF Forward
    <3>2. own[m] \in Nat /\ CountSpan \in Nat
      BY NonceAssumption DEF IInv, TypeOK, NonceAssumption
    <3> QED BY <2>2, <3>1, <3>2 DEF IInv, OwnCounts, OwnCount, Once
  <2> QED BY <2>1, <2>2 DEF Forward
<1> QED BY <1>1, NonceInvariant, PTL
=============================================================================
