-------------------------- MODULE CommandQueue_proofs --------------------------
(***************************************************************************)
(* For every limit of the receive queue and every number of messages: no   *)
(* wakeup is lost, and every message has exactly one fate.                 *)
(***************************************************************************)
EXTENDS CommandQueue, FiniteSetTheorems, TLAPS

USE LimitsAssumption

-----------------------------------------------------------------------------
(* Sequences. *)

LEMMA SeqFacts ==
  ASSUME NEW S, NEW s \in Seq(S), NEW e \in S
  PROVE  /\ Append(s, e) \in Seq(S) /\ Len(Append(s, e)) = Len(s) + 1
         /\ ToSet(Append(s, e)) = ToSet(s) \cup {e}
<1>1. /\ DOMAIN Append(s, e) = DOMAIN s \cup {Len(s) + 1}
      /\ \A k \in DOMAIN s : Append(s, e)[k] = s[k]
      /\ Append(s, e)[Len(s) + 1] = e
  OBVIOUS
<1> DEFINE t == Append(s, e)
           n == Len(s) + 1
<1>2. ToSet(t) = ToSet(s) \cup {e}
  <2>1. DOMAIN t = DOMAIN s \cup {n} /\ (\A k \in DOMAIN s : t[k] = s[k]) /\ t[n] = e
    BY <1>1
  <2> HIDE DEF t, n
  <2> QED
    BY <2>1 DEF ToSet
<1> QED
  BY <1>2

LEMMA TailFacts ==
  ASSUME NEW S, NEW s \in Seq(S), s # <<>>
  PROVE  /\ Head(s) \in S /\ Tail(s) \in Seq(S) /\ Len(Tail(s)) = Len(s) - 1
         /\ Head(s) = s[1] /\ 1 \in DOMAIN s
         /\ \A k \in DOMAIN Tail(s) : k + 1 \in DOMAIN s /\ Tail(s)[k] = s[k + 1]
         /\ \A k \in DOMAIN s : k = 1 \/ (k - 1 \in DOMAIN Tail(s)
                                           /\ s[k] = Tail(s)[k - 1])
OBVIOUS

LEMMA TailElements ==
  ASSUME NEW S, NEW s \in Seq(S), s # <<>>
  PROVE  ToSet(s) = {Head(s)} \cup ToSet(Tail(s))
<1> DEFINE t == Tail(s)
           h == Head(s)
<1>1. /\ 1 \in DOMAIN s /\ h = s[1]
      /\ \A k \in DOMAIN t : k + 1 \in DOMAIN s /\ t[k] = s[k + 1]
      /\ \A k \in DOMAIN s : k = 1 \/ (k - 1 \in DOMAIN t /\ s[k] = t[k - 1])
  BY TailFacts
<1> HIDE DEF t, h
<1>2. ToSet(s) = {h} \cup ToSet(t)
  BY <1>1 DEF ToSet
<1> QED
  BY <1>2 DEF t, h

\* The same for the messages' numbers.
LEMMA IdsAppended ==
  ASSUME NEW q \in Seq(Message), NEW m \in Message
  PROVE  Ids(Append(q, m)) = Ids(q) \cup {m.id}
<1> DEFINE t == Append(q, m)
           n == Len(q) + 1
<1>1. DOMAIN t = DOMAIN q \cup {n} /\ (\A k \in DOMAIN q : t[k] = q[k]) /\ t[n] = m
  OBVIOUS
<1> HIDE DEF t, n
<1>2. Ids(t) = Ids(q) \cup {m.id}
  BY <1>1 DEF Ids
<1> QED
  BY <1>2 DEF t

LEMMA IdsTail ==
  ASSUME NEW q \in Seq(Message), q # <<>>
  PROVE  Ids(q) = {Head(q).id} \cup Ids(Tail(q))
<1> DEFINE t == Tail(q)
           h == Head(q)
<1>1. /\ 1 \in DOMAIN q /\ h = q[1]
      /\ \A k \in DOMAIN t : k + 1 \in DOMAIN q /\ t[k] = q[k + 1]
      /\ \A k \in DOMAIN q : k = 1 \/ (k - 1 \in DOMAIN t /\ q[k] = t[k - 1])
  BY TailFacts
<1> HIDE DEF t, h
<1>2. Ids(q) = {h.id} \cup Ids(t)
  BY <1>1 DEF Ids
<1> QED
  BY <1>2 DEF t, h

\* Time changes no number and no order.
LEMMA AgedQueue ==
  ASSUME NEW q \in Seq(Message), NEW t, t = [k \in DOMAIN q |-> Older(q[k])]
  PROVE  /\ t \in Seq(Message) /\ Len(t) = Len(q) /\ DOMAIN t = DOMAIN q
         /\ \A k \in DOMAIN q : t[k].id = q[k].id /\ t[k].size = q[k].size
         /\ Ids(t) = Ids(q)
<1>1. ASSUME NEW m \in Message
      PROVE  Older(m) \in Message /\ Older(m).id = m.id /\ Older(m).size = m.size
  <2>1. m.age \in 0..(CommandTtl + 1)
    BY DEF Message
  <2> DEFINE a == IF m.age > CommandTtl THEN m.age ELSE m.age + 1
  <2>2. a \in 0..(CommandTtl + 1)
    BY <2>1
  <2> HIDE DEF a
  <2>3. /\ [m EXCEPT !.age = a] \in Message
        /\ [m EXCEPT !.age = a].id = m.id /\ [m EXCEPT !.age = a].size = m.size
    BY <2>2 DEF Message
  <2> QED
    BY <2>3 DEF Older, a
<1>2. \A k \in DOMAIN q : t[k] \in Message /\ t[k].id = q[k].id /\ t[k].size = q[k].size
  BY <1>1
<1>3. t \in Seq(Message) /\ Len(t) = Len(q) /\ DOMAIN t = DOMAIN q
  BY <1>2
<1> QED
  BY <1>2, <1>3 DEF Ids

-----------------------------------------------------------------------------
(* Natural numbers: the least of a set, and induction. *)

LEMMA LeastNumber ==
  ASSUME NEW T \in SUBSET Nat, T # {}
  PROVE  \E n \in T : \A m \in T : n <= m
<1> DEFINE U == {1..n : n \in T}
<1>1. U \subseteq FiniteSubsetsOf(Nat)
  <2>1. \A n \in Nat : IsFiniteSet(1..n) /\ 1..n \in SUBSET Nat
    BY FS_Interval
  <2> QED
    BY <2>1 DEF FiniteSubsetsOf
<1>2. PICK x \in U : \A y \in U : <<y, x>> \notin StrictSubsetOrdering(Nat)
  <2>1. U # {}
    OBVIOUS
  <2> HIDE DEF U
  <2> QED
    BY <1>1, <2>1, FS_StrictSubsetOrderingWellFounded, WFMin
<1>3. PICK n \in T : x = 1..n
  BY <1>2
<1>4. ASSUME NEW m \in T, m < n PROVE FALSE
  <2>1. 1..m \in U /\ 1..m \in SUBSET Nat /\ 1..n \in SUBSET Nat
    OBVIOUS
  <2>2. n \in 1..n /\ n \notin 1..m /\ 1..m \subseteq 1..n
    BY <1>4
  <2> QED
    BY <1>2, <1>3, <2>1, <2>2 DEF StrictSubsetOrdering
<1> QED
  BY <1>3, <1>4

LEMMA Induction ==
  ASSUME NEW S, 0 \in S, \A n \in Nat : n \in S => n + 1 \in S
  PROVE  Nat \subseteq S
<1> DEFINE T == Nat \ S
<1> SUFFICES ASSUME T # {} PROVE FALSE
  OBVIOUS
<1>1. PICK n \in T : \A m \in T : n <= m
  BY LeastNumber
<1>2. n # 0 /\ n - 1 \in Nat
  OBVIOUS
<1>3. n - 1 \in S
  BY <1>1, <1>2
<1> QED
  BY <1>2, <1>3

-----------------------------------------------------------------------------
(* The bytes of a queue. *)

\* v is the running total of the sizes of the first n messages.
Totals(v, q, n) == v[0] = 0 /\ \A k \in 1..n : v[k] = v[k - 1] + q[k].size

LEMMA TotalsExist ==
  ASSUME NEW q \in Seq(Message)
  PROVE  \E v \in [0..Len(q) -> Nat] : Totals(v, q, Len(q)) /\ Bytes(q) = v[Len(q)]
<1> DEFINE N == Len(q)
           S == {n \in Nat : n <= N => \E v \in [0..n -> Nat] : Totals(v, q, n)}
           Body(v) == [k \in 0..N |-> IF k = 0 THEN 0 ELSE v[k - 1] + q[k].size]
<1>1. N \in Nat /\ \A k \in 1..N : q[k].size \in Nat
  <2>1. \A m \in Message : m.size \in Nat
    BY DEF Message
  <2> QED
    BY <2>1
<1>2. Bytes(q) = (CHOOSE v : v = Body(v))[N]
  BY DEF Bytes
<1> HIDE DEF N
<1>3. 0 \in S
  <2>1. [k \in 0..0 |-> 0] \in [0..0 -> Nat] /\ [k \in 0..0 |-> 0][0] = 0 /\ 1..0 = {}
    OBVIOUS
  <2> QED
    BY <2>1 DEF Totals
<1>4. ASSUME NEW n \in Nat, n \in S PROVE n + 1 \in S
  <2> SUFFICES ASSUME n + 1 <= N
               PROVE  \E w \in [0..(n + 1) -> Nat] : Totals(w, q, n + 1)
    OBVIOUS
  <2>1. PICK v \in [0..n -> Nat] : Totals(v, q, n)
    BY <1>1, <1>4
  <2> DEFINE w == [k \in 0..(n + 1) |-> IF k <= n THEN v[k] ELSE v[n] + q[n + 1].size]
  <2>2. q[n + 1].size \in Nat /\ v[n] \in Nat
    BY <1>1
  <2>3. w \in [0..(n + 1) -> Nat] /\ w[0] = 0
    BY <2>1, <2>2 DEF Totals
  <2>4. ASSUME NEW k \in 1..(n + 1) PROVE w[k] = w[k - 1] + q[k].size
    <3>1. CASE k \in 1..n
      BY <2>1, <3>1 DEF Totals
    <3>2. CASE k = n + 1
      BY <3>2
    <3> QED
      BY <3>1, <3>2
  <2> QED
    BY <2>3, <2>4 DEF Totals
<1>5. N \in S
  <2> HIDE DEF S
  <2> QED
    BY <1>1, <1>3, <1>4, Induction
<1>6. PICK f \in [0..N -> Nat] : Totals(f, q, N)
  BY <1>1, <1>5
<1>7. f = Body(f)
  <2>1. \A k \in 0..N : f[k] = IF k = 0 THEN 0 ELSE f[k - 1] + q[k].size
    BY <1>1, <1>6 DEF Totals
  <2> QED
    BY <2>1
<1>8. PICK v : v = CHOOSE h : h = Body(h)
  OBVIOUS
<1>9. v = Body(v)
  <2> HIDE DEF Body
  <2> QED
    BY <1>7, <1>8
<1>10. Totals(v, q, N)
  <2>1. \A k \in 0..N : v[k] = Body(v)[k]
    <3> HIDE DEF Body
    <3> QED
      BY <1>9
  <2>2. 0 \in 0..N /\ \A k \in 1..N : k \in 0..N /\ k # 0
    BY <1>1
  <2> QED
    BY <2>1, <2>2 DEF Totals
<1> DEFINE T == {k \in Nat : k \in 0..N => v[k] = f[k]}
<1>11. N \in T
  <2>1. 0 \in T
    BY <1>6, <1>10 DEF Totals
  <2>2. ASSUME NEW k \in Nat, k \in T PROVE k + 1 \in T
    <3> SUFFICES ASSUME k + 1 \in 0..N PROVE v[k + 1] = f[k + 1]
      OBVIOUS
    <3>1. k + 1 \in 1..N /\ (k + 1) - 1 = k /\ v[k] = f[k]
      BY <1>1, <2>2
    <3> QED
      BY <1>6, <1>10, <3>1 DEF Totals
  <2> HIDE DEF T
  <2> QED
    BY <1>1, <2>1, <2>2, Induction
<1>12. Bytes(q) = f[N]
  BY <1>1, <1>2, <1>8, <1>11
<1> QED
  BY <1>6, <1>12 DEF N

\* Any running total ends with the bytes of the queue.
LEMMA TotalsUnique ==
  ASSUME NEW q \in Seq(Message), NEW w, Totals(w, q, Len(q))
  PROVE  Bytes(q) = w[Len(q)]
<1>1. PICK v \in [0..Len(q) -> Nat] : Totals(v, q, Len(q)) /\ Bytes(q) = v[Len(q)]
  BY TotalsExist
<1>2. Len(q) \in Nat
  OBVIOUS
<1> DEFINE T == {k \in Nat : k \in 0..Len(q) => w[k] = v[k]}
<1>3. 0 \in T
  BY <1>1 DEF Totals
<1>4. ASSUME NEW k \in Nat, k \in T PROVE k + 1 \in T
  <2> SUFFICES ASSUME k + 1 \in 0..Len(q) PROVE w[k + 1] = v[k + 1]
    OBVIOUS
  <2>1. k + 1 \in 1..Len(q) /\ (k + 1) - 1 = k /\ w[k] = v[k]
    BY <1>2, <1>4
  <2> QED
    BY <1>1, <2>1 DEF Totals
<1> HIDE DEF T
<1>5. Nat \subseteq T
  BY <1>3, <1>4, Induction
<1> QED
  BY <1>1, <1>2, <1>5 DEF T

LEMMA BytesEmpty == Bytes(<<>>) = 0
<1>1. <<>> \in Seq(Message) /\ Len(<<>>) = 0
  OBVIOUS
<1> QED
  BY <1>1, TotalsExist DEF Totals

LEMMA BytesAppend ==
  ASSUME NEW q \in Seq(Message), NEW m \in Message
  PROVE  Bytes(Append(q, m)) = Bytes(q) + m.size
<1>1. PICK v \in [0..Len(q) -> Nat] : Totals(v, q, Len(q)) /\ Bytes(q) = v[Len(q)]
  BY TotalsExist
<1> DEFINE t == Append(q, m)
           w == [k \in 0..Len(t) |-> IF k \in 0..Len(q) THEN v[k] ELSE Bytes(q) + m.size]
<1>2. /\ Len(q) \in Nat /\ t \in Seq(Message) /\ Len(t) = Len(q) + 1
      /\ t[Len(q) + 1] = m /\ \A k \in 1..Len(q) : t[k] = q[k]
  OBVIOUS
<1> HIDE DEF t
<1>3. w[0] = 0 /\ w[Len(t)] = Bytes(q) + m.size
  BY <1>1, <1>2 DEF Totals
<1>4. ASSUME NEW k \in 1..Len(t) PROVE w[k] = w[k - 1] + t[k].size
  <2>1. CASE k \in 1..Len(q)
    <3>1. k \in 0..Len(t) /\ k \in 0..Len(q) /\ k - 1 \in 0..Len(t) /\ k - 1 \in 0..Len(q)
      BY <1>2, <2>1
    <3> QED
      BY <1>1, <1>2, <2>1, <3>1 DEF Totals
  <2>2. CASE k = Len(q) + 1
    <3>1. /\ k \in 0..Len(t) /\ k \notin 0..Len(q) /\ k - 1 \in 0..Len(t)
          /\ k - 1 = Len(q) /\ k - 1 \in 0..Len(q)
      BY <1>2, <2>2
    <3> QED
      BY <1>1, <1>2, <2>2, <3>1
  <2> QED
    BY <1>2, <2>1, <2>2
<1>5. Bytes(t) = w[Len(t)]
  <2> HIDE DEF w
  <2> QED
    BY <1>2, <1>3, <1>4, TotalsUnique DEF Totals
<1> QED
  BY <1>3, <1>5 DEF t

LEMMA BytesTail ==
  ASSUME NEW q \in Seq(Message), q # <<>>
  PROVE  /\ Bytes(q) = Head(q).size + Bytes(Tail(q))
         /\ Head(q).size \in Nat /\ Bytes(Tail(q)) \in Nat
<1> DEFINE t == Tail(q)
<1>1. /\ Len(q) \in Nat \ {0} /\ t \in Seq(Message) /\ Len(t) = Len(q) - 1
      /\ Head(q) = q[1] /\ \A k \in 1..(Len(q) - 1) : t[k] = q[k + 1]
  OBVIOUS
<1> HIDE DEF t
<1>2. PICK v \in [0..Len(t) -> Nat] : Totals(v, t, Len(t)) /\ Bytes(t) = v[Len(t)]
  BY <1>1, TotalsExist
<1> DEFINE w == [k \in 0..Len(q) |-> IF k = 0 THEN 0 ELSE Head(q).size + v[k - 1]]
<1>3. \A k \in 1..Len(q) : q[k].size \in Nat
  <2>1. \A m \in Message : m.size \in Nat
    BY DEF Message
  <2> QED
    BY <2>1
<1>4. w[0] = 0 /\ w[Len(q)] = Head(q).size + Bytes(t) /\ Head(q).size \in Nat
  BY <1>1, <1>2, <1>3
<1>5. ASSUME NEW k \in 1..Len(q) PROVE w[k] = w[k - 1] + q[k].size
  <2>1. k \in 0..Len(q) /\ k - 1 \in 0..Len(q) /\ k # 0
    BY <1>1
  <2>2. CASE k = 1
    BY <1>1, <1>2, <1>4, <2>1, <2>2 DEF Totals
  <2>3. CASE k # 1
    <3>1. /\ k - 1 \in 1..Len(t) /\ k - 1 # 0 /\ (k - 1) + 1 = k
          /\ (k - 1) - 1 \in 0..Len(t) /\ k - 1 \in 0..Len(t)
      BY <1>1, <2>3
    <3>2. t[k - 1] = q[k]
      BY <1>1, <3>1
    <3>3. v[k - 1] = v[(k - 1) - 1] + q[k].size
      BY <1>2, <3>1, <3>2 DEF Totals
    <3>4. w[k] = Head(q).size + v[k - 1] /\ w[k - 1] = Head(q).size + v[(k - 1) - 1]
      BY <2>1, <3>1
    <3>5. v[(k - 1) - 1] \in Nat /\ q[k].size \in Nat
      BY <1>3, <3>1
    <3> QED
      BY <1>4, <3>3, <3>4, <3>5
  <2> QED
    BY <2>2, <2>3
<1>6. Bytes(q) = w[Len(q)]
  <2> HIDE DEF w
  <2> QED
    BY <1>1, <1>4, <1>5, TotalsUnique DEF Totals
<1>7. Bytes(t) \in Nat
  BY <1>1, <1>2
<1> QED
  BY <1>4, <1>6, <1>7 DEF t

LEMMA BytesSame ==
  ASSUME NEW q \in Seq(Message), NEW t \in Seq(Message), Len(t) = Len(q),
         \A k \in DOMAIN q : t[k].size = q[k].size
  PROVE  Bytes(t) = Bytes(q)
<1>1. PICK v \in [0..Len(q) -> Nat] : Totals(v, q, Len(q)) /\ Bytes(q) = v[Len(q)]
  BY TotalsExist
<1>2. DOMAIN q = 1..Len(q)
  OBVIOUS
<1>3. Totals(v, t, Len(t))
  BY <1>1, <1>2 DEF Totals
<1> QED
  BY <1>1, <1>3, TotalsUnique

-----------------------------------------------------------------------------
(* Types. *)

\* receive() holds a message between taking it and checking its age.
HandInv == Len(hand) = IF owner \in {"held", "check"} THEN 1 ELSE 0

QueueType ==
  /\ rx_queue \in Seq(Message) /\ Len(rx_queue) <= QueueSize
  /\ queued_bytes \in 0..QueueBytes
RejectType == rejections \in Seq(1..MaxArrivals) /\ Len(rejections) <= QueueSize
OwnerType ==
  /\ wakeup \in BOOLEAN /\ closed \in BOOLEAN /\ owner \in OwnerPlaces
  /\ drained \in 0..DrainLimit
  /\ hand \in Seq(Message) /\ Len(hand) <= 1
HistoryType ==
  /\ arrivals \in 0..MaxArrivals
  /\ delivered \in Seq(1..MaxArrivals)
  /\ {expired, dropped, ignored, answered} \subseteq SUBSET (1..MaxArrivals)

LEMMA TypeParts == TypeOK <=> QueueType /\ RejectType /\ OwnerType /\ HistoryType
BY DEF TypeOK, QueueType, RejectType, OwnerType, HistoryType

LEMMA RejectKeepsType ==
  ASSUME RejectType, NEW id \in 1..MaxArrivals, NEW size, Reject(id, size),
         wakeup \in BOOLEAN
  PROVE  RejectType' /\ wakeup' \in BOOLEAN
<1>1. CASE rejections' = Append(rejections, id) /\ wakeup' = TRUE
           /\ Len(rejections) < QueueSize
  <2>1. /\ Append(rejections, id) \in Seq(1..MaxArrivals)
        /\ Len(Append(rejections, id)) = Len(rejections) + 1
    BY SeqFacts DEF RejectType
  <2> QED
    BY <1>1, <2>1 DEF RejectType
<1>2. CASE UNCHANGED <<rejections, wakeup>>
  BY <1>2 DEF RejectType
<1> QED
  BY <1>1, <1>2 DEF Reject

LEMMA ArriveKeepsType ==
  ASSUME TypeOK, HandInv, Arrive
  PROVE  TypeOK' /\ HandInv'
<1>1. QueueType /\ RejectType /\ OwnerType /\ HistoryType
  BY TypeParts
<1> DEFINE n == arrivals + 1
<1>2. n \in 1..MaxArrivals /\ arrivals' = n
  BY <1>1 DEF Arrive, HistoryType
<1>3. /\ owner' = owner /\ drained' = drained /\ hand' = hand
      /\ closed' = closed
      /\ delivered' = delivered /\ expired' = expired /\ answered' = answered
  BY DEF Arrive, Ignore, RefuseAtOnce, RefuseFull, Accept, ownerVars, history
<1>4. /\ ignored' \in {ignored, ignored \cup {n}}
      /\ dropped' \in {dropped, dropped \cup {n}}
  BY DEF Arrive, Ignore, RefuseAtOnce, RefuseFull, Accept, history
<1>5. HistoryType'
  BY <1>1, <1>2, <1>3, <1>4 DEF HistoryType
<1>6. QueueType' /\ RejectType' /\ wakeup' \in BOOLEAN
  <2>1. CASE Ignore
    BY <1>1, <2>1 DEF Ignore, QueueType, RejectType, OwnerType, queueVars
  <2>2. CASE \E size \in Sizes : RefuseAtOnce(size)
    <3>1. PICK size \in Sizes : RefuseAtOnce(size)
      BY <2>2
    <3>2. QueueType'
      BY <1>1, <3>1 DEF RefuseAtOnce, QueueType, queueVars
    <3>3. Reject(n, size) \/ UNCHANGED <<rejections, wakeup>>
      BY <3>1 DEF RefuseAtOnce
    <3> QED
      BY <1>1, <1>2, <3>2, <3>3, RejectKeepsType DEF RejectType, OwnerType
  <2>3. CASE \E size \in Sizes : RefuseFull(size)
    <3>1. PICK size \in Sizes : RefuseFull(size)
      BY <2>3
    <3>2. QueueType' /\ Reject(n, size)
      BY <1>1, <3>1 DEF RefuseFull, QueueType, queueVars
    <3> QED
      BY <1>1, <1>2, <3>2, RejectKeepsType DEF OwnerType
  <2>4. CASE \E size \in Sizes : Accept(size)
    <3>1. PICK size \in Sizes : Accept(size)
      BY <2>4
    <3> DEFINE m == [id |-> n, size |-> size, age |-> 0]
    <3>2. m \in Message
      BY <1>2 DEF Message
    <3>3. /\ rx_queue' = Append(rx_queue, m) /\ Len(rx_queue) < QueueSize
          /\ queued_bytes' = queued_bytes + size
          /\ queued_bytes + size <= QueueBytes
          /\ wakeup' = TRUE /\ rejections' = rejections
      BY <3>1 DEF Accept, Fits
    <3>4. rx_queue' \in Seq(Message) /\ Len(rx_queue') <= QueueSize
      BY <1>1, <3>2, <3>3, SeqFacts DEF QueueType
    <3>5. queued_bytes' \in 0..QueueBytes
      BY <1>1, <3>3 DEF QueueType
    <3> QED
      BY <1>1, <3>3, <3>4, <3>5 DEF QueueType, RejectType
  <2> QED
    BY <2>1, <2>2, <2>3, <2>4 DEF Arrive
<1>7. OwnerType' /\ HandInv'
  BY <1>1, <1>3, <1>6 DEF OwnerType, HandInv
<1> QED
  BY <1>5, <1>6, <1>7, TypeParts, PTL

LEMMA OwnerKeepsType ==
  ASSUME TypeOK, HandInv, OwnerStep
  PROVE  TypeOK' /\ HandInv'
<1> USE DEF OwnerPlaces
<1>1. CASE StartReceive
  BY <1>1 DEF StartReceive, TypeOK, HandInv, queueVars, history
<1>2. CASE AnswerRejection
  <2>1. Head(rejections) \in 1..MaxArrivals /\ Tail(rejections) \in Seq(1..MaxArrivals)
        /\ Len(Tail(rejections)) <= QueueSize
    BY <1>2, TailFacts DEF AnswerRejection, TypeOK
  <2> QED
    BY <1>2, <2>1 DEF AnswerRejection, TypeOK, HandInv, queueVars
<1>3. CASE Drained
  BY <1>3 DEF Drained, TypeOK, HandInv, queueVars, history
<1>4. CASE NothingQueued
  BY <1>4 DEF NothingQueued, TypeOK, HandInv, queueVars, history
<1>5. CASE Get
  <2>1. /\ rx_queue \in Seq(Message) /\ rx_queue # <<>>
        /\ hand' = <<Head(rx_queue)>> /\ rx_queue' = Tail(rx_queue)
        /\ owner' = "held"
    BY <1>5 DEF Get, TypeOK
  <2>2. Head(rx_queue) \in Message
    BY <2>1, TailFacts
  <2>3. rx_queue' \in Seq(Message) /\ Len(rx_queue') <= QueueSize
    BY <2>1, TailFacts DEF TypeOK
  <2>4. Head(rx_queue).size \in Nat
    BY <2>2 DEF Message
  <2>5. queued_bytes' \in 0..QueueBytes
    BY <1>5, <2>4 DEF Get, TypeOK
  <2> DEFINE m == Head(rx_queue)
  <2>6. hand' \in Seq(Message) /\ Len(hand') = 1
    <3> HIDE DEF m
    <3>1. m \in Message /\ hand' = <<m>>
      BY <2>1, <2>2 DEF m
    <3> QED
      BY <3>1
  <2> QED
    BY <1>5, <2>1, <2>3, <2>5, <2>6 DEF Get, TypeOK, HandInv, history
<1>6. CASE Release
  BY <1>6 DEF Release, TypeOK, HandInv, queueVars, history
<1>7. CASE Expire
  <2>1. hand[1].id \in 1..MaxArrivals
    <3>1. hand \in Seq(Message) /\ Len(hand) = 1
      BY <1>7 DEF Expire, TypeOK, HandInv
    <3>2. hand[1] \in Message
      BY <3>1
    <3> QED
      BY <3>2 DEF Message
  <2> QED
    BY <1>7, <2>1 DEF Expire, TypeOK, HandInv, queueVars
<1>8. CASE Deliver
  <2>1. hand[1].id \in 1..MaxArrivals
    <3>1. hand \in Seq(Message) /\ Len(hand) = 1
      BY <1>8 DEF Deliver, TypeOK, HandInv
    <3>2. hand[1] \in Message
      BY <3>1
    <3> QED
      BY <3>2 DEF Message
  <2>2. delivered' \in Seq(1..MaxArrivals)
    BY <1>8, <2>1 DEF Deliver, TypeOK
  <2> QED
    BY <1>8, <2>2 DEF Deliver, TypeOK, HandInv, queueVars
<1>9. CASE Executed
  BY <1>9 DEF Executed, TypeOK, HandInv, queueVars, history
<1>10. CASE Leave
  BY <1>10 DEF Leave, TypeOK, HandInv, queueVars, history
<1> QED
  BY <1>1, <1>2, <1>3, <1>4, <1>5, <1>6, <1>7, <1>8, <1>9, <1>10 DEF OwnerStep

LEMMA StepKeepsType ==
  ASSUME TypeOK, HandInv, [Next]_vars
  PROVE  TypeOK' /\ HandInv'
<1>1. CASE Connected
  BY <1>1 DEF Connected, TypeOK, HandInv, queueVars, ownerVars, history
<1>2. CASE Tick
  <2>1. /\ rx_queue' = [k \in DOMAIN rx_queue |-> Older(rx_queue[k])]
        /\ hand' = [k \in DOMAIN hand |-> Older(hand[k])]
    BY <1>2 DEF Tick
  <2>2. rx_queue' \in Seq(Message) /\ Len(rx_queue') = Len(rx_queue)
    BY <2>1, AgedQueue DEF TypeOK
  <2>3. hand' \in Seq(Message) /\ Len(hand') = Len(hand)
    BY <2>1, AgedQueue DEF TypeOK
  <2> QED
    BY <1>2, <2>2, <2>3 DEF Tick, TypeOK, HandInv, history
<1>3. CASE Close
  BY <1>3 DEF Close, TypeOK, HandInv, queueVars, ownerVars, history
<1>4. CASE UNCHANGED vars
  BY <1>4 DEF vars, TypeOK, HandInv, queueVars, ownerVars, history
<1> QED
  BY <1>1, <1>2, <1>3, <1>4, ArriveKeepsType, OwnerKeepsType DEF Next

LEMMA InitType == Init => TypeOK /\ HandInv
<1> SUFFICES ASSUME Init PROVE TypeOK /\ HandInv
  OBVIOUS
<1> USE DEF Init
<1>1. QueueType /\ RejectType
  BY DEF QueueType, RejectType
<1>2. OwnerType /\ HandInv
  <2>1. hand = <<>> /\ owner = "wait"
    OBVIOUS
  <2>2. hand \in Seq(Message) /\ Len(hand) = 0
    BY <2>1
  <2>3. drained \in 0..DrainLimit /\ Len(hand) <= 1 /\ owner \in OwnerPlaces
    BY <2>1, <2>2 DEF OwnerPlaces
  <2>4. OwnerType
    <3>1. wakeup \in BOOLEAN /\ closed \in BOOLEAN
      OBVIOUS
    <3> HIDE DEF Init
    <3> QED
      BY <2>2, <2>3, <3>1 DEF OwnerType
  <2>5. HandInv
    <3> HIDE DEF Init
    <3> QED
      BY <2>1, <2>2 DEF HandInv
  <2> QED
    BY <2>4, <2>5
<1>3. HistoryType
  BY DEF HistoryType
<1> QED
  BY <1>1, <1>2, <1>3, TypeParts

\* _on_message and receive() keep both queues and the byte budget in their
\* limits, whatever arrives and however the threads interleave.
THEOREM TypeCorrect == Spec => []TypeOK
BY InitType, StepKeepsType, PTL DEF Spec

LEMMA HandHeld == Spec => [](TypeOK /\ HandInv)
BY InitType, StepKeepsType, PTL DEF Spec

-----------------------------------------------------------------------------
(* The byte budget. *)

CountInv == queued_bytes = Bytes(rx_queue)

LEMMA StepKeepsCount ==
  ASSUME TypeOK, CountInv, [Next]_vars
  PROVE  CountInv'
<1>1. rx_queue \in Seq(Message)
  BY DEF TypeOK
<1>2. CASE UNCHANGED queueVars
  BY <1>2 DEF queueVars, CountInv
<1>3. ASSUME Arrive, NEW size \in Sizes, Accept(size) PROVE CountInv'
  <2> DEFINE m == [id |-> arrivals + 1, size |-> size, age |-> 0]
  <2>1. m \in Message /\ m.size = size
    BY <1>3 DEF Arrive, Message, TypeOK
  <2>2. rx_queue' = Append(rx_queue, m) /\ queued_bytes' = queued_bytes + size
    BY <1>3 DEF Accept
  <2> HIDE DEF m
  <2> QED
    BY <1>1, <2>1, <2>2, BytesAppend DEF CountInv
<1>4. CASE Get
  <2>1. rx_queue # <<>> /\ rx_queue' = Tail(rx_queue)
    BY <1>4 DEF Get
  <2>2. queued_bytes >= Head(rx_queue).size
        /\ queued_bytes - Head(rx_queue).size = Bytes(rx_queue')
    BY <1>1, <2>1, BytesTail DEF CountInv
  <2> QED
    BY <1>4, <2>2 DEF Get, CountInv
<1>5. CASE Tick
  BY <1>1, <1>5, AgedQueue, BytesSame DEF Tick, CountInv
<1>6. CASE Arrive /\ ~\E size \in Sizes : Accept(size)
  <2>1. UNCHANGED queueVars
    BY <1>6 DEF Arrive, Ignore, RefuseAtOnce, RefuseFull
  <2> QED
    BY <1>2, <2>1
<1>7. CASE \/ StartReceive \/ AnswerRejection \/ Drained \/ NothingQueued \/ Release
           \/ Expire \/ Deliver \/ Executed \/ Leave \/ Connected \/ Close
           \/ UNCHANGED vars
  <2>1. UNCHANGED queueVars
    BY <1>7 DEF StartReceive, AnswerRejection, Drained, NothingQueued, Release, Expire,
                Deliver, Executed, Leave, Connected, Close, vars
  <2> QED
    BY <1>2, <2>1
<1> QED
  BY <1>3, <1>4, <1>5, <1>6, <1>7 DEF Next, OwnerStep

\* _queued_bytes is the sum of the sizes of what is queued: neither thread
\* leaks budget or overcommits it, and giving bytes back never stops at zero.
THEOREM BytesExact == Spec => []BytesAccounted
<1>1. Init => CountInv
  BY BytesEmpty DEF Init, CountInv
<1>2. TypeOK /\ CountInv => BytesAccounted
  BY DEF TypeOK, CountInv, BytesAccounted
<1> QED
  BY <1>1, <1>2, StepKeepsCount, TypeCorrect, PTL DEF Spec

-----------------------------------------------------------------------------
(* Wakeups. *)

\* NoLostWakeup, without the exception for the owner's critical section: the
\* event is cleared only there, and only when nothing is left.
WakeInv == rx_queue # <<>> => wakeup

\* The wakeup event is set while commands are queued: the owner clears it under
\* the lock that a new command needs, so it never sleeps on one.
THEOREM WakeupsKept == Spec => []NoLostWakeup
<1>1. Init => WakeInv
  BY DEF Init, WakeInv
<1>2. TypeOK /\ WakeInv /\ [Next]_vars => WakeInv'
  <2> SUFFICES ASSUME TypeOK, WakeInv, [Next]_vars PROVE WakeInv'
    OBVIOUS
  <2>1. rx_queue \in Seq(Message) /\ wakeup \in BOOLEAN
    BY DEF TypeOK
  <2>2. CASE Arrive
    <3> DEFINE Woken == wakeup' = TRUE \/ UNCHANGED <<rx_queue, wakeup>>
    <3>2. ASSUME NEW size \in Sizes, RefuseAtOnce(size) PROVE Woken
      BY <3>2 DEF RefuseAtOnce, Reject, queueVars
    <3>3. ASSUME NEW size \in Sizes, RefuseFull(size) PROVE Woken
      BY <3>3 DEF RefuseFull, Reject, queueVars
    <3>1. Woken
      BY <2>2, <3>2, <3>3 DEF Arrive, Ignore, Accept, queueVars
    <3> QED
      BY <3>1 DEF WakeInv
  <2>3. CASE Connected \/ Close \/ UNCHANGED vars
    BY <2>3 DEF Connected, Close, vars, WakeInv, queueVars
  <2>4. CASE Tick
    BY <2>1, <2>4 DEF Tick, WakeInv
  <2>5. CASE Get
    BY <2>1, <2>5 DEF Get, WakeInv
  <2>6. CASE Release
    BY <2>1, <2>6 DEF Release, WakeInv, queueVars
  <2>7. CASE \/ StartReceive \/ AnswerRejection \/ Drained \/ NothingQueued
             \/ Expire \/ Deliver \/ Executed \/ Leave
    BY <2>7 DEF StartReceive, AnswerRejection, Drained, NothingQueued, Expire,
                Deliver, Executed, Leave, WakeInv, queueVars
  <2> QED
    BY <2>2, <2>3, <2>4, <2>5, <2>6, <2>7 DEF Next, OwnerStep
<1>3. WakeInv => NoLostWakeup
  BY DEF WakeInv, NoLostWakeup
<1> QED
  BY <1>1, <1>2, <1>3, TypeCorrect, PTL DEF Spec

-----------------------------------------------------------------------------
(* Fates. *)

\* The messages that arrived, by what became of them: waiting, taken,
\* delivered, expired, dropped, ignored.
Sorted(n, w, t, d, e, r, i) ==
  /\ 1..n = w \cup t \cup d \cup e \cup r \cup i
  /\ w \cap t = {} /\ w \cap d = {} /\ w \cap e = {} /\ w \cap r = {}
  /\ w \cap i = {} /\ t \cap d = {} /\ t \cap e = {} /\ t \cap r = {}
  /\ t \cap i = {} /\ d \cap e = {} /\ d \cap r = {} /\ d \cap i = {}
  /\ e \cap r = {} /\ e \cap i = {} /\ r \cap i = {}

FateInv == Sorted(arrivals, Ids(rx_queue), Ids(hand), ToSet(delivered), expired,
                  dropped, ignored)

\* First in, first out: the numbers grow from the delivered commands over the
\* one taken to those that wait.
OrderInv ==
  /\ \A j, k \in DOMAIN rx_queue : j < k => rx_queue[j].id < rx_queue[k].id
  /\ \A x \in Ids(hand), y \in Ids(rx_queue) : x < y
  /\ \A x \in ToSet(delivered), y \in Ids(hand) \cup Ids(rx_queue) : x < y
  /\ \A j, k \in DOMAIN delivered : j < k => delivered[j] < delivered[k]

AnswerInv ==
  /\ answered \subseteq expired \cup dropped
  /\ ToSet(rejections) \subseteq dropped

LEMMA SortedArrives ==
  ASSUME NEW n \in Nat, NEW w, NEW t, NEW d, NEW e, NEW r, NEW i,
         Sorted(n, w, t, d, e, r, i)
  PROVE  /\ Sorted(n + 1, w \cup {n + 1}, t, d, e, r, i)
         /\ Sorted(n + 1, w, t, d, e, r \cup {n + 1}, i)
         /\ Sorted(n + 1, w, t, d, e, r, i \cup {n + 1})
<1>1. 1..(n + 1) = (1..n) \cup {n + 1} /\ n + 1 \notin 1..n
  OBVIOUS
<1> DEFINE m == n + 1
           N == 1..n
           M == 1..m
<1>2. M = N \cup {m} /\ m \notin N
  BY <1>1
<1>3. N = w \cup t \cup d \cup e \cup r \cup i
  BY DEF Sorted
<1>4. m \notin w \cup t \cup d \cup e \cup r \cup i
  BY <1>2, <1>3
<1>5. M = w \cup t \cup d \cup e \cup r \cup i \cup {m}
  BY <1>2, <1>3
<1> HIDE DEF m, N, M
<1>6. /\ M = (w \cup {m}) \cup t \cup d \cup e \cup r \cup i
      /\ M = w \cup t \cup d \cup e \cup (r \cup {m}) \cup i
      /\ M = w \cup t \cup d \cup e \cup r \cup (i \cup {m})
  BY <1>5
<1> USE DEF M
<1>7. Sorted(m, w \cup {m}, t, d, e, r, i)
  BY <1>4, <1>6 DEF Sorted
<1>8. Sorted(m, w, t, d, e, r \cup {m}, i)
  BY <1>4, <1>6 DEF Sorted
<1>9. Sorted(m, w, t, d, e, r, i \cup {m})
  BY <1>4, <1>6 DEF Sorted
<1> QED
  BY <1>7, <1>8, <1>9 DEF m

LEMMA SortedMoves ==
  ASSUME NEW n, NEW w, NEW t, NEW d, NEW e, NEW r, NEW i, NEW x
  PROVE  /\ Sorted(n, w \cup {x}, t, d, e, r, i) /\ x \notin w
              => Sorted(n, w, t \cup {x}, d, e, r, i)
         /\ Sorted(n, w, {x}, d, e, r, i)
              => /\ Sorted(n, w, {}, d \cup {x}, e, r, i)
                 /\ Sorted(n, w, {}, d, e \cup {x}, r, i)
<1> DEFINE N == 1..n
<1> HIDE DEF N
<1>1. ASSUME Sorted(n, w \cup {x}, t, d, e, r, i), x \notin w
      PROVE  Sorted(n, w, t \cup {x}, d, e, r, i)
  BY <1>1 DEF Sorted
<1>2. ASSUME Sorted(n, w, {x}, d, e, r, i)
      PROVE  /\ Sorted(n, w, {}, d \cup {x}, e, r, i)
             /\ Sorted(n, w, {}, d, e \cup {x}, r, i)
  BY <1>2 DEF Sorted
<1> QED
  BY <1>1, <1>2

LEMMA HandIds ==
  ASSUME TypeOK, HandInv
  PROVE  /\ owner \notin {"held", "check"} => hand = <<>> /\ Ids(hand) = {}
         /\ owner \in {"held", "check"} => /\ hand[1] \in Message
                                           /\ Ids(hand) = {hand[1].id}
<1>1. hand \in Seq(Message)
  BY DEF TypeOK
<1>2. CASE owner \notin {"held", "check"}
  <2>1. hand = <<>>
    BY <1>1, <1>2 DEF HandInv
  <2> QED
    BY <1>2, <2>1 DEF Ids
<1>3. CASE owner \in {"held", "check"}
  <2>1. Len(hand) = 1 /\ DOMAIN hand = {1}
    BY <1>1, <1>3 DEF HandInv
  <2>2. hand[1] \in Message
    BY <1>1, <2>1
  <2> QED
    BY <1>3, <2>1, <2>2 DEF Ids
<1> QED
  BY <1>2, <1>3

LEMMA ArriveSorts ==
  ASSUME TypeOK, FateInv, OrderInv, AnswerInv, Arrive
  PROVE  FateInv' /\ OrderInv' /\ AnswerInv'
<1> DEFINE n == arrivals + 1
<1>1. arrivals \in Nat /\ arrivals' = n /\ n \in 1..MaxArrivals
  BY DEF Arrive, TypeOK
<1>2. /\ hand' = hand /\ delivered' = delivered /\ expired' = expired
      /\ answered' = answered
  BY DEF Arrive, Ignore, RefuseAtOnce, RefuseFull, Accept, ownerVars, history
<1>3. ASSUME NEW size, Reject(n, size) \/ UNCHANGED <<rejections, wakeup>>,
             dropped' = dropped \cup {n}
      PROVE  AnswerInv'
  <2>1. CASE rejections' = rejections
    BY <1>2, <1>3, <2>1 DEF AnswerInv
  <2>2. CASE rejections' = Append(rejections, n)
    <3>1. ToSet(rejections') = ToSet(rejections) \cup {n}
      BY <1>1, <2>2, SeqFacts DEF TypeOK
    <3> QED
      BY <1>2, <1>3, <3>1 DEF AnswerInv
  <2> QED
    BY <1>3, <2>1, <2>2 DEF Reject
<1>4. CASE Ignore
  <2>1. /\ ignored' = ignored \cup {n} /\ rx_queue' = rx_queue
        /\ dropped' = dropped /\ rejections' = rejections
    BY <1>4 DEF Ignore, queueVars
  <2>2. FateInv'
    BY <1>1, <1>2, <2>1, SortedArrives DEF FateInv
  <2> QED
    BY <1>2, <2>1, <2>2 DEF OrderInv, AnswerInv
<1>5. CASE \E size \in Sizes : RefuseAtOnce(size) \/ RefuseFull(size)
  <2>1. PICK size \in Sizes : RefuseAtOnce(size) \/ RefuseFull(size)
    BY <1>5
  <2>2. /\ dropped' = dropped \cup {n} /\ rx_queue' = rx_queue
        /\ ignored' = ignored
        /\ Reject(n, size) \/ UNCHANGED <<rejections, wakeup>>
    BY <2>1 DEF RefuseAtOnce, RefuseFull, queueVars
  <2>3. FateInv'
    BY <1>1, <1>2, <2>2, SortedArrives DEF FateInv
  <2> QED
    BY <1>2, <1>3, <2>2, <2>3 DEF OrderInv
<1>6. CASE \E size \in Sizes : Accept(size)
  <2>1. PICK size \in Sizes : Accept(size)
    BY <1>6
  <2> DEFINE m == [id |-> n, size |-> size, age |-> 0]
  <2>2. /\ rx_queue' = Append(rx_queue, m) /\ rejections' = rejections
        /\ dropped' = dropped /\ ignored' = ignored
    BY <2>1 DEF Accept, history
  <2>3. m \in Message /\ m.id = n /\ rx_queue \in Seq(Message)
    BY <1>1 DEF Message, TypeOK
  <2>4. Ids(rx_queue') = Ids(rx_queue) \cup {n}
    BY <2>2, <2>3, IdsAppended
  <2>5. FateInv'
    <3>1. Sorted(arrivals, Ids(rx_queue), Ids(hand), ToSet(delivered), expired,
                 dropped, ignored)
      BY DEF FateInv
    <3>2. Sorted(n, Ids(rx_queue) \cup {n}, Ids(hand), ToSet(delivered), expired,
                 dropped, ignored)
      BY <1>1, <3>1, SortedArrives
    <3> HIDE DEF n, m
    <3> QED
      BY <1>1, <1>2, <2>2, <2>4, <3>2 DEF FateInv
  <2>6. \A x \in Ids(rx_queue) \cup Ids(hand) \cup ToSet(delivered) :
          x \in Int /\ x < n
    BY <1>1 DEF FateInv, Sorted
  <2>7. \A k \in DOMAIN rx_queue : rx_queue[k].id < n
    BY <2>6 DEF Ids
  <2>8. \A j, k \in DOMAIN rx_queue' :
          j < k => rx_queue'[j].id < rx_queue'[k].id
    <3> HIDE DEF m, n
    <3>1. /\ DOMAIN rx_queue' = DOMAIN rx_queue \cup {Len(rx_queue) + 1}
          /\ \A k \in DOMAIN rx_queue : rx_queue'[k] = rx_queue[k]
          /\ rx_queue'[Len(rx_queue) + 1] = m
          /\ \A k \in DOMAIN rx_queue : k \in 1..Len(rx_queue)
      BY <2>2, <2>3
    <3> QED
      BY <2>3, <2>7, <3>1 DEF OrderInv
  <2>9. OrderInv'
    <3> HIDE DEF m, n
    <3> QED
      BY <1>2, <2>4, <2>6, <2>8 DEF OrderInv
  <2> QED
    BY <1>2, <2>2, <2>5, <2>9 DEF AnswerInv
<1> QED
  BY <1>4, <1>5, <1>6 DEF Arrive

LEMMA GetSorts ==
  ASSUME TypeOK, HandInv, FateInv, OrderInv, Get
  PROVE  FateInv' /\ OrderInv'
<1> DEFINE h == Head(rx_queue)
           q == Tail(rx_queue)
<1>1. /\ rx_queue \in Seq(Message) /\ rx_queue # <<>>
      /\ hand' = <<h>> /\ rx_queue' = q /\ owner = "get"
      /\ arrivals' = arrivals /\ delivered' = delivered /\ expired' = expired
      /\ dropped' = dropped /\ ignored' = ignored
  BY DEF Get, TypeOK, history
<1>2. /\ h \in Message /\ h = rx_queue[1] /\ 1 \in DOMAIN rx_queue
      /\ \A k \in DOMAIN q : k \in Nat \ {0} /\ k + 1 \in DOMAIN rx_queue
                             /\ q[k] = rx_queue[k + 1]
  BY <1>1, TailFacts
<1>3. Ids(rx_queue) = {h.id} \cup Ids(q)
  BY <1>1, IdsTail
<1>4. Ids(hand) = {}
  BY <1>1, HandIds
<1>5. Ids(hand') = {h.id}
  BY <1>1 DEF Ids
<1> HIDE DEF h, q
<1>6. \A k \in DOMAIN q : h.id < q[k].id
  BY <1>2 DEF OrderInv
<1>7. \A y \in Ids(q) : h.id < y
  BY <1>6 DEF Ids
<1>8. h.id \notin Ids(q)
  BY <1>2, <1>7 DEF Message
<1>9. FateInv'
  <2>1. Sorted(arrivals, Ids(q) \cup {h.id}, {}, ToSet(delivered), expired,
               dropped, ignored)
    BY <1>3, <1>4 DEF FateInv, Sorted
  <2>2. Sorted(arrivals, Ids(q), {} \cup {h.id}, ToSet(delivered), expired,
               dropped, ignored)
    BY <1>8, <2>1, SortedMoves
  <2> QED
    BY <1>1, <1>5, <2>2 DEF FateInv
<1>10. \A j, k \in DOMAIN q : j < k => q[j].id < q[k].id
  BY <1>2 DEF OrderInv
<1>11. OrderInv'
  BY <1>1, <1>3, <1>5, <1>7, <1>10 DEF OrderInv
<1> QED
  BY <1>9, <1>11

LEMMA OwnerSorts ==
  ASSUME TypeOK, HandInv, FateInv, OrderInv, AnswerInv, OwnerStep
  PROVE  FateInv' /\ OrderInv' /\ AnswerInv'
<1>1. CASE StartReceive \/ Drained \/ NothingQueued \/ Release \/ Executed
           \/ Leave
  <2>1. UNCHANGED <<rx_queue, hand, rejections, arrivals, history>>
    BY <1>1 DEF StartReceive, Drained, NothingQueued, Release, Executed, Leave,
                queueVars
  <2> QED
    BY <2>1 DEF FateInv, OrderInv, AnswerInv, history
<1>2. CASE AnswerRejection
  <2>1. /\ answered' = answered \cup {Head(rejections)}
        /\ rejections' = Tail(rejections)
        /\ UNCHANGED <<rx_queue, hand, arrivals, delivered, expired, dropped,
                       ignored>>
    BY <1>2 DEF AnswerRejection, queueVars
  <2>2. ToSet(rejections) = {Head(rejections)} \cup ToSet(Tail(rejections))
    BY <1>2, TailElements DEF AnswerRejection, TypeOK
  <2> QED
    BY <2>1, <2>2 DEF FateInv, OrderInv, AnswerInv
<1>3. CASE Get
  <2>1. UNCHANGED <<rejections, answered, expired, dropped>>
    BY <1>3 DEF Get, history
  <2> QED
    BY <1>3, <2>1, GetSorts DEF AnswerInv
<1>4. CASE Expire
  <2> DEFINE x == hand[1].id
  <2>1. /\ expired' = expired \cup {x} /\ answered' = answered \cup {x}
        /\ hand' = <<>>
        /\ UNCHANGED <<rx_queue, rejections, arrivals, delivered, dropped,
                       ignored>>
    BY <1>4 DEF Expire, queueVars
  <2>2. Ids(hand) = {x}
    BY <1>4, HandIds DEF Expire
  <2>3. Ids(hand') = {}
    BY <2>1 DEF Ids
  <2> HIDE DEF x
  <2>4. FateInv'
    <3>1. Sorted(arrivals, Ids(rx_queue), {x}, ToSet(delivered), expired, dropped,
                 ignored)
      BY <2>2 DEF FateInv
    <3>2. Sorted(arrivals, Ids(rx_queue), {}, ToSet(delivered), expired \cup {x},
                 dropped, ignored)
      BY <3>1, SortedMoves
    <3> QED
      BY <2>1, <2>3, <3>2 DEF FateInv
  <2>5. OrderInv'
    BY <2>1, <2>3 DEF OrderInv
  <2>6. AnswerInv'
    BY <2>1 DEF AnswerInv
  <2> QED
    BY <2>4, <2>5, <2>6
<1>5. CASE Deliver
  <2> DEFINE x == hand[1].id
  <2>1. /\ delivered' = Append(delivered, x) /\ hand' = <<>>
        /\ UNCHANGED <<rx_queue, rejections, arrivals, expired, answered,
                       dropped, ignored>>
    BY <1>5 DEF Deliver, queueVars
  <2>2. Ids(hand) = {x} /\ hand[1] \in Message
    BY <1>5, HandIds DEF Deliver
  <2>3. x \in 1..MaxArrivals
    BY <2>2 DEF Message
  <2>4. Ids(hand') = {}
    BY <2>1 DEF Ids
  <2> HIDE DEF x
  <2>5. ToSet(delivered') = ToSet(delivered) \cup {x}
    <3> DEFINE S == 1..MaxArrivals
    <3>1. delivered \in Seq(S) /\ x \in S
      BY <2>3 DEF TypeOK
    <3> HIDE DEF S
    <3> QED
      BY <2>1, <3>1, SeqFacts
  <2>6. FateInv'
    <3>1. Sorted(arrivals, Ids(rx_queue), {x}, ToSet(delivered), expired, dropped,
                 ignored)
      BY <2>2 DEF FateInv
    <3>2. Sorted(arrivals, Ids(rx_queue), {}, ToSet(delivered) \cup {x}, expired,
                 dropped, ignored)
      BY <3>1, SortedMoves
    <3> QED
      BY <2>1, <2>4, <2>5, <3>2 DEF FateInv
  <2>7. /\ \A k \in DOMAIN delivered : delivered[k] < x
        /\ \A y \in Ids(rx_queue) : x < y
    BY <2>2 DEF OrderInv, ToSet
  <2>8. /\ DOMAIN delivered' = DOMAIN delivered \cup {Len(delivered) + 1}
        /\ \A k \in DOMAIN delivered : /\ delivered'[k] = delivered[k]
                                       /\ k \in 1..Len(delivered)
        /\ delivered'[Len(delivered) + 1] = x
        /\ Len(delivered) \in Nat
    BY <2>1, <2>3 DEF TypeOK
  <2>9. \A j, k \in DOMAIN delivered' : j < k => delivered'[j] < delivered'[k]
    BY <2>7, <2>8 DEF OrderInv
  <2>10. OrderInv'
    BY <2>1, <2>2, <2>4, <2>5, <2>7, <2>9 DEF OrderInv
  <2> QED
    BY <2>1, <2>6, <2>10 DEF AnswerInv
<1> QED
  BY <1>1, <1>2, <1>3, <1>4, <1>5 DEF OwnerStep

\* receive() and _on_message together lose no message, deliver none twice, and
\* keep their order; only what was dropped or expired is answered as rejected.
THEOREM FatesKept == Spec => []OneFate
<1>1. Init => FateInv /\ OrderInv /\ AnswerInv
  <2> SUFFICES ASSUME Init PROVE FateInv /\ OrderInv /\ AnswerInv
    OBVIOUS
  <2>1. Ids(rx_queue) = {} /\ Ids(hand) = {} /\ ToSet(delivered) = {}
        /\ ToSet(rejections) = {}
    BY DEF Init, Ids, ToSet
  <2>2. FateInv
    BY <2>1 DEF Init, FateInv, Sorted
  <2> QED
    BY <2>1, <2>2 DEF Init, OrderInv, AnswerInv
<1>2. TypeOK /\ HandInv /\ FateInv /\ OrderInv /\ AnswerInv /\ [Next]_vars
        => FateInv' /\ OrderInv' /\ AnswerInv'
  <2> SUFFICES ASSUME TypeOK, HandInv, FateInv, OrderInv, AnswerInv, [Next]_vars
               PROVE  FateInv' /\ OrderInv' /\ AnswerInv'
    OBVIOUS
  <2>1. CASE Connected \/ Close \/ UNCHANGED vars
    <3>1. UNCHANGED <<rx_queue, hand, rejections, arrivals, history>>
      BY <2>1 DEF Connected, Close, vars, queueVars, ownerVars
    <3> QED
      BY <3>1 DEF FateInv, OrderInv, AnswerInv, history
  <2>2. CASE Tick
    <3>1. /\ rx_queue' = [k \in DOMAIN rx_queue |-> Older(rx_queue[k])]
          /\ hand' = [k \in DOMAIN hand |-> Older(hand[k])]
          /\ UNCHANGED <<rejections, arrivals, history>>
      BY <2>2 DEF Tick
    <3>2. /\ Ids(rx_queue') = Ids(rx_queue) /\ DOMAIN rx_queue' = DOMAIN rx_queue
          /\ \A k \in DOMAIN rx_queue : rx_queue'[k].id = rx_queue[k].id
      BY <3>1, AgedQueue DEF TypeOK
    <3>3. Ids(hand') = Ids(hand)
      BY <3>1, AgedQueue DEF TypeOK
    <3> QED
      BY <3>1, <3>2, <3>3 DEF FateInv, OrderInv, AnswerInv, history
  <2> QED
    BY <2>1, <2>2, ArriveSorts, OwnerSorts DEF Next
<1>3. FateInv /\ OrderInv /\ AnswerInv => OneFate
  <2> SUFFICES ASSUME FateInv, OrderInv, AnswerInv PROVE OneFate
    OBVIOUS
  <2> DEFINE fates == <<Ids(rx_queue), Ids(hand), ToSet(delivered), expired,
                        dropped, ignored>>
             w == Ids(rx_queue)
             t == Ids(hand)
             d == ToSet(delivered)
  <2>1. Sorted(arrivals, w, t, d, expired, dropped, ignored)
    BY DEF FateInv
  <2> HIDE DEF w, t, d
  <2>2. /\ DOMAIN fates = 1..6 /\ fates[1] = w /\ fates[2] = t /\ fates[3] = d
        /\ fates[4] = expired /\ fates[5] = dropped /\ fates[6] = ignored
    BY DEF w, t, d
  <2> HIDE DEF fates
  <2>3. ToSet(fates) = {w, t, d, expired, dropped, ignored}
    BY <2>2 DEF ToSet
  <2>4. 1..arrivals = UNION ToSet(fates)
    BY <2>1, <2>3 DEF Sorted
  <2>5. ASSUME NEW j \in DOMAIN fates, NEW k \in DOMAIN fates, j # k
        PROVE  fates[j] \cap fates[k] = {}
    BY <2>1, <2>2, <2>5 DEF Sorted
  <2>6. answered \cup ToSet(rejections) \subseteq expired \cup dropped
    BY DEF AnswerInv
  <2> USE DEF fates
  <2> QED
    BY <2>4, <2>5, <2>6 DEF OneFate, OrderInv
<1> QED
  BY <1>1, <1>2, <1>3, HandHeld, PTL DEF Spec
=============================================================================
