------------------------ MODULE OnChangePublisher_proofs ------------------------
(***************************************************************************)
(* For every device, every set of readings and every queue that holds one  *)
(* cycle: nothing is remembered as published that subscribers do not have  *)
(* or are not about to get.                                                *)
(***************************************************************************)
EXTENDS OnChangePublisher, FiniteSetTheorems, TLAPS

USE DistinctAssumption, TxAssumption

-----------------------------------------------------------------------------
(* Natural numbers. *)

LEMMA LeastNumber ==
  ASSUME NEW T \in SUBSET Nat, T # {}
  PROVE  \E n \in T : \A m \in T : n <= m
<1> DEFINE U == {1..n : n \in T}
<1>1. U \subseteq FiniteSubsetsOf(Nat)
  <2>1. \A n \in Nat : IsFiniteSet(1..n) /\ 1..n \in SUBSET Nat
    BY FS_Interval
  <2> QED
    BY <2>1 DEF FiniteSubsetsOf
<1>2. PICK x \in U : \A y \in U : <<y, x>> \notin StrictSubsetOrdering(Nat)
  <2>1. U # {}
    OBVIOUS
  <2> HIDE DEF U
  <2> QED
    BY <1>1, <2>1, FS_StrictSubsetOrderingWellFounded, WFMin
<1>3. PICK n \in T : x = 1..n
  BY <1>2
<1>4. ASSUME NEW m \in T, m < n PROVE FALSE
  <2>1. 1..m \in U /\ 1..m \in SUBSET Nat /\ 1..n \in SUBSET Nat
    OBVIOUS
  <2>2. n \in 1..n /\ n \notin 1..m /\ 1..m \subseteq 1..n
    BY <1>4
  <2> QED
    BY <1>2, <1>3, <2>1, <2>2 DEF StrictSubsetOrdering
<1> QED
  BY <1>3, <1>4

LEMMA GreatestPlace ==
  ASSUME NEW N \in Nat, NEW T \in SUBSET (1..N), T # {}
  PROVE  \E k \in T : \A j \in T : j <= k
<1> DEFINE U == {n \in Nat : \E k \in T : n = N - k}
<1>1. U \in SUBSET Nat /\ U # {}
  <2>1. PICK k \in T : k \in 1..N
    OBVIOUS
  <2>2. N - k \in U
    BY <2>1
  <2> QED
    BY <2>2
<1>2. PICK n \in U : \A m \in U : n <= m
  <2> HIDE DEF U
  <2> QED
    BY <1>1, LeastNumber
<1>3. PICK k \in T : n = N - k
  BY <1>2
<1>4. ASSUME NEW j \in T PROVE j <= k
  <2>1. N - j \in U
    OBVIOUS
  <2> QED
    BY <1>2, <1>3, <2>1
<1> QED
  BY <1>4

-----------------------------------------------------------------------------
(* What subscribers will have. *)

PayloadSet == UNION {[D -> Vals] : D \in SUBSET Refs}
Publication == [topic : Topics, data : PayloadSet]

LEMMA PayloadsAreFunctions ==
  ASSUME NEW p, p \in PayloadSet
  PROVE  IsPayload(p)
BY DEF PayloadSet, IsPayload

\* Final(t) is the last datum on its way to t, or what subscribers have.
IsFinal(q, s, t, data) ==
  \/ /\ \A k \in DOMAIN q : q[k].topic # t
     /\ data = s[t]
  \/ \E k \in DOMAIN q : /\ q[k].topic = t /\ data = q[k].data
                         /\ \A j \in DOMAIN q : q[j].topic = t => j <= k

LEMMA FinalIsFinal ==
  ASSUME inflight \in Seq(Publication), NEW t
  PROVE  IsFinal(inflight, seen, t, Final(t))
<1> DEFINE sent == {k \in DOMAIN inflight : inflight[k].topic = t}
<1>1. CASE sent = {}
  BY <1>1 DEF Final, IsFinal
<1>2. CASE sent # {}
  <2>1. sent \in SUBSET (1..Len(inflight)) /\ Len(inflight) \in Nat
    OBVIOUS
  <2>2. \E k \in sent : \A j \in sent : j <= k
    <3> HIDE DEF sent
    <3> QED
      BY <1>2, <2>1, GreatestPlace
  <2>3. PICK k : k = CHOOSE i \in sent : \A j \in sent : j <= i
    OBVIOUS
  <2>4. k \in sent /\ \A j \in sent : j <= k
    BY <2>2, <2>3
  <2>5. Final(t) = inflight[k].data
    BY <1>2, <2>3 DEF Final
  <2> QED
    BY <2>4, <2>5 DEF IsFinal
<1> QED
  BY <1>1, <1>2

LEMMA FinalIsUnique ==
  ASSUME NEW q \in Seq(Publication), NEW s, NEW t, NEW d, NEW e,
         IsFinal(q, s, t, d), IsFinal(q, s, t, e)
  PROVE  d = e
<1>1. \A j, k \in DOMAIN q : j <= k /\ k <= j => j = k
  OBVIOUS
<1> QED
  BY <1>1 DEF IsFinal

LEMMA FinalAppended ==
  ASSUME NEW q \in Seq(Publication), NEW m \in Publication, NEW s, NEW t, NEW d,
         IF t = m.topic THEN d = m.data ELSE IsFinal(q, s, t, d)
  PROVE  IsFinal(Append(q, m), s, t, d)
<1> DEFINE r == Append(q, m)
           n == Len(q)
<1>1. /\ n \in Nat /\ DOMAIN r = 1..(n + 1) /\ DOMAIN q = 1..n
      /\ r[n + 1] = m /\ \A k \in 1..n : r[k] = q[k]
  OBVIOUS
<1> HIDE DEF r, n
<1>2. CASE t = m.topic
  BY <1>1, <1>2 DEF IsFinal, r
<1>3. CASE t # m.topic
  <2>1. \A k \in DOMAIN r : r[k].topic = t => k \in DOMAIN q /\ q[k].topic = t
    BY <1>1, <1>3
  <2>2. \A k \in DOMAIN q : k \in DOMAIN r /\ r[k] = q[k]
    BY <1>1
  <2>3. IsFinal(q, s, t, d)
    BY <1>3
  <2> QED
    BY <2>1, <2>2, <2>3, Zenon DEF IsFinal, r
<1> QED
  BY <1>2, <1>3

LEMMA FinalAnswered ==
  ASSUME NEW q \in Seq(Publication), q # <<>>, NEW s \in [Topics -> PayloadSet \cup {NONE}],
         NEW t \in Topics, NEW d, IsFinal(q, s, t, d)
  PROVE  IsFinal(Tail(q), [s EXCEPT ![Head(q).topic] = Head(q).data], t, d)
<1> DEFINE r == Tail(q)
           n == Len(q)
           u == [s EXCEPT ![Head(q).topic] = Head(q).data]
<1>1. /\ n \in Nat \ {0} /\ DOMAIN r = 1..(n - 1) /\ DOMAIN q = 1..n
      /\ Head(q) = q[1] /\ \A k \in 1..(n - 1) : r[k] = q[k + 1]
      /\ q[1] \in Publication
  OBVIOUS
<1>2. u[t] = IF t = q[1].topic THEN q[1].data ELSE s[t]
  BY <1>1
<1> HIDE DEF r, n, u
<1>3. CASE \A k \in DOMAIN q : q[k].topic # t
  <2>1. d = s[t]
    BY <1>3 DEF IsFinal
  <2>2. \A k \in DOMAIN r : r[k].topic # t
    <3>1. \A k \in 1..(n - 1) : k + 1 \in 1..n
      BY <1>1
    <3> QED
      BY <1>1, <1>3, <3>1
  <2>3. q[1].topic # t
    BY <1>1, <1>3
  <2> QED
    BY <1>2, <2>1, <2>2, <2>3 DEF IsFinal, r, u
<1>4. ASSUME NEW k \in DOMAIN q, q[k].topic = t, d = q[k].data,
             \A j \in DOMAIN q : q[j].topic = t => j <= k
      PROVE  IsFinal(r, u, t, d)
  <2>1. CASE k = 1
    <3>1. \A j \in DOMAIN r : r[j].topic # t
      <4>1. \A j \in 1..(n - 1) : j + 1 \in 1..n /\ ~(j + 1 <= 1)
        BY <1>1
      <4> QED
        BY <1>1, <1>4, <2>1, <4>1
    <3> QED
      BY <1>2, <1>4, <2>1, <3>1 DEF IsFinal
  <2>2. CASE k # 1
    <3>1. k - 1 \in DOMAIN r /\ r[k - 1] = q[k]
      BY <1>1, <2>2
    <3>2. \A j \in DOMAIN r : r[j].topic = t => j <= k - 1
      <4>1. \A j \in 1..(n - 1) : j + 1 \in 1..n /\ (j + 1 <= k => j <= k - 1)
        BY <1>1
      <4> QED
        BY <1>1, <1>4, <4>1
    <3> QED
      BY <1>4, <3>1, <3>2 DEF IsFinal
  <2> QED
    BY <2>1, <2>2
<1> QED
  BY <1>3, <1>4 DEF IsFinal, r, u

-----------------------------------------------------------------------------
(* Types. *)

FlagType ==
  /\ single \in BOOLEAN /\ reconnected \in BOOLEAN /\ errored \in BOOLEAN
  /\ connected \in BOOLEAN /\ on_connect \in BOOLEAN /\ calm \in BOOLEAN
  /\ pc \in {"poll", "publish_data", "publish"}
DataType ==
  /\ val \in [Refs -> Vals \cup {NONE}]
  /\ cache = NONE \/ cache \in PayloadSet
  /\ inflight \in Seq(Publication) /\ Len(inflight) <= TxQueueSize
  /\ seen \in [Topics -> PayloadSet \cup {NONE}]

\* The topics of a cycle are those of the device's values, and outside
\* publish_data there are none.
TopicInv ==
  /\ todo \cup published \subseteq IF single THEN Valued ELSE {Group}
  /\ pc # "publish" => todo = {} /\ published = {}

TypeInv == FlagType /\ DataType /\ TopicInv

LEMMA TypeFacts ==
  ASSUME TypeInv
  PROVE  TypeOK
<1>1. todo \subseteq Topics /\ published \subseteq Topics
  BY DEF TypeInv, TopicInv, Valued, Topics
<1>2. cache = NONE \/ IsPayload(cache)
  BY PayloadsAreFunctions DEF TypeInv, DataType
<1>3. \A t \in Topics : seen[t] = NONE \/ IsPayload(seen[t])
  BY PayloadsAreFunctions DEF TypeInv, DataType
<1>4. \A k \in DOMAIN inflight :
        inflight[k].topic \in Topics /\ IsPayload(inflight[k].data)
  <2>1. \A k \in DOMAIN inflight : inflight[k] \in Publication
    BY DEF TypeInv, DataType
  <2> QED
    BY <2>1, PayloadsAreFunctions DEF Publication
<1> QED
  BY <1>1, <1>2, <1>3, <1>4 DEF TypeOK, TypeInv, FlagType, DataType

LEMMA DataIsPayload ==
  ASSUME DataType
  PROVE  /\ Payload \in PayloadSet
         /\ \A r \in Valued : DataOf(r) \in PayloadSet /\ r # Group
         /\ DataOf(Group) = Payload
         /\ \A r \in Valued : DataOf(r) = [q \in {r} |-> val[r]]
<1>1. Valued \in SUBSET Refs /\ \A r \in Valued : val[r] \in Vals
  BY DEF DataType, Valued
<1>2. Payload \in [Valued -> Vals]
  BY <1>1 DEF Payload
<1>3. ASSUME NEW r \in Valued
      PROVE  /\ DataOf(r) \in [{r} -> Vals] /\ r # Group /\ {r} \in SUBSET Refs
             /\ DataOf(r) = [q \in {r} |-> val[r]]
  <2>1. r # Group /\ r \in Refs
    BY <1>1
  <2>2. DataOf(r) = [q \in {r} |-> val[q]]
    BY <2>1 DEF DataOf
  <2>3. [q \in {r} |-> val[q]] = [q \in {r} |-> val[r]]
    OBVIOUS
  <2> QED
    BY <1>1, <2>1, <2>2, <2>3
<1>4. DataOf(Group) = Payload
  BY DEF DataOf
<1>5. \A D \in SUBSET Refs : [D -> Vals] \subseteq PayloadSet
  BY DEF PayloadSet
<1> QED
  BY <1>1, <1>2, <1>3, <1>4, <1>5

LEMMA RememberIsPayload ==
  ASSUME TypeInv
  PROVE  Remember = NONE \/ Remember \in PayloadSet
<1>1. CASE published = {}
  BY <1>1 DEF Remember, TypeInv, DataType
<1>2. CASE published # {} /\ ~single
  BY <1>2, DataIsPayload DEF Remember, TypeInv
<1>3. CASE published # {} /\ single
  <2> DEFINE old == IF cache = NONE THEN {} ELSE DOMAIN cache
  <2>1. published \subseteq Refs /\ \A r \in published : val[r] \in Vals
    BY <1>3 DEF TypeInv, TopicInv, DataType, Valued
  <2>2. old \subseteq Refs /\ \A r \in old : cache[r] \in Vals
    BY DEF TypeInv, DataType, PayloadSet
  <2>3. Remember = [r \in old \cup published |->
                      IF r \in published THEN val[r] ELSE cache[r]]
    BY <1>3 DEF Remember
  <2> HIDE DEF old
  <2>4. Remember \in [old \cup published -> Vals]
    BY <2>1, <2>2, <2>3
  <2> QED
    BY <2>1, <2>2, <2>4 DEF PayloadSet
<1> QED
  BY <1>1, <1>2, <1>3

LEMMA StepKeepsType ==
  ASSUME TypeInv, [Next]_vars
  PROVE  TypeInv'
<1> USE DEF TypeInv
<1>1. CASE Poll
  <2>1. val' \in [Refs -> Vals \cup {NONE}] /\ Valued' = {r \in Refs : val'[r] # NONE}
    BY <1>1 DEF Poll, DataType, Valued
  <2> QED
    BY <1>1, <2>1 DEF Poll, FlagType, DataType, TopicInv
<1>2. CASE SkipFailed \/ SkipEmpty \/ SkipUnchanged \/ SelectTopics
  <2>1. /\ StartPublishData
        /\ cache' = NONE \/ cache' = Kept
        /\ \/ pc' = "poll" /\ todo' = {}
           \/ pc' = "publish" /\ todo' \subseteq IF single THEN Valued ELSE {Group}
    BY <1>2 DEF SkipFailed, SkipEmpty, SkipUnchanged, SelectTopics
  <2>2. cache' = NONE \/ cache' \in PayloadSet
    BY <2>1 DEF Kept, DataType
  <2>3. Valued' = Valued
    BY <2>1 DEF StartPublishData, Valued
  <2> QED
    BY <2>1, <2>2, <2>3 DEF StartPublishData, FlagType, DataType, TopicInv
<1>3. ASSUME NEW t \in todo, Publish(t) PROVE TypeInv'
  <2>1. t \in IF single THEN Valued ELSE {Group}
    BY DEF TopicInv
  <2>2. Valued' = Valued
    BY <1>3 DEF Publish, Valued
  <2>3. inflight' \in Seq(Publication) /\ Len(inflight') <= TxQueueSize
    <3>1. [topic |-> t, data |-> DataOf(t)] \in Publication
      BY <2>1, DataIsPayload DEF Publication, Topics, Valued
    <3>2. inflight \in Seq(Publication) /\ Len(inflight) <= TxQueueSize
      BY DEF DataType
    <3>3. CASE MayPublish
      <4>1. inflight' = Append(inflight, [topic |-> t, data |-> DataOf(t)])
        BY <1>3, <3>3 DEF Publish
      <4>2. /\ inflight' \in Seq(Publication)
            /\ Len(inflight') = Len(inflight) + 1
        BY <3>1, <3>2, <4>1
      <4> QED
        BY <3>2, <3>3, <4>2 DEF MayPublish
    <3>4. CASE ~MayPublish
      BY <1>3, <3>2, <3>4 DEF Publish
    <3> QED
      BY <3>3, <3>4
  <2> QED
    BY <1>3, <2>1, <2>2, <2>3 DEF Publish, FlagType, DataType, TopicInv
<1>4. CASE Save
  <2>1. cache' = NONE \/ cache' \in PayloadSet
    BY <1>4, RememberIsPayload DEF Save
  <2>2. Valued' = Valued
    BY <1>4 DEF Save, Valued
  <2> QED
    BY <1>4, <2>1, <2>2 DEF Save, FlagType, DataType, TopicInv
<1>5. CASE Acknowledge \/ RejectPublish \/ Disconnect
  <2>1. inflight' \in Seq(Publication) /\ Len(inflight') <= TxQueueSize
    <3>1. inflight' \in {inflight, <<>>} \/ (inflight # <<>> /\ inflight' = Tail(inflight))
      BY <1>5 DEF Acknowledge, RejectPublish, Disconnect
    <3>2. CASE inflight # <<>> /\ inflight' = Tail(inflight)
      BY <3>2 DEF DataType
    <3>3. CASE inflight' \in {inflight, <<>>}
      <4>1. Len(<<>>) = 0 /\ <<>> \in Seq(Publication) /\ 0 <= TxQueueSize
        OBVIOUS
      <4> QED
        BY <3>3, <4>1 DEF DataType
    <3> QED
      BY <3>1, <3>2, <3>3
  <2>2. seen' \in [Topics -> PayloadSet \cup {NONE}]
    <3>1. inflight # <<>> => Head(inflight) \in Publication
      BY DEF DataType
    <3> QED
      BY <1>5, <3>1 DEF Acknowledge, RejectPublish, Disconnect, DataType, Publication
  <2>3. Valued' = Valued
    BY <1>5 DEF Acknowledge, RejectPublish, Disconnect, Valued
  <2>4. /\ UNCHANGED <<single, val, cache, reconnected, pc, todo, published, calm>>
        /\ errored' \in {errored, TRUE} /\ connected' \in {connected, FALSE}
        /\ on_connect' \in {on_connect, FALSE}
    BY <1>5 DEF Acknowledge, RejectPublish, Disconnect, cycleVars
  <2>5. FlagType'
    BY <2>4 DEF FlagType
  <2>6. DataType'
    BY <2>1, <2>2, <2>4 DEF DataType
  <2>7. TopicInv'
    BY <2>3, <2>4 DEF TopicInv
  <2> QED
    BY <2>5, <2>6, <2>7
<1>6. CASE Connack \/ OnConnect \/ Settle \/ UNCHANGED vars
  <2>1. Valued' = Valued
    BY <1>6 DEF Connack, OnConnect, Settle, vars, Valued
  <2>2. /\ UNCHANGED <<single, val, cache, errored, pc, todo, published, inflight,
                       seen>>
        /\ calm' \in {calm, TRUE} /\ reconnected' \in {reconnected, TRUE}
        /\ connected' \in {connected, TRUE} /\ on_connect' \in {on_connect, TRUE, FALSE}
    BY <1>6 DEF Connack, OnConnect, Settle, vars, cycleVars
  <2>3. FlagType'
    BY <2>2 DEF FlagType
  <2>4. DataType' /\ TopicInv'
    BY <2>1, <2>2 DEF DataType, TopicInv
  <2> QED
    BY <2>3, <2>4
<1> QED
  BY <1>1, <1>2, <1>3, <1>4, <1>5, <1>6 DEF Next, Owner, Network

LEMMA InitType == Init => TypeInv
<1> SUFFICES ASSUME Init PROVE TypeInv
  OBVIOUS
<1>1. /\ Len(<<>>) = 0 /\ TxQueueSize >= 0 /\ <<>> \in Seq(Publication)
  OBVIOUS
<1> QED
  BY <1>1 DEF Init, TypeInv, FlagType, DataType, TopicInv

LEMMA TypeInvariant == Spec => []TypeInv
BY InitType, StepKeepsType, PTL DEF Spec

\* Every variable of publishing on change stays in its type.
THEOREM TypeCorrect == Spec => []TypeOK
BY TypeInvariant, TypeFacts, PTL

-----------------------------------------------------------------------------
(* Honesty. *)

Claimed(t, data) == IsFinal(inflight, seen, t, data)
Honest(c) ==
  IF single THEN \A r \in DOMAIN c : Claimed(r, [q \in {r} |-> c[r]])
            ELSE Claimed(Group, c)

\* What publish_data would remember if it stopped now is true of what
\* subscribers will have, unless the next cycle forgets it.
HonestInv ==
  published # {} \/ cache # NONE => Suspect \/ Honest(Remember)

LEMMA SelectKeepsHonest ==
  ASSUME TypeInv, HonestInv, StartPublishData,
         cache' = NONE \/ cache' = Kept
  PROVE  HonestInv'
<1>1. published = {} /\ published' = {}
  BY DEF StartPublishData, TypeInv, TopicInv
<1>2. Remember = cache /\ Remember' = cache'
  BY <1>1 DEF Remember
<1>3. CASE cache' = NONE
  BY <1>1, <1>3 DEF HonestInv
<1>4. CASE cache' # NONE
  <2>1. cache' = cache /\ ~reconnected /\ ~errored
    BY <1>4 DEF Kept
  <2>2. Suspect => Suspect'
    BY <2>1 DEF Suspect, StartPublishData
  <2>3. Honest(cache) => Honest(cache)'
    BY <2>1 DEF Honest, Claimed, StartPublishData
  <2> QED
    BY <1>1, <1>2, <1>4, <2>1, <2>2, <2>3 DEF HonestInv
<1> QED
  BY <1>3, <1>4

LEMMA PublishKeepsHonest ==
  ASSUME TypeInv, HonestInv, NEW t \in todo, Publish(t)
  PROVE  HonestInv'
<1>1. CASE ~MayPublish
  BY <1>1 DEF Publish, HonestInv, Suspect
<1>2. CASE MayPublish
  <2> DEFINE m == [topic |-> t, data |-> DataOf(t)]
  <2>1. /\ inflight' = Append(inflight, m) /\ published' = published \cup {t}
        /\ UNCHANGED <<single, val, cache, reconnected, errored, connected,
                       on_connect, seen>>
    BY <1>2 DEF Publish
  <2>2. Suspect' <=> Suspect
    BY <2>1 DEF Suspect
  <2>3. /\ t \in IF single THEN Valued ELSE {Group}
        /\ published \subseteq IF single THEN Valued ELSE {Group}
    BY DEF TypeInv, TopicInv
  <2>4. m \in Publication /\ inflight \in Seq(Publication)
    BY <2>3, DataIsPayload DEF Publication, Topics, Valued, TypeInv, DataType
  <2>5. \A r, d : (IF r = t THEN d = DataOf(t) ELSE Claimed(r, d)) => Claimed(r, d)'
    BY <2>1, <2>4, FinalAppended DEF Claimed
  <2> HIDE DEF m
  <2>6. CASE ~single
    <3>1. t = Group /\ Remember' = Payload
      <4>1. Payload' = Payload
        BY <2>1 DEF Payload, Valued
      <4> QED
        BY <2>1, <2>3, <2>6, <4>1 DEF Remember
    <3>2. DataOf(t) = Payload
      BY <3>1, DataIsPayload DEF TypeInv
    <3>3. Claimed(Group, Payload)'
      <4>1. Payload' = Payload
        BY <2>1 DEF Payload, Valued
      <4>2. IsFinal(inflight', seen', Group, Payload)
        BY <2>5, <3>1, <3>2 DEF Claimed
      <4> QED
        BY <4>1, <4>2 DEF Claimed
    <3>4. Honest(Remember)'
      <4>1. Payload' = Payload
        BY <2>1 DEF Payload, Valued
      <4> QED
        BY <2>1, <2>6, <3>1, <3>3, <4>1 DEF Honest
    <3> QED
      BY <3>4 DEF HonestInv
  <2>7. CASE single /\ ~Suspect
    <3> DEFINE old == IF cache = NONE THEN {} ELSE DOMAIN cache
    <3>1. /\ Remember' = [r \in old \cup published \cup {t} |->
                            IF r \in published \cup {t} THEN val[r] ELSE cache[r]]
          /\ published # {} =>
               Remember = [r \in old \cup published |->
                            IF r \in published THEN val[r] ELSE cache[r]]
          /\ published = {} => Remember = cache
      BY <2>1, <2>7 DEF Remember
    <3> HIDE DEF old
    <3>2. ASSUME NEW r \in old \cup published, r # t
          PROVE  Claimed(r, [q \in {r} |-> Remember'[r]])
      <4>1. published # {} \/ cache # NONE
        BY <3>2 DEF old
      <4>2. r \in DOMAIN Remember /\ Remember'[r] = Remember[r]
        <5>1. CASE published = {}
          BY <3>1, <3>2, <5>1, <4>1 DEF old
        <5>2. CASE published # {}
          BY <3>1, <3>2, <5>2
        <5> QED
          BY <5>1, <5>2
      <4> QED
        BY <2>7, <4>1, <4>2 DEF HonestInv, Honest
    <3>3. Remember'[t] = val[t] /\ DataOf(t) = [q \in {t} |-> val[t]]
      BY <2>3, <2>7, <3>1, DataIsPayload DEF TypeInv
    <3>4. ASSUME NEW r \in DOMAIN (Remember')
          PROVE  Claimed(r, [q \in {r} |-> Remember[r]])'
      <4>1. r = t \/ (r # t /\ r \in old \cup published)
        BY <3>1
      <4>2. IsFinal(inflight', seen', r, [q \in {r} |-> Remember'[r]])
        BY <2>5, <3>2, <3>3, <4>1 DEF Claimed
      <4> QED
        BY <4>2 DEF Claimed
    <3> QED
      BY <2>1, <2>7, <3>4 DEF HonestInv, Honest
  <2>8. CASE Suspect
    BY <2>2, <2>8 DEF HonestInv
  <2> QED
    BY <2>6, <2>7, <2>8
<1> QED
  BY <1>1, <1>2

LEMMA AcknowledgeKeepsHonest ==
  ASSUME TypeInv, HonestInv, Acknowledge
  PROVE  HonestInv'
<1>1. /\ inflight # <<>> /\ inflight' = Tail(inflight)
      /\ seen' = [seen EXCEPT ![Head(inflight).topic] = Head(inflight).data]
      /\ UNCHANGED <<single, val, cache, published, reconnected, errored,
                     connected, on_connect>>
  BY DEF Acknowledge, cycleVars
<1>2. \A t \in Topics : \A d : Claimed(t, d) => IsFinal(inflight', seen', t, d)
  BY <1>1, FinalAnswered DEF Claimed, TypeInv, DataType
<1>3. Remember' = Remember /\ (Suspect' <=> Suspect)
  BY <1>1 DEF Remember, Suspect, Payload, Valued
<1>4. published # {} \/ cache # NONE => Suspect \/ DOMAIN Remember \subseteq Topics \/ ~single
  <2>1. published = {} /\ cache # NONE => Remember \in PayloadSet
    BY DEF Remember, TypeInv, DataType
  <2>2. published # {} /\ single => DOMAIN Remember \subseteq Refs
    <3>1. published \subseteq Refs \/ ~single
      BY DEF TypeInv, TopicInv, Valued
    <3>2. cache = NONE \/ DOMAIN cache \subseteq Refs
      BY DEF TypeInv, DataType, PayloadSet
    <3> QED
      BY <3>1, <3>2 DEF Remember
  <2> QED
    BY <2>1, <2>2 DEF PayloadSet, Topics
<1>5. Group \in Topics
  BY DEF Topics
<1>6. ASSUME published # {} \/ cache # NONE, ~Suspect
      PROVE  Honest(Remember)'
  <2>1. Honest(Remember)
    BY <1>6 DEF HonestInv
  <2>2. CASE single
    <3>1. \A r \in DOMAIN Remember :
            IsFinal(inflight', seen', r, [q \in {r} |-> Remember[r]])
      BY <1>2, <1>4, <1>6, <2>1, <2>2 DEF Honest
    <3> QED
      BY <1>1, <1>3, <2>2, <3>1 DEF Honest, Claimed
  <2>3. CASE ~single
    <3>1. IsFinal(inflight', seen', Group, Remember)
      BY <1>2, <1>5, <2>1, <2>3 DEF Honest
    <3> QED
      BY <1>1, <1>3, <2>3, <3>1 DEF Honest, Claimed
  <2> QED
    BY <2>2, <2>3 DEF TypeInv, FlagType
<1> QED
  BY <1>1, <1>3, <1>6 DEF HonestInv

LEMMA StepKeepsHonest ==
  ASSUME TypeInv, HonestInv, [Next]_vars
  PROVE  HonestInv'
<1>1. CASE Poll
  <2>1. published = {} /\ published' = {} /\ cache' = cache
    BY <1>1 DEF Poll, TypeInv, TopicInv
  <2>2. Remember = cache /\ Remember' = cache
    BY <2>1 DEF Remember
  <2>3. (Suspect' <=> Suspect) /\ (Honest(cache) => Honest(cache)')
    BY <1>1, <2>1 DEF Poll, Suspect, Honest, Claimed
  <2> QED
    BY <2>1, <2>2, <2>3 DEF HonestInv
<1>2. CASE SkipFailed \/ SkipEmpty \/ SkipUnchanged \/ SelectTopics
  BY <1>2, SelectKeepsHonest DEF SkipFailed, SkipEmpty, SkipUnchanged, SelectTopics
<1>3. CASE Save
  <2>1. published' = {} /\ cache' = Remember /\ Remember' = cache'
    BY <1>3 DEF Save, Remember
  <2>2. (Suspect' <=> Suspect) /\ (Honest(Remember) => Honest(Remember)')
    BY <1>3, <2>1 DEF Save, Suspect, Honest, Claimed
  <2>3. published = {} => Remember = cache
    BY DEF Remember
  <2> QED
    BY <2>1, <2>2, <2>3 DEF HonestInv
<1>4. CASE RejectPublish \/ Disconnect \/ Connack \/ OnConnect
  BY <1>4 DEF RejectPublish, Disconnect, Connack, OnConnect, HonestInv, Suspect
<1>5. CASE Settle \/ UNCHANGED vars
  <2>1. UNCHANGED <<single, val, cache, published, reconnected, errored,
                    connected, on_connect, inflight, seen>>
    BY <1>5 DEF Settle, vars, cycleVars
  <2>2. Remember' = Remember /\ (Suspect' <=> Suspect)
    BY <2>1 DEF Remember, Suspect, Payload, Valued
  <2> QED
    BY <2>1, <2>2 DEF HonestInv, Honest, Claimed
<1> QED
  BY <1>1, <1>2, <1>3, <1>4, <1>5, PublishKeepsHonest, AcknowledgeKeepsHonest
     DEF Next, Owner, Network

LEMMA HonestMeansHonest ==
  ASSUME TypeInv, HonestInv
  PROVE  CacheIsHonest
<1> SUFFICES ASSUME cache # NONE, ~Suspect, pc # "publish"
             PROVE  IF single THEN \A r \in DOMAIN cache :
                                     Final(r) = [q \in {r} |-> cache[r]]
                              ELSE Final(Group) = cache
  BY DEF CacheIsHonest
<1>1. Remember = cache /\ Honest(cache)
  BY DEF TypeInv, TopicInv, Remember, HonestInv
<1>2. \A t : IsFinal(inflight, seen, t, Final(t))
  BY FinalIsFinal DEF TypeInv, DataType
<1>3. \A t, d, e : IsFinal(inflight, seen, t, d) /\ IsFinal(inflight, seen, t, e) => d = e
  BY FinalIsUnique DEF TypeInv, DataType
<1> QED
  BY <1>1, <1>2, <1>3 DEF Honest, Claimed

\* The change cache of publish_data, its invalidation by the generation and
\* error counters, and the callbacks that bump them: however publications,
\* answers, rejections and reconnections interleave, a value that was lost,
\* rejected or refused is not taken for published.
THEOREM HonestCache == Spec => []CacheIsHonest
<1>1. Init => HonestInv
  BY DEF Init, HonestInv
<1>2. Spec => []HonestInv
  BY <1>1, TypeInvariant, StepKeepsHonest, PTL DEF Spec
<1> QED
  BY <1>2, TypeInvariant, HonestMeansHonest, PTL
=============================================================================
