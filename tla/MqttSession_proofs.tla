-------------------------- MODULE MqttSession_proofs --------------------------
(***************************************************************************)
(* For every transmit queue and every number of publications: the types,   *)
(* the will behind an online status, the last status of a shutdown, and    *)
(* what exit status 0 of --once stands for.                                *)
(***************************************************************************)
EXTENDS MqttSession, FiniteSetTheorems, TLAPS

USE SessionAssumption, NoneAssumption

\* The data publications among these.
DataPlaces(msgs) == {k \in DOMAIN msgs : msgs[k] = "data"}
DataIn(msgs) == Cardinality(DataPlaces(msgs))

\* No data publication is answered twice; only a flush waits.
AnswerInv ==
  /\ answered + DataIn(out) <= published
  /\ pc \notin {"flush", "flush_once"} => waiting = 0

\* The broker holds a will whenever the gateway is connected.
WillInv ==
  /\ on_connect \/ resending => connected
  /\ connected => session
  /\ pc = "connect" => retained # TRUE /\ ~resending /\ (connected => on_connect)
  /\ pc \in {"ended", "crashed"} => ~looping /\ ~connected

\* Of all that is out, the last that reaches the broker is close()'s status;
\* or nothing is out, and the broker shows offline.
OfflineLast ==
  IF out = <<>> THEN retained # TRUE
  ELSE /\ out[Len(out)] = "offline"
       /\ older = 0 \/ older + ahead < Len(out)

\* Between close() and the end, a connection that lasts, or whose on_connect
\* is yet to come, cannot bring the online status back.
ClosingInv ==
  pc \in {"flush", "stop_loop"} =>
    /\ closed
    /\ ~excused /\ connected /\ ~on_connect =>
         OfflineLast /\ (resending => older = 0)

\* The data publications that --once would report as lost.
NoDataLeft == \A k \in DOMAIN out : out[k] # "data"
OnceInv ==
  /\ pc \in {"connect", "run"} /\ ~errors => answered + DataIn(out) = published
  /\ pc = "flush_once" =>
       /\ answered + DataIn(out) = published
       /\ published = MaxData \/ (stop /\ published = 0)
       /\ \A k \in DOMAIN out : k > waiting => out[k] # "data"
  /\ once /\ ~failed /\ pc \in {"close", "flush", "stop_loop", "ended"} =>
       \/ answered = MaxData /\ NoDataLeft
       \/ stop /\ published = 0

-----------------------------------------------------------------------------
\* The places of a queue are finitely many, so they can be counted.
LEMMA DataPlacesFinite ==
  ASSUME NEW s \in Seq(Kinds)
  PROVE  IsFiniteSet(DataPlaces(s)) /\ DataIn(s) \in Nat
<1>1. DataPlaces(s) \in SUBSET (1..Len(s)) /\ Len(s) \in Nat
  BY DEF DataPlaces
<1>2. IsFiniteSet(1..Len(s))
  BY <1>1, FS_Interval
<1>3. IsFiniteSet(DataPlaces(s))
  BY <1>1, <1>2, FS_Subset
<1> QED
  BY <1>3, FS_CardinalityType DEF DataIn

\* A queue without data publications has none to count.
LEMMA NoDataCounted ==
  ASSUME NEW s \in Seq(Kinds), \A k \in DOMAIN s : s[k] # "data"
  PROVE  DataIn(s) = 0
<1>1. DataPlaces(s) = {}
  BY DEF DataPlaces
<1> QED
  BY <1>1, FS_EmptySet DEF DataIn

\* Appending a publication adds one to the count if it is data.
LEMMA DataAppended ==
  ASSUME NEW s \in Seq(Kinds), NEW e \in Kinds
  PROVE  DataIn(Append(s, e)) = IF e = "data" THEN DataIn(s) + 1 ELSE DataIn(s)
<1>1. /\ Append(s, e) \in Seq(Kinds) /\ Len(s) \in Nat
      /\ DOMAIN s = 1..Len(s)
      /\ DOMAIN Append(s, e) = 1..(Len(s) + 1)
      /\ \A k \in 1..Len(s) : Append(s, e)[k] = s[k]
      /\ Append(s, e)[Len(s) + 1] = e
  OBVIOUS
<1>2. CASE e = "data"
  <2>1. DataPlaces(Append(s, e)) = DataPlaces(s) \cup {Len(s) + 1}
    BY <1>1, <1>2 DEF DataPlaces
  <2>2. Len(s) + 1 \notin DataPlaces(s)
    BY <1>1 DEF DataPlaces
  <2> QED
    BY <1>2, <2>1, <2>2, DataPlacesFinite, FS_AddElement DEF DataIn
<1>3. CASE e # "data"
  <2>1. DataPlaces(Append(s, e)) = DataPlaces(s)
    BY <1>1, <1>3 DEF DataPlaces
  <2> QED
    BY <1>3, <2>1 DEF DataIn
<1> QED
  BY <1>2, <1>3

\* Taking a publication off the queue closes the gap.
LEMMA Removed ==
  ASSUME NEW s \in Seq(Kinds), NEW i \in 1..Len(s)
  PROVE  /\ RemoveAt(s, i) \in Seq(Kinds) /\ Len(RemoveAt(s, i)) = Len(s) - 1
         /\ \A k \in 1..(Len(s) - 1) :
              RemoveAt(s, i)[k] = IF k < i THEN s[k] ELSE s[k + 1]
<1> DEFINE before == SubSeq(s, 1, i - 1)
           behind == SubSeq(s, i + 1, Len(s))
<1>1. Len(s) \in Nat /\ i \in Nat /\ 1 <= i /\ i <= Len(s)
  OBVIOUS
<1>2. /\ before \in Seq(Kinds) /\ Len(before) = i - 1
      /\ \A k \in 1..(i - 1) : before[k] = s[k]
  BY <1>1
<1>3. /\ behind \in Seq(Kinds) /\ Len(behind) = Len(s) - i
      /\ \A k \in 1..(Len(s) - i) : behind[k] = s[i + k]
  <2>1. CASE i = Len(s)
    <3>1. behind = <<>>
      BY <1>1, <2>1
    <3> QED
      BY <1>1, <2>1, <3>1
  <2>2. CASE i < Len(s)
    BY <1>1, <2>2
  <2> QED
    BY <1>1, <2>1, <2>2
<1>4. RemoveAt(s, i) = before \o behind
  BY DEF RemoveAt
<1> HIDE DEF before, behind
<1>5. /\ before \o behind \in Seq(Kinds)
      /\ Len(before \o behind) = Len(before) + Len(behind)
      /\ \A k \in 1..(Len(before) + Len(behind)) :
           (before \o behind)[k] = IF k <= Len(before) THEN before[k]
                                   ELSE behind[k - Len(before)]
  <2>1. before \in Seq(Kinds) /\ behind \in Seq(Kinds)
    BY <1>2, <1>3
  <2> QED
    BY <2>1
<1>6. ASSUME NEW k \in 1..(Len(s) - 1)
      PROVE  RemoveAt(s, i)[k] = IF k < i THEN s[k] ELSE s[k + 1]
  <2>1. k \in Nat /\ k >= 1 /\ k <= (i - 1) + (Len(s) - i)
    BY <1>1
  <2>2. CASE k < i
    BY <1>1, <1>2, <1>3, <1>4, <1>5, <2>1, <2>2
  <2>3. CASE ~(k < i)
    <3>1. k - (i - 1) \in 1..(Len(s) - i) /\ i + (k - (i - 1)) = k + 1
      BY <1>1, <2>1, <2>3
    <3>2. behind[k - (i - 1)] = s[k + 1]
      BY <1>3, <3>1
    <3> QED
      BY <1>1, <1>2, <1>3, <1>4, <1>5, <2>1, <2>3, <3>2
  <2> QED
    BY <2>2, <2>3
<1> QED
  BY <1>1, <1>2, <1>3, <1>4, <1>5, <1>6

\* Taking a publication off takes one off the count if it is data.
LEMMA DataAnswered ==
  ASSUME NEW s \in Seq(Kinds), NEW i \in 1..Len(s)
  PROVE  DataIn(s) = IF s[i] = "data" THEN DataIn(RemoveAt(s, i)) + 1
                                      ELSE DataIn(RemoveAt(s, i))
<1> DEFINE t == RemoveAt(s, i)
           T == DataPlaces(t)
           U == DataPlaces(s) \ {i}
           shift == [k \in T |-> IF k < i THEN k ELSE k + 1]
<1>1. /\ t \in Seq(Kinds) /\ Len(s) \in Nat \ {0} /\ i \in Nat
      /\ DOMAIN s = 1..Len(s)
      /\ DOMAIN t = 1..(Len(s) - 1)
      /\ \A k \in 1..(Len(s) - 1) : t[k] = IF k < i THEN s[k] ELSE s[k + 1]
  <2>1. /\ t \in Seq(Kinds) /\ Len(t) = Len(s) - 1
        /\ \A k \in 1..(Len(s) - 1) : t[k] = IF k < i THEN s[k] ELSE s[k + 1]
    BY Removed
  <2>2. Len(s) \in Nat \ {0} /\ i \in Nat /\ DOMAIN s = 1..Len(s)
    OBVIOUS
  <2> HIDE DEF t
  <2>3. DOMAIN t = 1..Len(t)
    BY <2>1
  <2> QED
    BY <2>1, <2>2, <2>3
<1> HIDE DEF t
<1>2. IsFiniteSet(T) /\ IsFiniteSet(DataPlaces(s))
  BY <1>1, DataPlacesFinite
<1>3. T \subseteq Nat /\ U \subseteq Nat
  BY <1>1 DEF DataPlaces
<1>4. \A k \in T : (IF k < i THEN k ELSE k + 1) \in U
  BY <1>1 DEF DataPlaces
<1>5. \A u \in U : (IF u < i THEN u ELSE u - 1) \in T
  BY <1>1 DEF DataPlaces
<1>6. shift \in [T -> U]
  BY <1>4
<1>7. \A j, k \in T : shift[j] = shift[k] => j = k
  BY <1>1, <1>3
<1>8. \A u \in U : \E k \in T : shift[k] = u
  <2> SUFFICES ASSUME NEW u \in U PROVE \E k \in T : shift[k] = u
    OBVIOUS
  <2>1. u \in Nat /\ u # i /\ (IF u < i THEN u ELSE u - 1) \in T
    BY <1>3, <1>5
  <2>2. CASE u < i
    BY <1>1, <2>1, <2>2
  <2>3. CASE u > i
    <3>1. u - 1 \in T /\ ~(u - 1 < i) /\ (u - 1) + 1 = u
      BY <1>1, <2>1, <2>3
    <3> QED
      BY <3>1
  <2> QED
    BY <1>1, <2>1, <2>2, <2>3
<1>9. ExistsBijection(T, U)
  <2>1. shift \in Injection(T, U)
    BY <1>6, <1>7 DEF Injection, IsInjective
  <2>2. shift \in Surjection(T, U)
    BY <1>6, <1>8 DEF Surjection
  <2> QED
    BY <2>1, <2>2 DEF ExistsBijection, Bijection
<1>10. Cardinality(U) = DataIn(t)
  BY <1>2, <1>9, FS_Bijection DEF DataIn
<1>11. i \in DataPlaces(s) <=> s[i] = "data"
  BY <1>1 DEF DataPlaces
<1>12. DataIn(s) \in Nat /\ DataIn(t) \in Nat
  BY <1>1, DataPlacesFinite
<1>13. Cardinality(U) = IF i \in DataPlaces(s) THEN DataIn(s) - 1 ELSE DataIn(s)
  BY <1>2, FS_RemoveElement DEF DataIn
<1> QED
  BY <1>10, <1>11, <1>12, <1>13 DEF t

-----------------------------------------------------------------------------
\* What publish() does to the queue and to the error flag: it appends within
\* the limit, or refuses and says so.
LEMMA PublishEffect ==
  ASSUME PublicationsOK, NEW msg \in Kinds, Publish(msg)
  PROVE  /\ \/ MayPublish /\ out' = Append(out, msg) /\ errors' = errors
            \/ ~MayPublish /\ out' = out /\ errors' = TRUE
         /\ out' \in Seq(Kinds) /\ Len(out') \in Nat /\ Len(out) \in Nat
         /\ Len(out) <= Len(out') /\ Len(out') <= TxQueueSize
<1>1. \/ MayPublish /\ out' = Append(out, msg) /\ errors' = errors
      \/ ~MayPublish /\ out' = out /\ errors' = TRUE
  BY DEF Publish
<1>2. out \in Seq(Kinds) /\ Len(out) \in Nat /\ Len(out) <= TxQueueSize
  BY DEF PublicationsOK
<1>3. Append(out, msg) \in Seq(Kinds) /\ Len(Append(out, msg)) = Len(out) + 1
  BY <1>2
<1>4. MayPublish => Len(out) + 1 <= TxQueueSize
  BY <1>2 DEF MayPublish
<1> QED
  BY <1>1, <1>2, <1>3, <1>4

\* What the broker's answer does to the queue and to the places in it.
LEMMA AnswerEffect ==
  ASSUME PublicationsOK, Answer
  PROVE  /\ FirstSent \in 1..Len(out) /\ Len(out) \in Nat \ {0}
         /\ out' = RemoveAt(out, FirstSent)
         /\ out' \in Seq(Kinds) /\ Len(out') = Len(out) - 1
         /\ DOMAIN out = 1..Len(out) /\ DOMAIN out' = 1..(Len(out) - 1)
         /\ \A k \in 1..(Len(out) - 1) :
              out'[k] = IF k < FirstSent THEN out[k] ELSE out[k + 1]
         /\ waiting \in 0..Len(out) /\ waiting' \in 0..(Len(out) - 1)
         /\ waiting' = IF FirstSent <= waiting THEN waiting - 1 ELSE waiting
         /\ older' \in 0..(Len(out) - 1) /\ older' <= older
         /\ ahead' \in 0..(Len(out) - 1 - older')
<1>1. /\ out \in Seq(Kinds) /\ out # <<>> /\ out' = RemoveAt(out, FirstSent)
      /\ older \in 0..Len(out) /\ ahead \in 0..(Len(out) - older)
      /\ waiting \in 0..Len(out)
      /\ waiting' = IF FirstSent <= waiting THEN waiting - 1 ELSE waiting
  BY DEF PublicationsOK, Answer
<1>2. Len(out) \in Nat \ {0} /\ DOMAIN out = 1..Len(out)
  BY <1>1
<1>3. FirstSent \in 1..Len(out)
  BY <1>1, <1>2 DEF FirstSent
<1>4. /\ out' \in Seq(Kinds) /\ Len(out') = Len(out) - 1
      /\ \A k \in 1..(Len(out) - 1) :
           out'[k] = IF k < FirstSent THEN out[k] ELSE out[k + 1]
  BY <1>1, <1>3, Removed
<1>5. DOMAIN out' = 1..(Len(out) - 1)
  BY <1>4
<1>6. /\ older' \in 0..(Len(out) - 1) /\ older' <= older
      /\ ahead' \in 0..(Len(out) - 1 - older')
  <2>1. CASE ahead > 0
    <3>1. ahead' = ahead - 1 /\ older' = older
      BY <2>1 DEF Answer
    <3> QED
      BY <1>1, <1>2, <2>1, <3>1
  <2>2. CASE ~(ahead > 0)
    <3>1. ahead = 0 /\ ahead' = 0 /\ older' = IF older > 0 THEN older - 1 ELSE 0
      BY <1>1, <2>2 DEF Answer
    <3> QED
      BY <1>1, <1>2, <3>1
  <2> QED
    BY <2>1, <2>2
<1>7. waiting' \in 0..(Len(out) - 1)
  BY <1>1, <1>2, <1>3
<1> QED
  BY <1>1, <1>2, <1>3, <1>4, <1>5, <1>6, <1>7

\* The flags, one by one, are flags.
LEMMA FlagsStep == FlagsOK /\ [Next]_vars => FlagsOK'
<1> SUFFICES ASSUME FlagsOK, [Next]_vars PROVE FlagsOK'
  OBVIOUS
<1> USE DEF FlagsOK, threadVars, clientVars, ownerVars, brokerVars
<1>1. CASE ConnectTimesOut
  BY <1>1 DEF ConnectTimesOut
<1>2. CASE PublishData
  <2>1. errors' = errors \/ errors' = TRUE
    BY <1>2 DEF PublishData, Publish
  <2>2. UNCHANGED <<once, stop, closed, looping, connected, on_connect,
                    resending, session, failed, rejected, excused>>
    BY <1>2 DEF PublishData
  <2>3. errors' \in BOOLEAN
    BY <2>1
  <2>4. /\ once' \in BOOLEAN /\ stop' \in BOOLEAN /\ closed' \in BOOLEAN
        /\ looping' \in BOOLEAN /\ connected' \in BOOLEAN
    BY <2>2
  <2>5. /\ on_connect' \in BOOLEAN /\ resending' \in BOOLEAN
        /\ session' \in BOOLEAN /\ failed' \in BOOLEAN
        /\ rejected' \in BOOLEAN /\ excused' \in BOOLEAN
    BY <2>2
  <2> QED
    BY <2>3, <2>4, <2>5
<1>3. CASE FinishOnce
  BY <1>3 DEF FinishOnce
<1>4. CASE FlushOnce
  BY <1>4 DEF FlushOnce
<1>5. CASE LeaveLoop
  BY <1>5 DEF LeaveLoop
<1>6. CASE Close
  BY <1>6 DEF Close, Publish
<1>7. CASE Flush
  BY <1>7 DEF Flush
<1>8. CASE StopLoop
  BY <1>8 DEF StopLoop
<1>9. CASE Crash
  BY <1>9 DEF Crash
<1>10. CASE StopRequested
  BY <1>10 DEF StopRequested
<1>11. CASE Connack
  BY <1>11 DEF Connack
<1>12. CASE OnConnect
  BY <1>12 DEF OnConnect, Publish
<1>13. CASE Answer
  BY <1>13 DEF Answer
<1>14. CASE Disconnect
  BY <1>14 DEF Disconnect
<1>15. CASE BrokerNotices
  BY <1>15 DEF BrokerNotices
<1>16. CASE Resend
  BY <1>16 DEF Resend
<1>17. CASE UNCHANGED vars
  BY <1>17 DEF vars
<1> QED
  BY <1>1, <1>2, <1>3, <1>4, <1>5, <1>6, <1>7, <1>8, <1>9, <1>10, <1>11,
     <1>12, <1>13, <1>14, <1>15, <1>16, <1>17 DEF Next, Owner

\* Publications are answered once each, and the queue keeps its limit.
LEMMA PublicationsStep ==
  PublicationsOK /\ AnswerInv /\ [Next]_vars => PublicationsOK' /\ AnswerInv'
<1> SUFFICES ASSUME PublicationsOK, AnswerInv, [Next]_vars
             PROVE  PublicationsOK' /\ AnswerInv'
  OBVIOUS
<1> USE DEF PublicationsOK, AnswerInv, threadVars, clientVars, ownerVars, brokerVars
<1>0. /\ out \in Seq(Kinds) /\ Len(out) \in Nat /\ DataIn(out) \in Nat
      /\ <<>> \in Seq(Kinds) /\ Len(<<>>) = 0 /\ DataIn(<<>>) = 0
  <2>1. <<>> \in Seq(Kinds) /\ Len(<<>>) = 0 /\ DOMAIN <<>> = {}
    OBVIOUS
  <2>2. out \in Seq(Kinds) /\ Len(out) \in Nat
    OBVIOUS
  <2> QED
    BY <2>1, <2>2, DataPlacesFinite, NoDataCounted
<1>1. CASE ConnectTimesOut
  BY <1>1 DEF ConnectTimesOut
<1>2. CASE PublishData
  <2>1. "data" \in Kinds /\ Publish("data")
    BY <1>2 DEF PublishData, Kinds
  <2>0. out' = out \/ out' = Append(out, "data")
    BY <2>1, PublishEffect
  <2>2. DataIn(out') \in Nat /\ DataIn(out') <= DataIn(out) + 1
    <3>1. DataIn(Append(out, "data")) = DataIn(out) + 1
      BY <2>1, <1>0, DataAppended
    <3>2. DataIn(out') = DataIn(out) \/ DataIn(out') = DataIn(out) + 1
      BY <3>1, <2>0
    <3> QED
      BY <3>2, <1>0
  <2>3. published' = published + 1 /\ published' \in 0..MaxData
    BY <1>2 DEF PublishData
  <2>4. /\ answered' = answered /\ waiting' = waiting /\ pc' = pc
        /\ older' = older /\ ahead' = ahead
    BY <1>2 DEF PublishData
  <2>5. PublicationsOK'
    <3>1. /\ out' \in Seq(Kinds) /\ Len(out') \in Nat
          /\ Len(out) <= Len(out') /\ Len(out') <= TxQueueSize
      BY <2>1, PublishEffect
    <3> QED
      BY <3>1, <2>3, <2>4, <1>0
  <2>6. AnswerInv'
    BY <2>2, <2>3, <2>4, <1>0
  <2> QED
    BY <2>5, <2>6
<1>3. CASE FinishOnce
  BY <1>3, <1>0 DEF FinishOnce
<1>4. CASE FlushOnce
  BY <1>4, <1>0 DEF FlushOnce
<1>5. CASE LeaveLoop
  BY <1>5 DEF LeaveLoop
<1>6. CASE Close
  <2>1. CASE connected
    <3>1. "offline" \in Kinds /\ Publish("offline") /\ "offline" # "data"
      BY <1>6, <2>1 DEF Close, Kinds
    <3>2. DataIn(out') = DataIn(out)
      BY <3>1, <1>0, PublishEffect, DataAppended
    <3>3. /\ waiting' = Len(out') /\ pc' = "flush"
          /\ published' = published /\ answered' = answered
          /\ older' = older /\ ahead' = ahead
      BY <1>6, <2>1 DEF Close
    <3>4. PublicationsOK'
      <4>1. /\ out' \in Seq(Kinds) /\ Len(out') \in Nat
            /\ Len(out) <= Len(out') /\ Len(out') <= TxQueueSize
        BY <3>1, PublishEffect
      <4> QED
        BY <4>1, <3>3, <1>0
    <3>5. AnswerInv'
      BY <3>2, <3>3
    <3> QED
      BY <3>4, <3>5
  <2>2. CASE ~connected
    BY <1>6, <2>2 DEF Close
  <2> QED
    BY <2>1, <2>2
<1>7. CASE Flush
  BY <1>7, <1>0 DEF Flush
<1>8. CASE StopLoop
  BY <1>8, <1>0 DEF StopLoop
<1>9. CASE Crash
  BY <1>9, <1>0 DEF Crash
<1>10. CASE StopRequested
  BY <1>10 DEF StopRequested
<1>11. CASE Connack
  BY <1>11 DEF Connack
<1>12. CASE OnConnect
  <2>1. "online" \in Kinds /\ Publish("online") /\ "online" # "data"
    BY <1>12 DEF OnConnect, Kinds
  <2>2. DataIn(out') = DataIn(out)
    BY <2>1, <1>0, PublishEffect, DataAppended
  <2>3. /\ waiting' = waiting /\ published' = published /\ answered' = answered
        /\ older' = older /\ ahead' = ahead
        /\ pc' = IF pc = "connect" THEN "run" ELSE pc
    BY <1>12 DEF OnConnect
  <2>4. PublicationsOK'
    <3>1. /\ out' \in Seq(Kinds) /\ Len(out') \in Nat
          /\ Len(out) <= Len(out') /\ Len(out') <= TxQueueSize
      BY <2>1, PublishEffect
    <3> QED
      BY <3>1, <2>3, <1>0
  <2>5. AnswerInv'
    BY <2>2, <2>3
  <2> QED
    BY <2>4, <2>5
<1>13. CASE Answer
  <2>1. /\ published' = published /\ pc' = pc
        /\ FirstSent \in 1..Len(out) /\ out' = RemoveAt(out, FirstSent)
    BY <1>13, AnswerEffect DEF Answer
  <2>2. DataIn(out') \in Nat
    BY <1>13, AnswerEffect, DataPlacesFinite
  <2>3. answered' = IF out[FirstSent] = "data" THEN answered + 1 ELSE answered
    BY <1>13 DEF Answer
  <2>4. answered' + DataIn(out') <= published /\ answered' \in 0..MaxData
    <3>1. DataIn(out) = IF out[FirstSent] = "data" THEN DataIn(out') + 1
                                                   ELSE DataIn(out')
      BY <2>1, <1>0, DataAnswered
    <3>2. /\ answered \in Nat /\ DataIn(out) \in Nat
          /\ answered + DataIn(out) <= published /\ published <= MaxData
      BY <1>0
    <3>3. answered' + DataIn(out') = answered + DataIn(out) /\ answered' \in Nat
      BY <2>2, <2>3, <3>1, <3>2
    <3> QED
      BY <2>1, <2>2, <3>2, <3>3
  <2>5. PublicationsOK'
    <3>1. /\ out' \in Seq(Kinds) /\ Len(out') = Len(out) - 1
          /\ Len(out) \in Nat \ {0}
          /\ older' \in 0..(Len(out) - 1) /\ ahead' \in 0..(Len(out) - 1 - older')
          /\ waiting' \in 0..(Len(out) - 1)
      BY <1>13, AnswerEffect
    <3>2. Len(out') <= TxQueueSize
      BY <3>1, <1>0
    <3> QED
      BY <3>1, <3>2, <2>1, <2>4
  <2>6. AnswerInv'
    BY <1>13, <2>1, <2>4, AnswerEffect
  <2> QED
    BY <2>5, <2>6
<1>14. CASE Disconnect
  BY <1>14 DEF Disconnect
<1>15. CASE BrokerNotices
  BY <1>15 DEF BrokerNotices
<1>16. CASE Resend
  BY <1>16 DEF Resend
<1>17. CASE UNCHANGED vars
  BY <1>17 DEF vars
<1> QED
  BY <1>1, <1>2, <1>3, <1>4, <1>5, <1>6, <1>7, <1>8, <1>9, <1>10, <1>11,
     <1>12, <1>13, <1>14, <1>15, <1>16, <1>17 DEF Next, Owner

\* The types, and the count of answers they rest on.
LEMMA TypesInductive == Spec => [](TypeOK /\ AnswerInv)
<1>1. Init => TypeOK /\ AnswerInv
  <2> SUFFICES ASSUME Init PROVE TypeOK /\ AnswerInv
    OBVIOUS
  <2>1. <<>> \in Seq(Kinds) /\ Len(<<>>) = 0 /\ DOMAIN <<>> = {}
    OBVIOUS
  <2>2. DataIn(<<>>) = 0
    BY <2>1, NoDataCounted
  <2>3. FlagsOK
    BY DEF Init, FlagsOK
  <2>4. PublicationsOK /\ AnswerInv
    BY <2>1, <2>2 DEF Init, PublicationsOK, AnswerInv
  <2> QED
    BY <2>3, <2>4 DEF Init, TypeOK, Places
<1>2. TypeOK /\ AnswerInv /\ [Next]_vars => TypeOK' /\ AnswerInv'
  <2> SUFFICES ASSUME TypeOK, AnswerInv, [Next]_vars PROVE TypeOK' /\ AnswerInv'
    OBVIOUS
  <2>1. FlagsOK' /\ PublicationsOK' /\ AnswerInv'
    BY FlagsStep, PublicationsStep DEF TypeOK
  <2>2. pc' \in Places
    BY DEF TypeOK, Places, Next, Owner, vars, threadVars, clientVars, ownerVars, brokerVars,
           ConnectTimesOut, PublishData, FinishOnce, FlushOnce, LeaveLoop, Close,
           Flush, StopLoop, Crash, StopRequested, Connack, OnConnect, Resend,
           Answer, Disconnect, BrokerNotices
  <2>3. retained' \in {NONE, TRUE, FALSE}
    <3>1. CASE StopLoop
      BY <3>1 DEF TypeOK, StopLoop, StatusAfter, LastStatus
    <3>2. CASE ~StopLoop
      BY <3>2 DEF TypeOK, Next, Owner, vars, threadVars, clientVars, ownerVars, brokerVars,
                  ConnectTimesOut, PublishData, FinishOnce, FlushOnce, LeaveLoop,
                  Close, Flush, Crash, StopRequested, Connack, OnConnect,
                  Resend, Answer, Disconnect, BrokerNotices, Will
    <3> QED
      BY <3>1, <3>2
  <2> QED
    BY <2>1, <2>2, <2>3 DEF TypeOK
<1> QED
  BY <1>1, <1>2, PTL DEF Spec

\* Every variable keeps its type: in particular no more publications are
\* pending than tx_queue_size, and the broker never answers more than were
\* published (MqttHandler.publish, mqtt_task.py:418-426).
THEOREM TypeCorrect == Spec => []TypeOK
  BY TypesInductive, PTL

-----------------------------------------------------------------------------
\* Presence is never stuck at online by a crash: until the gateway ends, the
\* broker shows online only while it holds the will that start() registered
\* (mqtt_task.py:326-331).
LEMMA WillInductive == Spec => [](WillInv /\ OnlineHasWill)
<1>1. Init => WillInv /\ OnlineHasWill
  BY DEF Init, WillInv, OnlineHasWill
<1>2. WillInv /\ OnlineHasWill /\ [Next]_vars => WillInv' /\ OnlineHasWill'
  <2> SUFFICES ASSUME WillInv, OnlineHasWill, [Next]_vars
               PROVE  WillInv' /\ OnlineHasWill'
    OBVIOUS
  <2> USE DEF WillInv, OnlineHasWill, threadVars, clientVars, ownerVars, brokerVars
  <2>1. CASE ConnectTimesOut
    BY <2>1 DEF ConnectTimesOut
  <2>2. CASE PublishData
    BY <2>2 DEF PublishData
  <2>3. CASE FinishOnce
    BY <2>3 DEF FinishOnce
  <2>4. CASE FlushOnce
    BY <2>4 DEF FlushOnce
  <2>5. CASE LeaveLoop
    BY <2>5 DEF LeaveLoop
  <2>6. CASE Close
    BY <2>6 DEF Close
  <2>7. CASE Flush
    BY <2>7 DEF Flush
  <2>8. CASE StopLoop
    BY <2>8 DEF StopLoop
  <2>9. CASE Crash
    BY <2>9 DEF Crash
  <2>10. CASE StopRequested
    BY <2>10 DEF StopRequested
  <2>11. CASE Connack
    BY <2>11 DEF Connack, Will
  <2>12. CASE OnConnect
    BY <2>12 DEF OnConnect
  <2>13. CASE Answer
    BY <2>13 DEF Answer
  <2>14. CASE Disconnect
    BY <2>14 DEF Disconnect
  <2>15. CASE BrokerNotices
    BY <2>15 DEF BrokerNotices, Will
  <2>16. CASE Resend
    BY <2>16 DEF Resend
  <2>17. CASE UNCHANGED vars
    BY <2>17 DEF vars
  <2> QED
    BY <2>1, <2>2, <2>3, <2>4, <2>5, <2>6, <2>7, <2>8, <2>9,
       <2>10, <2>11, <2>12, <2>13, <2>14, <2>15, <2>16, <2>17 DEF Next, Owner
<1> QED
  BY <1>1, <1>2, PTL DEF Spec

\* A status online at the broker always has a will behind it.
THEOREM PresenceHasWill == Spec => []OnlineHasWill
  BY WillInductive, PTL

-----------------------------------------------------------------------------
\* While the broker answers, the last status stays the last.
LEMMA OfflineAnswered ==
  ASSUME PublicationsOK, OfflineLast, Answer
  PROVE  OfflineLast'
<1> USE AnswerEffect
<1>1. /\ out[Len(out)] = "offline" /\ (older = 0 \/ older + ahead < Len(out))
      /\ older \in Nat /\ ahead \in Nat
  BY DEF OfflineLast, Answer, PublicationsOK
<1>2. CASE Len(out) = 1
  <2>1. FirstSent = 1 /\ out' = <<>>
    BY <1>2
  <2>2. retained' = FALSE
    BY <1>1, <1>2, <2>1 DEF Answer
  <2> QED
    BY <2>1, <2>2 DEF OfflineLast
<1>3. CASE Len(out) > 1
  <2>1. FirstSent < Len(out)
    BY <1>1, <1>3 DEF FirstSent
  <2>2. Len(out') \in 1..(Len(out) - 1) /\ ~(Len(out') < FirstSent)
        /\ Len(out') + 1 = Len(out)
    BY <1>3, <2>1
  <2>3. out'[Len(out')] = "offline"
    BY <1>1, <2>2
  <2>4. out' # <<>>
    BY <2>2
  <2>5. older' = 0 \/ older' + ahead' < Len(out')
    <3>1. CASE ahead > 0
      <4>1. ahead' = ahead - 1 /\ older' = older
        BY <3>1 DEF Answer
      <4> QED
        BY <1>1, <2>2, <3>1, <4>1
    <3>2. CASE ~(ahead > 0)
      <4>1. ahead = 0 /\ ahead' = 0 /\ older' = IF older > 0 THEN older - 1 ELSE 0
        BY <1>1, <3>2 DEF Answer
      <4> QED
        BY <1>1, <2>2, <4>1
    <3> QED
      BY <3>1, <3>2
  <2> QED
    BY <2>3, <2>4, <2>5 DEF OfflineLast
<1> QED
  BY <1>2, <1>3

\* Then it is the last of what the broker received on the connection.
LEMMA OfflineSent ==
  ASSUME PublicationsOK, OfflineLast, ~on_connect, resending => older = 0,
         out # <<>>, NEW msgs \in Sent
  PROVE  /\ msgs \in Seq(Kinds) /\ Len(msgs) \in Nat \ {0}
         /\ msgs[Len(msgs)] = "offline"
<1> DEFINE N == Len(out)
           fresh == SubSeq(out, older + 1, N)
           again == SubSeq(out, 1, older)
<1>1. /\ N \in Nat \ {0} /\ out[N] = "offline" /\ \A k \in 1..N : out[k] \in Kinds
      /\ older \in 0..N /\ ahead \in 0..(N - older)
      /\ older = 0 \/ older + ahead < N
  BY DEF OfflineLast, PublicationsOK
<1> HIDE DEF N
<1>2. /\ fresh \in Seq(Kinds) /\ Len(fresh) = N - older
      /\ \A k \in 1..(N - older) : fresh[k] = out[older + k]
  BY <1>1 DEF PublicationsOK, N
<1>3. again \in Seq(Kinds) /\ (older = 0 => again = <<>>)
  BY <1>1 DEF PublicationsOK, N
<1>4. fresh[Len(fresh)] = "offline" /\ Len(fresh) \in Nat \ {0}
  <2>1. N - older \in 1..(N - older) /\ older + (N - older) = N
    BY <1>1
  <2> QED
    BY <1>1, <1>2, <2>1
<1>5. CASE resending
  <2>1. older = 0 /\ 0..older = {0}
    BY <1>5
  <2>2. SubSeq(out, 1, 0) = <<>>
    BY <1>3, <2>1
  <2>3. msgs = fresh \o <<>>
    BY <1>5, <2>1, <2>2 DEF Sent, N
  <2>4. msgs = fresh
    BY <1>2, <2>3
  <2> QED
    BY <1>2, <1>4, <2>4
<1>6. CASE ~resending
  <2> DEFINE first == SubSeq(fresh, 1, ahead)
             last == SubSeq(fresh, ahead + 1, Len(fresh))
  <2>1. msgs = first \o again \o last
    BY <1>6 DEF Sent, N
  <2> HIDE DEF fresh, again
  <2>2. /\ first \in Seq(Kinds) /\ Len(first) = ahead
        /\ \A k \in 1..ahead : first[k] = fresh[k]
    BY <1>1, <1>2
  <2>3. CASE ahead < Len(fresh)
    <3>1. /\ last \in Seq(Kinds) /\ Len(last) = Len(fresh) - ahead
          /\ \A k \in 1..(Len(fresh) - ahead) : last[k] = fresh[ahead + k]
      BY <1>1, <1>2, <2>3
    <3>2. last[Len(last)] = "offline" /\ Len(last) \in Nat \ {0}
      <4>1. /\ Len(fresh) - ahead \in 1..(Len(fresh) - ahead)
            /\ ahead + (Len(fresh) - ahead) = Len(fresh)
        BY <1>1, <1>4, <2>3
      <4> QED
        BY <1>4, <3>1, <4>1
    <3> HIDE DEF first, last
    <3>3. first \o again \in Seq(Kinds)
      BY <1>3, <2>2
    <3> QED
      BY <2>1, <3>1, <3>2, <3>3
  <2>4. CASE ~(ahead < Len(fresh))
    <3>1. older = 0 /\ ahead = Len(fresh)
      BY <1>1, <1>2, <2>4
    <3>2. last = <<>> /\ again = <<>>
      BY <1>2, <1>3, <3>1
    <3>3. first = fresh
      BY <1>2, <3>1
    <3>4. msgs = fresh
      <4> HIDE DEF first, last
      <4> QED
        BY <1>2, <2>1, <3>2, <3>3
    <3> QED
      BY <1>2, <1>4, <3>4
  <2> QED
    BY <2>3, <2>4
<1> QED
  BY <1>5, <1>6

\* If offline comes last, that is what the broker retains in the end.
LEMMA OfflineRetained ==
  ASSUME PublicationsOK, OfflineLast, ~on_connect, resending => older = 0,
         NEW msgs \in Sent, NEW r \in StatusAfter(msgs)
  PROVE  r # TRUE
<1>1. CASE out = <<>>
  <2>1. older = 0 /\ ahead = 0
    BY <1>1 DEF PublicationsOK
  <2>2. msgs = <<>>
    <3>1. /\ SubSeq(<<>>, 1, 0) = <<>> /\ SubSeq(<<>>, 0 + 1, 0) = <<>>
          /\ <<>> \o <<>> = <<>> /\ Len(<<>>) = 0
      OBVIOUS
    <3> QED
      BY <1>1, <2>1, <3>1 DEF Sent
  <2>3. \A k \in DOMAIN msgs : msgs[k] = "data"
    BY <2>2
  <2> QED
    BY <1>1, <2>3 DEF OfflineLast, StatusAfter
<1>2. CASE out # <<>>
  <2>1. /\ msgs \in Seq(Kinds) /\ Len(msgs) \in Nat \ {0}
        /\ msgs[Len(msgs)] = "offline" /\ DOMAIN msgs = 1..Len(msgs)
    BY <1>2, OfflineSent
  <2>2. PICK k \in LastStatus(msgs) : r = (msgs[k] = "online")
    BY <2>1 DEF StatusAfter
  <2>3. k \in 1..Len(msgs) /\ \A j \in (k + 1)..Len(msgs) : msgs[j] = "data"
    BY <2>1, <2>2 DEF LastStatus
  <2>4. k = Len(msgs)
    <3>0. k \in Nat /\ k <= Len(msgs) /\ Len(msgs) \in Nat
      BY <2>1, <2>3
    <3>1. CASE k < Len(msgs)
      <4>1. Len(msgs) \in (k + 1)..Len(msgs)
        BY <3>0, <3>1
      <4>2. msgs[Len(msgs)] = "data"
        BY <2>3, <4>1
      <4> QED
        BY <2>1, <4>2
    <3>2. CASE ~(k < Len(msgs))
      BY <3>0, <3>2
    <3> QED
      BY <3>1, <3>2
  <2> QED
    BY <2>1, <2>2, <2>4
<1> QED
  BY <1>1, <1>2

\* After close() the broker shows the gateway offline, or it will once it
\* notices the broken connection, unless an on_connect ran after close() had
\* begun, the queue had no room for the last status, or close() published it
\* before paho sent older publications again (mqtt_task.py:502-512).
THEOREM ShutdownEndsOffline == Spec => []EndsOffline
<1> DEFINE Inv == ClosingInv /\ EndsOffline
<1>1. Init => Inv
  BY DEF Init, ClosingInv, EndsOffline
<1>2. /\ TypeOK /\ WillInv /\ OnlineHasWill /\ Inv /\ [Next]_vars
      => Inv'
  <2> SUFFICES ASSUME TypeOK, WillInv, OnlineHasWill, ClosingInv, EndsOffline,
                      [Next]_vars
               PROVE  ClosingInv' /\ EndsOffline'
    OBVIOUS
  <2> USE DEF ClosingInv, EndsOffline, threadVars, clientVars, ownerVars, brokerVars
  <2>0. PublicationsOK /\ out \in Seq(Kinds)
    BY DEF TypeOK, PublicationsOK
  <2>1. CASE ConnectTimesOut
    BY <2>1 DEF ConnectTimesOut
  <2>2. CASE PublishData
    BY <2>2 DEF PublishData
  <2>3. CASE FinishOnce
    BY <2>3 DEF FinishOnce
  <2>4. CASE FlushOnce
    BY <2>4 DEF FlushOnce
  <2>5. CASE LeaveLoop
    BY <2>5 DEF LeaveLoop
  <2>6. CASE Close
    <3>1. CASE connected
      <4>1. Publish("offline") /\ "offline" \in Kinds
        BY <2>6, <3>1 DEF Close, Kinds
      <4>2. MayPublish => OfflineLast'
        <5> SUFFICES ASSUME MayPublish PROVE OfflineLast'
          OBVIOUS
        <5>1. out' = Append(out, "offline") /\ older' = older /\ ahead' = ahead
          BY <2>6, <4>1, <2>0, PublishEffect DEF Close
        <5>2. /\ Len(out) \in Nat /\ Len(out') = Len(out) + 1
              /\ out'[Len(out) + 1] = "offline" /\ out' # <<>>
          BY <5>1, <2>0
        <5>3. older \in 0..Len(out) /\ ahead \in 0..(Len(out) - older)
          BY <2>0 DEF PublicationsOK
        <5>4. older + ahead < Len(out')
          BY <5>2, <5>3
        <5> QED
          BY <5>1, <5>2, <5>4 DEF OfflineLast
      <4>3. older \in Nat /\ older' = older /\ resending' = resending
        BY <2>6, <2>0 DEF Close, PublicationsOK
      <4>4. /\ excused' = (excused \/ ~MayPublish \/ (resending /\ older > 0))
            /\ pc' = "flush" /\ closed'
        BY <2>6, <3>1 DEF Close
      <4>5. ~excused' => OfflineLast' /\ (resending => ~(older > 0))
        BY <4>2, <4>4, Zenon
      <4>6. ~(older > 0) => older' = 0
        BY <4>3
      <4> QED
        BY <4>3, <4>4, <4>5, <4>6
    <3>2. CASE ~connected
      BY <2>6, <3>2 DEF Close
    <3> QED
      BY <3>1, <3>2
  <2>7. CASE Flush
    <3>1. OfflineLast => OfflineLast'
      BY <2>7 DEF Flush, OfflineLast
    <3> QED
      BY <2>7, <3>1 DEF Flush
  <2>8. CASE StopLoop
    <3>1. CASE connected /\ ~on_connect /\ ~excused
      <4>1. /\ OfflineLast /\ (resending => older = 0)
            /\ \E msgs \in Sent : retained' \in StatusAfter(msgs)
        BY <2>8, <3>1 DEF StopLoop
      <4> QED
        BY <2>8, <3>1, <4>1, <2>0, OfflineRetained DEF StopLoop
    <3>2. CASE ~(connected /\ ~on_connect /\ ~excused)
      BY <2>8, <3>2 DEF StopLoop, WillInv, OnlineHasWill
    <3> QED
      BY <3>1, <3>2
  <2>9. CASE Crash
    BY <2>9 DEF Crash
  <2>10. CASE StopRequested
    <3>1. OfflineLast => OfflineLast'
      BY <2>10 DEF StopRequested, OfflineLast
    <3> QED
      BY <2>10, <3>1 DEF StopRequested
  <2>11. CASE Connack
    BY <2>11 DEF Connack, Will, WillInv
  <2>12. CASE OnConnect
    BY <2>12 DEF OnConnect, WillInv
  <2>13. CASE Answer
    <3>1. OfflineLast => OfflineLast'
      BY <2>13, <2>0, OfflineAnswered
    <3> QED
      BY <2>13, <3>1 DEF Answer, WillInv
  <2>14. CASE Disconnect
    BY <2>14 DEF Disconnect
  <2>15. CASE BrokerNotices
    BY <2>15 DEF BrokerNotices, Will, OfflineLast, WillInv
  <2>16. CASE Resend
    <3>1. OfflineLast /\ older = 0 => OfflineLast'
      BY <2>16 DEF Resend, OfflineLast
    <3> QED
      BY <2>16, <3>1 DEF Resend, WillInv
  <2>17. CASE UNCHANGED vars
    <3>1. OfflineLast => OfflineLast'
      BY <2>17 DEF vars, OfflineLast
    <3> QED
      BY <2>17, <3>1 DEF vars
  <2> QED
    BY <2>1, <2>2, <2>3, <2>4, <2>5, <2>6, <2>7, <2>8, <2>9,
       <2>10, <2>11, <2>12, <2>13, <2>14, <2>15, <2>16, <2>17 DEF Next, Owner
<1> QED
  BY <1>1, <1>2, TypeCorrect, WillInductive, PTL DEF Spec

-----------------------------------------------------------------------------
\* --once ends with status 0 only if every data publication of the cycle was
\* accepted and answered before the flush ended, or a signal came before it
\* published anything (main.py:329-332, mqtt_task.py:474-492).
THEOREM OnceSuccessIsAnswered == Spec => []OnceSuccessMeansAnswered
<1>1. Init => OnceInv
  <2> SUFFICES ASSUME Init PROVE OnceInv
    OBVIOUS
  <2>0. <<>> \in Seq(Kinds) /\ DOMAIN <<>> = {}
    OBVIOUS
  <2>1. DataIn(<<>>) = 0
    BY <2>0, NoDataCounted
  <2> QED
    BY <2>1 DEF Init, OnceInv
<1>2. TypeOK /\ AnswerInv /\ OnceInv /\ [Next]_vars => OnceInv'
  <2> SUFFICES ASSUME TypeOK, AnswerInv, OnceInv, [Next]_vars PROVE OnceInv'
    OBVIOUS
  <2> USE DEF OnceInv, threadVars, clientVars, ownerVars, brokerVars
  <2>0. /\ PublicationsOK /\ out \in Seq(Kinds) /\ Len(out) \in Nat
        /\ DataIn(out) \in Nat /\ waiting \in 0..Len(out)
        /\ answered \in Nat /\ published \in Nat /\ MaxData \in Nat
    BY DataPlacesFinite DEF TypeOK, PublicationsOK
  <2>1. CASE ConnectTimesOut
    <3>1. out' = out
      BY <2>1 DEF ConnectTimesOut
    <3> QED
      BY <2>1, <3>1 DEF ConnectTimesOut, NoDataLeft
  <2>2. CASE PublishData
    <3>1. Publish("data") /\ "data" \in Kinds
      BY <2>2 DEF PublishData, Kinds
    <3>2. MayPublish => DataIn(out') = DataIn(out) + 1
      BY <3>1, <2>0, PublishEffect, DataAppended
    <3>3. ~errors' => MayPublish /\ ~errors
      BY <3>1, <2>0, PublishEffect DEF TypeOK, FlagsOK
    <3> QED
      BY <2>2, <2>0, <3>2, <3>3 DEF PublishData
  <2>3. CASE FinishOnce
    <3>1. out' = out /\ waiting' \in {waiting, Len(out)}
      BY <2>3 DEF FinishOnce
    <3>2. DOMAIN out = 1..Len(out)
      BY <2>0
    <3> QED
      BY <2>3, <3>1, <3>2 DEF FinishOnce, OnceErrors, NoDataLeft
  <2>4. CASE FlushOnce
    <3>1. CASE waiting > 0
      BY <2>4, <3>1 DEF FlushOnce
    <3>2. CASE ~(waiting > 0)
      <4>1. waiting = 0 /\ out' = out
        BY <2>4, <3>2, <2>0 DEF FlushOnce
      <4>2. NoDataLeft
        BY <2>4, <4>1, <2>0 DEF FlushOnce, NoDataLeft
      <4>3. DataIn(out) = 0
        BY <4>2, <2>0, NoDataCounted DEF NoDataLeft
      <4> QED
        BY <2>4, <4>1, <4>2, <4>3, <2>0 DEF FlushOnce, NoDataLeft
    <3> QED
      BY <3>1, <3>2
  <2>5. CASE LeaveLoop
    <3>1. out' = out
      BY <2>5 DEF LeaveLoop
    <3> QED
      BY <2>5, <3>1 DEF LeaveLoop, NoDataLeft
  <2>6. CASE Close
    <3>1. NoDataLeft => NoDataLeft'
      <4>1. out' = out \/ out' = Append(out, "offline")
        BY <2>6 DEF Close, Publish
      <4> QED
        BY <4>1, <2>0 DEF NoDataLeft
    <3> QED
      BY <2>6, <3>1 DEF Close
  <2>7. CASE Flush
    <3>1. out' = out
      BY <2>7 DEF Flush
    <3> QED
      BY <2>7, <3>1 DEF Flush, NoDataLeft
  <2>8. CASE StopLoop
    <3>1. NoDataLeft'
      BY <2>8 DEF StopLoop, NoDataLeft
    <3> QED
      BY <2>8, <3>1 DEF StopLoop
  <2>9. CASE Crash
    BY <2>9 DEF Crash
  <2>10. CASE StopRequested
    <3>1. out' = out
      BY <2>10 DEF StopRequested
    <3> QED
      BY <2>10, <3>1 DEF StopRequested, NoDataLeft
  <2>11. CASE Connack
    <3>1. out' = out
      BY <2>11 DEF Connack
    <3> QED
      BY <2>11, <3>1 DEF Connack, NoDataLeft, Will
  <2>12. CASE OnConnect
    <3>1. Publish("online") /\ "online" \in Kinds /\ "online" # "data"
      BY <2>12 DEF OnConnect, Kinds
    <3>2. /\ out' = out \/ out' = Append(out, "online")
          /\ ~errors' => ~errors
      BY <3>1, <2>0, PublishEffect DEF TypeOK, FlagsOK
    <3>3. DataIn(out') = DataIn(out)
      BY <3>1, <3>2, <2>0, DataAppended
    <3>4. NoDataLeft => NoDataLeft'
      BY <3>2, <2>0 DEF NoDataLeft
    <3>5. (\A k \in DOMAIN out : k > waiting => out[k] # "data")
          => \A k \in DOMAIN out' : k > waiting => out'[k] # "data"
      BY <3>2, <2>0
    <3> QED
      BY <2>12, <3>2, <3>3, <3>4, <3>5 DEF OnConnect
  <2>13. CASE Answer
    <3>1. /\ FirstSent \in 1..Len(out) /\ out' = RemoveAt(out, FirstSent)
          /\ DataIn(out') \in Nat
      BY <2>13, <2>0, AnswerEffect, DataPlacesFinite
    <3>2. answered' + DataIn(out') = answered + DataIn(out)
      BY <2>13, <3>1, <2>0, DataAnswered DEF Answer
    <3>3. NoDataLeft => NoDataLeft' /\ answered' = answered
      <4>1. ASSUME NoDataLeft PROVE NoDataLeft' /\ out[FirstSent] # "data"
        <5>1. /\ FirstSent \in 1..Len(out) /\ DOMAIN out = 1..Len(out)
              /\ DOMAIN out' = 1..(Len(out) - 1) /\ Len(out) \in Nat
              /\ \A k \in 1..(Len(out) - 1) :
                   out'[k] = IF k < FirstSent THEN out[k] ELSE out[k + 1]
          BY <2>13, <2>0, AnswerEffect
        <5>2. \A k \in 1..Len(out) : out[k] # "data"
          BY <4>1, <5>1 DEF NoDataLeft
        <5>3. \A k \in 1..(Len(out) - 1) : out'[k] # "data"
          BY <5>1, <5>2
        <5> QED
          BY <5>1, <5>2, <5>3 DEF NoDataLeft
      <4> QED
        BY <2>13, <4>1 DEF Answer
    <3>4. (\A k \in DOMAIN out : k > waiting => out[k] # "data")
          => \A k \in DOMAIN out' : k > waiting' => out'[k] # "data"
      <4> SUFFICES ASSUME \A k \in DOMAIN out : k > waiting => out[k] # "data",
                          NEW k \in DOMAIN out', k > waiting'
                   PROVE  out'[k] # "data"
        OBVIOUS
      <4>1. /\ k \in 1..(Len(out) - 1)
            /\ out'[k] = IF k < FirstSent THEN out[k] ELSE out[k + 1]
            /\ waiting' = IF FirstSent <= waiting THEN waiting - 1 ELSE waiting
            /\ FirstSent \in 1..Len(out) /\ DOMAIN out = 1..Len(out)
        BY <2>13, <2>0, AnswerEffect
      <4>2. CASE k < FirstSent
        BY <4>1, <4>2, <2>0
      <4>3. CASE ~(k < FirstSent)
        BY <4>1, <4>3, <2>0
      <4> QED
        BY <4>2, <4>3
    <3>5. ~errors' => ~errors
      BY <2>13 DEF Answer
    <3> QED
      BY <2>13, <3>2, <3>3, <3>4, <3>5 DEF Answer
  <2>14. CASE Disconnect
    <3>1. out' = out
      BY <2>14 DEF Disconnect
    <3> QED
      BY <2>14, <3>1 DEF Disconnect, NoDataLeft
  <2>15. CASE BrokerNotices
    <3>1. out' = out
      BY <2>15 DEF BrokerNotices
    <3> QED
      BY <2>15, <3>1 DEF BrokerNotices, NoDataLeft, Will
  <2>16. CASE Resend
    <3>1. out' = out
      BY <2>16 DEF Resend
    <3> QED
      BY <2>16, <3>1 DEF Resend, NoDataLeft
  <2>17. CASE UNCHANGED vars
    <3>1. out' = out
      BY <2>17 DEF vars
    <3> QED
      BY <2>17, <3>1 DEF vars, NoDataLeft
  <2> QED
    BY <2>1, <2>2, <2>3, <2>4, <2>5, <2>6, <2>7, <2>8, <2>9,
       <2>10, <2>11, <2>12, <2>13, <2>14, <2>15, <2>16, <2>17 DEF Next, Owner
<1>3. OnceInv => OnceSuccessMeansAnswered
  BY DEF OnceInv, OnceSuccessMeansAnswered
<1> QED
  BY <1>1, <1>2, <1>3, TypesInductive, PTL DEF Spec
=============================================================================
