-------------------------- MODULE OnChangePublisher --------------------------
(***************************************************************************)
(* Publishing on change (--mqtt-on-change): ModbusHandler.publish_data     *)
(* (modpoll/modbus_task.py) for one device, the client side of publishing  *)
(* (MqttHandler.publish, modpoll/mqtt_task.py), and the broker behind it.  *)
(* The owner loop publishes; paho's network thread acknowledges, rejects,  *)
(* loses and restores the connection at any point in between.              *)
(*                                                                         *)
(* The code compares two counters, connection_generation and               *)
(* publish_errors, with what it saw last time.  They only grow, so what    *)
(* matters is whether each has grown since: `reconnected` and `errored`.   *)
(***************************************************************************)
EXTENDS Integers, Sequences

CONSTANTS
  NONE,         \* Python's None
  Refs,         \* the references of the device
  Readings,     \* what a poll may read: reference -> value or NONE
  Group,        \* the topic of a grouped payload
  TxQueueSize   \* tx_queue_size: publications pending at most

Vals == UNION {{v[r] : r \in Refs} : v \in Readings} \ {NONE}

ASSUME DistinctAssumption ==
  Group \notin Refs /\ Readings \subseteq [Refs -> Vals \cup {NONE}]
ASSUME TxAssumption == TxQueueSize \in Nat \ {0}

VARIABLES
  single,       \* --mqtt-single, fixed at the start
  val,          \* reference -> value read by the last poll, or NONE
  cache,        \* _last_mqtt_payloads of the device, or NONE
  reconnected,  \* connection_generation differs from the remembered one
  errored,      \* publish_errors differs from the remembered one
  pc,           \* where publish_data is
  todo,         \* topics still to publish
  published,    \* topics accepted by this publish_data
  connected,    \* paho's is_connected()
  on_connect,   \* a CONNACK came in whose on_connect has not run yet
  inflight,     \* accepted publications without an answer, in order
  seen,         \* topic -> what its subscribers got last, or NONE
  calm          \* from now on nothing changes, fails or is rejected

cycleVars == <<pc, todo, published>>
vars == <<single, val, cache, reconnected, errored, cycleVars, connected,
          on_connect, inflight, seen, calm>>

IsPayload(p) == DOMAIN p \subseteq Refs /\ \A r \in DOMAIN p : p[r] \in Vals
Topics == Refs \cup {Group}
Valued == {r \in Refs : val[r] # NONE}
Payload == [r \in Valued |-> val[r]]
\* What is sent on a topic: the whole payload, or one reference of it.
DataOf(t) == IF t = Group THEN Payload ELSE [r \in {t} |-> val[r]]

Init ==
  /\ single \in BOOLEAN
  /\ val = [r \in Refs |-> NONE]
  /\ cache = NONE
  /\ reconnected = FALSE /\ errored = FALSE
  /\ pc = "poll" /\ todo = {} /\ published = {}
  /\ connected = FALSE /\ on_connect = FALSE
  /\ inflight = <<>>
  /\ seen = [t \in Topics |-> NONE]
  /\ calm = FALSE

-----------------------------------------------------------------------------
(* The owner loop: poll, then publish_data. *)

\* A poll; once calm, the broker has answered everything by the next one.
Poll ==
  /\ pc = "poll"
  /\ IF calm THEN inflight = <<>> /\ UNCHANGED val
             ELSE val' \in Readings
  /\ pc' = "publish_data"
  /\ UNCHANGED <<single, cache, reconnected, errored, todo, published,
                 connected, on_connect, inflight, seen, calm>>

\* Mistake: only reconnections empty the cache.
KeptUnlessReconnected == IF reconnected THEN NONE ELSE cache

\* _invalidate_change_cache_if_needed: what is left of the cache.
Kept == IF reconnected \/ errored THEN NONE ELSE cache

Remembers(r) == Kept # NONE /\ r \in DOMAIN Kept /\ Kept[r] = val[r]

\* publish_data up to its first publication; both counters are looked at
\* once, at its start.
StartPublishData ==
  /\ pc = "publish_data"
  /\ reconnected' = FALSE /\ errored' = FALSE
  /\ UNCHANGED <<single, val, published, connected, on_connect, inflight, seen,
                 calm>>

\* The device has no value of this cycle: forget what was published.
SkipFailed ==
  /\ StartPublishData
  /\ Valued = {}
  /\ cache' = NONE
  /\ pc' = "poll" /\ todo' = {}

\* No reference has a value, and yet the device counts as polled: a block
\* whose references are all write-only was read.
SkipEmpty ==
  /\ StartPublishData
  /\ Valued = {}
  /\ cache' = Kept
  /\ pc' = "poll" /\ todo' = {}

SkipUnchanged ==
  /\ StartPublishData
  /\ Valued # {} /\ Kept = Payload
  /\ cache' = Kept
  /\ pc' = "poll" /\ todo' = {}

\* Mistake: with --mqtt-single a reference is compared by presence only.
SelectNewTopics ==
  /\ StartPublishData
  /\ Valued # {} /\ Kept # Payload
  /\ cache' = Kept
  /\ pc' = "publish"
  /\ todo' = IF single
             THEN {r \in Valued : Kept = NONE \/ r \notin DOMAIN Kept}
             ELSE {Group}

SelectTopics ==
  /\ StartPublishData
  /\ Valued # {} /\ Kept # Payload
  /\ cache' = Kept
  /\ pc' = "publish"
  /\ todo' = IF single THEN {r \in Valued : ~Remembers(r)} ELSE {Group}

\* Mistake: the limit is compared after the publication was added.
MayPublishOneMore == connected /\ Len(inflight) <= TxQueueSize

\* MqttHandler.publish accepts a topic only while connected and while few
\* publications are pending.
MayPublish == connected /\ Len(inflight) < TxQueueSize

\* MqttHandler.publish of one topic: refused while disconnected or while too
\* many publications are pending.
Publish(t) ==
  /\ pc = "publish" /\ t \in todo
  /\ todo' = todo \ {t}
  /\ IF MayPublish
     THEN /\ inflight' = Append(inflight, [topic |-> t, data |-> DataOf(t)])
          /\ published' = published \cup {t}
          /\ UNCHANGED errored
     ELSE /\ errored' = TRUE
          /\ UNCHANGED <<inflight, published>>
  /\ UNCHANGED <<single, val, cache, reconnected, pc, connected, on_connect,
                 seen, calm>>

\* Mistake: with --mqtt-single a new snapshot starts from what was published
\* now, so that it never equals a payload of several references.
RememberOnlyNew ==
  IF published = {} THEN cache
  ELSE IF ~single THEN Payload
  ELSE [r \in published |-> val[r]]

\* What publish_data remembers: the payload, or with --mqtt-single the
\* references it could publish, on top of those remembered before.
Remember ==
  IF published = {} THEN cache
  ELSE IF ~single THEN Payload
  ELSE LET old == IF cache = NONE THEN {} ELSE DOMAIN cache
       IN [r \in old \cup published |->
             IF r \in published THEN val[r] ELSE cache[r]]

Save ==
  /\ pc = "publish" /\ todo = {}
  /\ cache' = Remember
  /\ pc' = "poll" /\ published' = {}
  /\ UNCHANGED <<single, val, reconnected, errored, todo, connected, on_connect,
                 inflight, seen, calm>>

Owner ==
  \/ Poll \/ SkipFailed \/ SkipEmpty \/ SkipUnchanged \/ SelectTopics
  \/ (\E t \in todo : Publish(t)) \/ Save

-----------------------------------------------------------------------------
(* The network thread and the broker.  Accepted publications reach the      *)
(* broker in order; an answer may be a rejection (MQTT 5).                  *)

Acknowledge ==
  /\ connected /\ inflight # <<>>
  /\ seen' = [seen EXCEPT ![Head(inflight).topic] = Head(inflight).data]
  /\ inflight' = Tail(inflight)
  /\ UNCHANGED <<single, val, cache, reconnected, errored, cycleVars,
                 connected, on_connect, calm>>

\* _on_publish with a failure code.
RejectPublish ==
  /\ connected /\ inflight # <<>> /\ ~calm
  /\ inflight' = Tail(inflight)
  /\ errored' = TRUE
  /\ UNCHANGED <<single, val, cache, reconnected, cycleVars, connected,
                 on_connect, seen, calm>>

\* The connection breaks. What was in flight is sent again later (QoS 1) or
\* lost with the connection (QoS 0).
Disconnect ==
  /\ connected /\ ~calm
  /\ connected' = FALSE /\ on_connect' = FALSE
  /\ inflight' \in {inflight, <<>>}
  /\ UNCHANGED <<single, val, cache, reconnected, errored, cycleVars, seen,
                 calm>>

\* paho counts itself connected before it calls on_connect.
Connack ==
  /\ ~connected
  /\ connected' = TRUE /\ on_connect' = TRUE
  /\ UNCHANGED <<single, val, cache, reconnected, errored, cycleVars, inflight,
                 seen, calm>>

\* _on_connect bumps connection_generation.
OnConnect ==
  /\ on_connect
  /\ on_connect' = FALSE
  /\ reconnected' = TRUE
  /\ UNCHANGED <<single, val, cache, errored, cycleVars, connected, inflight,
                 seen, calm>>

Settle ==
  /\ ~calm
  /\ calm' = TRUE
  /\ UNCHANGED <<single, val, cache, reconnected, errored, cycleVars,
                 connected, on_connect, inflight, seen>>

Network == Acknowledge \/ Connack \/ OnConnect

Next == Owner \/ Network \/ RejectPublish \/ Disconnect \/ Settle

Spec == Init /\ [][Next]_vars

\* The owner loop polls every --rate seconds; paho answers and reconnects.
FairSpec ==
  /\ Spec
  /\ WF_vars(Owner)
  /\ WF_vars(Acknowledge) /\ WF_vars(Connack) /\ WF_vars(OnConnect)

-----------------------------------------------------------------------------
(* Properties. *)

TypeOK ==
  /\ single \in BOOLEAN
  /\ val \in [Refs -> Vals \cup {NONE}]
  /\ cache = NONE \/ IsPayload(cache)
  /\ reconnected \in BOOLEAN /\ errored \in BOOLEAN
  /\ pc \in {"poll", "publish_data", "publish"}
  /\ todo \subseteq Topics /\ published \subseteq Topics
  /\ connected \in BOOLEAN /\ on_connect \in BOOLEAN
  /\ Len(inflight) <= TxQueueSize
  /\ \A k \in DOMAIN inflight :
       inflight[k].topic \in Topics /\ IsPayload(inflight[k].data)
  /\ \A t \in Topics : seen[t] = NONE \/ IsPayload(seen[t])
  /\ calm \in BOOLEAN

\* What subscribers of a topic will have once everything in flight arrived.
Final(t) ==
  LET sent == {k \in DOMAIN inflight : inflight[k].topic = t}
  IN IF sent = {} THEN seen[t]
     ELSE inflight[CHOOSE k \in sent : \A j \in sent : j <= k].data

\* The next publish_data will empty the cache, or nothing is published now.
Suspect == reconnected \/ errored \/ on_connect \/ ~connected

\* Nothing is remembered as published that subscribers do not have or are not
\* about to get, unless the next cycle forgets it: an unchanged value is
\* never suppressed although it was lost, rejected or refused.
CacheIsHonest ==
  cache # NONE /\ ~Suspect /\ pc # "publish" =>
    IF single THEN \A r \in DOMAIN cache :
                     Final(r) = [q \in {r} |-> cache[r]]
              ELSE Final(Group) = cache

\* Subscribers have the values of the last poll.
UpToDate ==
  Valued # {} =>
    IF single THEN \A r \in Valued : seen[r] = [q \in {r} |-> val[r]]
              ELSE seen[Group] = Payload

\* Once values, connection and broker are calm, subscribers come to have the
\* current values and keep them, although nothing changes any more.  This and
\* the next are of a queue that holds one cycle: a smaller one refuses the
\* references published last every time, and each refusal empties the cache.
Converges == calm ~> []UpToDate

\* Once calm, publish_data comes to rest: it publishes nothing again.
Quiesces == calm ~> [](inflight = <<>>)
=============================================================================
