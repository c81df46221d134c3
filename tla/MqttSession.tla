----------------------------- MODULE MqttSession -----------------------------
(***************************************************************************)
(* The life of MqttHandler (modpoll/mqtt_task.py) from start() or          *)
(* connect() to close(), as app() (modpoll/main.py) uses it: presence on   *)
(* the retained status topic, publications pending acknowledgement, and    *)
(* the exit status of --once.  Three actors: the owner loop, paho's        *)
(* network thread (which alone runs callbacks and notices a broken         *)
(* connection), and a broker that holds the gateway's last will.           *)
(*                                                                         *)
(* Publications have QoS 1: paho keeps them, in the order of publish(),    *)
(* until they are answered.  On a new connection it sends again those of   *)
(* earlier ones, but only after _on_connect has returned: what was         *)
(* published on the new connection before that goes ahead of them.         *)
(***************************************************************************)
EXTENDS Integers, Sequences, SequencesExt

CONSTANTS
  NONE,         \* nothing retained on the status topic
  TxQueueSize,  \* tx_queue_size
  MaxData       \* bound: data publications of the run (of the cycle, --once)

ASSUME SessionAssumption == TxQueueSize \in Nat \ {0} /\ MaxData \in Nat
ASSUME NoneAssumption == NONE \notin BOOLEAN

VARIABLES
  once,         \* --once, fixed at the start
  stop,         \* the threading event, set by a signal
  pc,           \* where the owner is
  closed,       \* _closed
  looping,      \* paho's network thread runs
  connected,    \* paho's is_connected()
  on_connect,   \* a CONNACK came in whose _on_connect has not run yet
  resending,    \* _on_connect has run, and paho's thread is to send again
  session,      \* the broker holds a connection, with the will it came with
  out,          \* publications accepted and not answered: _pending
  older,        \* of these, the first ones: of earlier connections
  ahead,        \* of the ones behind them, those sent before they were sent again
  waiting,      \* how many of the first ones flush() still waits for
  errors,       \* publish_errors # 0
  failed,       \* exit status 1
  retained,     \* the broker's status: TRUE is online
  published,    \* history: data publications tried
  answered,     \* history: data publications the broker answered
  rejected,     \* history: the broker rejected one of them (MQTT 5)
  excused       \* history: what keeps a status from being the last, see below

ownerVars == <<stop, pc, closed, failed, published>>
threadVars == <<looping, connected, on_connect, resending>>
clientVars == <<threadVars, older, ahead>>
brokerVars == <<session, retained, answered, rejected>>
vars == <<once, ownerVars, clientVars, out, waiting, errors,
          brokerVars, excused>>

Places == {"connect", "run", "flush_once", "close", "flush", "stop_loop",
           "ended", "crashed"}

Init ==
  /\ once \in BOOLEAN /\ stop = FALSE
  /\ pc = IF once THEN "connect" ELSE "run"
  /\ closed = FALSE /\ failed = FALSE /\ published = 0
  /\ looping = TRUE /\ connected = FALSE
  /\ on_connect = FALSE /\ resending = FALSE
  /\ out = <<>> /\ older = 0 /\ ahead = 0 /\ waiting = 0 /\ errors = FALSE
  /\ session = FALSE /\ retained = NONE /\ answered = 0 /\ rejected = FALSE
  /\ excused = FALSE

-----------------------------------------------------------------------------
(* Parts of the operations. *)

\* Mistake: the limit is compared after the publication was added.
MayPublishOneMore == connected /\ Len(out) <= TxQueueSize

\* What publish() accepts.
MayPublish == connected /\ Len(out) < TxQueueSize

\* MqttHandler.publish
Publish(msg) ==
  IF MayPublish THEN out' = Append(out, msg) /\ UNCHANGED errors
                ELSE errors' = TRUE /\ UNCHANGED out

\* The last status among the publications, if there is one.
LastStatus(msgs) ==
  {k \in DOMAIN msgs : /\ msgs[k] # "data"
                       /\ \A j \in (k + 1)..Len(msgs) : msgs[j] = "data"}

\* The status the broker retains once it received these publications, as a
\* set of one element.
StatusAfter(msgs) ==
  IF \A k \in DOMAIN msgs : msgs[k] = "data"
  THEN {retained} ELSE {msgs[k] = "online" : k \in LastStatus(msgs)}

\* Mistake: a connection that goes away leaves the status as it was.
WillForgotten == UNCHANGED retained

\* A connection ended without DISCONNECT: the broker publishes the will that
\* start() registered.
Will == retained' = FALSE

\* What paho may have sent on this connection, in that order.
Sent ==
  LET fresh == SubSeq(out, older + 1, Len(out))
  IN IF on_connect THEN {fresh}
     ELSE IF resending THEN {fresh \o SubSeq(out, 1, n) : n \in 0..older}
     ELSE {SubSeq(fresh, 1, ahead) \o SubSeq(out, 1, older)
             \o SubSeq(fresh, ahead + 1, Len(fresh))}

\* Where the publication is that the broker answers next.
FirstSent == IF ahead > 0 THEN older + 1 ELSE 1

-----------------------------------------------------------------------------
(* The owner. *)

\* connect() with --once gives up waiting for the CONNACK, for its timeout or
\* for a signal, and stops paho.
ConnectTimesOut ==
  /\ pc = "connect"
  /\ pc' = "close" /\ failed' = TRUE
  /\ looping' = FALSE /\ connected' = FALSE /\ on_connect' = FALSE
  /\ session' = FALSE
  /\ UNCHANGED <<once, stop, closed, published, resending, out, older, ahead,
                 waiting, errors, retained, answered, rejected, excused>>

\* A cycle that a signal has interrupted publishes nothing.
PublishData ==
  /\ pc = "run" /\ published < MaxData
  /\ once /\ stop => published > 0
  /\ Publish("data")
  /\ published' = published + 1
  /\ UNCHANGED <<once, stop, clientVars, pc, closed, failed, waiting,
                 brokerVars, excused>>

\* Mistake: --once trusts flush() and does not look at publish_errors.
OnceErrorsIgnored == FALSE

\* app() with --once looks at publish_errors, and only then flushes.
OnceErrors == errors

FinishOnce ==
  /\ pc = "run" /\ once
  /\ published = MaxData \/ (stop /\ published = 0)
  /\ IF OnceErrors
     THEN pc' = "close" /\ failed' = TRUE /\ UNCHANGED waiting
     ELSE pc' = "flush_once" /\ waiting' = Len(out) /\ UNCHANGED failed
  /\ UNCHANGED <<once, stop, clientVars, closed, published, out, errors,
                 brokerVars, excused>>

\* flush() returns: everything it waited for was answered, or it timed out.
FlushOnce ==
  /\ pc = "flush_once"
  /\ pc' = "close" /\ failed' = (waiting > 0) /\ waiting' = 0
  /\ UNCHANGED <<once, stop, clientVars, closed, published, out, errors,
                 brokerVars, excused>>

\* The owner loop sees the stop at its head; with --once only before its
\* single cycle.
LeaveLoop ==
  /\ pc = "run" /\ stop
  /\ once => published = 0
  /\ pc' = "close"
  /\ UNCHANGED <<once, stop, clientVars, closed, failed, published, out, waiting,
                 errors, brokerVars, excused>>

\* Mistake: close() goes down without a last status.
CloseSilently ==
  /\ pc = "close"
  /\ closed' = TRUE
  /\ pc' = IF connected THEN "flush" ELSE "stop_loop"
  /\ waiting' = Len(out)
  /\ UNCHANGED <<once, stop, clientVars, failed, published, out, errors,
                 brokerVars, excused>>

\* close() up to its flush.
Close ==
  /\ pc = "close"
  /\ closed' = TRUE
  /\ IF connected
     THEN /\ Publish("offline")
          /\ pc' = "flush" /\ waiting' = Len(out')
          /\ excused' = (excused \/ ~MayPublish \/ (resending /\ older > 0))
     ELSE pc' = "stop_loop" /\ UNCHANGED <<out, errors, waiting, excused>>
  /\ UNCHANGED <<once, stop, clientVars, failed, published, brokerVars>>

Flush ==
  /\ pc = "flush"
  /\ pc' = "stop_loop" /\ waiting' = 0
  /\ UNCHANGED <<once, stop, clientVars, closed, failed, published, out,
                 errors, brokerVars, excused>>

\* _stop_mqtt_loop: what was sent arrives before the DISCONNECT, with which
\* the broker drops the will.
StopLoop ==
  /\ pc = "stop_loop"
  /\ pc' = "ended"
  /\ IF connected
     THEN /\ \E msgs \in Sent : retained' \in StatusAfter(msgs)
          /\ session' = FALSE
     ELSE UNCHANGED <<retained, session>>
  /\ excused' = (excused \/ on_connect)
  /\ looping' = FALSE /\ connected' = FALSE
  /\ on_connect' = FALSE /\ resending' = FALSE
  /\ out' = <<>> /\ older' = 0 /\ ahead' = 0
  /\ UNCHANGED <<once, stop, closed, failed, published, waiting, errors,
                 answered, rejected>>

Crash ==
  /\ pc \notin {"ended", "crashed"}
  /\ pc' = "crashed"
  /\ looping' = FALSE /\ connected' = FALSE
  /\ on_connect' = FALSE /\ resending' = FALSE
  /\ out' = <<>> /\ older' = 0 /\ ahead' = 0 /\ waiting' = 0
  /\ UNCHANGED <<once, stop, closed, failed, published, errors, brokerVars,
                 excused>>

Owner ==
  \/ ConnectTimesOut \/ PublishData \/ FinishOnce \/ FlushOnce \/ LeaveLoop
  \/ Close \/ Flush \/ StopLoop

\* A signal; it may come at any time.
StopRequested ==
  /\ ~stop /\ pc \notin {"ended", "crashed"}
  /\ stop' = TRUE
  /\ UNCHANGED <<once, clientVars, pc, closed, failed, published, out, waiting,
                 errors, brokerVars, excused>>

-----------------------------------------------------------------------------
(* The network thread and the broker. *)

\* A connection is established; the broker takes over from an older one of
\* the same client.
Connack ==
  /\ looping /\ ~connected
  /\ connected' = TRUE /\ on_connect' = TRUE
  /\ session' = TRUE
  /\ IF session THEN Will ELSE UNCHANGED retained
  /\ UNCHANGED <<once, looping, resending, ownerVars, out, older, ahead, waiting,
                 errors, answered, rejected, excused>>

\* Mistake: presence is published on the first connection only.
OnConnectFirstOnly ==
  /\ on_connect
  /\ on_connect' = FALSE /\ resending' = TRUE
  /\ IF retained = NONE THEN Publish("online") ELSE UNCHANGED <<out, errors>>
  /\ pc' = IF pc = "connect" THEN "run" ELSE pc
  /\ excused' = (excused \/ closed)
  /\ UNCHANGED <<once, stop, looping, closed, failed, published, connected,
                 older, ahead, waiting, brokerVars>>

\* _on_connect; connect() returns once it ran.
OnConnect ==
  /\ on_connect
  /\ on_connect' = FALSE /\ resending' = TRUE
  /\ Publish("online")
  /\ pc' = IF pc = "connect" THEN "run" ELSE pc
  /\ excused' = (excused \/ closed)
  /\ UNCHANGED <<once, stop, looping, closed, failed, published, connected,
                 older, ahead, waiting, brokerVars>>

\* paho sends the publications of earlier connections again, behind those of
\* this one.
Resend ==
  /\ resending
  /\ resending' = FALSE
  /\ ahead' = Len(out) - older
  /\ UNCHANGED <<once, looping, connected, on_connect, ownerVars, out, older,
                 waiting, errors, brokerVars, excused>>

\* The broker answers the publication it received first (_on_publish).
Answer ==
  /\ connected /\ ~on_connect /\ ~resending /\ out # <<>>
  /\ out' = RemoveAt(out, FirstSent)
  /\ waiting' = IF FirstSent <= waiting THEN waiting - 1 ELSE waiting
  /\ IF ahead > 0 THEN ahead' = ahead - 1 /\ UNCHANGED older
     ELSE UNCHANGED ahead /\ older' = IF older > 0 THEN older - 1 ELSE 0
  /\ IF out[FirstSent] = "data"
     THEN /\ answered' = answered + 1
          /\ \/ UNCHANGED <<errors, rejected>>
             \/ errors' = TRUE /\ rejected' = TRUE
          /\ UNCHANGED retained
     ELSE /\ retained' = (out[FirstSent] = "online")
          /\ UNCHANGED <<answered, errors, rejected>>
  /\ UNCHANGED <<once, threadVars, ownerVars, session, excused>>

Disconnect ==
  /\ connected /\ ~on_connect /\ ~resending
  /\ connected' = FALSE
  /\ older' = Len(out) /\ ahead' = 0
  /\ UNCHANGED <<once, looping, on_connect, resending, ownerVars, out, waiting,
                 errors, brokerVars, excused>>

\* The broker finds the connection broken.
BrokerNotices ==
  /\ session /\ ~connected
  /\ session' = FALSE
  /\ Will
  /\ UNCHANGED <<once, clientVars, ownerVars, out, waiting, errors, answered,
                 rejected, excused>>

Next ==
  \/ Owner \/ StopRequested \/ Crash
  \/ Connack \/ OnConnect \/ Resend \/ Answer \/ Disconnect \/ BrokerNotices

Spec == Init /\ [][Next]_vars

\* The owner does not hang (flush is limited, the loop goes round); paho's
\* thread runs and reconnects; the broker answers and has a keepalive.
FairSpec ==
  /\ Spec
  /\ WF_vars(Owner) /\ WF_vars(Connack) /\ WF_vars(OnConnect)
  /\ WF_vars(Resend) /\ WF_vars(Answer) /\ WF_vars(BrokerNotices)

-----------------------------------------------------------------------------
(* Properties. *)

FlagsOK ==
  /\ once \in BOOLEAN /\ stop \in BOOLEAN
  /\ closed \in BOOLEAN /\ looping \in BOOLEAN /\ connected \in BOOLEAN
  /\ on_connect \in BOOLEAN /\ resending \in BOOLEAN
  /\ session \in BOOLEAN /\ errors \in BOOLEAN
  /\ failed \in BOOLEAN /\ rejected \in BOOLEAN /\ excused \in BOOLEAN

Kinds == {"data", "online", "offline"}

PublicationsOK ==
  /\ out \in Seq(Kinds) /\ Len(out) <= TxQueueSize
  /\ older \in 0..Len(out) /\ ahead \in 0..(Len(out) - older)
  /\ waiting \in 0..Len(out)
  /\ published \in 0..MaxData /\ answered \in 0..MaxData

TypeOK ==
  /\ FlagsOK /\ PublicationsOK
  /\ pc \in Places /\ retained \in {NONE, TRUE, FALSE}

\* Presence is never stuck at online by a crash: until the gateway ends, the
\* broker shows online only while it holds a will that will take it back.
OnlineHasWill == retained = TRUE /\ pc # "ended" => session

\* After close() the broker shows the gateway offline, or it will when it
\* notices the broken connection, with three exceptions (`excused`): an
\* on_connect that ran, or was to run, after close() had begun; no room in the
\* queue for the last status; and a last status that close() published before
\* paho sent the older publications again, `online` perhaps among them.
EndsOffline == pc = "ended" /\ ~excused => session \/ retained # TRUE

\* --once ends with status 0 only if every data publication of the cycle was
\* accepted by publish() and answered by the broker before the flush ended,
\* or a signal came before the cycle published anything.
OnceSuccessMeansAnswered ==
  once /\ pc = "ended" /\ ~failed =>
    answered = MaxData \/ (stop /\ published = 0)

\* While the gateway runs and stays connected it is shown online at last,
\* after whatever reconnections.
OnlineWhenUp == <>[](pc = "run" /\ connected) => <>[](retained = TRUE)

\* docs/usage.rst:155, "On a clean shutdown, ``online`` is set to ``false``
\* before disconnecting": close() publishes no status while it sees no
\* connection, and an on_connect that comes then publishes online=true, which
\* the DISCONNECT leaves retained.
CleanShutdownIsOffline == pc = "ended" => session \/ retained # TRUE

\* docs/consolidation.rst:192, "Exit codes are 0 for success, 1 for
\* runtime/poll/publication failure": a rejection may come during the flush.
OnceSuccessMeansAccepted == once /\ pc = "ended" /\ ~failed => ~rejected

\* docs/consolidation.rst:188, "Presence is retained and republishes
\* online=true on every broker reconnect": not if unanswered publications
\* fill the transmit queue when the connection comes back. A status retained
\* from an earlier connection tells a reconnection from the first connection.
OnlineOnEveryReconnect ==
  <>[](pc = "run" /\ connected) /\ <>(retained = FALSE) => <>[](retained = TRUE)
=============================================================================
