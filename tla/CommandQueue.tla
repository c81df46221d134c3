----------------------------- MODULE CommandQueue -----------------------------
(***************************************************************************)
(* The receiving side of MqttHandler (modpoll/mqtt_task.py).  Two threads  *)
(* share it: paho's network thread runs _on_message and _on_connect, the   *)
(* owner loop runs receive() and wait().  The queue of commands and its    *)
(* byte count are guarded by _rx_lock; the queue of rejections and the     *)
(* wakeup event are not, so the owner's critical section is cut in two     *)
(* (Get, Release) for what the network thread may do in between.           *)
(*                                                                         *)
(* A message is its arrival number; only its size and its age matter.      *)
(***************************************************************************)
EXTENDS Integers, Sequences, FiniteSets, SequencesExt

CONSTANTS
  QueueSize,     \* rx_queue_size: commands queued, and rejections queued
  QueueBytes,    \* queue_bytes: sum of the sizes of the queued commands
  CommandTtl,    \* command_ttl, in ticks
  DrainLimit,    \* rejections answered per receive() (10 in the code)
  Sizes,         \* payload sizes that occur
  RejectBytes,   \* largest payload a rejection is kept for (2048 in the code)
  PayloadBytes,  \* max_payload_bytes
  MaxArrivals    \* bound: messages that arrive

ASSUME LimitsAssumption ==
  /\ QueueSize \in Nat \ {0} /\ QueueBytes \in Nat \ {0}
  /\ CommandTtl \in Nat /\ DrainLimit \in Nat \ {0}
  /\ Sizes \subseteq Nat
  /\ RejectBytes \in Nat /\ PayloadBytes \in Nat
  /\ MaxArrivals \in Nat

VARIABLES
  rx_queue,      \* sequence of [id, size, age]
  queued_bytes,  \* _queued_bytes
  rejections,    \* _rejections: sequence of message numbers
  wakeup,        \* the wakeup event
  owner,         \* where the owner loop is
  drained,       \* rejections answered by this receive()
  hand,          \* the message receive() has taken, or <<>>
  closed,        \* _closed, or the threading event is set
  arrivals,      \* history: messages that arrived
  delivered,     \* history: commands returned by receive(), in order
  expired,       \* history: counted in expired_messages
  dropped,       \* history: counted in dropped_messages
  ignored,       \* history: arrived after the end
  answered       \* history: messages a rejection was published for

queueVars == <<rx_queue, queued_bytes>>
ownerVars == <<owner, drained, hand>>
history == <<delivered, expired, dropped, ignored, answered>>
vars == <<queueVars, rejections, wakeup, ownerVars, closed, arrivals, history>>

OwnerPlaces == {"wait", "drain", "get", "held", "check", "busy", "stopped"}
Message == [id : 1..MaxArrivals, size : Sizes, age : 0..(CommandTtl + 1)]
Ids(q) == {q[k].id : k \in DOMAIN q}
Bytes(q) ==
  LET upto[k \in 0..Len(q)] == IF k = 0 THEN 0 ELSE upto[k - 1] + q[k].size
  IN upto[Len(q)]

Init ==
  /\ rx_queue = <<>> /\ queued_bytes = 0
  /\ rejections = <<>>
  /\ wakeup = FALSE
  /\ owner = "wait" /\ drained = 0 /\ hand = <<>>
  /\ closed = FALSE
  /\ arrivals = 0
  /\ delivered = <<>> /\ expired = {} /\ dropped = {} /\ ignored = {}
  /\ answered = {}

-----------------------------------------------------------------------------
(* The network thread. *)

\* _reject: keep small rejected payloads, while there is room for them.
Reject(id, size) ==
  IF size <= RejectBytes /\ size <= PayloadBytes /\ Len(rejections) < QueueSize
  THEN rejections' = Append(rejections, id) /\ wakeup' = TRUE
  ELSE UNCHANGED <<rejections, wakeup>>

\* _on_message after close() or a stop.
Ignore ==
  /\ closed
  /\ ignored' = ignored \cup {arrivals + 1}
  /\ UNCHANGED <<queueVars, rejections, wakeup, ownerVars, closed, delivered,
                 expired, dropped, answered>>

\* A retained or oversized message: refused without taking the lock.
RefuseAtOnce(size) ==
  /\ ~closed
  /\ dropped' = dropped \cup {arrivals + 1}
  /\ IF size <= PayloadBytes THEN Reject(arrivals + 1, size)
                             ELSE UNCHANGED <<rejections, wakeup>>
  /\ UNCHANGED <<queueVars, ownerVars, closed, delivered, expired, ignored,
                 answered>>

LockFree == owner # "held"

\* Mistake: the byte budget is checked, the length of the queue is not.
FitsBytesOnly(size) == queued_bytes + size <= QueueBytes

Fits(size) == queued_bytes + size <= QueueBytes /\ Len(rx_queue) < QueueSize

\* The byte budget or the queue is full.
RefuseFull(size) ==
  /\ ~closed /\ LockFree /\ size <= PayloadBytes
  /\ ~Fits(size)
  /\ dropped' = dropped \cup {arrivals + 1}
  /\ Reject(arrivals + 1, size)
  /\ UNCHANGED <<queueVars, ownerVars, closed, delivered, expired, ignored,
                 answered>>

Accept(size) ==
  /\ ~closed /\ LockFree /\ size <= PayloadBytes
  /\ Fits(size)
  /\ rx_queue' = Append(rx_queue, [id |-> arrivals + 1, size |-> size, age |-> 0])
  /\ queued_bytes' = queued_bytes + size
  /\ wakeup' = TRUE
  /\ UNCHANGED <<rejections, ownerVars, closed, history>>

Arrive ==
  /\ arrivals < MaxArrivals
  /\ arrivals' = arrivals + 1
  /\ \/ Ignore
     \/ \E size \in Sizes :
          RefuseAtOnce(size) \/ RefuseFull(size) \/ Accept(size)

\* _on_connect ends by waking the owner.
Connected ==
  /\ ~wakeup
  /\ wakeup' = TRUE
  /\ UNCHANGED <<queueVars, rejections, ownerVars, closed, arrivals, history>>

-----------------------------------------------------------------------------
(* The owner loop. *)

\* Mistake: wait() sleeps until it is woken, without its 0.1 s limit.
StartReceiveWhenWoken ==
  /\ owner = "wait" /\ ~closed /\ wakeup
  /\ owner' = "drain" /\ drained' = 0
  /\ UNCHANGED <<queueVars, rejections, wakeup, hand, closed, arrivals, history>>

\* wait() returns, woken or after 0.1 s, and the loop calls receive().
StartReceive ==
  /\ owner = "wait" /\ ~closed
  /\ owner' = "drain" /\ drained' = 0
  /\ UNCHANGED <<queueVars, rejections, wakeup, hand, closed, arrivals, history>>

\* receive(): one rejection is taken off and answered.
AnswerRejection ==
  /\ owner = "drain" /\ drained < DrainLimit /\ rejections # <<>>
  /\ answered' = answered \cup {Head(rejections)}
  /\ rejections' = Tail(rejections)
  /\ drained' = drained + 1
  /\ UNCHANGED <<queueVars, wakeup, owner, hand, closed, arrivals, delivered,
                 expired, dropped, ignored>>

Drained ==
  /\ owner = "drain" /\ (drained = DrainLimit \/ rejections = <<>>)
  /\ owner' = "get"
  /\ UNCHANGED <<queueVars, rejections, wakeup, drained, hand, closed, arrivals,
                 history>>

\* receive(): the queue is empty; back to wait(), the event left as it is.
NothingQueued ==
  /\ owner = "get" /\ rx_queue = <<>>
  /\ owner' = "wait"
  /\ UNCHANGED <<queueVars, rejections, wakeup, drained, hand, closed, arrivals,
                 history>>

\* Mistake: the bytes of a command that leaves are not given back.
GetKeepsBytes ==
  /\ owner = "get" /\ rx_queue # <<>>
  /\ hand' = <<Head(rx_queue)>>
  /\ rx_queue' = Tail(rx_queue)
  /\ owner' = "held"
  /\ UNCHANGED <<queued_bytes, rejections, wakeup, drained, closed, arrivals,
                 history>>

\* receive() under the lock: take the oldest command.
Get ==
  /\ owner = "get" /\ rx_queue # <<>>
  /\ hand' = <<Head(rx_queue)>>
  /\ rx_queue' = Tail(rx_queue)
  /\ queued_bytes' =
       IF queued_bytes >= Head(rx_queue).size
       THEN queued_bytes - Head(rx_queue).size ELSE 0
  /\ owner' = "held"
  /\ UNCHANGED <<rejections, wakeup, drained, closed, arrivals, history>>

\* Mistake: the event is cleared whether or not commands are left.
ReleaseAndClear ==
  /\ owner = "held"
  /\ wakeup' = FALSE
  /\ owner' = "check"
  /\ UNCHANGED <<queueVars, rejections, drained, hand, closed, arrivals, history>>

\* receive(): clear the event if that was the last command, and unlock.
Release ==
  /\ owner = "held"
  /\ wakeup' = (wakeup /\ rx_queue # <<>>)
  /\ owner' = "check"
  /\ UNCHANGED <<queueVars, rejections, drained, hand, closed, arrivals, history>>

TooOld(m) == m.age > CommandTtl

\* Mistake: an expired command is counted and answered, but also returned.
ExpireAndDeliver ==
  /\ owner = "check" /\ TooOld(hand[1])
  /\ expired' = expired \cup {hand[1].id}
  /\ answered' = answered \cup {hand[1].id}
  /\ delivered' = Append(delivered, hand[1].id)
  /\ hand' = <<>>
  /\ owner' = "busy"
  /\ UNCHANGED <<queueVars, rejections, wakeup, drained, closed, arrivals,
                 dropped, ignored>>

\* receive(): too long in the queue; answered as rejected, then the next one.
Expire ==
  /\ owner = "check" /\ TooOld(hand[1])
  /\ expired' = expired \cup {hand[1].id}
  /\ answered' = answered \cup {hand[1].id}
  /\ hand' = <<>>
  /\ owner' = "get"
  /\ UNCHANGED <<queueVars, rejections, wakeup, drained, closed, arrivals,
                 delivered, dropped, ignored>>

\* receive() returns the command and the loop executes it.
Deliver ==
  /\ owner = "check" /\ ~TooOld(hand[1])
  /\ delivered' = Append(delivered, hand[1].id)
  /\ hand' = <<>>
  /\ owner' = "busy"
  /\ UNCHANGED <<queueVars, rejections, wakeup, drained, closed, arrivals,
                 expired, dropped, ignored, answered>>

\* After a command the loop goes round again without waiting.
Executed ==
  /\ owner = "busy"
  /\ owner' = IF closed THEN "stopped" ELSE "drain"
  /\ drained' = 0
  /\ UNCHANGED <<queueVars, rejections, wakeup, hand, closed, arrivals, history>>

Leave ==
  /\ owner = "wait" /\ closed
  /\ owner' = "stopped"
  /\ UNCHANGED <<queueVars, rejections, wakeup, drained, hand, closed, arrivals,
                 history>>

OwnerStep ==
  \/ StartReceive \/ AnswerRejection \/ Drained \/ NothingQueued \/ Get
  \/ Release \/ Expire \/ Deliver \/ Executed \/ Leave

-----------------------------------------------------------------------------
Older(m) == [m EXCEPT !.age = IF @ > CommandTtl THEN @ ELSE @ + 1]

Tick ==
  /\ \E m \in ToSet(rx_queue) \cup ToSet(hand) : ~TooOld(m)
  /\ rx_queue' = [k \in DOMAIN rx_queue |-> Older(rx_queue[k])]
  /\ hand' = [k \in DOMAIN hand |-> Older(hand[k])]
  /\ UNCHANGED <<queued_bytes, rejections, wakeup, owner, drained, closed,
                 arrivals, history>>

Close ==
  /\ ~closed
  /\ closed' = TRUE
  /\ UNCHANGED <<queueVars, rejections, wakeup, ownerVars, arrivals, history>>

Next == Arrive \/ Connected \/ OwnerStep \/ Tick \/ Close

Spec == Init /\ [][Next]_vars

\* The owner loop goes round until it is stopped: wait() is limited to 0.1 s
\* and a command to the timeouts of its requests.
FairSpec == Spec /\ WF_vars(OwnerStep)

-----------------------------------------------------------------------------
(* Properties. *)

TypeOK ==
  /\ rx_queue \in Seq(Message) /\ Len(rx_queue) <= QueueSize
  /\ queued_bytes \in 0..QueueBytes
  /\ rejections \in Seq(1..MaxArrivals) /\ Len(rejections) <= QueueSize
  /\ wakeup \in BOOLEAN /\ closed \in BOOLEAN
  /\ owner \in OwnerPlaces
  /\ drained \in 0..DrainLimit
  /\ hand \in Seq(Message) /\ Len(hand) <= 1
  /\ arrivals \in 0..MaxArrivals
  /\ delivered \in Seq(1..MaxArrivals)
  /\ {expired, dropped, ignored, answered} \subseteq SUBSET (1..MaxArrivals)

\* The byte count is the sum of the sizes of the commands in the queue, and
\* with the length of the queue it never exceeds its limit, whatever the two
\* threads do: neither leaks budget nor overcommits it.
BytesAccounted ==
  /\ queued_bytes = Bytes(rx_queue)
  /\ queued_bytes <= QueueBytes
  /\ Len(rx_queue) <= QueueSize

\* No lost wakeup: while commands are queued the event is set, so wait() does
\* not sleep on them, although the owner clears it concurrently.
NoLostWakeup == rx_queue # <<>> /\ owner # "held" => wakeup

\* Every message that arrived has exactly one fate: still queued, in the
\* owner's hand, delivered, expired, dropped or ignored. Commands are
\* delivered in order, and none that is answered as rejected is delivered.
OneFate ==
  LET fates == <<Ids(rx_queue), Ids(hand), ToSet(delivered), expired, dropped,
                 ignored>>
  IN /\ 1..arrivals = UNION ToSet(fates)
     /\ \A j, k \in DOMAIN fates : j # k => fates[j] \cap fates[k] = {}
     /\ \A j, k \in DOMAIN delivered : j < k => delivered[j] < delivered[k]
     /\ answered \cup ToSet(rejections) \subseteq expired \cup dropped

\* Until the end, every queued command is delivered or expires and every
\* queued rejection is answered, also when the event was cleared while the
\* rejection came in.
EverythingAnswered ==
  \A id \in 1..MaxArrivals :
    /\ id \in Ids(rx_queue) ~> (closed \/ id \in ToSet(delivered) \cup expired)
    /\ id \in ToSet(rejections) ~> (closed \/ id \in answered)
=============================================================================
