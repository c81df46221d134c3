-------------------------- MODULE ModbusConnection --------------------------
(***************************************************************************)
(* ModbusConnectionManager (modpoll/modbus_connection.py): one Modbus      *)
(* client kept open between operations, reconnected with an exponential    *)
(* backoff.  The owner loop is its only caller, so an operation is         *)
(* interrupted only where it blocks: in client.connect() (phase            *)
(* "connect") and in the operation's own callback (phase "callback").      *)
(*                                                                         *)
(* The code stores readings of the monotonic clock.  Here every reading    *)
(* is kept relative to the present, and Tick moves the present:            *)
(*   backoff_left   = max(0, backoff_until - clock)                        *)
(*   connected_age  = clock - connected_since                              *)
(*   attempt_age    = clock - the `now` the last attempt started from      *)
(***************************************************************************)
EXTENDS Integers

CONSTANTS
  NONE,              \* Python's None
  BackoffBase,       \* backoff_base, in ticks
  BackoffMax,        \* backoff_max, in ticks
  MaxConnectionAge,  \* max_connection_age in ticks, or NONE
  ConnectTimeout,    \* longest time client.connect() blocks, in ticks
  CounterCap         \* bound: counters stop counting here

ASSUME NoneAssumption == NONE \notin Int
ASSUME BackoffAssumption ==
  BackoffBase \in Nat /\ BackoffMax \in Nat /\ BackoffBase <= BackoffMax
ASSUME AgeAssumption == MaxConnectionAge \in {NONE} \cup (Nat \ {0})
ASSUME BoundsAssumption == ConnectTimeout \in Nat /\ CounterCap \in Nat \ {0}

VARIABLES
  state,                      \* manager.state
  backoff_left,               \* ticks until backoff_until, or NONE
  connected_age,              \* ticks since connected_since, or NONE
  backoff_delay,              \* _backoff_delay
  delay,                      \* the delay the last _record_failure applied
  consecutive_failures,
  connect_count,
  reconnect_count,
  transaction_failure_count,
  has_connected,              \* _has_connected
  attempt_age,                \* ticks since the last attempt read the clock
  phase,                      \* where the owner loop is in execute()
  healthy                     \* the bus answers every connect and request

backoffVars == <<backoff_left, backoff_delay, delay, consecutive_failures>>
counterVars == <<connect_count, reconnect_count, transaction_failure_count>>
vars == <<state, backoffVars, connected_age, counterVars, has_connected,
          attempt_age, phase, healthy>>

States == {"DISCONNECTED", "CONNECTING", "READY", "BACKOFF"}
Phases == {"idle", "connect", "callback", "stopped"}

AgeCap == IF MaxConnectionAge = NONE THEN 0 ELSE MaxConnectionAge
AttemptCap == BackoffMax + ConnectTimeout

Smaller(a, b) == IF a <= b THEN a ELSE b
Larger(a, b) == IF a <= b THEN b ELSE a
Count(n) == Smaller(n + 1, CounterCap)

Init ==
  /\ state = "DISCONNECTED"
  /\ backoff_left = NONE
  /\ connected_age = NONE
  /\ backoff_delay = BackoffBase
  /\ delay = 0
  /\ consecutive_failures = 0
  /\ connect_count = 0
  /\ reconnect_count = 0
  /\ transaction_failure_count = 0
  /\ has_connected = FALSE
  /\ attempt_age = AttemptCap
  /\ phase = "idle"
  /\ healthy \in BOOLEAN

-----------------------------------------------------------------------------
(* What the operations are made of. *)

\* _connection_expired
ConnectionExpired ==
  /\ MaxConnectionAge # NONE
  /\ connected_age # NONE
  /\ connected_age >= MaxConnectionAge

\* Mistake: the doubled delay is not capped.
RecordFailureUncapped(elapsed) ==
  /\ state' = "BACKOFF"
  /\ consecutive_failures' = Count(consecutive_failures)
  /\ delay' = Smaller(backoff_delay, BackoffMax)
  /\ backoff_delay' = delay' * 2
  /\ backoff_left' = Larger(0, delay' - elapsed)

\* Mistake: the deadline is one tick early.
RecordFailureEarly(elapsed) ==
  /\ state' = "BACKOFF"
  /\ consecutive_failures' = Count(consecutive_failures)
  /\ delay' = Smaller(backoff_delay, BackoffMax)
  /\ backoff_delay' = Smaller(delay' * 2, BackoffMax)
  /\ backoff_left' = Larger(0, delay' - elapsed - 1)

\* _record_failure, with `now` read `elapsed` ticks ago.
RecordFailure(elapsed) ==
  /\ state' = "BACKOFF"
  /\ consecutive_failures' = Count(consecutive_failures)
  /\ delay' = Smaller(backoff_delay, BackoffMax)
  /\ backoff_delay' = Smaller(delay' * 2, BackoffMax)
  /\ backoff_left' = Larger(0, delay' - elapsed)

\* Mistake: a success does not start the delay over.
RecordSuccessKeepsDelay ==
  /\ state' = "READY"
  /\ backoff_left' = NONE
  /\ consecutive_failures' = 0
  /\ UNCHANGED <<backoff_delay, delay>>

\* The reset shared by a successful connect and a successful operation.
RecordSuccess ==
  /\ state' = "READY"
  /\ backoff_left' = NONE
  /\ consecutive_failures' = 0
  /\ backoff_delay' = BackoffBase
  /\ delay' = delay

\* Mistake: ensure_connected ignores the deadline.
MayConnectEarly ==
  \/ state \in {"DISCONNECTED", "BACKOFF"}
  \/ state = "READY" /\ ConnectionExpired

\* Mistake: a manager in backoff waits for somebody else to reset it.
MayConnectNever ==
  \/ state = "DISCONNECTED"
  \/ state = "READY" /\ ConnectionExpired

\* The backoff check and the expiry check of ensure_connected.
MayConnect ==
  \/ state = "DISCONNECTED"
  \/ state = "READY" /\ ConnectionExpired
  \/ state = "BACKOFF" /\ backoff_left = 0

\* Mistake: a first connection that needed retries counts no reconnect.
IsReconnectAfterSuccess == has_connected

\* An attempt counts as a reconnect after a connection or a failure.
IsReconnect == has_connected \/ state = "BACKOFF"

-----------------------------------------------------------------------------
(* execute() and ensure_connected(), cut where they block. *)

\* ensure_connected up to client.connect(); an expired connection is closed
\* first, which leaves connected_since at None.
StartConnect ==
  /\ phase = "idle"
  /\ MayConnect
  /\ phase' = "connect"
  /\ state' = "CONNECTING"
  /\ connected_age' = NONE
  /\ connect_count' = Count(connect_count)
  /\ reconnect_count' = IF IsReconnect THEN Count(reconnect_count)
                                       ELSE reconnect_count
  /\ attempt_age' = 0
  /\ UNCHANGED <<backoffVars, transaction_failure_count, has_connected, healthy>>

\* client.connect() raises or returns false.
ConnectFails ==
  /\ phase = "connect"
  /\ ~healthy
  /\ RecordFailure(attempt_age)
  /\ phase' = "idle"
  /\ UNCHANGED <<connected_age, counterVars, has_connected, attempt_age, healthy>>

\* client.connect() returns true, and execute goes on to the callback.
ConnectSucceeds ==
  /\ phase = "connect"
  /\ RecordSuccess
  /\ connected_age' = Smaller(attempt_age, AgeCap)
  /\ has_connected' = TRUE
  /\ phase' = "callback"
  /\ UNCHANGED <<counterVars, attempt_age, healthy>>

\* execute finds the connection open and young enough.
ReuseConnection ==
  /\ phase = "idle"
  /\ state = "READY"
  /\ ~ConnectionExpired
  /\ phase' = "callback"
  /\ UNCHANGED <<state, backoffVars, connected_age, counterVars, has_connected,
                 attempt_age, healthy>>

CallbackReturns ==
  /\ phase = "callback"
  /\ RecordSuccess
  /\ phase' = "idle"
  /\ UNCHANGED <<connected_age, counterVars, has_connected, attempt_age, healthy>>

\* Mistake: the broken connection keeps its age.
CallbackRaisesKeepsAge ==
  /\ phase = "callback"
  /\ ~healthy
  /\ transaction_failure_count' = Count(transaction_failure_count)
  /\ RecordFailure(0)
  /\ phase' = "idle"
  /\ UNCHANGED <<connected_age, connect_count, reconnect_count, has_connected,
                 attempt_age, healthy>>

\* The callback raises a transport exception: close(), then _record_failure
\* with a clock reading of this moment.
CallbackRaises ==
  /\ phase = "callback"
  /\ ~healthy
  /\ transaction_failure_count' = Count(transaction_failure_count)
  /\ connected_age' = NONE
  /\ RecordFailure(0)
  /\ phase' = "idle"
  /\ UNCHANGED <<connect_count, reconnect_count, has_connected, attempt_age,
                 healthy>>

\* app()'s finally clause: close("shutdown"), after the loop or after an
\* exception that execute does not catch.
Shutdown ==
  /\ phase # "stopped"
  /\ state' = "DISCONNECTED"
  /\ connected_age' = NONE
  /\ phase' = "stopped"
  /\ UNCHANGED <<backoffVars, counterVars, has_connected, attempt_age, healthy>>

-----------------------------------------------------------------------------
(* The environment: time, and the bus. *)

\* A connect attempt is bounded by the client's timeout; nothing else is.
Tick ==
  /\ phase = "connect" => attempt_age < ConnectTimeout
  /\ phase # "stopped"
  /\ backoff_left' = IF backoff_left = NONE THEN NONE
                     ELSE Larger(0, backoff_left - 1)
  /\ connected_age' = IF connected_age = NONE THEN NONE
                      ELSE Smaller(connected_age + 1, AgeCap)
  /\ attempt_age' = Smaller(attempt_age + 1, AttemptCap)
  /\ UNCHANGED <<state, backoff_delay, delay, consecutive_failures, counterVars,
                 has_connected, phase, healthy>>

HealthChanges ==
  /\ phase # "stopped"
  /\ healthy' = ~healthy
  /\ UNCHANGED <<state, backoffVars, connected_age, counterVars, has_connected,
                 attempt_age, phase>>

Next ==
  \/ StartConnect \/ ConnectFails \/ ConnectSucceeds \/ ReuseConnection
  \/ CallbackReturns \/ CallbackRaises \/ Shutdown
  \/ Tick \/ HealthChanges

Spec == Init /\ [][Next]_vars

\* The owner loop polls every --rate seconds, so it keeps calling execute;
\* connect and the requests of a callback time out; and time passes.
Fairness ==
  /\ WF_vars(StartConnect)
  /\ WF_vars(ReuseConnection)
  /\ WF_vars(ConnectSucceeds \/ ConnectFails)
  /\ WF_vars(CallbackReturns \/ CallbackRaises)
  /\ WF_vars(Tick)

FairSpec == Spec /\ Fairness

-----------------------------------------------------------------------------
(* Properties. *)

TypeOK ==
  /\ state \in States
  /\ backoff_left \in {NONE} \cup 0..BackoffMax
  /\ connected_age \in {NONE} \cup 0..AgeCap
  /\ backoff_delay \in BackoffBase..BackoffMax
  /\ delay \in {0} \cup BackoffBase..BackoffMax
  /\ consecutive_failures \in 0..CounterCap
  /\ connect_count \in 0..CounterCap
  /\ reconnect_count \in 0..CounterCap
  /\ transaction_failure_count \in 0..CounterCap
  /\ has_connected \in BOOLEAN
  /\ attempt_age \in 0..AttemptCap
  /\ phase \in Phases
  /\ healthy \in BOOLEAN

\* The pieces of the manager's state never contradict each other: an
\* operation runs only on a ready connection, a ready connection has an age
\* and a clean failure record, a manager in backoff has a deadline and at
\* least one failure, and only a ready connection has an age.
StateConsistent ==
  /\ phase = "callback" => state = "READY"
  /\ phase = "connect" <=> state = "CONNECTING"
  /\ phase = "stopped" => state = "DISCONNECTED"
  /\ state = "READY" <=> connected_age # NONE
  /\ state = "READY" => /\ has_connected
                        /\ backoff_left = NONE
                        /\ consecutive_failures = 0
                        /\ backoff_delay = BackoffBase
  /\ state = "BACKOFF" => /\ backoff_left # NONE
                          /\ consecutive_failures > 0

\* The delay grows exponentially with the run of failures and is capped, and
\* a success starts it over: after n failures in a row the last delay was
\* min(base * 2^(n-1), max) and the next one will be min(base * 2^n, max).
BackoffIsExponential ==
  consecutive_failures < CounterCap =>
    /\ backoff_delay = Smaller(BackoffBase * 2^consecutive_failures, BackoffMax)
    /\ state = "BACKOFF" =>
         delay = Smaller(BackoffBase * 2^(consecutive_failures - 1), BackoffMax)

\* Reconnects are paced: two attempts start at least the applied delay apart,
\* however the ticks, failures and refusals fall in between.
ReconnectsArePaced ==
  [][(state = "BACKOFF" /\ state' = "CONNECTING") => attempt_age >= delay]_vars

\* 1 while the last attempt has not failed yet.
Underway == IF state \in {"CONNECTING", "READY"} THEN 1 ELSE 0

\* The published counters agree: every attempt after the first counts as a
\* reconnect, whether or not the first ever succeeded, and an operation that
\* failed used up an attempt of its own.
CountersAgree ==
  connect_count < CounterCap =>
    /\ reconnect_count = Larger(connect_count - 1, 0)
    /\ transaction_failure_count + Underway <= connect_count
    /\ consecutive_failures + Underway <= connect_count

\* The manager is a circuit breaker: this is the breaker's state.
access ==
  CASE phase = "stopped" -> "halted"
    [] phase = "connect" -> "trial"
    [] phase = "callback" -> "busy"
    [] phase = "idle" /\ state = "BACKOFF" ->
         IF backoff_left = 0 THEN "cooled" ELSE "cooling"
    [] OTHER -> "free"

Breaker == INSTANCE BusAccess WITH access <- access

\* The manager implements the breaker: in particular the bus is never touched
\* while it is cooling.
ImplementsBreaker == Breaker!Spec

\* Once the bus is healthy for good, operations keep being served: neither
\* the backoff nor the recycling of old connections locks the bus out.
KeepsServing ==
  <>[](healthy /\ phase # "stopped") => []<>(phase = "callback")

\* A failed connect leaves the manager in backoff, so that the next operation
\* is refused instead of blocking in connect again.
FailedConnectBacksOff ==
  [][(state = "CONNECTING" /\ state' = "BACKOFF") => backoff_left' > 0]_vars

=============================================================================
