----------------------- MODULE ModbusConnection_proofs -----------------------
(***************************************************************************)
(* For every backoff, maximum age and connect timeout: the types, the      *)
(* consistency of the manager's state, the pacing of reconnects, the       *)
(* exponential backoff, the counters, and the implementation of the       *)
(* circuit breaker.                                                        *)
(***************************************************************************)
EXTENDS ModbusConnection, FiniteSetTheorems, TLAPS

\* The powers of two count the subsets of an interval, which is what the
\* library's facts about finite sets say of them.
LEMMA PowerCountsSubsets == \A n \in Nat : /\ IsFiniteSet(SUBSET (1..n))
                              /\ Cardinality(SUBSET (1..n)) = 2^n
<1> SUFFICES ASSUME NEW n \in Nat
             PROVE  /\ IsFiniteSet(SUBSET (1..n))
                    /\ Cardinality(SUBSET (1..n)) = 2^n
  OBVIOUS
<1>1. IsFiniteSet(1..n) /\ Cardinality(1..n) = IF 1 > n THEN 0 ELSE n - 1 + 1
  BY FS_Interval
<1>2. Cardinality(1..n) = n
  BY <1>1
<1> QED
  BY <1>1, <1>2, FS_SUBSET

\* A power of two is positive and the next one is its double: the new subsets
\* are the old ones with the new element added.
LEMMA PowersOfTwo ==
  /\ 2^0 = 1
  /\ \A n \in Nat : 2^n \in Nat /\ 2^n > 0 /\ 2^(n + 1) = 2 * 2^n
<1>1. 2^0 = 1
  <2>1. 1..0 = {} /\ SUBSET {} = {{}}
    OBVIOUS
  <2>2. Cardinality({{}}) = 1
    BY FS_Singleton
  <2> QED
    BY <2>1, <2>2, PowerCountsSubsets
<1>2. ASSUME NEW n \in Nat
      PROVE  2^n \in Nat /\ 2^n > 0 /\ 2^(n + 1) = 2 * 2^n
  <2> DEFINE A == SUBSET (1..n)
             B == {T \in SUBSET (1..(n + 1)) : n + 1 \in T}
             f == [T \in A |-> T \cup {n + 1}]
  <2>1. IsFiniteSet(A) /\ Cardinality(A) = 2^n
    BY PowerCountsSubsets
  <2>2. SUBSET (1..(n + 1)) = A \cup B
    <3>1. ASSUME NEW T \in SUBSET (1..(n + 1)), n + 1 \notin T
          PROVE  T \in A
      BY <3>1
    <3> QED
      BY <3>1
  <2>3. A \cap B = {}
    OBVIOUS
  <2>4. f \in [A -> B]
    OBVIOUS
  <2>5. f \in Injection(A, B)
    <3>1. ASSUME NEW S \in A, NEW T \in A, f[S] = f[T]
          PROVE  S = T
      <4>1. n + 1 \notin S /\ n + 1 \notin T
        OBVIOUS
      <4>2. S \cup {n + 1} = T \cup {n + 1}
        BY <3>1
      <4> QED
        BY <4>1, <4>2
    <3> QED
      BY <2>4, <3>1 DEF Injection, IsInjective
  <2>6. f \in Surjection(A, B)
    <3>1. ASSUME NEW T \in B
          PROVE  \E S \in A : f[S] = T
      <4>1. T \ {n + 1} \in A /\ (T \ {n + 1}) \cup {n + 1} = T
        OBVIOUS
      <4> QED
        BY <4>1
    <3> QED
      BY <2>4, <3>1 DEF Surjection
  <2>7. IsFiniteSet(B) /\ Cardinality(B) = Cardinality(A)
    BY <2>1, <2>5, <2>6, FS_Bijection DEF Bijection, ExistsBijection
  <2>8. Cardinality(A) \in Nat /\ Cardinality(A) # 0
    <3>1. {} \in A
      OBVIOUS
    <3> QED
      BY <2>1, <3>1, FS_CardinalityType, FS_EmptySet
  <2>9. Cardinality(A \cup B) = Cardinality(A) + Cardinality(B)
    <3>1. Cardinality(A \cup B)
            = Cardinality(A) + Cardinality(B) - Cardinality(A \cap B)
      BY <2>1, <2>7, FS_Union
    <3> QED
      <4>1. Cardinality(A \cap B) = 0
        BY <2>3, FS_EmptySet
      <4> HIDE DEF A, B
      <4> QED
        BY <2>7, <2>8, <3>1, <4>1
  <2>10. Cardinality(SUBSET (1..(n + 1))) = 2^(n + 1)
    BY PowerCountsSubsets
  <2> HIDE DEF A, B
  <2>11. Cardinality(A \cup B) = 2^(n + 1)
    BY <2>2, <2>10
  <2>12. Cardinality(A) + Cardinality(A) = 2^(n + 1)
    BY <2>7, <2>9, <2>11
  <2>13. 2^n \in Nat /\ 2^n # 0
    BY <2>1, <2>8
  <2>14. 2^n + 2^n = 2^(n + 1)
    BY <2>1, <2>12
  <2> QED
    BY <2>13, <2>14
<1> QED
  BY <1>1, <1>2

USE NoneAssumption, BackoffAssumption, AgeAssumption, BoundsAssumption

\* Smaller and Larger are the minimum and the maximum of two numbers, and
\* Count stays within the bound: the arithmetic every step below rests on.
LEMMA Arithmetic ==
  /\ \A a, b \in Int : /\ Smaller(a, b) \in {a, b}
                       /\ Smaller(a, b) <= a /\ Smaller(a, b) <= b
                       /\ Larger(a, b) \in {a, b}
                       /\ Larger(a, b) >= a /\ Larger(a, b) >= b
  /\ \A n \in 0..CounterCap : Count(n) \in 1..CounterCap
  /\ AgeCap \in Nat
  /\ AttemptCap \in Nat
  BY DEF Smaller, Larger, Count, AgeCap, AttemptCap

\* The bookkeeping of a failure keeps the delays within their limits,
\* whatever time has passed since the clock reading it is given.
LEMMA FailureTypes ==
  ASSUME TypeOK, NEW elapsed \in Nat, RecordFailure(elapsed)
  PROVE  /\ state' = "BACKOFF"
         /\ backoff_left' \in 0..BackoffMax
         /\ backoff_delay' \in BackoffBase..BackoffMax
         /\ delay' \in BackoffBase..BackoffMax
         /\ consecutive_failures' \in 1..CounterCap
         /\ backoff_left' + elapsed >= delay'
  BY Arithmetic DEF TypeOK, RecordFailure, Smaller, Larger

\* The manager's variables keep their types: in particular the backoff delay
\* stays between its base and its maximum (modbus_connection.py:190-197).
THEOREM TypeCorrect == Spec => []TypeOK
<1>1. Init => TypeOK
  <2> SUFFICES ASSUME Init PROVE TypeOK
    OBVIOUS
  <2>1. backoff_delay \in BackoffBase..BackoffMax /\ attempt_age \in 0..AttemptCap
    BY Arithmetic DEF Init
  <2>2. 0 \in 0..CounterCap
    OBVIOUS
  <2> QED
    BY <2>1, <2>2 DEF Init, TypeOK, States, Phases
<1>2. TypeOK /\ [Next]_vars => TypeOK'
  <2> SUFFICES ASSUME TypeOK, [Next]_vars PROVE TypeOK'
    OBVIOUS
  <2> USE DEF States, Phases
  <2>1. CASE StartConnect
    BY <2>1, Arithmetic DEF TypeOK, StartConnect, backoffVars
  <2>2. CASE ConnectFails
    BY <2>2, FailureTypes, Arithmetic DEF TypeOK, ConnectFails, counterVars
  <2>3. CASE ConnectSucceeds
    BY <2>3, Arithmetic
    DEF TypeOK, ConnectSucceeds, RecordSuccess, counterVars
  <2>4. CASE ReuseConnection
    BY <2>4 DEF TypeOK, ReuseConnection, backoffVars, counterVars
  <2>5. CASE CallbackReturns
    BY <2>5 DEF TypeOK, CallbackReturns, RecordSuccess, counterVars
  <2>6. CASE CallbackRaises
    BY <2>6, FailureTypes, Arithmetic DEF TypeOK, CallbackRaises
  <2>7. CASE Shutdown
    BY <2>7 DEF TypeOK, Shutdown, backoffVars, counterVars
  <2>8. CASE Tick
    <3>1. backoff_left' \in {NONE} \cup 0..BackoffMax
      BY <2>8, Arithmetic DEF TypeOK, Tick
    <3>2. connected_age' \in {NONE} \cup 0..AgeCap
      BY <2>8, Arithmetic DEF TypeOK, Tick
    <3>3. attempt_age' \in 0..AttemptCap
      BY <2>8, Arithmetic DEF TypeOK, Tick
    <3> QED
      BY <2>8, <3>1, <3>2, <3>3 DEF TypeOK, Tick, counterVars
  <2>9. CASE HealthChanges
    BY <2>9 DEF TypeOK, HealthChanges, backoffVars, counterVars
  <2>10. CASE UNCHANGED vars
    BY <2>10 DEF TypeOK, vars, backoffVars, counterVars
  <2> QED
    BY <2>1, <2>2, <2>3, <2>4, <2>5, <2>6, <2>7, <2>8, <2>9, <2>10 DEF Next
<1> QED
  BY <1>1, <1>2, PTL DEF Spec

\* The pieces of the manager's state never contradict each other: an operation
\* runs only on a ready connection and a manager in backoff has a deadline
\* (ensure_connected, execute and close, modbus_connection.py:81-168).
THEOREM Consistent == Spec => []StateConsistent
<1>1. Init => StateConsistent
  BY DEF Init, StateConsistent
<1>2. TypeOK /\ StateConsistent /\ [Next]_vars => StateConsistent'
  <2> SUFFICES ASSUME TypeOK, StateConsistent, [Next]_vars
               PROVE  StateConsistent'
    OBVIOUS
  <2>1. CASE StartConnect
    BY <2>1 DEF StateConsistent, StartConnect, backoffVars
  <2>2. CASE ConnectFails
    BY <2>2, FailureTypes DEF TypeOK, StateConsistent, ConnectFails, counterVars
  <2>3. CASE ConnectSucceeds
    BY <2>3, Arithmetic
    DEF TypeOK, StateConsistent, RecordSuccess, ConnectSucceeds, counterVars
  <2>4. CASE ReuseConnection
    BY <2>4 DEF StateConsistent, ReuseConnection, backoffVars, counterVars
  <2>5. CASE CallbackReturns
    BY <2>5 DEF StateConsistent, RecordSuccess, CallbackReturns, counterVars
  <2>6. CASE CallbackRaises
    BY <2>6, FailureTypes DEF StateConsistent, CallbackRaises
  <2>7. CASE Shutdown
    BY <2>7 DEF StateConsistent, Shutdown, backoffVars, counterVars
  <2>8. CASE Tick
    BY <2>8, Arithmetic DEF TypeOK, StateConsistent, Tick, counterVars
  <2>9. CASE HealthChanges
    BY <2>9 DEF StateConsistent, HealthChanges, backoffVars, counterVars
  <2>10. CASE UNCHANGED vars
    BY <2>10 DEF StateConsistent, vars, backoffVars, counterVars
  <2> QED
    BY <2>1, <2>2, <2>3, <2>4, <2>5, <2>6, <2>7, <2>8, <2>9, <2>10 DEF Next
<1> QED
  BY <1>1, <1>2, TypeCorrect, PTL DEF Spec

\* While in backoff, the time since the last attempt and the time to the
\* deadline add up to the applied delay at least.
PacingInv == state = "BACKOFF" => backoff_left + attempt_age >= delay

\* Reconnects are paced: two attempts start at least the applied delay apart
\* (ensure_connected and _record_failure, modbus_connection.py:90-104, 190-197).
THEOREM Paced == Spec => ReconnectsArePaced
<1>1. Init => PacingInv
  BY DEF Init, PacingInv
<1>2. TypeOK /\ StateConsistent /\ PacingInv /\ [Next]_vars => PacingInv'
  <2> SUFFICES ASSUME TypeOK, StateConsistent, PacingInv, [Next]_vars
               PROVE  PacingInv'
    OBVIOUS
  <2>1. CASE StartConnect
    BY <2>1 DEF PacingInv, StartConnect, backoffVars
  <2>2. CASE ConnectFails
    BY <2>2, FailureTypes DEF TypeOK, PacingInv, ConnectFails, counterVars
  <2>3. CASE ConnectSucceeds
    BY <2>3 DEF PacingInv, RecordSuccess, ConnectSucceeds, counterVars
  <2>4. CASE ReuseConnection
    BY <2>4 DEF PacingInv, ReuseConnection, backoffVars, counterVars
  <2>5. CASE CallbackReturns
    BY <2>5 DEF PacingInv, RecordSuccess, CallbackReturns, counterVars
  <2>6. CASE CallbackRaises
    BY <2>6, FailureTypes DEF TypeOK, PacingInv, CallbackRaises
  <2>7. CASE Shutdown
    BY <2>7 DEF PacingInv, Shutdown, backoffVars, counterVars
  <2>8. CASE Tick
    BY <2>8
    DEF TypeOK, StateConsistent, PacingInv, Smaller, Larger, AttemptCap, Tick,
        counterVars
  <2>9. CASE HealthChanges
    BY <2>9 DEF PacingInv, HealthChanges, backoffVars, counterVars
  <2>10. CASE UNCHANGED vars
    BY <2>10 DEF PacingInv, vars, backoffVars
  <2> QED
    BY <2>1, <2>2, <2>3, <2>4, <2>5, <2>6, <2>7, <2>8, <2>9, <2>10 DEF Next
<1>3. PacingInv /\ TypeOK /\ [Next]_vars
         => [(state = "BACKOFF" /\ state' = "CONNECTING")
              => attempt_age >= delay]_vars
  <2> SUFFICES ASSUME PacingInv, TypeOK, Next,
                      state = "BACKOFF", state' = "CONNECTING"
               PROVE  attempt_age >= delay
    OBVIOUS
  <2>1. StartConnect
    BY DEF Next, StartConnect, ConnectFails, ConnectSucceeds, ReuseConnection,
           CallbackReturns, CallbackRaises, RecordFailure, RecordSuccess,
           Shutdown, Tick, HealthChanges
  <2> QED
    BY <2>1 DEF StartConnect, MayConnect, PacingInv, TypeOK
<1> QED
  BY <1>1, <1>2, <1>3, TypeCorrect, Consistent, PTL DEF Spec, ReconnectsArePaced

\* Capping before or after a doubling makes no difference.
LEMMA CappedDoubling ==
  ASSUME NEW m \in Nat, NEW p \in Nat
  PROVE  /\ Smaller(Smaller(BackoffBase * p, m) * 2, m)
              = Smaller(BackoffBase * (2 * p), m)
         /\ Smaller(Smaller(BackoffBase * p, m), m) = Smaller(BackoffBase * p, m)
<1> DEFINE x == BackoffBase * p
<1>1. x \in Nat /\ BackoffBase * (2 * p) = 2 * x
  OBVIOUS
<1> HIDE DEF x
<1>2. /\ Smaller(Smaller(x, m) * 2, m) = Smaller(2 * x, m)
      /\ Smaller(Smaller(x, m), m) = Smaller(x, m)
  BY <1>1 DEF Smaller
<1> QED
  BY <1>1, <1>2 DEF x

\* A failure takes the exponential one step further.
LEMMA FailureDoubles ==
  ASSUME TypeOK, BackoffIsExponential, NEW elapsed \in Nat,
         RecordFailure(elapsed)
  PROVE  BackoffIsExponential'
<1> SUFFICES ASSUME consecutive_failures' < CounterCap
             PROVE  /\ backoff_delay' = Smaller(BackoffBase * 2^(consecutive_failures'),
                                                BackoffMax)
                    /\ delay' = Smaller(BackoffBase * 2^(consecutive_failures' - 1),
                                        BackoffMax)
  BY DEF BackoffIsExponential
<1> DEFINE n == consecutive_failures
<1>1. n \in Nat /\ n < CounterCap /\ n' = n + 1 /\ n' - 1 = n
  BY DEF TypeOK, RecordFailure, Count, Smaller
<1>2. 2^n \in Nat /\ 2^(n + 1) = 2 * 2^n
  BY <1>1, PowersOfTwo
<1>3. backoff_delay = Smaller(BackoffBase * 2^n, BackoffMax)
  BY <1>1 DEF BackoffIsExponential
<1>4. delay' = Smaller(BackoffBase * 2^n, BackoffMax)
  BY <1>2, <1>3, CappedDoubling DEF RecordFailure
<1>5. backoff_delay' = Smaller(BackoffBase * (2 * 2^n), BackoffMax)
  BY <1>2, <1>4, CappedDoubling DEF RecordFailure
<1> QED
  BY <1>1, <1>2, <1>4, <1>5

\* The delay grows exponentially with the run of failures up to its maximum,
\* and a success starts it over (_record_failure and the resets of
\* ensure_connected and execute, modbus_connection.py:112-119, 146-151, 190-197).
THEOREM Exponential == Spec => []BackoffIsExponential
<1>1. BackoffBase = Smaller(BackoffBase * 2^0, BackoffMax)
  <2>1. BackoffBase * 1 = BackoffBase
    OBVIOUS
  <2> QED
    BY <2>1, PowersOfTwo DEF Smaller
<1>2. Init => BackoffIsExponential
  BY <1>1 DEF Init, BackoffIsExponential
<1>3. TypeOK /\ BackoffIsExponential /\ [Next]_vars => BackoffIsExponential'
  <2> SUFFICES ASSUME TypeOK, BackoffIsExponential, [Next]_vars
               PROVE  BackoffIsExponential'
    OBVIOUS
  <2>1. CASE StartConnect
    BY <2>1 DEF BackoffIsExponential, StartConnect, backoffVars
  <2>2. CASE ConnectFails
    BY <2>2, FailureDoubles, Arithmetic DEF TypeOK, ConnectFails
  <2>3. CASE ConnectSucceeds
    BY <1>1, <2>3 DEF BackoffIsExponential, RecordSuccess, ConnectSucceeds
  <2>4. CASE ReuseConnection
    BY <2>4 DEF BackoffIsExponential, ReuseConnection, backoffVars
  <2>5. CASE CallbackReturns
    BY <1>1, <2>5 DEF BackoffIsExponential, RecordSuccess, CallbackReturns
  <2>6. CASE CallbackRaises
    BY <2>6, FailureDoubles DEF CallbackRaises
  <2>7. CASE Shutdown
    BY <2>7 DEF BackoffIsExponential, Shutdown, backoffVars
  <2>8. CASE Tick
    BY <2>8 DEF BackoffIsExponential, Tick
  <2>9. CASE HealthChanges
    BY <2>9 DEF BackoffIsExponential, HealthChanges, backoffVars
  <2>10. CASE UNCHANGED vars
    BY <2>10 DEF BackoffIsExponential, vars, backoffVars
  <2> QED
    BY <2>1, <2>2, <2>3, <2>4, <2>5, <2>6, <2>7, <2>8, <2>9, <2>10 DEF Next
<1> QED
  BY <1>2, <1>3, TypeCorrect, PTL DEF Spec

\* Before the first attempt nothing has happened yet; after it, and until the
\* shutdown, the manager has either connected once or just failed.
FirstAttemptInv ==
  /\ connect_count = 0 => /\ state = "DISCONNECTED"
                          /\ ~has_connected
  /\ connect_count > 0 /\ phase # "stopped" =>
       has_connected \/ state \in {"CONNECTING", "BACKOFF"}

\* The published counters agree: every attempt after the first is a reconnect
\* and every failure used up an attempt (modbus_connection.py:94-98, 134-138, 194).
THEOREM Counted == Spec => []CountersAgree
<1> DEFINE Inv == CountersAgree /\ FirstAttemptInv
<1>1. Init => Inv
  BY DEF Init, CountersAgree, FirstAttemptInv, Underway, Larger
<1>2. TypeOK /\ StateConsistent /\ Inv /\ [Next]_vars => Inv'
  <2> SUFFICES ASSUME TypeOK, StateConsistent, Inv, [Next]_vars PROVE Inv'
    OBVIOUS
  <2> USE DEF CountersAgree, FirstAttemptInv, Underway
  <2>1. CASE StartConnect
    BY <2>1
    DEF TypeOK, StateConsistent, MayConnect, IsReconnect, Larger, Smaller,
        Count, StartConnect, backoffVars
  <2>2. CASE ConnectFails
    BY <2>2
    DEF TypeOK, StateConsistent, RecordFailure, Larger, Smaller, Count,
        ConnectFails, counterVars
  <2>3. CASE ConnectSucceeds
    BY <2>3
    DEF TypeOK, StateConsistent, RecordSuccess, ConnectSucceeds, counterVars
  <2>4. CASE ReuseConnection
    BY <2>4 DEF ReuseConnection, backoffVars, counterVars
  <2>5. CASE CallbackReturns
    BY <2>5
    DEF TypeOK, StateConsistent, RecordSuccess, CallbackReturns, counterVars
  <2>6. CASE CallbackRaises
    BY <2>6
    DEF TypeOK, StateConsistent, RecordFailure, Larger, Smaller, Count,
        CallbackRaises
  <2>7. CASE Shutdown
    BY <2>7 DEF TypeOK, StateConsistent, Shutdown, backoffVars, counterVars
  <2>8. CASE Tick
    BY <2>8 DEF Tick, counterVars
  <2>9. CASE HealthChanges
    BY <2>9 DEF HealthChanges, backoffVars, counterVars
  <2>10. CASE UNCHANGED vars
    BY <2>10 DEF vars, backoffVars, counterVars
  <2> QED
    BY <2>1, <2>2, <2>3, <2>4, <2>5, <2>6, <2>7, <2>8, <2>9, <2>10 DEF Next
<1> QED
  BY <1>1, <1>2, TypeCorrect, Consistent, PTL DEF Spec

\* The breaker's state, one implication for each phase.
LEMMA AccessByPhase ==
  ASSUME TypeOK
  PROVE  /\ phase = "stopped" => access = "halted"
         /\ phase = "connect" => access = "trial"
         /\ phase = "callback" => access = "busy"
         /\ phase = "idle" /\ state # "BACKOFF" => access = "free"
         /\ phase = "idle" /\ state = "BACKOFF" =>
              access = IF backoff_left = 0 THEN "cooled" ELSE "cooling"
  BY DEF TypeOK, Phases, access

\* The manager implements the circuit breaker: the bus is never touched while
\* it is cooling (ensure_connected and execute, modbus_connection.py:81-152).
THEOREM BreakerImplemented == Spec => ImplementsBreaker
<1>1. TypeOK /\ Init => Breaker!Init
  BY AccessByPhase DEF Init, Breaker!Init
<1>2. TypeOK /\ TypeOK' /\ StateConsistent /\ [Next]_vars
        => [Breaker!Next]_access
  <2> SUFFICES ASSUME TypeOK, TypeOK', StateConsistent, [Next]_vars
               PROVE  Breaker!Next \/ access' = access
    OBVIOUS
  <2>0. /\ phase' = "stopped" => access' = "halted"
        /\ phase' = "connect" => access' = "trial"
        /\ phase' = "callback" => access' = "busy"
        /\ phase' = "idle" /\ state' # "BACKOFF" => access' = "free"
        /\ phase' = "idle" /\ state' = "BACKOFF" =>
             access' = IF backoff_left' = 0 THEN "cooled" ELSE "cooling"
    BY DEF TypeOK, Phases, access
  <2> USE <2>0, AccessByPhase DEF Breaker!Next
  <2>1. CASE StartConnect
    BY <2>1 DEF StartConnect, MayConnect, Breaker!Try
  <2>2. CASE ConnectFails
    BY <2>2 DEF ConnectFails, RecordFailure, Breaker!Broke
  <2>3. CASE ConnectSucceeds
    BY <2>3 DEF ConnectSucceeds, Breaker!Connected
  <2>4. CASE ReuseConnection
    BY <2>4 DEF ReuseConnection, Breaker!Reuse
  <2>5. CASE CallbackReturns
    BY <2>5 DEF CallbackReturns, RecordSuccess, Breaker!Served
  <2>6. CASE CallbackRaises
    BY <2>6 DEF CallbackRaises, RecordFailure, Breaker!Broke
  <2>7. CASE Shutdown
    <3>1. access # "halted" /\ access' = "halted"
      BY <2>7 DEF Shutdown, TypeOK, Phases
    <3> QED
      BY <3>1 DEF Breaker!Halt
  <2>8. CASE Tick
    <3>1. CASE phase = "idle" /\ state = "BACKOFF"
      BY <2>8, <3>1 DEF Tick, TypeOK, StateConsistent, Larger, Breaker!Cool
    <3>2. CASE ~(phase = "idle" /\ state = "BACKOFF")
      BY <2>8, <3>2 DEF Tick, TypeOK, Phases
    <3> QED
      BY <3>1, <3>2
  <2>9. CASE HealthChanges
    BY <2>9 DEF HealthChanges, backoffVars, TypeOK, Phases
  <2>10. CASE UNCHANGED vars
    BY <2>10 DEF vars, backoffVars, TypeOK, Phases
  <2> QED
    BY <2>1, <2>2, <2>3, <2>4, <2>5, <2>6, <2>7, <2>8, <2>9, <2>10 DEF Next
<1> QED
  BY <1>1, <1>2, TypeCorrect, Consistent, PTL
  DEF Spec, ImplementsBreaker, Breaker!Spec
=============================================================================
