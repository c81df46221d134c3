------------------------- MODULE CommandDispatch_proofs -------------------------
(***************************************************************************)
(* For all requests, devices and sizes of the cache: the client is told    *)
(* the truth, commands are validated whole and written at most once late,  *)
(* and no request is repeated while its result is remembered.              *)
(***************************************************************************)
EXTENDS CommandDispatch, FiniteSetTheorems, TLAPS

-----------------------------------------------------------------------------
(* Natural numbers: the least of a set, induction and recursion. *)

LEMMA LeastNumber ==
  ASSUME NEW T \in SUBSET Nat, T # {}
  PROVE  \E n \in T : \A m \in T : n <= m
<1> DEFINE U == {1..n : n \in T}
<1>1. U \subseteq FiniteSubsetsOf(Nat)
  <2>1. \A n \in Nat : IsFiniteSet(1..n) /\ 1..n \in SUBSET Nat
    BY FS_Interval
  <2> QED
    BY <2>1 DEF FiniteSubsetsOf
<1>2. PICK x \in U : \A y \in U : <<y, x>> \notin StrictSubsetOrdering(Nat)
  <2>1. U # {}
    OBVIOUS
  <2> HIDE DEF U
  <2> QED
    BY <1>1, <2>1, FS_StrictSubsetOrderingWellFounded, WFMin
<1>3. PICK n \in T : x = 1..n
  BY <1>2
<1>4. ASSUME NEW m \in T, m < n PROVE FALSE
  <2>1. 1..m \in U /\ 1..m \in SUBSET Nat /\ 1..n \in SUBSET Nat
    OBVIOUS
  <2>2. n \in 1..n /\ n \notin 1..m /\ 1..m \subseteq 1..n
    BY <1>4
  <2> QED
    BY <1>2, <1>3, <2>1, <2>2 DEF StrictSubsetOrdering
<1> QED
  BY <1>3, <1>4

LEMMA Induction ==
  ASSUME NEW S, 0 \in S, \A n \in Nat : n \in S => n + 1 \in S
  PROVE  Nat \subseteq S
<1> DEFINE T == Nat \ S
<1> SUFFICES ASSUME T # {} PROVE FALSE
  OBVIOUS
<1>1. PICK n \in T : \A m \in T : n <= m
  BY LeastNumber
<1>2. n # 0 /\ n - 1 \in Nat
  OBVIOUS
<1>3. n - 1 \in S
  BY <1>1, <1>2
<1> QED
  BY <1>2, <1>3

\* A function defined by recursion over 0..N exists.
Recursive(f, N, base, step) ==
  f = [k \in 0..N |-> IF k = 0 THEN base ELSE step[k][f[k - 1]]]

LEMMA Recursion ==
  ASSUME NEW N \in Nat, NEW D, NEW base \in D, NEW step \in [1..N -> [D -> D]]
  PROVE  \E f \in [0..N -> D] : Recursive(f, N, base, step)
<1> DEFINE S == {n \in Nat : n <= N =>
                   \E f \in [0..n -> D] :
                     /\ f[0] = base
                     /\ \A k \in 1..n : f[k] = step[k][f[k - 1]]}
<1>1. 0 \in S
  <2>1. [k \in 0..0 |-> base] \in [0..0 -> D] /\ [k \in 0..0 |-> base][0] = base
    OBVIOUS
  <2>2. 1..0 = {}
    OBVIOUS
  <2> QED
    BY <2>1, <2>2
<1>2. ASSUME NEW n \in Nat, n \in S PROVE n + 1 \in S
  <2> SUFFICES ASSUME n + 1 <= N
               PROVE  \E g \in [0..(n + 1) -> D] :
                        /\ g[0] = base
                        /\ \A k \in 1..(n + 1) : g[k] = step[k][g[k - 1]]
    OBVIOUS
  <2>1. PICK f \in [0..n -> D] : /\ f[0] = base
                                 /\ \A k \in 1..n : f[k] = step[k][f[k - 1]]
    BY <1>2
  <2> DEFINE g == [k \in 0..(n + 1) |-> IF k <= n THEN f[k] ELSE step[n + 1][f[n]]]
  <2>2. step[n + 1] \in [D -> D]
    OBVIOUS
  <2>3. g \in [0..(n + 1) -> D]
    BY <2>2
  <2>4. g[0] = base
    BY <2>1
  <2>5. \A k \in 1..(n + 1) : g[k] = step[k][g[k - 1]]
    <3> TAKE k \in 1..(n + 1)
    <3>1. CASE k \in 1..n
      BY <2>1, <3>1
    <3>2. CASE k = n + 1
      BY <3>2
    <3> QED
      BY <3>1, <3>2
  <2> QED
    BY <2>3, <2>4, <2>5
<1>3. N \in S
  <2> HIDE DEF S
  <2> QED
    BY <1>1, <1>2, Induction
<1>4. PICK f \in [0..N -> D] : /\ f[0] = base
                               /\ \A k \in 1..N : f[k] = step[k][f[k - 1]]
  BY <1>3
<1>5. \A k \in 0..N : f[k] = IF k = 0 THEN base ELSE step[k][f[k - 1]]
  BY <1>4
<1> QED
  BY <1>5 DEF Recursive

-----------------------------------------------------------------------------
(* The least and the greatest of a set of positions. *)

LEMMA MinIs ==
  ASSUME NEW T \in SUBSET Nat, T # {}
  PROVE  Min(T) \in T /\ \A m \in T : Min(T) <= m
BY LeastNumber DEF Min

LEMMA MinUnique ==
  ASSUME NEW T \in SUBSET Nat, NEW n \in T, \A m \in T : n <= m
  PROVE  Min(T) = n
<1>1. Min(T) \in T /\ \A m \in T : Min(T) <= m
  BY MinIs
<1>2. Min(T) \in Nat /\ n \in Nat /\ Min(T) <= n /\ n <= Min(T)
  BY <1>1
<1> QED
  BY <1>2

LEMMA MaxIs ==
  ASSUME NEW N \in Nat, NEW T \in SUBSET (0..N), T # {}
  PROVE  Max(T) \in T /\ \A m \in T : Max(T) >= m
<1> DEFINE U == {N - m : m \in T}
<1>1. \A m \in T : m \in 0..N /\ N - m \in Nat
  OBVIOUS
<1>2. U \in SUBSET Nat /\ U # {}
  BY <1>1
<1>3. PICK u \in U : \A v \in U : u <= v
  <2> HIDE DEF U
  <2> QED
    BY <1>2, LeastNumber
<1>4. PICK n \in T : u = N - n
  BY <1>3
<1>5. \A m \in T : n >= m
  <2> TAKE m \in T
  <2>1. N - n <= N - m
    BY <1>3, <1>4
  <2> QED
    BY <1>1, <2>1
<1> QED
  BY <1>5 DEF Max

-----------------------------------------------------------------------------
(* Validation of a set command. *)

\* What name k does to the list u of writes.
Grown(names, u, k) ==
  IF /\ names[k] \in Valid
     /\ \A m \in Range(u) : {m, names[k]} \notin Conflicts
  THEN Append(u, names[k])
  ELSE u

LEMMA AcceptedRecursion ==
  ASSUME NEW S, NEW names \in Seq(S)
  PROVE  \E w \in [0..Len(names) -> Seq(S)] :
           /\ Accepted(names) = w[Len(names)]
           /\ w[0] = <<>>
           /\ \A k \in 1..Len(names) : w[k] = Grown(names, w[k - 1], k)
<1> DEFINE N == Len(names)
           step == [k \in 1..N |-> [u \in Seq(S) |-> Grown(names, u, k)]]
           Body(w) == [k \in 0..N |->
                         IF k = 0 THEN <<>> ELSE Grown(names, w[k - 1], k)]
<1>1. N \in Nat /\ (\A k \in 1..N : names[k] \in S) /\ <<>> \in Seq(S)
  OBVIOUS
<1>2. \A k \in 1..N : \A u \in Seq(S) : Grown(names, u, k) \in Seq(S)
  BY <1>1 DEF Grown
<1>3. \A k \in 0..N : k = 0 \/ (k \in 1..N /\ k - 1 \in 0..N /\ k # 0)
  BY <1>1
<1>4. 0 \in 0..N /\ \A k \in 1..N : k \in 0..N /\ k # 0 /\ k - 1 \in 0..N
  BY <1>1
<1>5. Accepted(names) = (CHOOSE w : w = Body(w))[N]
  BY DEF Accepted, Grown
<1> HIDE DEF N
<1>6. step \in [1..N -> [Seq(S) -> Seq(S)]]
  BY <1>2
<1>7. PICK f \in [0..N -> Seq(S)] : Recursive(f, N, <<>>, step)
  <2> HIDE DEF step
  <2> QED
    BY <1>1, <1>6, Recursion
<1>8. f = Body(f)
  <2>1. \A k \in 1..N : f[k] = step[k][f[k - 1]]
    <3> HIDE DEF step
    <3> QED
      BY <1>4, <1>7 DEF Recursive
  <2>2. \A k \in 1..N : f[k] = Grown(names, f[k - 1], k)
    BY <1>4, <2>1
  <2>3. f[0] = <<>>
    <3> HIDE DEF step
    <3> QED
      BY <1>4, <1>7 DEF Recursive
  <2> QED
    BY <1>3, <2>2, <2>3
<1>9. PICK w : w = CHOOSE h : h = Body(h)
  OBVIOUS
<1>10. w = Body(w)
  <2> HIDE DEF Body
  <2> QED
    BY <1>8, <1>9
<1>11. w[0] = <<>> /\ \A k \in 1..N : w[k] = Grown(names, w[k - 1], k)
  <2>1. \A k \in 0..N : w[k] = Body(w)[k]
    <3> HIDE DEF Body
    <3> QED
      BY <1>10
  <2> QED
    BY <1>4, <2>1
<1>12. DOMAIN w = 0..N /\ w = [k \in 0..N |-> w[k]]
  BY <1>10
<1>13. \A k \in 0..N : w[k] \in Seq(S)
  <2> DEFINE T == {k \in Nat : k \in 0..N => w[k] \in Seq(S)}
  <2>1. 0 \in T
    BY <1>1, <1>11
  <2>2. ASSUME NEW k \in Nat, k \in T PROVE k + 1 \in T
    <3> SUFFICES ASSUME k + 1 \in 0..N PROVE w[k + 1] \in Seq(S)
      OBVIOUS
    <3>1. k + 1 \in 1..N /\ (k + 1) - 1 = k /\ w[k] \in Seq(S)
      BY <1>1, <2>2
    <3>2. w[k + 1] = Grown(names, w[k], k + 1)
      BY <1>11, <3>1
    <3> QED
      BY <1>2, <3>1, <3>2
  <2> HIDE DEF T
  <2>3. Nat \subseteq T
    BY <2>1, <2>2, Induction
  <2> QED
    BY <1>1, <2>3 DEF T
<1> QED
  BY <1>5, <1>9, <1>11, <1>12, <1>13 DEF N

\* The list of writes has the names that are valid, each once if it is named
\* once, and no two that overlap.
LEMMA AcceptedFacts ==
  ASSUME NEW S, NEW names \in Seq(S), IsInjective(names),
         \A c \in Conflicts : \E m, n \in Known : m # n /\ c = {m, n}
  PROVE  LET writes == Accepted(names)
         IN /\ writes \in Seq(S) /\ IsInjective(writes)
            /\ Range(writes) \subseteq Range(names) \cap Valid
            /\ \A m, n \in Range(writes) : {m, n} \notin Conflicts
<1> DEFINE N == Len(names)
           Good(u, k) == /\ u \in Seq(S) /\ IsInjective(u)
                         /\ \A m \in Range(u) : m \in Valid /\ \E j \in 1..k : m = names[j]
                         /\ \A m, n \in Range(u) : {m, n} \notin Conflicts
<1>1. PICK w \in [0..N -> Seq(S)] :
           /\ Accepted(names) = w[N]
           /\ w[0] = <<>>
           /\ \A k \in 1..N : w[k] = Grown(names, w[k - 1], k)
  BY AcceptedRecursion
<1>2. N \in Nat /\ (\A k \in 1..N : names[k] \in S) /\ DOMAIN names = 1..N
  OBVIOUS
<1>3. Good(<<>>, 0)
  <2>1. <<>> \in Seq(S) /\ DOMAIN <<>> = {}
    OBVIOUS
  <2>2. Range(<<>>) = {}
    BY <2>1 DEF Range
  <2>3. IsInjective(<<>>)
    BY <2>1 DEF IsInjective
  <2> QED
    BY <2>1, <2>2, <2>3
<1>4. ASSUME NEW u, NEW k \in 1..N, Good(u, k - 1) PROVE Good(u, k)
  <2>1. \A j \in 1..(k - 1) : j \in 1..k
    BY <1>2
  <2> QED
    BY <1>4, <2>1
<1>5. ASSUME NEW u, NEW k \in 1..N, Good(u, k - 1), names[k] \in Valid,
             \A m \in Range(u) : {m, names[k]} \notin Conflicts
      PROVE  Good(Append(u, names[k]), k)
  <2> DEFINE v == Append(u, names[k])
  <2>1. /\ Len(u) \in Nat /\ DOMAIN u = 1..Len(u) /\ DOMAIN v = 1..(Len(u) + 1)
        /\ v[Len(u) + 1] = names[k] /\ (\A j \in 1..Len(u) : v[j] = u[j])
        /\ v \in Seq(S)
    BY <1>2, <1>5
  <2>2. Range(v) = Range(u) \cup {names[k]}
    <3>1. \A j \in DOMAIN v : j = Len(u) + 1 \/ j \in DOMAIN u
      BY <2>1
    <3>2. \A j \in DOMAIN u : j \in DOMAIN v
      BY <2>1
    <3>3. Len(u) + 1 \in DOMAIN v
      BY <2>1
    <3> HIDE DEF v
    <3>4. Range(v) \subseteq Range(u) \cup {names[k]}
      BY <2>1, <3>1 DEF Range
    <3>5. Range(u) \subseteq Range(v) /\ names[k] \in Range(v)
      BY <2>1, <3>2, <3>3 DEF Range
    <3> QED
      BY <3>4, <3>5
  <2>3. names[k] \notin Range(u)
    <3>1. \A j \in 1..(k - 1) : j # k /\ j \in 1..N /\ k \in 1..N
      BY <1>2
    <3>2. \A j \in 1..(k - 1) : names[j] # names[k]
      BY <1>2, <3>1 DEF IsInjective
    <3> QED
      BY <1>5, <3>2
  <2>4. IsInjective(v)
    <3> SUFFICES ASSUME NEW i \in DOMAIN v, NEW j \in DOMAIN v, v[i] = v[j]
                 PROVE  i = j
      BY DEF IsInjective
    <3>1. \A l \in 1..Len(u) : u[l] \in Range(u) /\ v[l] \in Range(u)
      BY <2>1 DEF Range
    <3>2. CASE i \in 1..Len(u) /\ j \in 1..Len(u)
      BY <1>5, <2>1, <3>2 DEF IsInjective
    <3> QED
      BY <2>1, <2>3, <3>1, <3>2
  <2>5. \A m, n \in Range(v) : {m, n} \notin Conflicts
    <3>1. \A m : {m, names[k]} = {names[k], m}
      OBVIOUS
    <3>2. {names[k], names[k]} \notin Conflicts
      OBVIOUS
    <3> HIDE DEF v
    <3> QED
      BY <1>5, <2>2, <3>1, <3>2
  <2>6. \A m \in Range(v) : m \in Valid /\ \E j \in 1..k : m = names[j]
    <3>1. k \in 1..k /\ \A j \in 1..(k - 1) : j \in 1..k
      BY <1>2
    <3> HIDE DEF v
    <3> QED
      BY <1>5, <2>2, <3>1
  <2> QED
    BY <2>1, <2>4, <2>5, <2>6
<1> HIDE DEF Good
<1>6. N \in {k \in Nat : k <= N => Good(w[k], k)}
  <2> DEFINE T == {k \in Nat : k <= N => Good(w[k], k)}
  <2>1. 0 \in T
    BY <1>1, <1>3
  <2>2. ASSUME NEW k \in Nat, k \in T PROVE k + 1 \in T
    <3> SUFFICES ASSUME k + 1 <= N PROVE Good(w[k + 1], k + 1)
      OBVIOUS
    <3>1. k + 1 \in 1..N /\ (k + 1) - 1 = k /\ Good(w[k], k)
      BY <1>2, <2>2
    <3>2. w[k + 1] = Grown(names, w[k], k + 1)
      BY <1>1, <3>1
    <3>3. /\ Good(w[k], k + 1)
          /\ /\ names[k + 1] \in Valid
             /\ \A m \in Range(w[k]) : {m, names[k + 1]} \notin Conflicts
             => Good(Append(w[k], names[k + 1]), k + 1)
      BY <1>4, <1>5, <3>1
    <3> QED
      BY <3>2, <3>3 DEF Grown
  <2> HIDE DEF T
  <2>3. Nat \subseteq T
    BY <2>1, <2>2, Induction
  <2> QED
    BY <1>2, <2>3 DEF T
<1>7. Good(w[N], N)
  BY <1>2, <1>6
<1>8. \A j \in 1..N : names[j] \in Range(names)
  BY <1>2 DEF Range
<1> QED
  BY <1>1, <1>7, <1>8 DEF Good

-----------------------------------------------------------------------------
(* What is true of a command at every point of its execution. *)

Writing == pc \in {"check", "write"}

\* The command whose references are being written was validated whole.
Validated ==
  /\ cmd \in Requests /\ cmd.op = "set" /\ ~read_only
  /\ Names(cmd) \cap Known \subseteq Valid
  /\ \A c \in Conflicts : ~(c \subseteq Names(cmd))

\* What the client would be told of each reference now.
Told ==
  /\ DOMAIN results = Names(cmd)
  /\ \A n \in Names(cmd) :
       /\ results[n] \in {"rejected", "not_attempted"} => n \notin issued
       /\ results[n] = "confirmed" => n \in applied
       /\ n \in applied => results[n] \in {"confirmed", "unknown"}

FlagType ==
  /\ read_only \in BOOLEAN /\ expired \in BOOLEAN /\ stopping \in BOOLEAN
  /\ pc \in {"idle", "execute", "read", "check", "write", "respond"}
  /\ cmd \in Requests \cup {NONE} /\ (pc = "idle" <=> cmd = NONE)
  /\ pc = "read" => cmd.op = "get"
  /\ open = IF Writing \/ pc = "read" THEN 1 ELSE 0

IssuedInv ==
  /\ applied \subseteq issued /\ issued \subseteq Valid
  /\ pc \in {"idle", "execute", "read"} => issued = {}
  /\ issued # {} \/ Writing => Validated

TodoInv ==
  /\ todo \in Seq(Valid) /\ IsInjective(todo)
  /\ Writing => \A n \in Range(todo) :
                  n \in Names(cmd) /\ n \notin issued /\ results[n] = "not_attempted"
  /\ pc = "write" => todo # <<>>

ResultsInv ==
  /\ \A n \in DOMAIN results : results[n] \in Outcomes
  /\ Writing \/ (pc = "respond" /\ cmd.op = "set") => Told

\* A write was late only if the check after it ends the command.
LateInv ==
  /\ late \in 0..1
  /\ pc \in {"idle", "execute", "read", "write"} => late = 0
  /\ pc = "check" /\ late = 1 => MustStop

CommandInv == FlagType /\ IssuedInv /\ TodoInv /\ ResultsInv /\ LateInv

LEMMA CommandInit == Init => CommandInv
<1> SUFFICES ASSUME Init PROVE CommandInv
  OBVIOUS
<1>1. <<>> \in Seq(Valid) /\ DOMAIN <<>> = {}
  OBVIOUS
<1>2. IsInjective(<<>>)
  BY <1>1 DEF IsInjective
<1>3. IssuedInv /\ LateInv
  BY DEF Init, Writing, IssuedInv, LateInv
<1>4. FlagType
  BY DEF Init, FlagType, Writing
<1>5. TodoInv
  BY <1>1, <1>2 DEF Init, TodoInv, Writing
<1>6. ResultsInv
  BY <1>1 DEF Init, ResultsInv, Writing
<1> QED
  BY <1>3, <1>5, <1>6, <1>4 DEF CommandInv

\* The rest of a list without repetition.
LEMMA TailFacts ==
  ASSUME NEW S, NEW s \in Seq(S), s # <<>>, IsInjective(s)
  PROVE  /\ Tail(s) \in Seq(S) /\ IsInjective(Tail(s))
         /\ Head(s) \in Range(s) /\ Head(s) \notin Range(Tail(s))
         /\ Range(Tail(s)) \subseteq Range(s) /\ Head(s) \in S
<1>1. Len(s) \in Nat \ {0} /\ DOMAIN s = 1..Len(s) /\ Head(s) = s[1]
  OBVIOUS
<1>2. /\ Tail(s) \in Seq(S) /\ DOMAIN Tail(s) = 1..(Len(s) - 1)
      /\ \A i \in 1..(Len(s) - 1) : Tail(s)[i] = s[i + 1]
  OBVIOUS
<1>3. \A i \in 1..(Len(s) - 1) : i + 1 \in DOMAIN s /\ i + 1 # 1
  BY <1>1
<1>4. 1 \in DOMAIN s
  BY <1>1
<1>5. Head(s) \notin Range(Tail(s)) /\ Range(Tail(s)) \subseteq Range(s)
  BY <1>1, <1>2, <1>3, <1>4 DEF IsInjective, Range
<1>6. IsInjective(Tail(s))
  <2> SUFFICES ASSUME NEW i \in 1..(Len(s) - 1), NEW j \in 1..(Len(s) - 1),
                      Tail(s)[i] = Tail(s)[j]
               PROVE  i = j
    BY <1>2 DEF IsInjective
  <2>1. s[i + 1] = s[j + 1]
    BY <1>2
  <2>2. i + 1 = j + 1
    BY <1>3, <2>1 DEF IsInjective
  <2> QED
    BY <1>1, <2>2
<1> QED
  BY <1>1, <1>2, <1>4, <1>5, <1>6 DEF Range

\* Steps that leave the command alone.
LEMMA CommandUnchanged ==
  ASSUME CommandInv,
         UNCHANGED <<read_only, pc, cmd, expired, stopping, busVars>>
  PROVE  CommandInv'
BY DEF CommandInv, FlagType, Writing, IssuedInv, Validated, Names, TodoInv,
       ResultsInv, Told, LateInv, MustStop, Versioned, busVars

\* Time passes, the operator stops the gateway.
LEMMA CommandOverdue ==
  ASSUME CommandInv, CommandExpires \/ Stop
  PROVE  CommandInv'
<1>1. UNCHANGED <<read_only, pc, cmd, busVars>>
  BY DEF CommandExpires, Stop
<1>2. expired' \in BOOLEAN /\ stopping' \in BOOLEAN
  BY DEF CommandExpires, Stop, CommandInv, FlagType
<1>3. (expired => expired') /\ (stopping => stopping')
  BY DEF CommandExpires, Stop
<1>4. MustStop => MustStop'
  BY <1>1, <1>3 DEF MustStop, Versioned
<1>5. LateInv'
  BY <1>1, <1>4 DEF busVars, CommandInv, LateInv
<1>6. FlagType' /\ IssuedInv'
  BY <1>1, <1>2 DEF busVars, CommandInv, FlagType, Writing, IssuedInv, Validated, Names
<1>7. TodoInv' /\ ResultsInv'
  BY <1>1 DEF busVars, CommandInv, Writing, TodoInv, ResultsInv, Told, Names
<1> QED
  BY <1>5, <1>6, <1>7 DEF CommandInv

LEMMA CommandAccepted ==
  ASSUME CommandInv, NEW r \in Requests, Accept(r)
  PROVE  CommandInv'
<1>1. r # NONE
  BY RequestAssumption
<1> QED
  BY <1>1 DEF CommandInv, FlagType, Writing, IssuedInv, Validated, Names, TodoInv,
              ResultsInv, Told, LateInv, MustStop, Versioned, Accept

\* A get is counted and begins.
LEMMA CommandReads ==
  ASSUME CommandInv, BeginGet
  PROVE  CommandInv'
<1> USE DEF CommandInv, FlagType, Writing
<1>1. /\ pc = "execute" /\ pc' = "read" /\ cmd.op = "get" /\ open' = open + 1
      /\ UNCHANGED <<read_only, cmd, expired, stopping, results, todo, issued,
                     applied, late>>
  BY DEF BeginGet
<1>2. FlagType' /\ LateInv'
  BY <1>1 DEF LateInv
<1>3. IssuedInv' /\ TodoInv' /\ ResultsInv'
  BY <1>1 DEF IssuedInv, Validated, Names, TodoInv, ResultsInv
<1> QED
  BY <1>2, <1>3

\* Answered without a write.
LEMMA CommandNotWritten ==
  ASSUME CommandInv, Refuse \/ Unavailable \/ GetReturns \/ GetRaises
  PROVE  CommandInv'
<1> USE DEF CommandInv, FlagType, Writing
<1>1. pc \in {"execute", "read"} /\ pc' = "respond" /\ issued = {} /\ applied = {}
  BY DEF Refuse, Unavailable, GetReturns, GetRaises, Respond, IssuedInv
<1>2. UNCHANGED <<read_only, cmd, expired, stopping, todo, issued, applied, late>>
  BY DEF Refuse, Unavailable, GetReturns, GetRaises
<1>3. open' = 0 /\ late = 0
  BY DEF Refuse, Unavailable, GetReturns, GetRaises, CountFailure, LateInv
<1>4. FlagType' /\ IssuedInv' /\ TodoInv' /\ LateInv'
  BY <1>1, <1>2, <1>3 DEF IssuedInv, Validated, TodoInv, LateInv
<1>5. \A n \in DOMAIN results' : results'[n] \in Outcomes
  BY DEF Refuse, Unavailable, GetReturns, GetRaises, All, Outcomes
<1>6. cmd.op = "set" => /\ DOMAIN results' = Names(cmd)
                        /\ \A n \in Names(cmd) : results'[n] # "confirmed"
  BY DEF Refuse, Unavailable, GetReturns, GetRaises, All
<1>7. ResultsInv'
  BY <1>1, <1>2, <1>5, <1>6 DEF ResultsInv, Told, Names
<1> QED
  BY <1>4, <1>7

LEMMA CommandBegins ==
  ASSUME CommandInv, BeginWrites
  PROVE  CommandInv'
<1> DEFINE known == Names(cmd) \cap Known
           writes == Accepted(cmd.names)
           accepted == Range(writes)
<1>1. /\ pc = "execute" /\ cmd \in Requests /\ issued = {} /\ applied = {}
      /\ late = 0 /\ open = 0 /\ cmd.op = "set" /\ ~read_only
  BY DEF BeginWrites, Refusable, CommandInv, FlagType, IssuedInv, LateInv, Writing
<1>2. /\ writes \in Seq(Range(cmd.names)) /\ IsInjective(writes)
      /\ accepted \subseteq Names(cmd) \cap Valid
      /\ \A m, n \in accepted : {m, n} \notin Conflicts
  BY <1>1, RequestAssumption, AcceptedFacts DEF Names
<1>3. results' = [n \in Names(cmd) |->
                    IF n \in accepted THEN "not_attempted" ELSE "rejected"]
  BY DEF BeginWrites
<1>4. \/ /\ known \subseteq accepted
         /\ todo' = writes /\ open' = open + 1 /\ pc' = "check"
      \/ UNCHANGED <<todo, open>> /\ pc' = "respond"
  BY DEF BeginWrites, Respond
<1>5. UNCHANGED <<read_only, cmd, expired, stopping, issued, applied, late>>
  BY DEF BeginWrites
<1> HIDE DEF writes
<1>6. writes \in Seq(Valid)
  <2>1. Len(writes) \in Nat /\ DOMAIN writes = 1..Len(writes)
        /\ writes = [i \in 1..Len(writes) |-> writes[i]]
    BY <1>2
  <2>2. \A i \in 1..Len(writes) : writes[i] \in Valid
    BY <1>2, <2>1 DEF Range
  <2> QED
    BY <2>1, <2>2
<1>7. FlagType' /\ LateInv'
  BY <1>1, <1>4, <1>5 DEF CommandInv, FlagType, Writing, LateInv
<1>8. known \subseteq accepted => \A c \in Conflicts : ~(c \subseteq Names(cmd))
  <2> SUFFICES ASSUME known \subseteq accepted, NEW c \in Conflicts, c \subseteq Names(cmd)
               PROVE  FALSE
    OBVIOUS
  <2>1. PICK m, n \in Known : c = {m, n}
    BY RequestAssumption
  <2>2. m \in accepted /\ n \in accepted
    BY <2>1
  <2> QED
    BY <1>2, <2>1, <2>2
<1>9. IssuedInv'
  BY <1>1, <1>2, <1>4, <1>5, <1>8 DEF CommandInv, IssuedInv, Writing, Validated, Names
<1>10. TodoInv'
  BY <1>1, <1>2, <1>3, <1>4, <1>5, <1>6 DEF CommandInv, TodoInv, Writing, Names
<1>11. ResultsInv'
  BY <1>1, <1>3, <1>5 DEF ResultsInv, Told, Outcomes, Names
<1> QED
  BY <1>7, <1>9, <1>10, <1>11 DEF CommandInv

LEMMA CommandChecked ==
  ASSUME CommandInv, CheckWrite \/ FinishWrites
  PROVE  CommandInv'
<1>1. <<>> \in Seq(Valid) /\ IsInjective(<<>>) /\ Range(<<>>) = {}
  BY DEF IsInjective, Range
<1>2. CASE CheckWrite
  BY <1>2 DEF CheckWrite, CommandInv, FlagType, Writing, IssuedInv, Validated, Names,
     TodoInv, ResultsInv, Told, LateInv, MustStop, Versioned, busVars
<1>3. CASE FinishWrites
  BY <1>1, <1>3 DEF FinishWrites, Respond, CommandInv, FlagType, Writing, IssuedInv,
     Validated, Names, TodoInv, ResultsInv, Told, LateInv, MustStop, Versioned
<1> QED
  BY <1>2, <1>3

\* The outcome of the write that was checked last.
LEMMA CommandWrites ==
  ASSUME CommandInv, WriteAnswered \/ WriteRaises
  PROVE  CommandInv'
<1> DEFINE n == Head(todo)
<1>1. /\ pc = "write" /\ Writing /\ todo \in Seq(Valid) /\ todo # <<>>
      /\ IsInjective(todo) /\ Validated /\ Told /\ late = 0 /\ open = 1
      /\ cmd # NONE
  BY RequestAssumption DEF WriteAnswered, WriteRaises, CommandInv, FlagType, IssuedInv,
     TodoInv, ResultsInv, LateInv, Writing, Validated
<1>2. /\ Tail(todo) \in Seq(Valid) /\ IsInjective(Tail(todo))
      /\ n \in Range(todo) /\ n \notin Range(Tail(todo))
      /\ Range(Tail(todo)) \subseteq Range(todo) /\ n \in Valid
  BY <1>1, TailFacts
<1>3. /\ n \in Names(cmd) /\ n \notin issued /\ n \in DOMAIN results
      /\ \A m \in Range(todo) : m \in Names(cmd) /\ m \notin issued
                                /\ results[m] = "not_attempted"
  BY <1>1, <1>2 DEF CommandInv, TodoInv, Told
<1>4. UNCHANGED <<read_only, cmd, expired, stopping>>
  BY DEF WriteAnswered, WriteRaises
<1>5. /\ \/ todo' = Tail(todo) /\ pc' = "check" /\ open' = open
         \/ todo' = <<>> /\ pc' = "respond" /\ open' = open - 1
  BY DEF WriteAnswered, WriteRaises, Respond, CountFailure
<1>6. PICK outcome \in {"confirmed", "failed", "unknown"} :
        /\ results' = [results EXCEPT ![n] = outcome]
        /\ \/ issued' = issued \cup {n} /\ late' \in 0..1 /\ (late' = 1 => MustStop)
           \/ issued' = issued /\ late' = late
        /\ applied \subseteq applied' /\ applied' \subseteq applied \cup (issued' \cap {n})
        /\ outcome = "confirmed" => n \in applied'
        /\ n \in applied' => outcome \in {"confirmed", "unknown"}
  <2>1. n \notin applied
    BY <1>3 DEF CommandInv, IssuedInv
  <2>2. CASE WriteAnswered
    <3>1. PICK outcome \in {"confirmed", "failed"} :
            /\ results' = [results EXCEPT ![n] = outcome]
            /\ Issue(n) \/ UNCHANGED <<issued, late>>
            /\ \/ outcome = "confirmed" /\ Issue(n) /\ applied' = applied \cup {n}
               \/ outcome = "failed" /\ applied' = applied
      BY <2>2 DEF WriteAnswered, Written
    <3> HIDE DEF n
    <3>2. \/ issued' = issued \cup {n} /\ late' \in 0..1 /\ (late' = 1 => MustStop)
          \/ issued' = issued /\ late' = late
      BY <1>1, <3>1 DEF Issue, MustStop
    <3>3. /\ applied \subseteq applied'
          /\ outcome = "confirmed" => n \in applied'
          /\ n \in applied' => outcome = "confirmed"
      BY <2>1, <3>1
    <3>4. applied' \subseteq applied \cup (issued' \cap {n})
      BY <3>1 DEF Issue
    <3> QED
      BY <3>1, <3>2, <3>3, <3>4
  <2>3. CASE WriteRaises
    <3>1. /\ results' = [results EXCEPT ![n] = "unknown"]
          /\ \/ Issue(n) /\ applied' \in {applied, applied \cup {n}}
             \/ UNCHANGED <<issued, late, applied>>
      BY <2>3 DEF WriteRaises, Written, TransportFailure
    <3> HIDE DEF n
    <3>2. \/ issued' = issued \cup {n} /\ late' \in 0..1 /\ (late' = 1 => MustStop)
          \/ issued' = issued /\ late' = late
      BY <1>1, <3>1 DEF Issue, MustStop
    <3>3. /\ applied \subseteq applied'
          /\ applied' \subseteq applied \cup (issued' \cap {n})
      BY <3>1 DEF Issue
    <3> QED
      BY <3>1, <3>2, <3>3
  <2> QED
    BY <2>2, <2>3
<1>7. <<>> \in Seq(Valid) /\ IsInjective(<<>>) /\ Range(<<>>) = {}
  BY DEF IsInjective, Range
<1>8. FlagType'
  BY <1>1, <1>4, <1>5 DEF CommandInv, FlagType, Writing
<1>9. Validated'
  BY <1>1, <1>4 DEF Validated, Names
<1>10. IssuedInv'
  BY <1>1, <1>2, <1>5, <1>6, <1>9 DEF CommandInv, IssuedInv
<1>11. TodoInv'
  BY <1>1, <1>2, <1>3, <1>4, <1>5, <1>6, <1>7 DEF CommandInv, TodoInv, Writing, Told, Names
<1>12. Told'
  <2> HIDE DEF n
  <2> QED
    BY <1>1, <1>3, <1>4, <1>6 DEF Told, Names, CommandInv, IssuedInv
<1>13. ResultsInv'
  BY <1>1, <1>6, <1>12 DEF CommandInv, ResultsInv, Outcomes
<1>14. LateInv'
  BY <1>1, <1>4, <1>5, <1>6 DEF CommandInv, LateInv, MustStop, Versioned
<1> QED
  BY <1>8, <1>10, <1>11, <1>13, <1>14 DEF CommandInv

LEMMA CommandAnswered ==
  ASSUME CommandInv, Answer
  PROVE  CommandInv'
<1>1. DOMAIN <<>> = {}
  OBVIOUS
<1>2. IssuedInv' /\ LateInv'
  BY DEF Answer, Writing, IssuedInv, LateInv
<1>3. FlagType'
  BY DEF Answer, CommandInv, FlagType, Writing
<1>4. TodoInv'
  BY DEF Answer, CommandInv, TodoInv, Writing
<1>5. ResultsInv'
  BY <1>1 DEF Answer, ResultsInv, Writing
<1> QED
  BY <1>2, <1>4, <1>5, <1>3 DEF CommandInv

LEMMA CommandStep == CommandInv /\ [Next]_vars => CommandInv'
<1> SUFFICES ASSUME CommandInv, [Next]_vars PROVE CommandInv'
  OBVIOUS
<1>1. ASSUME NEW r \in Requests, AnswerKnown(r) \/ RejectExpired(r) PROVE CommandInv'
  BY <1>1, CommandUnchanged DEF AnswerKnown, RejectExpired
<1>2. CASE Tick \/ UNCHANGED vars
  BY <1>2, CommandUnchanged DEF Tick, vars
<1> QED
  BY <1>1, <1>2, CommandOverdue, CommandAccepted, CommandReads, CommandNotWritten,
     CommandBegins, CommandChecked, CommandWrites, CommandAnswered DEF Next

LEMMA CommandFacts == CommandInv => ResultsAreTruthful /\ AllOrNothing /\ LateWritesBounded
BY DEF CommandInv, FlagType, IssuedInv, ResultsInv, Told, Validated, LateInv,
       ResultsAreTruthful, AllOrNothing, LateWritesBounded

LEMMA CommandAlways == Spec => []CommandInv
BY CommandInit, CommandStep, PTL DEF Spec

\* What a client is told of each reference of its command agrees with what was
\* sent to the device and what took effect (results of write_references and
\* record_set_transport_failure).
THEOREM Truthful == Spec => []ResultsAreTruthful
BY CommandAlways, CommandFacts, PTL

\* No reference of a command is written before all are validated.
THEOREM ValidatedWhole == Spec => []AllOrNothing
BY CommandAlways, CommandFacts, PTL

\* After expiry or shutdown at most the write already checked is sent.
THEOREM OneLateWrite == Spec => []LateWritesBounded
BY CommandAlways, CommandFacts, PTL

-----------------------------------------------------------------------------
(* Sequences without their first elements. *)

LEMMA SequencesEqual ==
  ASSUME NEW S, NEW s \in Seq(S), NEW t \in Seq(S), Len(s) = Len(t),
         \A i \in 1..Len(s) : s[i] = t[i]
  PROVE  s = t
<1>1. s = [i \in 1..Len(s) |-> s[i]] /\ t = [i \in 1..Len(t) |-> t[i]]
  OBVIOUS
<1> QED
  BY <1>1

LEMMA FromFacts ==
  ASSUME NEW S, NEW s \in Seq(S), NEW n \in 0..Len(s)
  PROVE  /\ From(s, n) \in Seq(S) /\ Len(From(s, n)) = Len(s) - n
         /\ Len(s) \in Nat /\ DOMAIN s = 1..Len(s)
         /\ DOMAIN From(s, n) = 1..(Len(s) - n)
         /\ \A i \in 1..(Len(s) - n) : From(s, n)[i] = s[n + i] /\ n + i \in 1..Len(s)
<1>1. Len(s) \in Nat /\ DOMAIN s = 1..Len(s) /\ \A i \in 1..Len(s) : s[i] \in S
  OBVIOUS
<1>2. \A i \in 1..(Len(s) - n) : n + i \in 1..Len(s)
  BY <1>1
<1>3. From(s, n) = [i \in 1..(Len(s) - n) |-> s[n + i]]
  BY <1>1, <1>2 DEF From
<1>4. Len(s) - n \in Nat
  BY <1>1
<1> QED
  BY <1>1, <1>2, <1>3, <1>4

LEMMA FromFrom ==
  ASSUME NEW S, NEW s \in Seq(S), NEW m \in 0..Len(s), NEW n \in 0..(Len(s) - m)
  PROVE  From(From(s, m), n) = From(s, m + n) /\ m + n \in 0..Len(s)
<1>1. Len(s) \in Nat /\ m + n \in 0..Len(s)
  OBVIOUS
<1> DEFINE a == From(From(s, m), n)
           b == From(s, m + n)
<1>2. From(s, m) \in Seq(S) /\ Len(From(s, m)) = Len(s) - m
      /\ \A i \in 1..(Len(s) - m) : From(s, m)[i] = s[m + i]
  BY FromFacts
<1>3. /\ a \in Seq(S) /\ Len(a) = (Len(s) - m) - n
      /\ \A i \in 1..((Len(s) - m) - n) :
           a[i] = From(s, m)[n + i] /\ n + i \in 1..(Len(s) - m)
  <2> DEFINE t == From(s, m)
  <2>1. t \in Seq(S) /\ Len(t) = Len(s) - m /\ n \in 0..Len(t)
    BY <1>2
  <2> HIDE DEF t
  <2>2. /\ From(t, n) \in Seq(S) /\ Len(From(t, n)) = Len(t) - n
        /\ \A i \in 1..(Len(t) - n) : From(t, n)[i] = t[n + i] /\ n + i \in 1..Len(t)
    BY <2>1, FromFacts
  <2> QED
    BY <2>1, <2>2 DEF t
<1>4. /\ b \in Seq(S) /\ Len(b) = Len(s) - (m + n)
      /\ \A i \in 1..(Len(s) - (m + n)) : b[i] = s[(m + n) + i]
  BY <1>1, FromFacts
<1> HIDE DEF a, b
<1>5. (Len(s) - m) - n = Len(s) - (m + n)
  BY <1>1
<1>6. \A i \in 1..Len(a) : a[i] = b[i]
  <2> TAKE i \in 1..Len(a)
  <2>1. a[i] = s[m + (n + i)] /\ b[i] = s[(m + n) + i]
    BY <1>2, <1>3, <1>4, <1>5
  <2>2. m + (n + i) = (m + n) + i
    BY <1>1, <1>3
  <2> QED
    BY <2>1, <2>2
<1>7. a = b
  BY <1>3, <1>4, <1>5, <1>6, SequencesEqual
<1> QED
  BY <1>1, <1>7 DEF a, b

LEMMA FromTail ==
  ASSUME NEW S, NEW s \in Seq(S)
  PROVE  /\ From(s, 0) = s /\ From(s, Len(s)) = <<>>
         /\ \A n \in 0..Len(s) : n < Len(s) =>
              /\ From(s, n) # <<>> /\ Head(From(s, n)) = s[n + 1]
              /\ Tail(From(s, n)) = From(s, n + 1)
<1>1. Len(s) \in Nat /\ 0 \in 0..Len(s) /\ Len(s) \in 0..Len(s)
  OBVIOUS
<1>2. From(s, 0) = s
  <2>1. From(s, 0) \in Seq(S) /\ Len(From(s, 0)) = Len(s)
        /\ \A i \in 1..Len(s) : From(s, 0)[i] = s[0 + i]
    BY <1>1, FromFacts
  <2> QED
    BY <2>1, SequencesEqual
<1>3. From(s, Len(s)) = <<>>
  BY <1>1, FromFacts
<1>4. ASSUME NEW n \in 0..Len(s), n < Len(s)
      PROVE  /\ From(s, n) # <<>> /\ Head(From(s, n)) = s[n + 1]
             /\ Tail(From(s, n)) = From(s, n + 1)
  <2> DEFINE a == From(s, n)
             b == From(s, n + 1)
  <2>1. /\ a \in Seq(S) /\ Len(a) = Len(s) - n
        /\ \A i \in 1..(Len(s) - n) : a[i] = s[n + i]
    BY FromFacts
  <2>2. n + 1 \in 0..Len(s) /\ 1 \in 1..(Len(s) - n)
    BY <1>1, <1>4
  <2>3. /\ b \in Seq(S) /\ Len(b) = Len(s) - (n + 1)
        /\ \A i \in 1..(Len(s) - (n + 1)) : b[i] = s[(n + 1) + i]
    BY <2>2, FromFacts
  <2> HIDE DEF a, b
  <2>4. a # <<>> /\ Head(a) = s[n + 1]
    BY <1>1, <1>4, <2>1, <2>2
  <2>5. /\ Tail(a) \in Seq(S) /\ Len(Tail(a)) = Len(s) - (n + 1)
        /\ \A i \in 1..(Len(s) - (n + 1)) : Tail(a)[i] = s[(n + 1) + i]
    <3>1. Tail(a) \in Seq(S) /\ Len(Tail(a)) = Len(a) - 1
          /\ \A i \in 1..(Len(a) - 1) : Tail(a)[i] = a[i + 1] /\ i + 1 \in 1..Len(a)
      BY <2>1, <2>4
    <3>2. Len(a) - 1 = Len(s) - (n + 1)
      BY <1>1, <2>1
    <3>3. \A i \in 1..(Len(s) - (n + 1)) : n + (i + 1) = (n + 1) + i
      BY <1>1
    <3> QED
      BY <2>1, <3>1, <3>2, <3>3
  <2>6. Tail(a) = b
    BY <2>3, <2>5, SequencesEqual
  <2> QED
    BY <2>4, <2>6 DEF a, b
<1> QED
  BY <1>2, <1>3, <1>4

LEMMA FromAppend ==
  ASSUME NEW S, NEW s \in Seq(S), NEW e \in S, NEW n \in 0..Len(s)
  PROVE  /\ From(Append(s, e), n) = Append(From(s, n), e)
         /\ Append(s, e) \in Seq(S) /\ Len(Append(s, e)) = Len(s) + 1
         /\ n \in 0..(Len(s) + 1)
<1>1. Len(s) \in Nat /\ Append(s, e) \in Seq(S) /\ Len(Append(s, e)) = Len(s) + 1
      /\ n \in 0..(Len(s) + 1)
  OBVIOUS
<1> DEFINE a == From(Append(s, e), n)
           b == From(s, n)
<1>2. /\ a \in Seq(S) /\ Len(a) = (Len(s) + 1) - n
      /\ \A i \in 1..((Len(s) + 1) - n) : a[i] = Append(s, e)[n + i]
  <2> DEFINE t == Append(s, e)
  <2>1. t \in Seq(S) /\ Len(t) = Len(s) + 1 /\ n \in 0..Len(t)
    BY <1>1
  <2> HIDE DEF t
  <2>2. /\ From(t, n) \in Seq(S) /\ Len(From(t, n)) = Len(t) - n
        /\ \A i \in 1..(Len(t) - n) : From(t, n)[i] = t[n + i]
    BY <2>1, FromFacts
  <2> QED
    BY <2>1, <2>2 DEF t
<1>3. /\ b \in Seq(S) /\ Len(b) = Len(s) - n
      /\ \A i \in 1..(Len(s) - n) : b[i] = s[n + i]
  BY FromFacts
<1> HIDE DEF a, b
<1>4. /\ Append(b, e) \in Seq(S) /\ Len(Append(b, e)) = Len(b) + 1
      /\ Append(b, e)[Len(b) + 1] = e
      /\ \A i \in 1..Len(b) : Append(b, e)[i] = b[i]
  BY <1>3
<1>5. \A i \in 1..Len(a) : a[i] = Append(b, e)[i]
  <2> TAKE i \in 1..Len(a)
  <2>1. CASE i \in 1..Len(b)
    <3>1. n + i \in 1..Len(s) /\ i \in 1..((Len(s) + 1) - n)
      BY <1>1, <1>3, <2>1
    <3>2. Append(s, e)[n + i] = s[n + i]
      BY <3>1
    <3> QED
      BY <1>2, <1>3, <1>4, <2>1, <3>1, <3>2
  <2>2. CASE i = Len(b) + 1
    <3>1. n + i = Len(s) + 1 /\ i \in 1..((Len(s) + 1) - n)
      BY <1>1, <1>3, <2>2
    <3> QED
      BY <1>2, <1>4, <2>2, <3>1
  <2> QED
    BY <1>1, <1>2, <1>3, <2>1, <2>2
<1>6. a = Append(b, e)
  <2>1. Len(a) = Len(Append(b, e))
    BY <1>1, <1>2, <1>3, <1>4
  <2> QED
    BY <1>2, <1>4, <1>5, <2>1, SequencesEqual
<1> QED
  BY <1>1, <1>6 DEF a, b

-----------------------------------------------------------------------------
(* The bytes of a sequence of entries. *)

Entries == [id : {r.id : r \in Requests}, bytes : Nat, age : 0..(Ttl + 1)]

LEMMA EntryFacts ==
  ASSUME NEW s \in Seq(Entries)
  PROVE  /\ Len(s) \in Nat /\ DOMAIN s = 1..Len(s)
         /\ \A k \in 1..Len(s) :
              /\ s[k] \in Entries /\ s[k].bytes \in Nat /\ s[k].age \in 0..(Ttl + 1)
<1>1. Len(s) \in Nat /\ DOMAIN s = 1..Len(s) /\ \A k \in 1..Len(s) : s[k] \in Entries
  OBVIOUS
<1>2. \A e \in Entries : e.bytes \in Nat /\ e.age \in 0..(Ttl + 1)
  BY DEF Entries
<1> QED
  BY <1>1, <1>2

LEMMA BytesRecursion ==
  ASSUME NEW s \in Seq(Entries)
  PROVE  \E u \in [0..Len(s) -> Nat] :
           /\ Bytes(s) = u[Len(s)]
           /\ u[0] = 0
           /\ \A k \in 1..Len(s) : u[k] = u[k - 1] + s[k].bytes
<1> DEFINE N == Len(s)
           step == [k \in 1..N |-> [n \in Nat |-> n + s[k].bytes]]
           Body(u) == [k \in 0..N |-> IF k = 0 THEN 0 ELSE u[k - 1] + s[k].bytes]
<1>1. N \in Nat /\ \A k \in 1..N : s[k].bytes \in Nat
  BY EntryFacts
<1>2. \A k \in 0..N : k = 0 \/ (k \in 1..N /\ k - 1 \in 0..N /\ k # 0)
  BY <1>1
<1>3. 0 \in 0..N /\ \A k \in 1..N : k \in 0..N /\ k # 0 /\ k - 1 \in 0..N
  BY <1>1
<1>4. Bytes(s) = (CHOOSE u : u = Body(u))[N]
  BY DEF Bytes
<1> HIDE DEF N
<1>5. step \in [1..N -> [Nat -> Nat]]
  BY <1>1
<1>6. PICK f \in [0..N -> Nat] : Recursive(f, N, 0, step)
  <2> HIDE DEF step
  <2> QED
    BY <1>1, <1>5, Recursion
<1>7. f = Body(f)
  <2>1. \A k \in 1..N : f[k] = step[k][f[k - 1]]
    <3> HIDE DEF step
    <3> QED
      BY <1>3, <1>6 DEF Recursive
  <2>2. \A k \in 1..N : f[k] = f[k - 1] + s[k].bytes
    BY <1>3, <2>1
  <2>3. f[0] = 0
    <3> HIDE DEF step
    <3> QED
      BY <1>3, <1>6 DEF Recursive
  <2> QED
    BY <1>2, <2>2, <2>3
<1>8. PICK u : u = CHOOSE h : h = Body(h)
  OBVIOUS
<1>9. u = Body(u)
  <2> HIDE DEF Body
  <2> QED
    BY <1>7, <1>8
<1>10. u[0] = 0 /\ \A k \in 1..N : u[k] = u[k - 1] + s[k].bytes
  <2>1. \A k \in 0..N : u[k] = Body(u)[k]
    <3> HIDE DEF Body
    <3> QED
      BY <1>9
  <2> QED
    BY <1>3, <2>1
<1>11. DOMAIN u = 0..N /\ u = [k \in 0..N |-> u[k]]
  BY <1>9
<1>12. \A k \in 0..N : u[k] \in Nat
  <2> DEFINE T == {k \in Nat : k \in 0..N => u[k] \in Nat}
  <2>1. 0 \in T
    BY <1>10
  <2>2. ASSUME NEW k \in Nat, k \in T PROVE k + 1 \in T
    <3> SUFFICES ASSUME k + 1 \in 0..N PROVE u[k + 1] \in Nat
      OBVIOUS
    <3>1. k + 1 \in 1..N /\ (k + 1) - 1 = k /\ u[k] \in Nat
      BY <1>1, <2>2
    <3>2. u[k + 1] = u[k] + s[k + 1].bytes
      BY <1>10, <3>1
    <3> QED
      BY <1>1, <3>1, <3>2
  <2> HIDE DEF T
  <2>3. Nat \subseteq T
    BY <2>1, <2>2, Induction
  <2> QED
    BY <1>1, <2>3 DEF T
<1> QED
  BY <1>4, <1>8, <1>10, <1>11, <1>12 DEF N

\* Any running total ends with the bytes of the sequence.
LEMMA BytesUnique ==
  ASSUME NEW s \in Seq(Entries), NEW v, v[0] = 0,
         \A k \in 1..Len(s) : v[k] = v[k - 1] + s[k].bytes
  PROVE  Bytes(s) = v[Len(s)]
<1>1. PICK u \in [0..Len(s) -> Nat] :
           /\ Bytes(s) = u[Len(s)]
           /\ u[0] = 0
           /\ \A k \in 1..Len(s) : u[k] = u[k - 1] + s[k].bytes
  BY BytesRecursion
<1>2. Len(s) \in Nat
  OBVIOUS
<1> DEFINE T == {k \in Nat : k \in 0..Len(s) => v[k] = u[k]}
<1>3. 0 \in T
  BY <1>1
<1>4. ASSUME NEW k \in Nat, k \in T PROVE k + 1 \in T
  <2> SUFFICES ASSUME k + 1 \in 0..Len(s) PROVE v[k + 1] = u[k + 1]
    OBVIOUS
  <2>1. k + 1 \in 1..Len(s) /\ (k + 1) - 1 = k /\ v[k] = u[k]
    BY <1>2, <1>4
  <2> QED
    BY <1>1, <2>1
<1> HIDE DEF T
<1>5. Nat \subseteq T
  BY <1>3, <1>4, Induction
<1> QED
  BY <1>1, <1>2, <1>5 DEF T

LEMMA BytesType ==
  ASSUME NEW s \in Seq(Entries)
  PROVE  Bytes(s) \in Nat
<1>1. Len(s) \in 0..Len(s)
  OBVIOUS
<1> QED
  BY <1>1, BytesRecursion

LEMMA BytesEmpty == Bytes(<<>>) = 0
<1>1. <<>> \in Seq(Entries) /\ Len(<<>>) = 0
  OBVIOUS
<1> QED
  BY <1>1, BytesRecursion

LEMMA BytesAppend ==
  ASSUME NEW s \in Seq(Entries), NEW e \in Entries
  PROVE  Bytes(Append(s, e)) = Bytes(s) + e.bytes
<1>1. PICK u \in [0..Len(s) -> Nat] :
           /\ Bytes(s) = u[Len(s)]
           /\ u[0] = 0
           /\ \A k \in 1..Len(s) : u[k] = u[k - 1] + s[k].bytes
  BY BytesRecursion
<1> DEFINE t == Append(s, e)
           v == [k \in 0..Len(t) |-> IF k \in 0..Len(s) THEN u[k] ELSE Bytes(s) + e.bytes]
<1>2. /\ Len(s) \in Nat /\ t \in Seq(Entries) /\ Len(t) = Len(s) + 1
      /\ t[Len(s) + 1] = e /\ \A k \in 1..Len(s) : t[k] = s[k]
  OBVIOUS
<1> HIDE DEF t
<1>3. v[0] = 0 /\ v[Len(t)] = Bytes(s) + e.bytes
  BY <1>1, <1>2
<1>4. ASSUME NEW k \in 1..Len(t) PROVE v[k] = v[k - 1] + t[k].bytes
  <2>1. CASE k \in 1..Len(s)
    <3>1. k \in 0..Len(t) /\ k \in 0..Len(s) /\ k - 1 \in 0..Len(t) /\ k - 1 \in 0..Len(s)
      BY <1>2, <2>1
    <3> QED
      BY <1>1, <1>2, <2>1, <3>1
  <2>2. CASE k = Len(s) + 1
    <3>1. /\ k \in 0..Len(t) /\ k \notin 0..Len(s) /\ k - 1 \in 0..Len(t)
          /\ k - 1 = Len(s) /\ k - 1 \in 0..Len(s)
      BY <1>2, <2>2
    <3> QED
      BY <1>1, <1>2, <2>2, <3>1
  <2> QED
    BY <1>2, <2>1, <2>2
<1>5. Bytes(t) = v[Len(t)]
  <2> HIDE DEF v
  <2> QED
    BY <1>2, <1>3, <1>4, BytesUnique
<1> QED
  BY <1>3, <1>5 DEF t

LEMMA BytesTail ==
  ASSUME NEW s \in Seq(Entries), s # <<>>
  PROVE  Bytes(s) = Head(s).bytes + Bytes(Tail(s))
<1> DEFINE t == Tail(s)
<1>1. /\ Len(s) \in Nat \ {0} /\ t \in Seq(Entries) /\ Len(t) = Len(s) - 1
      /\ Head(s) = s[1] /\ \A k \in 1..(Len(s) - 1) : t[k] = s[k + 1]
  OBVIOUS
<1> HIDE DEF t
<1>2. PICK u \in [0..Len(t) -> Nat] :
           /\ Bytes(t) = u[Len(t)]
           /\ u[0] = 0
           /\ \A k \in 1..Len(t) : u[k] = u[k - 1] + t[k].bytes
  BY <1>1, BytesRecursion
<1> DEFINE v == [k \in 0..Len(s) |-> IF k = 0 THEN 0 ELSE Head(s).bytes + u[k - 1]]
<1>3. Head(s).bytes \in Nat
  BY <1>1, EntryFacts
<1>4. v[0] = 0 /\ v[Len(s)] = Head(s).bytes + Bytes(t)
  BY <1>1, <1>2
<1>5. ASSUME NEW k \in 1..Len(s) PROVE v[k] = v[k - 1] + s[k].bytes
  <2>1. k \in 0..Len(s) /\ k - 1 \in 0..Len(s) /\ k # 0
    BY <1>1
  <2>2. CASE k = 1
    BY <1>1, <1>2, <1>3, <2>1, <2>2
  <2>3. CASE k # 1
    <3>1. k - 1 \in 1..Len(t) /\ k - 1 # 0 /\ (k - 1) + 1 = k /\ (k - 1) - 1 \in 0..Len(t)
          /\ k - 1 \in 0..Len(t)
      BY <1>1, <2>3
    <3>2. t[k - 1] = s[k]
      BY <1>1, <3>1
    <3>3. u[k - 1] = u[(k - 1) - 1] + s[k].bytes
      BY <1>2, <3>1, <3>2
    <3>4. v[k] = Head(s).bytes + u[k - 1] /\ v[k - 1] = Head(s).bytes + u[(k - 1) - 1]
      BY <2>1, <3>1
    <3>5. u[(k - 1) - 1] \in Nat /\ s[k].bytes \in Nat
      BY <3>1, EntryFacts
    <3> DEFINE head == Head(s).bytes  before == u[(k - 1) - 1]  here == s[k].bytes
               last == v[k - 1]  this == v[k]  sum == u[k - 1]
    <3>6. /\ head \in Nat /\ before \in Nat /\ here \in Nat
          /\ sum = before + here /\ this = head + sum /\ last = head + before
      BY <1>3, <3>3, <3>4, <3>5
    <3> HIDE DEF v, head, before, here, last, this, sum
    <3>7. this = last + here
      BY <3>6
    <3> QED
      BY <3>7 DEF this, last, here
  <2> QED
    BY <2>2, <2>3
<1>6. Bytes(s) = v[Len(s)]
  <2> HIDE DEF v
  <2> QED
    BY <1>1, <1>4, <1>5, BytesUnique
<1> QED
  BY <1>4, <1>6 DEF t

LEMMA BytesSame ==
  ASSUME NEW s \in Seq(Entries), NEW t \in Seq(Entries), Len(s) = Len(t),
         \A k \in 1..Len(s) : s[k].bytes = t[k].bytes
  PROVE  Bytes(s) = Bytes(t)
<1>1. PICK u \in [0..Len(t) -> Nat] :
           /\ Bytes(t) = u[Len(t)]
           /\ u[0] = 0
           /\ \A k \in 1..Len(t) : u[k] = u[k - 1] + t[k].bytes
  BY BytesRecursion
<1>2. \A k \in 1..Len(s) : u[k] = u[k - 1] + s[k].bytes
  BY <1>1
<1> QED
  BY <1>1, <1>2, BytesUnique

-----------------------------------------------------------------------------
(* The cache and its operations, in terms of the entries that are left. *)

\* A cache whose byte count is right.
Whole(s) == [entries |-> s, byte_count |-> Bytes(s)]

LEMMA PoppedIs ==
  ASSUME NEW s \in Seq(Entries), NEW n \in 0..Len(s)
  PROVE  Popped(Whole(s), n) = Whole(From(s, n))
<1> DEFINE Body(f) == [k \in 0..n |-> IF k = 0 THEN Whole(s) ELSE PopOldest(f[k - 1])]
           g == [k \in 0..n |-> Whole(From(s, k))]
<1>1. Len(s) \in Nat /\ n \in Nat /\ \A k \in 0..n : k \in 0..Len(s)
  OBVIOUS
<1>2. \A k \in 0..n : k # 0 => /\ k - 1 \in 0..n /\ k - 1 \in 0..Len(s)
                               /\ k - 1 < Len(s) /\ (k - 1) + 1 = k
  BY <1>1
<1>3. ASSUME NEW k \in 0..n, k # 0
      PROVE  PopOldest(Whole(From(s, k - 1))) = Whole(From(s, k))
  <2> DEFINE t == From(s, k - 1)
  <2>1. t \in Seq(Entries) /\ t # <<>> /\ Tail(t) = From(s, k)
    BY <1>2, <1>3, FromFacts, FromTail
  <2> HIDE DEF t
  <2>2. Bytes(t) = Head(t).bytes + Bytes(Tail(t))
    BY <2>1, BytesTail
  <2>3. Head(t) \in Entries /\ Tail(t) \in Seq(Entries)
    BY <2>1
  <2>4. Head(t).bytes \in Nat /\ Bytes(Tail(t)) \in Nat
    BY <2>3, BytesType DEF Entries
  <2>5. Bytes(t) - Head(t).bytes = Bytes(Tail(t))
    BY <2>2, <2>4
  <2>6. PopOldest(Whole(t)) = Whole(Tail(t))
    BY <2>5 DEF PopOldest, Whole
  <2> QED
    BY <2>1, <2>6 DEF t
<1>4. From(s, 0) = s
  BY FromTail
<1>5. g = Body(g)
  <2>1. \A k \in 0..n : g[k] = Body(g)[k]
    BY <1>2, <1>3, <1>4
  <2> QED
    BY <2>1
<1>6. PICK f : f = CHOOSE h : h = Body(h)
  OBVIOUS
<1>7. f = Body(f)
  <2> HIDE DEF Body, g
  <2> QED
    BY <1>5, <1>6
<1>8. Popped(Whole(s), n) = f[n]
  BY <1>6 DEF Popped
<1>9. \A k \in 0..n : f[k] = IF k = 0 THEN Whole(s) ELSE PopOldest(f[k - 1])
  <2>1. \A k \in 0..n : f[k] = Body(f)[k]
    <3> HIDE DEF Body
    <3> QED
      BY <1>7
  <2> QED
    BY <2>1
<1> DEFINE T == {k \in Nat : k \in 0..n => f[k] = Whole(From(s, k))}
<1>10. 0 \in T
  BY <1>1, <1>4, <1>9
<1>11. ASSUME NEW k \in Nat, k \in T PROVE k + 1 \in T
  <2> SUFFICES ASSUME k + 1 \in 0..n PROVE f[k + 1] = Whole(From(s, k + 1))
    OBVIOUS
  <2>1. k \in 0..n /\ (k + 1) - 1 = k /\ k + 1 # 0
    BY <1>1
  <2>2. f[k + 1] = PopOldest(f[k]) /\ f[k] = Whole(From(s, k))
    BY <1>9, <1>11, <2>1
  <2> QED
    BY <1>3, <2>1, <2>2
<1> HIDE DEF T
<1>12. Nat \subseteq T
  BY <1>10, <1>11, Induction
<1> QED
  BY <1>1, <1>8, <1>12 DEF T

\* The oldest entry is first.
Sorted(s) == \A j, k \in DOMAIN s : j < k => s[j].age >= s[k].age

\* How many entries are too old.
Dead(s) == Max({0} \cup {k \in DOMAIN s : s[k].age > Ttl})

LEMMA DeadFacts ==
  ASSUME NEW s \in Seq(Entries), Sorted(s)
  PROVE  /\ Dead(s) \in 0..Len(s) /\ Live(s) = From(s, Dead(s))
         /\ \A k \in 1..Len(s) : s[k].age > Ttl <=> k <= Dead(s)
<1> DEFINE T == {0} \cup {k \in DOMAIN s : s[k].age > Ttl}
<1>1. Len(s) \in Nat /\ DOMAIN s = 1..Len(s) /\ \A k \in 1..Len(s) : s[k].age \in 0..(Ttl + 1)
  BY EntryFacts
<1>2. T \in SUBSET (0..Len(s)) /\ T # {}
  BY <1>1
<1>3. Dead(s) \in T /\ \A m \in T : Dead(s) >= m
  <2> HIDE DEF T
  <2>1. Max(T) \in T /\ \A m \in T : Max(T) >= m
    BY <1>1, <1>2, MaxIs
  <2> QED
    BY <2>1 DEF Dead, T
<1>4. Live(s) = From(s, Dead(s))
  BY DEF Live, Dead
<1>5. ASSUME NEW k \in 1..Len(s), k <= Dead(s) PROVE s[k].age > Ttl
  <2>1. Dead(s) \in 1..Len(s) /\ s[Dead(s)].age > Ttl
    BY <1>1, <1>3, <1>5
  <2>2. CASE k = Dead(s)
    BY <2>1, <2>2
  <2>3. CASE k < Dead(s)
    <3>1. s[k].age >= s[Dead(s)].age
      BY <1>1, <2>1, <2>3 DEF Sorted
    <3> QED
      BY <1>1, <2>1, <3>1, CacheAssumption
  <2> QED
    BY <1>1, <1>5, <2>1, <2>2, <2>3
<1>6. ASSUME NEW k \in 1..Len(s), s[k].age > Ttl PROVE k <= Dead(s)
  <2>1. k \in T
    BY <1>1, <1>6
  <2>2. Dead(s) \in Nat
    BY <1>2, <1>3
  <2> QED
    BY <1>3, <2>1, <2>2
<1> QED
  BY <1>2, <1>3, <1>4, <1>5, <1>6

\* _expire leaves the entries that are not too old.
LEMMA ExpireIs ==
  ASSUME NEW s \in Seq(Entries), Sorted(s)
  PROVE  Expire(Whole(s)) = Whole(Live(s))
<1> DEFINE T == {n \in 0..Len(s) :
                   LET left == Popped(Whole(s), n).entries
                   IN left = <<>> \/ Head(left).age <= Ttl}
           d == Dead(s)
<1>1. /\ d \in 0..Len(s) /\ Live(s) = From(s, d)
      /\ \A k \in 1..Len(s) : s[k].age > Ttl <=> k <= d
  BY DeadFacts
<1>2. Len(s) \in Nat /\ \A k \in 1..Len(s) : s[k].age \in 0..(Ttl + 1)
  BY EntryFacts
<1>3. \A n \in 0..Len(s) : Popped(Whole(s), n).entries = From(s, n)
  <2>1. \A t : Whole(t).entries = t
    BY DEF Whole
  <2> QED
    BY <2>1, PoppedIs
<1>4. \A n \in 0..Len(s) : n < Len(s) => /\ From(s, n) # <<>>
                                         /\ Head(From(s, n)) = s[n + 1]
  BY FromTail
<1>5. From(s, Len(s)) = <<>>
  BY FromTail
<1> HIDE DEF d
<1>6. d \in T
  <2>1. CASE d = Len(s)
    BY <1>1, <1>3, <1>5, <2>1
  <2>2. CASE d < Len(s)
    <3>1. d + 1 \in 1..Len(s) /\ ~(d + 1 <= d)
      BY <1>1, <1>2, <2>2
    <3>2. ~(s[d + 1].age > Ttl) /\ s[d + 1].age \in 0..(Ttl + 1)
      BY <1>1, <1>2, <3>1
    <3>3. s[d + 1].age <= Ttl
      BY <3>2, CacheAssumption
    <3>4. Head(Popped(Whole(s), d).entries).age <= Ttl
      BY <1>1, <1>3, <1>4, <2>2, <3>3
    <3> QED
      BY <1>1, <3>4
  <2> QED
    BY <1>1, <1>2, <2>1, <2>2
<1>7. ASSUME NEW n \in T PROVE d <= n
  <2> SUFFICES ASSUME n < d PROVE FALSE
    BY <1>1, <1>2
  <2>1. n \in 0..Len(s) /\ n < Len(s) /\ n + 1 \in 1..Len(s) /\ n + 1 <= d
    BY <1>1, <1>2
  <2>2. s[n + 1].age > Ttl /\ s[n + 1].age \in 0..(Ttl + 1)
    BY <1>1, <1>2, <2>1
  <2>3. Popped(Whole(s), n).entries # <<>> /\ Head(Popped(Whole(s), n).entries) = s[n + 1]
    BY <1>3, <1>4, <2>1
  <2>4. s[n + 1].age <= Ttl
    BY <2>3
  <2> QED
    BY <2>2, <2>4, CacheAssumption
<1>8. Min(T) = d
  <2>1. T \in SUBSET Nat
    BY <1>2
  <2> HIDE DEF T
  <2> QED
    BY <1>6, <1>7, <2>1, MinUnique
<1>9. Expire(Whole(s)) = Popped(Whole(s), d)
  <2> DEFINE c == Whole(s)
             E == {n \in 0..Len(c.entries) :
                     LET left == Popped(c, n).entries
                     IN left = <<>> \/ Head(left).age <= Ttl}
  <2>1. c.entries = s
    BY DEF Whole
  <2>2. E = T
    BY <2>1
  <2>3. Expire(c) = Popped(c, Min(E))
    BY DEF Expire
  <2> QED
    BY <1>8, <2>2, <2>3
<1> QED
  BY <1>1, <1>9, PoppedIs

\* What fits in a cache, and the longest recent part of a sequence that does.
Fits(s) == Len(s) <= Size /\ Bytes(s) <= MaxBytes
Evicted(s) == Min({n \in 0..Len(s) : Fits(From(s, n))})
Kept(s) == From(s, Evicted(s))

LEMMA FitsFrom ==
  ASSUME NEW s \in Seq(Entries), NEW m \in 0..Len(s), NEW n \in 0..Len(s), m <= n,
         Fits(From(s, m))
  PROVE  Fits(From(s, n))
<1>1. Len(s) \in Nat /\ m \in Nat /\ n \in Nat
  OBVIOUS
<1> DEFINE T == {k \in Nat : m + k <= Len(s) => Fits(From(s, m + k))}
<1>2. 0 \in T
  BY <1>1
<1>3. ASSUME NEW k \in Nat, k \in T PROVE k + 1 \in T
  <2> SUFFICES ASSUME m + (k + 1) <= Len(s) PROVE Fits(From(s, m + (k + 1)))
    OBVIOUS
  <2> DEFINE t == From(s, m + k)
  <2>1. m + k \in 0..Len(s) /\ m + k < Len(s) /\ (m + k) + 1 = m + (k + 1) /\ Fits(t)
    BY <1>1, <1>3
  <2>2. t \in Seq(Entries) /\ t # <<>> /\ Tail(t) = From(s, m + (k + 1))
    BY <2>1, FromFacts, FromTail
  <2> HIDE DEF t
  <2>3. Bytes(t) = Head(t).bytes + Bytes(Tail(t))
    BY <2>2, BytesTail
  <2>4. Head(t) \in Entries /\ Tail(t) \in Seq(Entries) /\ Len(Tail(t)) = Len(t) - 1
        /\ Len(t) \in Nat
    BY <2>2
  <2>5. Head(t).bytes \in Nat /\ Bytes(Tail(t)) \in Nat
    BY <2>4, BytesType DEF Entries
  <2>6. Fits(Tail(t))
    BY <2>1, <2>3, <2>4, <2>5, CacheAssumption DEF Fits
  <2> QED
    BY <2>2, <2>6
<1> HIDE DEF T
<1>4. Nat \subseteq T
  BY <1>2, <1>3, Induction
<1>5. n - m \in Nat /\ m + (n - m) = n
  BY <1>1
<1> QED
  BY <1>1, <1>4, <1>5 DEF T

LEMMA EvictedFacts ==
  ASSUME NEW s \in Seq(Entries)
  PROVE  /\ Evicted(s) \in 0..Len(s) /\ Fits(Kept(s))
         /\ \A n \in 0..Len(s) : Fits(From(s, n)) <=> Evicted(s) <= n
<1> DEFINE T == {n \in 0..Len(s) : Fits(From(s, n))}
<1>1. Len(s) \in Nat /\ Len(s) \in 0..Len(s)
  OBVIOUS
<1>2. Fits(<<>>)
  BY BytesEmpty, CacheAssumption DEF Fits
<1>3. T \in SUBSET Nat /\ T # {}
  BY <1>1, <1>2, FromTail
<1>4. Evicted(s) \in T /\ \A m \in T : Evicted(s) <= m
  <2> HIDE DEF T
  <2>1. Min(T) \in T /\ \A m \in T : Min(T) <= m
    BY <1>3, MinIs
  <2> QED
    BY <2>1 DEF Evicted, T
<1>5. \A n \in 0..Len(s) : Evicted(s) <= n => Fits(From(s, n))
  BY <1>4, FitsFrom
<1> QED
  BY <1>4, <1>5 DEF Kept

\* The part that fits, from the first position from which it does.
LEMMA KeptIs ==
  ASSUME NEW s \in Seq(Entries), NEW k \in 0..Len(s), Fits(From(s, k)),
         \A n \in 0..Len(s) : n < k => ~Fits(From(s, n))
  PROVE  Evicted(s) = k /\ Kept(s) = From(s, k)
<1>1. /\ Evicted(s) \in 0..Len(s)
      /\ \A n \in 0..Len(s) : Fits(From(s, n)) <=> Evicted(s) <= n
  BY EvictedFacts
<1>2. Evicted(s) <= k /\ Fits(From(s, Evicted(s)))
  BY <1>1
<1>3. ~(Evicted(s) < k)
  BY <1>1, <1>2
<1>4. Evicted(s) = k
  BY <1>1, <1>2, <1>3
<1> QED
  BY <1>4 DEF Kept

\* Shrink leaves the part that fits.
LEMMA ShrinkIs ==
  ASSUME NEW s \in Seq(Entries)
  PROVE  Shrink(Whole(s)) = Whole(Kept(s))
<1> DEFINE c == Whole(s)
           T == {n \in 0..Len(c.entries) : \/ Popped(c, n).entries = <<>>
                                           \/ WithinLimits(Popped(c, n))}
           U == {n \in 0..Len(s) : Fits(From(s, n))}
<1>1. c.entries = s
  BY DEF Whole
<1>2. ASSUME NEW n \in 0..Len(s)
      PROVE  (Popped(c, n).entries = <<>> \/ WithinLimits(Popped(c, n))) <=> Fits(From(s, n))
  <2>1. Popped(c, n) = Whole(From(s, n))
    BY PoppedIs
  <2>2. Popped(c, n).entries = From(s, n) /\ (WithinLimits(Popped(c, n)) <=> Fits(From(s, n)))
    BY <2>1 DEF Whole, WithinLimits, Fits
  <2>3. Fits(<<>>)
    BY BytesEmpty, CacheAssumption DEF Fits
  <2> QED
    BY <2>2, <2>3
<1>3. T = U
  BY <1>1, <1>2
<1>4. Shrink(c) = Popped(c, Min(T))
  BY DEF Shrink
<1>5. Shrink(c) = Popped(c, Evicted(s))
  BY <1>3, <1>4 DEF Evicted
<1>6. Evicted(s) \in 0..Len(s)
  BY EvictedFacts
<1> QED
  BY <1>5, <1>6, PoppedIs DEF Kept

LEMMA RememberedIs == Remembered = Kept(journal)
BY DEF Remembered, Kept, Evicted, Min, Fits, From

-----------------------------------------------------------------------------
(* What expiry, eviction, saving and the passing of time have in common. *)

LEMMA KeptFrom ==
  ASSUME NEW s \in Seq(Entries), NEW d \in 0..Len(s)
  PROVE  Kept(From(s, d)) = From(s, IF Evicted(s) <= d THEN d ELSE Evicted(s))
<1> DEFINE e == Evicted(s)
           m == IF e <= d THEN d ELSE e
           t == From(s, d)
<1>1. /\ e \in 0..Len(s)
      /\ \A n \in 0..Len(s) : Fits(From(s, n)) <=> e <= n
  BY EvictedFacts
<1>2. t \in Seq(Entries) /\ Len(t) = Len(s) - d /\ Len(s) \in Nat
  BY FromFacts
<1>3. \A n \in 0..(Len(s) - d) : From(t, n) = From(s, d + n) /\ d + n \in 0..Len(s)
  BY FromFrom
<1> HIDE DEF e, t
<1>4. m \in 0..Len(s) /\ m - d \in 0..(Len(s) - d) /\ d + (m - d) = m /\ e <= m
  BY <1>1, <1>2
<1>5. Fits(From(t, m - d)) /\ From(t, m - d) = From(s, m)
  BY <1>1, <1>3, <1>4
<1>6. ASSUME NEW n \in 0..(Len(s) - d), n < m - d PROVE ~Fits(From(t, n))
  <2>1. d + n < e
    BY <1>1, <1>2, <1>6
  <2>2. ~(e <= d + n) /\ d + n \in 0..Len(s)
    BY <1>1, <1>2, <1>3, <2>1
  <2> QED
    BY <1>1, <1>3, <2>2
<1>7. Kept(t) = From(t, m - d)
  BY <1>2, <1>4, <1>5, <1>6, KeptIs
<1> QED
  BY <1>5, <1>7 DEF e, t

\* It makes no difference to what fits after a save whether what did not fit
\* before is still there.
LEMMA KeptAppend ==
  ASSUME NEW s \in Seq(Entries), NEW e \in Entries
  PROVE  Kept(Append(Kept(s), e)) = Kept(Append(s, e))
<1> DEFINE k == Evicted(s)
           t == From(s, k)
           a == Append(s, e)
           b == Append(t, e)
           j == Evicted(b)
<1>1. /\ k \in 0..Len(s) /\ \A n \in 0..Len(s) : Fits(From(s, n)) <=> k <= n
      /\ t = Kept(s)
  BY EvictedFacts DEF Kept
<1>2. t \in Seq(Entries) /\ Len(t) = Len(s) - k /\ Len(s) \in Nat
  BY <1>1, FromFacts
<1>3. /\ a \in Seq(Entries) /\ Len(a) = Len(s) + 1
      /\ \A n \in 0..Len(s) : From(a, n) = Append(From(s, n), e)
  BY FromAppend
<1>4. From(a, k) = b
  BY <1>1, <1>3
<1>5. b \in Seq(Entries) /\ Len(b) = (Len(s) - k) + 1
  BY <1>2
<1> HIDE DEF k, t, a, b
<1>6. /\ j \in 0..Len(b) /\ Kept(b) = From(b, j) /\ Fits(From(b, j))
      /\ \A n \in 0..Len(b) : Fits(From(b, n)) <=> j <= n
  BY <1>5, EvictedFacts DEF Kept
<1> HIDE DEF j
<1>7. /\ k \in 0..Len(a) /\ Len(a) - k = Len(b)
  BY <1>1, <1>2, <1>3, <1>5
<1>8. \A n \in 0..Len(b) : From(b, n) = From(a, k + n) /\ k + n \in 0..Len(a)
  BY <1>3, <1>4, <1>7, FromFrom
<1>9. ASSUME NEW n \in 0..Len(a), n < k + j PROVE ~Fits(From(a, n))
  <2>1. CASE n < k
    <3> DEFINE u == From(s, n)
    <3>1. n \in 0..Len(s) /\ ~(k <= n)
      BY <1>1, <1>2, <1>3, <2>1
    <3>2. u \in Seq(Entries) /\ ~Fits(u) /\ From(a, n) = Append(u, e)
      BY <1>1, <1>3, <3>1, FromFacts
    <3> HIDE DEF u
    <3>3. Len(Append(u, e)) = Len(u) + 1 /\ Bytes(Append(u, e)) = Bytes(u) + e.bytes
      BY <3>2, BytesAppend
    <3>4. Len(u) \in Nat /\ Bytes(u) \in Nat /\ e.bytes \in Nat
      BY <3>2, BytesType DEF Entries
    <3> QED
      BY <3>2, <3>3, <3>4, CacheAssumption DEF Fits
  <2>2. CASE k <= n
    <3>1. n - k \in 0..Len(b) /\ k + (n - k) = n /\ ~(j <= n - k)
      BY <1>1, <1>3, <1>6, <1>7, <1>9, <2>2
    <3> QED
      BY <1>6, <1>8, <3>1
  <2> QED
    BY <1>1, <2>1, <2>2
<1>10. Kept(a) = From(a, k + j)
  <2>1. k + j \in 0..Len(a) /\ Fits(From(a, k + j))
    BY <1>6, <1>8
  <2> QED
    BY <1>3, <1>9, <2>1, KeptIs
<1>11. Kept(b) = Kept(a)
  BY <1>6, <1>8, <1>10
<1> QED
  BY <1>1, <1>11 DEF a, b

\* The identifiers of a sequence of entries are distinct; none is too old.
Distinct(s) == \A j, k \in DOMAIN s : s[j].id = s[k].id => j = k
Young(s) == \A k \in DOMAIN s : s[k].age <= Ttl

LEMMA FromKeeps ==
  ASSUME NEW s \in Seq(Entries), NEW n \in 0..Len(s)
  PROVE  /\ From(s, n) \in Seq(Entries)
         /\ Sorted(s) => Sorted(From(s, n))
         /\ Distinct(s) => Distinct(From(s, n))
         /\ Young(s) => Young(From(s, n))
         /\ \A i \in DOMAIN From(s, n) : \E k \in DOMAIN s : From(s, n)[i] = s[k]
<1> DEFINE t == From(s, n)
<1>1. /\ t \in Seq(Entries) /\ Len(s) \in Nat /\ DOMAIN s = 1..Len(s)
      /\ DOMAIN t = 1..(Len(s) - n)
      /\ \A i \in 1..(Len(s) - n) : t[i] = s[n + i] /\ n + i \in 1..Len(s)
  BY FromFacts
<1> HIDE DEF t
<1>2. Sorted(s) => Sorted(t)
  <2> SUFFICES ASSUME Sorted(s), NEW i \in DOMAIN t, NEW k \in DOMAIN t, i < k
               PROVE  t[i].age >= t[k].age
    BY DEF Sorted
  <2>1. n + i < n + k /\ n + i \in DOMAIN s /\ n + k \in DOMAIN s
    BY <1>1
  <2>2. s[n + i].age >= s[n + k].age
    BY <2>1 DEF Sorted
  <2> QED
    BY <1>1, <2>2
<1>3. Distinct(s) => Distinct(t)
  <2> SUFFICES ASSUME Distinct(s), NEW i \in DOMAIN t, NEW k \in DOMAIN t, t[i].id = t[k].id
               PROVE  i = k
    BY DEF Distinct
  <2>1. n + i \in DOMAIN s /\ n + k \in DOMAIN s /\ s[n + i].id = s[n + k].id
    BY <1>1
  <2>2. n + i = n + k
    BY <2>1 DEF Distinct
  <2> QED
    BY <1>1, <2>2
<1>4. Young(s) => Young(t)
  BY <1>1 DEF Young
<1> QED
  BY <1>1, <1>2, <1>3, <1>4 DEF t

LEMMA LiveFrom ==
  ASSUME NEW s \in Seq(Entries), Sorted(s), NEW k \in 0..Len(s)
  PROVE  Live(From(s, k)) = From(s, IF Dead(s) <= k THEN k ELSE Dead(s))
<1> DEFINE d == Dead(s)
           t == From(s, k)
           x == IF d <= k THEN 0 ELSE d - k
<1>1. d \in 0..Len(s) /\ \A i \in 1..Len(s) : s[i].age > Ttl <=> i <= d
  BY DeadFacts
<1>2. /\ t \in Seq(Entries) /\ Len(t) = Len(s) - k /\ Len(s) \in Nat
      /\ \A i \in 1..(Len(s) - k) : t[i] = s[k + i] /\ k + i \in 1..Len(s)
  BY FromFacts
<1>3. Sorted(t)
  BY FromKeeps
<1> HIDE DEF t, d
<1>4. /\ Dead(t) \in 0..Len(t) /\ Live(t) = From(t, Dead(t))
      /\ \A i \in 1..Len(t) : t[i].age > Ttl <=> i <= Dead(t)
  BY <1>2, <1>3, DeadFacts
<1>5. \A i \in 1..Len(t) : k + i <= d <=> i <= Dead(t)
  BY <1>1, <1>2, <1>4
<1>6. x \in 0..Len(t)
  BY <1>1, <1>2
<1>7. Dead(t) = x
  <2>1. CASE Dead(t) < x
    <3>1. x \in 1..Len(t) /\ k + x <= d
      BY <1>1, <1>2, <1>4, <1>6, <2>1
    <3> QED
      BY <1>4, <1>5, <2>1, <3>1
  <2>2. CASE x < Dead(t)
    <3>1. Dead(t) \in 1..Len(t) /\ k + Dead(t) <= d
      BY <1>2, <1>4, <1>5, <1>6, <2>2
    <3> QED
      BY <1>1, <1>2, <1>4, <2>2, <3>1
  <2> QED
    BY <1>2, <1>4, <1>6, <2>1, <2>2
<1>8. Live(t) = From(s, k + x)
  BY <1>2, <1>4, <1>6, <1>7, FromFrom DEF t
<1>9. k + x = IF d <= k THEN k ELSE d
  BY <1>1, <1>2
<1> QED
  BY <1>8, <1>9 DEF t, d

LEMMA LiveFacts ==
  ASSUME NEW s \in Seq(Entries), Sorted(s)
  PROVE  /\ Live(s) \in Seq(Entries) /\ Sorted(Live(s)) /\ Young(Live(s))
         /\ (Young(s) => Live(s) = s)
         /\ (Distinct(s) => Distinct(Live(s)))
         /\ (Fits(s) => Fits(Live(s)))
         /\ Len(Live(s)) <= Len(s)
<1> DEFINE d == Dead(s)
           t == From(s, d)
<1>1. /\ d \in 0..Len(s) /\ Live(s) = t
      /\ \A k \in 1..Len(s) : s[k].age > Ttl <=> k <= d
  BY DeadFacts
<1>2. /\ t \in Seq(Entries) /\ Sorted(t) /\ (Distinct(s) => Distinct(t))
  BY <1>1, FromKeeps
<1>3. /\ Len(s) \in Nat /\ DOMAIN t = 1..(Len(s) - d) /\ DOMAIN s = 1..Len(s)
      /\ Len(t) = Len(s) - d
      /\ \A i \in 1..(Len(s) - d) : t[i] = s[d + i] /\ d + i \in 1..Len(s)
  BY <1>1, FromFacts
<1>4. \A k \in 1..Len(s) : s[k].age \in 0..(Ttl + 1)
  BY EntryFacts
<1>5. From(s, 0) = s
  BY FromTail
<1>6. Fits(s) => Fits(t)
  BY <1>1, <1>3, <1>5, FitsFrom
<1> HIDE DEF t, d
<1>7. Young(t)
  <2> SUFFICES ASSUME NEW i \in 1..(Len(s) - d) PROVE t[i].age <= Ttl
    BY <1>3 DEF Young
  <2>1. ~(d + i <= d)
    BY <1>1, <1>3
  <2> QED
    BY <1>1, <1>3, <1>4, <2>1, CacheAssumption
<1>8. Young(s) => d = 0
  <2> SUFFICES ASSUME Young(s), d # 0 PROVE FALSE
    OBVIOUS
  <2>1. d \in 1..Len(s) /\ d <= d
    BY <1>1, <1>3
  <2>2. s[d].age <= Ttl /\ s[d].age > Ttl /\ s[d].age \in 0..(Ttl + 1)
    BY <1>1, <1>3, <1>4, <2>1 DEF Young
  <2> QED
    BY <2>2, CacheAssumption
<1> QED
  BY <1>1, <1>2, <1>3, <1>5, <1>6, <1>7, <1>8 DEF t, d

\* Adding a new entry.
LEMMA AppendKeeps ==
  ASSUME NEW s \in Seq(Entries), NEW e \in Entries, e.age = 0
  PROVE  /\ Append(s, e) \in Seq(Entries)
         /\ Sorted(s) => Sorted(Append(s, e))
         /\ Young(s) => Young(Append(s, e))
         /\ (Distinct(s) /\ \A k \in DOMAIN s : s[k].id # e.id) => Distinct(Append(s, e))
<1> DEFINE t == Append(s, e)
<1>1. /\ t \in Seq(Entries) /\ Len(s) \in Nat /\ DOMAIN s = 1..Len(s)
      /\ DOMAIN t = 1..(Len(s) + 1) /\ t[Len(s) + 1] = e
      /\ \A k \in 1..Len(s) : t[k] = s[k]
  OBVIOUS
<1> HIDE DEF t
<1>2. \A k \in DOMAIN t : k \in DOMAIN s \/ k = Len(s) + 1
  BY <1>1
<1>3. \A k \in 1..Len(s) : s[k].age \in 0..(Ttl + 1) /\ k < Len(s) + 1
  BY <1>1, EntryFacts
<1>4. Sorted(s) => Sorted(t)
  <2> SUFFICES ASSUME Sorted(s), NEW i \in DOMAIN t, NEW k \in DOMAIN t, i < k
               PROVE  t[i].age >= t[k].age
    BY DEF Sorted
  <2>1. i \in DOMAIN s
    BY <1>1
  <2>2. CASE k \in DOMAIN s
    BY <1>1, <2>1, <2>2 DEF Sorted
  <2>3. CASE k = Len(s) + 1
    <3>1. t[k].age = 0 /\ t[i].age \in 0..(Ttl + 1)
      BY <1>1, <1>3, <2>1, <2>3
    <3> QED
      BY <3>1, CacheAssumption
  <2> QED
    BY <1>2, <2>2, <2>3
<1>5. Young(s) => Young(t)
  BY <1>1, <1>2, CacheAssumption DEF Young
<1>6. (Distinct(s) /\ \A k \in DOMAIN s : s[k].id # e.id) => Distinct(t)
  BY <1>1, <1>2 DEF Distinct
<1> QED
  BY <1>1, <1>4, <1>5, <1>6 DEF t

LEMMA AgedFacts ==
  ASSUME NEW s \in Seq(Entries)
  PROVE  /\ Aged(s) \in Seq(Entries) /\ Len(Aged(s)) = Len(s)
         /\ \A k \in 1..Len(s) :
              /\ Aged(s)[k].id = s[k].id /\ Aged(s)[k].bytes = s[k].bytes
              /\ Aged(s)[k].age = IF s[k].age > Ttl THEN s[k].age ELSE s[k].age + 1
         /\ Bytes(Aged(s)) = Bytes(s)
         /\ (Sorted(s) => Sorted(Aged(s)))
         /\ (Distinct(s) => Distinct(Aged(s)))
<1> DEFINE Older(e) == [e EXCEPT !.age = IF @ > Ttl THEN @ ELSE @ + 1]
<1>1. Len(s) \in Nat /\ DOMAIN s = 1..Len(s) /\ \A k \in 1..Len(s) : s[k] \in Entries
  BY EntryFacts
<1>2. \A e \in Entries : /\ Older(e) \in Entries
                         /\ Older(e).id = e.id /\ Older(e).bytes = e.bytes
                         /\ Older(e).age = IF e.age > Ttl THEN e.age ELSE e.age + 1
  <2> TAKE e \in Entries
  <2> DEFINE older == IF e.age > Ttl THEN e.age ELSE e.age + 1
  <2>1. e.age \in 0..(Ttl + 1) /\ Ttl \in Nat
    BY CacheAssumption DEF Entries
  <2>2. older \in 0..(Ttl + 1)
    BY <2>1
  <2>3. Older(e) = [e EXCEPT !.age = older]
    OBVIOUS
  <2> HIDE DEF older, Older
  <2>4. /\ [e EXCEPT !.age = older] \in Entries
        /\ [e EXCEPT !.age = older].id = e.id /\ [e EXCEPT !.age = older].bytes = e.bytes
        /\ [e EXCEPT !.age = older].age = older
    BY <2>2 DEF Entries
  <2> QED
    BY <2>3, <2>4 DEF older
<1> DEFINE t == [k \in DOMAIN s |-> Older(s[k])]
<1>3. Aged(s) = t
  BY DEF Aged
<1> HIDE DEF Older
<1>4. t \in Seq(Entries) /\ Len(t) = Len(s) /\ DOMAIN t = 1..Len(s)
  BY <1>1, <1>2
<1>5. \A k \in 1..Len(s) :
              /\ t[k].id = s[k].id /\ t[k].bytes = s[k].bytes
              /\ t[k].age = IF s[k].age > Ttl THEN s[k].age ELSE s[k].age + 1
  BY <1>1, <1>2
<1> HIDE DEF t
<1>6. Bytes(t) = Bytes(s)
  BY <1>4, <1>5, BytesSame
<1>7. \A k \in 1..Len(s) : s[k].age \in 0..(Ttl + 1)
  BY EntryFacts
<1>8. Sorted(s) => Sorted(t)
  <2> SUFFICES ASSUME Sorted(s), NEW i \in 1..Len(s), NEW k \in 1..Len(s), i < k
               PROVE  t[i].age >= t[k].age
    BY <1>4 DEF Sorted
  <2>1. s[i].age >= s[k].age
    BY <1>1 DEF Sorted
  <2> QED
    BY <1>5, <1>7, <2>1, CacheAssumption
<1>9. Distinct(s) => Distinct(t)
  BY <1>1, <1>4, <1>5 DEF Distinct
<1> QED
  BY <1>3, <1>4, <1>5, <1>6, <1>8, <1>9

LEMMA AgedFrom ==
  ASSUME NEW s \in Seq(Entries), NEW n \in 0..Len(s)
  PROVE  Aged(From(s, n)) = From(Aged(s), n)
<1> DEFINE a == Aged(s)
           f == From(s, n)
           b == From(a, n)
           Older(e) == [e EXCEPT !.age = IF @ > Ttl THEN @ ELSE @ + 1]
<1>1. a \in Seq(Entries) /\ Len(a) = Len(s)
  BY AgedFacts
<1>2. \A k \in 1..Len(s) : a[k] = Older(s[k])
  <2>1. DOMAIN s = 1..Len(s)
    BY EntryFacts
  <2> QED
    BY <2>1 DEF Aged
<1> HIDE DEF a
<1>3. /\ f \in Seq(Entries) /\ Len(f) = Len(s) - n /\ DOMAIN f = 1..(Len(s) - n)
      /\ \A i \in 1..(Len(s) - n) : f[i] = s[n + i] /\ n + i \in 1..Len(s)
  BY FromFacts
<1>4. /\ b \in Seq(Entries) /\ Len(b) = Len(s) - n
      /\ \A i \in 1..(Len(s) - n) : b[i] = a[n + i]
  <2>1. n \in 0..Len(a)
    BY <1>1
  <2> QED
    BY <1>1, <2>1, FromFacts
<1> HIDE DEF f, b
<1>5. Aged(f) \in Seq(Entries) /\ Len(Aged(f)) = Len(f)
  BY <1>3, AgedFacts
<1>6. \A i \in 1..(Len(s) - n) : Aged(f)[i] = Older(f[i])
  BY <1>3 DEF Aged
<1> HIDE DEF Older
<1>7. \A i \in 1..Len(b) : Aged(f)[i] = b[i]
  BY <1>2, <1>3, <1>4, <1>6
<1>8. Aged(f) = b
  BY <1>3, <1>4, <1>5, <1>7, SequencesEqual
<1> QED
  BY <1>8 DEF a, b, f

LEMMA AgedKept ==
  ASSUME NEW s \in Seq(Entries)
  PROVE  Kept(Aged(s)) = From(Aged(s), Evicted(s)) /\ Evicted(Aged(s)) = Evicted(s)
<1> DEFINE a == Aged(s)
           k == Evicted(s)
<1>1. k \in 0..Len(s) /\ \A n \in 0..Len(s) : Fits(From(s, n)) <=> k <= n
  BY EvictedFacts
<1>2. a \in Seq(Entries) /\ Len(a) = Len(s) /\ Len(s) \in Nat
  BY AgedFacts
<1>3. ASSUME NEW n \in 0..Len(s) PROVE Fits(From(a, n)) <=> Fits(From(s, n))
  <2> DEFINE f == From(s, n)
  <2>1. f \in Seq(Entries) /\ Aged(f) = From(a, n)
    BY AgedFrom, FromFacts
  <2> HIDE DEF f, a
  <2>2. Len(Aged(f)) = Len(f) /\ Bytes(Aged(f)) = Bytes(f)
    BY <2>1, AgedFacts
  <2>3. Fits(Aged(f)) <=> Fits(f)
    BY <2>2 DEF Fits
  <2> QED
    BY <2>1, <2>3 DEF f
<1> HIDE DEF a, k
<1>4. Fits(From(a, k)) /\ \A n \in 0..Len(a) : n < k => ~Fits(From(a, n))
  BY <1>1, <1>2, <1>3
<1>5. Evicted(a) = k /\ Kept(a) = From(a, k)
  BY <1>1, <1>2, <1>4, KeptIs
<1> QED
  BY <1>5 DEF a, k

\* Time makes no difference to what has expired already.
LEMMA AgedLive ==
  ASSUME NEW s \in Seq(Entries), Sorted(s)
  PROVE  Live(Aged(Live(s))) = Live(Aged(s))
<1> DEFINE a == Aged(s)
           d == Dead(s)
           x == Dead(a)
<1>1. /\ d \in 0..Len(s) /\ Live(s) = From(s, d)
      /\ \A k \in 1..Len(s) : s[k].age > Ttl <=> k <= d
  BY DeadFacts
<1>2. /\ a \in Seq(Entries) /\ Len(a) = Len(s) /\ Sorted(a) /\ Len(s) \in Nat
      /\ \A k \in 1..Len(s) :
           a[k].age = IF s[k].age > Ttl THEN s[k].age ELSE s[k].age + 1
  BY AgedFacts
<1>3. Aged(Live(s)) = From(a, d)
  BY <1>1, AgedFrom
<1> HIDE DEF a
<1>4. /\ x \in 0..Len(s) /\ Live(a) = From(a, x)
      /\ \A k \in 1..Len(s) : a[k].age > Ttl <=> k <= x
  BY <1>2, DeadFacts
<1>5. Live(From(a, d)) = From(a, IF x <= d THEN d ELSE x)
  BY <1>1, <1>2, LiveFrom
<1> HIDE DEF d, x
<1>6. d <= x
  <2>1. CASE d = 0
    BY <1>4, <2>1
  <2>2. CASE d # 0
    <3>1. d \in 1..Len(s) /\ d <= d
      BY <1>1, <1>2, <2>2
    <3>2. a[d].age > Ttl
      BY <1>1, <1>2, <3>1
    <3> QED
      BY <1>4, <3>1, <3>2
  <2> QED
    BY <2>1, <2>2
<1>7. (IF x <= d THEN d ELSE x) = x
  BY <1>1, <1>4, <1>6
<1> QED
  BY <1>3, <1>4, <1>5, <1>7 DEF a

LEMMA AgedRemembered ==
  ASSUME NEW s \in Seq(Entries), Sorted(s), NEW j \in Seq(Entries), Sorted(j),
         Live(s) = Kept(j)
  PROVE  /\ Live(Aged(s)) = Kept(Live(Aged(j)))
         /\ Live(Aged(s)) = Live(Aged(Kept(j)))
<1> DEFINE a == Aged(j)
           k == Evicted(j)
           d == Dead(a)
<1>1. Live(Aged(s)) = Live(Aged(Kept(j)))
  BY AgedLive
<1>2. a \in Seq(Entries) /\ Len(a) = Len(j) /\ Sorted(a)
  BY AgedFacts
<1>3. k \in 0..Len(j) /\ Kept(j) = From(j, k)
  BY EvictedFacts DEF Kept
<1>4. Aged(Kept(j)) = From(a, k)
  BY <1>3, AgedFrom
<1>5. Evicted(a) = k
  BY AgedKept
<1> HIDE DEF a
<1>6. d \in 0..Len(a) /\ Live(a) = From(a, d)
  BY <1>2, DeadFacts
<1>7. Live(From(a, k)) = From(a, IF d <= k THEN k ELSE d)
  BY <1>2, <1>3, LiveFrom
<1>8. Kept(From(a, d)) = From(a, IF k <= d THEN d ELSE k)
  BY <1>2, <1>5, <1>6, KeptFrom
<1>9. (IF d <= k THEN k ELSE d) = (IF k <= d THEN d ELSE k)
  BY <1>2, <1>3, <1>6
<1> QED
  BY <1>1, <1>4, <1>6, <1>7, <1>8, <1>9 DEF a

\* Saving a result whose identifier the cache does not hold.
LEMMA SaveIs ==
  ASSUME NEW s \in Seq(Entries), Sorted(s), NEW e \in Entries,
         \A k \in DOMAIN Live(s) : Live(s)[k].id # e.id
  PROVE  Save(Whole(s), e) = Whole(Kept(Append(Live(s), e)))
<1> DEFINE t == Live(s)
           old == Expire(Whole(s))
           previous == {k \in DOMAIN old.entries : old.entries[k].id = e.id}
<1>1. t \in Seq(Entries)
  BY LiveFacts
<1>2. old = Whole(t)
  BY ExpireIs
<1>3. old.entries = t /\ old.byte_count = Bytes(t)
  BY <1>2 DEF Whole
<1>4. previous = {}
  BY <1>3
<1>5. Append(t, e) \in Seq(Entries) /\ Bytes(Append(t, e)) = Bytes(t) + e.bytes
  BY <1>1, BytesAppend
<1>6. Save(Whole(s), e) = Shrink([entries |-> Append(old.entries, e),
                                  byte_count |-> old.byte_count + e.bytes])
  <2> HIDE DEF old
  <2> QED
    BY <1>4 DEF Save, old
<1>7. Save(Whole(s), e) = Shrink(Whole(Append(t, e)))
  <2> HIDE DEF old, t
  <2> QED
    BY <1>3, <1>5, <1>6 DEF Whole
<1> QED
  BY <1>5, <1>7, ShrinkIs

-----------------------------------------------------------------------------
(* What is remembered. *)

\* The cache accounts for its entries; the journal is what a cache without
\* limits would hold; and the two agree about what is neither too old nor had
\* to make room.
CacheInv ==
  /\ cache.entries \in Seq(Entries) /\ cache = Whole(cache.entries)
  /\ Sorted(cache.entries) /\ Distinct(cache.entries) /\ Fits(cache.entries)

JournalInv ==
  /\ journal \in Seq(Entries) /\ Sorted(journal) /\ Young(journal)
  /\ Len(journal) <= Size + 1

Agreed == Live(cache.entries) = Kept(journal)

Unsaved ==
  cmd # NONE /\ Versioned(cmd) =>
    \A k \in DOMAIN Kept(journal) : Kept(journal)[k].id # cmd.id

MemoryInv == CacheInv /\ JournalInv /\ Agreed /\ Unsaved

LEMMA MemoryInit == Init => MemoryInv
<1> SUFFICES ASSUME Init PROVE MemoryInv
  OBVIOUS
<1>1. <<>> \in Seq(Entries) /\ Len(<<>>) = 0 /\ DOMAIN <<>> = {}
  OBVIOUS
<1>2. Sorted(<<>>) /\ Distinct(<<>>) /\ Young(<<>>)
  BY <1>1 DEF Sorted, Distinct, Young
<1>3. Fits(<<>>)
  BY BytesEmpty, CacheAssumption DEF Fits
<1>4. Whole(<<>>) = EmptyCache /\ EmptyCache.entries = <<>>
  BY BytesEmpty DEF Whole, EmptyCache
<1>5. CacheInv /\ JournalInv
  BY <1>1, <1>2, <1>3, <1>4, CacheAssumption DEF Init, CacheInv, JournalInv
<1>6. Live(<<>>) = <<>>
  BY <1>1, <1>2, LiveFacts
<1>7. Kept(<<>>) = <<>>
  <2>1. Evicted(<<>>) \in 0..0
    BY <1>1, EvictedFacts
  <2>2. From(<<>>, 0) = <<>>
    BY <1>1, FromTail
  <2> QED
    BY <2>1, <2>2 DEF Kept
<1>8. Agreed /\ Unsaved
  BY <1>4, <1>6, <1>7 DEF Init, Agreed, Unsaved
<1> QED
  BY <1>5, <1>8 DEF MemoryInv

LEMMA MemoryUnchanged ==
  ASSUME MemoryInv, UNCHANGED <<cache, journal>>, cmd' = cmd \/ cmd' = NONE
  PROVE  MemoryInv'
BY DEF MemoryInv, CacheInv, JournalInv, Agreed, Unsaved, Versioned

LEMMA MemoryExpire ==
  ASSUME MemoryInv
  PROVE  /\ Expire(cache).entries = Kept(journal)
         /\ cache' = Expire(cache) => CacheInv' /\ (journal' = journal => Agreed')
<1> DEFINE s == cache.entries
           t == Live(s)
<1>1. s \in Seq(Entries) /\ cache = Whole(s) /\ Sorted(s) /\ Distinct(s) /\ Fits(s)
      /\ t = Kept(journal)
  BY DEF MemoryInv, CacheInv, Agreed
<1>2. t \in Seq(Entries) /\ Sorted(t) /\ Distinct(t) /\ Fits(t) /\ Young(t)
  BY <1>1, LiveFacts
<1>3. Expire(cache) = Whole(t)
  <2> HIDE DEF s, t
  <2>1. Expire(Whole(s)) = Whole(Live(s))
    BY <1>1, ExpireIs
  <2> QED
    BY <1>1, <2>1 DEF t
<1> HIDE DEF t
<1>4. Whole(t).entries = t
  BY DEF Whole
<1>5. Live(t) = t
  BY <1>2, LiveFacts
<1>6. ASSUME cache' = Expire(cache) PROVE CacheInv' /\ (journal' = journal => Agreed')
  <2>1. cache' = Whole(t) /\ cache'.entries = t
    BY <1>3, <1>4, <1>6
  <2>2. CacheInv'
    BY <1>2, <2>1 DEF CacheInv
  <2>3. journal' = journal => Agreed'
    BY <1>1, <1>5, <2>1 DEF Agreed
  <2> QED
    BY <2>2, <2>3
<1> QED
  BY <1>1, <1>3, <1>4, <1>6

LEMMA MemoryKnown ==
  ASSUME MemoryInv, NEW r \in Requests, AnswerKnown(r) \/ RejectExpired(r)
  PROVE  MemoryInv'
<1>1. cache' = Expire(cache) /\ UNCHANGED <<cmd, journal>>
  BY DEF AnswerKnown, RejectExpired
<1>2. CacheInv' /\ Agreed'
  BY <1>1, MemoryExpire
<1> QED
  BY <1>1, <1>2 DEF MemoryInv, JournalInv, Unsaved, Versioned

LEMMA MemoryAccept ==
  ASSUME MemoryInv, NEW r \in Requests, Accept(r)
  PROVE  MemoryInv'
<1>1. cache' = (IF Versioned(r) THEN Expire(cache) ELSE cache)
      /\ cmd' = r /\ journal' = journal /\ IsNew(r)
  BY DEF Accept
<1>2. CacheInv' /\ Agreed'
  <2>1. CASE Versioned(r)
    BY <1>1, <2>1, MemoryExpire
  <2>2. CASE ~Versioned(r)
    BY <1>1, <2>2 DEF MemoryInv, CacheInv, Agreed
  <2> QED
    BY <2>1, <2>2
<1>3. Versioned(r) => \A k \in DOMAIN Kept(journal) : Kept(journal)[k].id # r.id
  <2>1. Expire(cache).entries = Kept(journal)
    BY MemoryExpire
  <2> QED
    BY <1>1, <2>1 DEF IsNew, Found, Range
<1> QED
  BY <1>1, <1>2, <1>3 DEF MemoryInv, JournalInv, Unsaved, Versioned

LEMMA MemoryTick ==
  ASSUME MemoryInv, Tick
  PROVE  MemoryInv'
<1> DEFINE s == cache.entries
           j == journal
<1>1. /\ s \in Seq(Entries) /\ cache = Whole(s) /\ Sorted(s) /\ Distinct(s) /\ Fits(s)
      /\ j \in Seq(Entries) /\ Sorted(j) /\ Len(j) <= Size + 1
      /\ Live(s) = Kept(j)
  BY DEF MemoryInv, CacheInv, JournalInv, Agreed
<1>2. cache' = [cache EXCEPT !.entries = Aged(@)] /\ journal' = Live(Aged(j)) /\ cmd' = cmd
  BY DEF Tick
<1>3. /\ Aged(s) \in Seq(Entries) /\ Bytes(Aged(s)) = Bytes(s) /\ Len(Aged(s)) = Len(s)
      /\ Sorted(Aged(s)) /\ Distinct(Aged(s))
  BY <1>1, AgedFacts
<1>4. cache' = Whole(Aged(s)) /\ cache'.entries = Aged(s)
  <2> HIDE DEF s
  <2> QED
    BY <1>1, <1>2, <1>3 DEF Whole, s
<1>5. CacheInv'
  BY <1>1, <1>3, <1>4 DEF CacheInv, Fits
<1>6. /\ Aged(j) \in Seq(Entries) /\ Sorted(Aged(j)) /\ Len(Aged(j)) = Len(j)
  BY <1>1, AgedFacts
<1>7. JournalInv'
  <2> DEFINE a == Aged(j)
             l == Live(a)
  <2>1. a \in Seq(Entries) /\ Sorted(a) /\ Len(a) <= Size + 1
    BY <1>1, <1>6
  <2> HIDE DEF a
  <2>2. l \in Seq(Entries) /\ Sorted(l) /\ Young(l) /\ Len(l) <= Len(a)
    BY <2>1, LiveFacts
  <2>3. Len(l) \in Nat /\ Len(a) \in Nat
    BY <2>1, <2>2
  <2> HIDE DEF l
  <2>4. journal' = l
    BY <1>2 DEF l, a
  <2> QED
    BY <2>1, <2>2, <2>3, <2>4, CacheAssumption DEF JournalInv
<1>8. Live(Aged(s)) = Kept(Live(Aged(j))) /\ Live(Aged(s)) = Live(Aged(Kept(j)))
  BY <1>1, AgedRemembered
<1>9. Agreed'
  BY <1>2, <1>4, <1>8 DEF Agreed
<1>10. Unsaved'
  <2> DEFINE t == Kept(j)
             a == Aged(t)
             l == Live(a)
  <2>1. t \in Seq(Entries) /\ Sorted(t)
    BY <1>1, LiveFacts
  <2> HIDE DEF t
  <2>2. /\ a \in Seq(Entries) /\ Sorted(a) /\ Len(a) = Len(t)
        /\ \A k \in 1..Len(t) : a[k].id = t[k].id
    BY <2>1, AgedFacts
  <2> HIDE DEF a
  <2>3. Dead(a) \in 0..Len(a) /\ l = From(a, Dead(a))
    BY <2>2, DeadFacts
  <2>4. \A i \in DOMAIN l : \E k \in DOMAIN a : l[i] = a[k]
    BY <2>2, <2>3, FromKeeps
  <2>5. \A i \in DOMAIN l : \E k \in DOMAIN t : l[i].id = t[k].id
    <3>1. DOMAIN a = 1..Len(t) /\ DOMAIN t = 1..Len(t)
      BY <2>1, <2>2
    <3> QED
      BY <2>2, <2>4, <3>1
  <2> HIDE DEF l
  <2>6. Kept(journal') = l
    BY <1>2, <1>8 DEF l, a, t
  <2>7. cmd # NONE /\ Versioned(cmd) => \A k \in DOMAIN t : t[k].id # cmd.id
    BY DEF MemoryInv, Unsaved, t
  <2> QED
    BY <1>2, <2>5, <2>6, <2>7 DEF Unsaved, Versioned
<1> QED
  BY <1>5, <1>7, <1>9, <1>10 DEF MemoryInv

\* Without its first entry, a journal too long for the cache says the same.
LEMMA KeptNoted ==
  ASSUME NEW s \in Seq(Entries), Len(s) > Size
  PROVE  Kept(Tail(s)) = Kept(s)
<1>1. Len(s) \in Nat /\ Size \in Nat
  BY CacheAssumption
<1>2. 0 \in 0..Len(s) /\ 1 \in 0..Len(s) /\ 0 < Len(s)
  BY <1>1
<1>3. From(s, 0) = s /\ From(s, 1) = Tail(s)
  BY <1>2, FromTail
<1>4. ~Fits(From(s, 0))
  BY <1>1, <1>3 DEF Fits
<1>5. Evicted(s) \in 0..Len(s) /\ ~(Evicted(s) <= 0)
  BY <1>2, <1>4, EvictedFacts
<1>6. (IF Evicted(s) <= 1 THEN 1 ELSE Evicted(s)) = Evicted(s)
  BY <1>1, <1>5
<1> QED
  BY <1>2, <1>3, <1>6, KeptFrom DEF Kept

LEMMA MemoryAnswer ==
  ASSUME MemoryInv, CommandInv, Answer
  PROVE  MemoryInv'
<1>1. cmd' = NONE /\ cmd \in Requests /\ cmd # NONE
  BY DEF Answer, CommandInv, FlagType
<1>2. CASE ~Versioned(cmd)
  <2>1. UNCHANGED <<cache, journal>>
    BY <1>2 DEF Answer
  <2> QED
    BY <1>1, <2>1, MemoryUnchanged
<1>3. CASE Versioned(cmd)
  <2> DEFINE s == cache.entries
             j == journal
             e == Entry(cmd)
             t == Live(s)
             b == Append(t, e)
             a == Append(j, e)
  <2>1. /\ s \in Seq(Entries) /\ cache = Whole(s) /\ Sorted(s) /\ Distinct(s) /\ Fits(s)
        /\ j \in Seq(Entries) /\ Sorted(j) /\ Young(j) /\ Len(j) <= Size + 1
        /\ t = Kept(j)
    BY DEF MemoryInv, CacheInv, JournalInv, Agreed
  <2>2. e \in Entries /\ e.id = cmd.id /\ e.age = 0
    <3>1. cmd.names \in Seq(Range(cmd.names))
      BY <1>1, RequestAssumption
    <3>2. Len(cmd.names) \in Nat
      BY <3>1
    <3> QED
      BY <1>1, <3>2, CacheAssumption DEF Entry, Entries
  <2>3. \A k \in DOMAIN t : t[k].id # e.id
    BY <1>1, <1>3, <2>1, <2>2 DEF MemoryInv, Unsaved
  <2>4. cache' = Save(cache, e) /\ journal' = Noted(e)
    BY <1>3 DEF Answer
  <2> HIDE DEF e
  <2>5. cache' = Whole(Kept(b))
    <3> HIDE DEF s
    <3>1. Save(Whole(s), e) = Whole(Kept(b))
      BY <2>1, <2>2, <2>3, SaveIs
    <3> QED
      BY <2>1, <2>4, <3>1
  <2>6. t \in Seq(Entries) /\ Sorted(t) /\ Distinct(t) /\ Young(t)
    BY <2>1, LiveFacts
  <2>7. Kept(b) = Kept(a)
    BY <2>1, <2>2, KeptAppend
  <2> HIDE DEF s, j, t
  <2>8. /\ b \in Seq(Entries) /\ Sorted(b) /\ Distinct(b) /\ Young(b)
    BY <2>2, <2>3, <2>6, AppendKeeps
  <2>9. /\ a \in Seq(Entries) /\ Sorted(a) /\ Young(a)
    BY <2>1, <2>2, AppendKeeps
  <2> HIDE DEF b
  <2>10. /\ Kept(b) \in Seq(Entries) /\ Sorted(Kept(b)) /\ Distinct(Kept(b))
         /\ Young(Kept(b)) /\ Fits(Kept(b))
    <3>1. Evicted(b) \in 0..Len(b) /\ Fits(Kept(b))
      BY <2>8, EvictedFacts
    <3> QED
      BY <2>8, <3>1, FromKeeps DEF Kept
  <2>11. cache'.entries = Kept(b)
    BY <2>5 DEF Whole
  <2>12. CacheInv'
    BY <2>5, <2>10, <2>11 DEF CacheInv
  <2>13. Live(cache'.entries) = Kept(b)
    BY <2>10, <2>11, LiveFacts
  <2>14. Len(a) = Len(j) + 1 /\ Len(j) \in Nat
    BY <2>1
  <2>15. journal' = IF Len(a) > Size + 1 THEN Tail(a) ELSE a
    BY <2>4 DEF Noted, a, j
  <2> HIDE DEF a
  <2>16. JournalInv' /\ Kept(journal') = Kept(a)
    <3>1. CASE Len(a) > Size + 1
      <4>1. Len(a) > Size /\ 0 < Len(a) /\ 0 \in 0..Len(a) /\ 1 \in 0..Len(a)
        BY <2>14, <3>1, CacheAssumption
      <4>2. Tail(a) = From(a, 1)
        BY <2>9, <4>1, FromTail
      <4>3. Tail(a) \in Seq(Entries) /\ Sorted(Tail(a)) /\ Young(Tail(a))
        BY <2>9, <4>1, <4>2, FromKeeps
      <4>4. Len(Tail(a)) <= Size + 1
        BY <2>1, <2>9, <2>14, <4>1, CacheAssumption
      <4>5. Kept(Tail(a)) = Kept(a)
        BY <2>9, <4>1, KeptNoted
      <4> QED
        BY <2>15, <3>1, <4>3, <4>4, <4>5 DEF JournalInv
    <3>2. CASE ~(Len(a) > Size + 1)
      BY <2>9, <2>14, <2>15, <3>2, CacheAssumption DEF JournalInv
    <3> QED
      BY <3>1, <3>2
  <2>17. Agreed'
    BY <2>7, <2>13, <2>16 DEF Agreed
  <2>18. Unsaved'
    BY <1>1 DEF Unsaved
  <2> QED
    BY <2>12, <2>16, <2>17, <2>18 DEF MemoryInv
<1> QED
  BY <1>2, <1>3

LEMMA MemoryStep == MemoryInv /\ CommandInv /\ [Next]_vars => MemoryInv'
<1> SUFFICES ASSUME MemoryInv, CommandInv, [Next]_vars PROVE MemoryInv'
  OBVIOUS
<1>1. CASE \/ Refuse \/ Unavailable \/ BeginGet \/ GetReturns \/ GetRaises
           \/ BeginWrites \/ CheckWrite \/ FinishWrites \/ WriteAnswered \/ WriteRaises \/ CommandExpires \/ Stop \/ UNCHANGED vars
  <2>1. UNCHANGED <<cache, journal>> /\ cmd' = cmd
    BY <1>1 DEF Refuse, Unavailable, BeginGet, GetReturns, GetRaises, BeginWrites,
       CheckWrite, FinishWrites, WriteAnswered, WriteRaises, CommandExpires, Stop, vars
  <2> QED
    BY <2>1, MemoryUnchanged
<1> QED
  BY <1>1, MemoryKnown, MemoryAccept, MemoryTick, MemoryAnswer DEF Next

LEMMA MemoryAlways == Spec => [](CommandInv /\ MemoryInv)
<1>1. Init => CommandInv /\ MemoryInv
  BY CommandInit, MemoryInit
<1>2. (CommandInv /\ MemoryInv) /\ [Next]_vars => (CommandInv /\ MemoryInv)'
  BY CommandStep, MemoryStep
<1> QED
  BY <1>1, <1>2, PTL DEF Spec

LEMMA MemoryFacts ==
  CommandInv /\ MemoryInv => TypeOK /\ CacheRemembersLatest /\ NoReplayWhileRemembered
<1> SUFFICES ASSUME CommandInv, MemoryInv
             PROVE  TypeOK /\ CacheRemembersLatest /\ NoReplayWhileRemembered
  OBVIOUS
<1>1. CacheRemembersLatest
  BY RememberedIs DEF MemoryInv, Agreed, CacheRemembersLatest
<1>2. NoReplayWhileRemembered
  BY RememberedIs DEF MemoryInv, Unsaved, NoReplayWhileRemembered
<1> DEFINE s == cache.entries
<1>3. /\ s \in Seq(Entries) /\ cache = Whole(s) /\ Sorted(s) /\ Distinct(s) /\ Fits(s)
      /\ Len(journal) <= Size + 1
  BY DEF MemoryInv, CacheInv, JournalInv
<1>4. cache.byte_count = Bytes(s)
  <2> HIDE DEF s
  <2> QED
    BY <1>3 DEF Whole
<1>5. Bytes(s) \in Nat
  BY <1>3, BytesType
<1>6. CacheAccounted
  BY <1>3, <1>4 DEF CacheAccounted, Fits, Sorted, Distinct
<1>7. \A e \in Range(s) : e.age \in 0..(Ttl + 1) /\ e.bytes \in Nat
  <2> HIDE DEF s
  <2> QED
    BY <1>3, EntryFacts DEF Range
<1>8. CountersBalance
  BY DEF CommandInv, FlagType, Writing, CountersBalance
<1>9. Range(todo) \subseteq Valid
  BY DEF CommandInv, TodoInv, Range
<1>10. /\ read_only \in BOOLEAN /\ expired \in BOOLEAN /\ stopping \in BOOLEAN
       /\ pc \in {"idle", "execute", "read", "check", "write", "respond"}
       /\ cmd \in Requests \cup {NONE}
  BY DEF CommandInv, FlagType
<1>11. open \in 0..1 /\ late \in Nat
  BY DEF CommandInv, FlagType, LateInv
<1>12. applied \subseteq issued /\ issued \subseteq Valid
       /\ \A n \in DOMAIN results : results[n] \in Outcomes
  BY DEF CommandInv, IssuedInv, ResultsInv
<1>13. TypeOK
  BY <1>3, <1>4, <1>5, <1>6, <1>7, <1>8, <1>9, <1>10, <1>11, <1>12 DEF TypeOK
<1> QED
  BY <1>1, <1>2, <1>13

\* Types, the byte count and limits of the cache, the order and the distinct
\* identifiers of its entries, and the balance of the command counters.
THEOREM TypeCorrect == Spec => []TypeOK
BY MemoryAlways, MemoryFacts, PTL

\* Whatever was saved, replaced, evicted or expired, the cache holds the latest
\* unexpired results that fit, and no fewer (RequestCache.save, _expire).
THEOREM RemembersLatest == Spec => []CacheRemembersLatest
BY MemoryAlways, MemoryFacts, PTL

\* No request is executed while its result is recent and had no reason to be
\* evicted (lookup and save in _handle_command).
THEOREM NoReplay == Spec => []NoReplayWhileRemembered
BY MemoryAlways, MemoryFacts, PTL
=============================================================================
