--------------------------- MODULE CommandDispatch ---------------------------
(***************************************************************************)
(* Executing a received command: _handle_command (modpoll/main.py) with    *)
(* its RequestCache, ModbusHandler.write_references and read_references    *)
(* (modpoll/modbus_task.py), for one device.  Brokers redeliver and        *)
(* publishers retry, so any request may arrive any number of times; while  *)
(* one is executed, time passes, the command expires, the operator stops   *)
(* the gateway, and every bus request may succeed, be refused by the       *)
(* device, or fail with its effect unknown.                                *)
(***************************************************************************)
EXTENDS RequestCache

CONSTANTS
  NONE,       \* Python's None
  Requests,   \* what clients send: [id, op, names]; a legacy one has no id
  Known,      \* references of the device
  Valid,      \* of these, those validate_write accepts with the value sent
  Conflicts   \* pairs of references that overlap on the bus

ASSUME RequestAssumption ==
  /\ NONE \notin Requests
  /\ \A r \in Requests :
       /\ r.op \in {"set", "get"} /\ r.names # <<>>
       /\ r.names \in Seq(Range(r.names)) /\ IsInjective(r.names)
  /\ Valid \subseteq Known
  /\ \A c \in Conflicts : \E m, n \in Known : m # n /\ c = {m, n}

VARIABLES
  read_only,   \* --read-only, fixed at the start
  cache,       \* RequestCache
  pc,          \* where _handle_command is
  cmd,         \* the request being handled
  expired,     \* its expires_at has passed
  stopping,    \* on_threading_event()
  results,     \* reference -> outcome reported to the client
  todo,        \* validated references still to write
  open,        \* setCount - setSuccess - setErrors, likewise for get
  issued,      \* history: references whose write request was sent
  applied,     \* history: references the device has written
  late,        \* history: writes sent after expiry or stop
  journal      \* history: results saved less than Ttl ago, oldest first

busVars == <<results, todo, open, issued, applied, late>>
vars == <<read_only, cache, pc, cmd, expired, stopping, busVars, journal>>

Names(r) == Range(r.names)
Versioned(r) == r.id # NONE
All(r, outcome) == [n \in Names(r) |-> outcome]
Outcomes == {"rejected", "not_attempted", "confirmed", "failed", "unknown"}

Init ==
  /\ read_only \in BOOLEAN
  /\ cache = EmptyCache
  /\ pc = "idle" /\ cmd = NONE /\ expired = FALSE /\ stopping = FALSE
  /\ results = <<>> /\ todo = <<>> /\ open = 0
  /\ issued = {} /\ applied = {} /\ late = 0
  /\ journal = <<>>

-----------------------------------------------------------------------------
(* Arrival: identical requests are answered from the cache. *)

\* A request whose identifier is remembered is not executed: it is answered
\* with the saved response or, with another payload, rejected.
AnswerKnown(r) ==
  /\ pc = "idle" /\ ~stopping
  /\ Versioned(r) /\ Found(cache, r.id) # {}
  /\ cache' = Expire(cache)
  /\ UNCHANGED <<read_only, pc, cmd, expired, stopping, busVars, journal>>

\* parse_command rejects a versioned request that expired on its way.
RejectExpired(r) ==
  /\ pc = "idle" /\ ~stopping
  /\ Versioned(r) /\ Found(cache, r.id) = {}
  /\ cache' = Expire(cache)
  /\ UNCHANGED <<read_only, pc, cmd, expired, stopping, busVars, journal>>

\* Mistake: only the last saved request is compared with a new one.
IsNewSinceLast(r) ==
  IF cache.entries = <<>> THEN TRUE ELSE Last(cache.entries).id # r.id

\* Not a request whose result is remembered.
IsNew(r) == Versioned(r) => Found(cache, r.id) = {}

Accept(r) ==
  /\ pc = "idle" /\ ~stopping
  /\ IsNew(r)
  /\ cache' = IF Versioned(r) THEN Expire(cache) ELSE cache
  /\ pc' = "execute" /\ cmd' = r /\ expired' = FALSE
  /\ issued' = {} /\ applied' = {} /\ late' = 0
  /\ UNCHANGED <<read_only, stopping, results, todo, open, journal>>

-----------------------------------------------------------------------------
(* Execution. *)

Respond == pc' = "respond"

\* A set is refused whole: read-only, or a versioned one naming a reference
\* the device does not have.
Refusable ==
  cmd.op = "set" /\ (read_only \/ (Versioned(cmd) /\ ~(Names(cmd) \subseteq Known)))

Refuse ==
  /\ pc = "execute" /\ Refusable
  /\ results' = All(cmd, "rejected")
  /\ Respond
  /\ UNCHANGED <<read_only, cache, cmd, expired, stopping, todo, open, issued,
                 applied, late, journal>>

\* Mistake: a command that did not start is counted like one that failed.
CountFailureAsStarted(callback_started) == open' = open - 1

\* record_{get,set}_transport_failure counts the error of a command that is
\* counted, record_{get,set}_unavailable a command and its error.
CountFailure(callback_started) ==
  open' = IF callback_started THEN open - 1 ELSE open

\* The connection manager does not call back.
Unavailable ==
  /\ pc = "execute" /\ ~Refusable
  /\ results' = All(cmd, IF cmd.op = "set" THEN "not_attempted" ELSE "failed")
  /\ CountFailure(FALSE)
  /\ Respond
  /\ UNCHANGED <<read_only, cache, cmd, expired, stopping, todo, issued, applied,
                 late, journal>>

\* read_references counts the command and starts to read.
BeginGet ==
  /\ pc = "execute" /\ cmd.op = "get"
  /\ pc' = "read" /\ open' = open + 1
  /\ UNCHANGED <<read_only, cache, cmd, expired, stopping, results, todo, issued,
                 applied, late, journal>>

\* Known references are read independently; it counts a success or an error.
GetReturns ==
  /\ pc = "read"
  /\ results' \in {f \in [Names(cmd) -> {"confirmed", "failed"}] :
                     \A n \in Names(cmd) \ Known : f[n] = "failed"}
  /\ open' = open - 1
  /\ Respond
  /\ UNCHANGED <<read_only, cache, cmd, expired, stopping, todo, issued, applied,
                 late, journal>>

\* A transport failure fails them all.
GetRaises ==
  /\ pc = "read"
  /\ results' = All(cmd, "failed")
  /\ CountFailure(TRUE)
  /\ Respond
  /\ UNCHANGED <<read_only, cache, cmd, expired, stopping, todo, issued, applied,
                 late, journal>>

\* Mistake: references are validated one by one, as they are written.
AcceptedUnchecked(names) == SelectSeq(names, LAMBDA n : n \in Known)

\* The list of writes: in order, the known references that are valid and do
\* not overlap one accepted before.
Accepted(names) ==
  LET writes[k \in 0..Len(names)] ==
        IF k = 0 THEN <<>>
        ELSE IF /\ names[k] \in Valid
                /\ \A m \in Range(writes[k - 1]) : {m, names[k]} \notin Conflicts
             THEN Append(writes[k - 1], names[k])
             ELSE writes[k - 1]
  IN writes[Len(names)]

\* write_references up to its first write: known references, then validation
\* of all of them; unless all are accepted nothing is written.
BeginWrites ==
  /\ pc = "execute" /\ cmd.op = "set" /\ ~Refusable
  /\ LET known == Names(cmd) \cap Known
         writes == Accepted(cmd.names)
         accepted == Range(writes)
     IN /\ results' = [n \in Names(cmd) |->
                         IF n \in accepted THEN "not_attempted" ELSE "rejected"]
        /\ IF known # {} /\ known \subseteq accepted
           THEN /\ todo' = writes
                /\ open' = open + 1 /\ pc' = "check"
           ELSE UNCHANGED <<todo, open>> /\ Respond   \* setCount and setErrors
  /\ UNCHANGED <<read_only, cache, cmd, expired, stopping, issued, applied,
                 late, journal>>

\* Mistake: expiry is checked when the command arrives only.
MustStopOnShutdown == stopping

\* What is checked before each write: shutdown, expiry of a versioned command.
MustStop == stopping \/ (Versioned(cmd) /\ expired)

CheckWrite ==
  /\ pc = "check" /\ todo # <<>> /\ ~MustStop
  /\ pc' = "write"
  /\ UNCHANGED <<read_only, cache, cmd, expired, stopping, busVars, journal>>

\* The loop ends: success or error, counted once.
FinishWrites ==
  /\ pc = "check" /\ (todo = <<>> \/ MustStop)
  /\ todo' = <<>> /\ open' = open - 1
  /\ Respond
  /\ UNCHANGED <<read_only, cache, cmd, expired, stopping, results, issued,
                 applied, late, journal>>

Written(n, outcome) == results' = [results EXCEPT ![n] = outcome]

\* The write request of a reference goes out; with a read-modify-write, or a
\* slow connection, long after it was checked.
Issue(n) ==
  /\ issued' = issued \cup {n}
  /\ late' = IF stopping \/ (Versioned(cmd) /\ expired) THEN late + 1 ELSE late

\* write_validated returns: the device confirms, answers with an exception
\* (also to the read of a read-modify-write, before any write is sent).
WriteAnswered ==
  /\ pc = "write"
  /\ LET n == Head(todo) IN
     \/ Written(n, "confirmed") /\ Issue(n) /\ applied' = applied \cup {n}
     \/ Written(n, "failed") /\ Issue(n) /\ UNCHANGED applied
     \/ Written(n, "failed") /\ UNCHANGED <<issued, late, applied>>
  /\ todo' = Tail(todo) /\ pc' = "check"
  /\ UNCHANGED <<read_only, cache, cmd, expired, stopping, open, journal>>

\* Mistake: the reference being written keeps its outcome.
TransportFailureKeepsOutcome == UNCHANGED results

TransportFailure == Written(Head(todo), "unknown")

\* write_validated raises: the write may have reached the device.
WriteRaises ==
  /\ pc = "write"
  /\ TransportFailure
  /\ LET n == Head(todo) IN
     \/ Issue(n) /\ applied' \in {applied, applied \cup {n}}
     \/ UNCHANGED <<issued, late, applied>>
  /\ todo' = <<>> /\ CountFailure(TRUE)
  /\ Respond
  /\ UNCHANGED <<read_only, cache, cmd, expired, stopping, journal>>

Entry(r) == [id |-> r.id, bytes |-> Len(r.names), age |-> 0]

\* The journal needs no more than the entries a cache could hold, and one.
Noted(e) == LET s == Append(journal, e)
            IN IF Len(s) > Size + 1 THEN Tail(s) ELSE s

\* The response of a versioned command is saved, then published.
Answer ==
  /\ pc = "respond"
  /\ IF Versioned(cmd)
     THEN /\ cache' = Save(cache, Entry(cmd))
          /\ journal' = Noted(Entry(cmd))
     ELSE UNCHANGED <<cache, journal>>
  /\ pc' = "idle" /\ cmd' = NONE /\ expired' = FALSE
  /\ results' = <<>> /\ issued' = {} /\ applied' = {} /\ late' = 0
  /\ UNCHANGED <<read_only, stopping, todo, open>>

-----------------------------------------------------------------------------
(* What happens meanwhile. *)

Tick ==
  /\ journal # <<>>
  /\ cache' = [cache EXCEPT !.entries = Aged(@)]
  /\ journal' = Live(Aged(journal))
  /\ UNCHANGED <<read_only, pc, cmd, expired, stopping, busVars>>

CommandExpires ==
  /\ pc # "idle" /\ ~expired
  /\ expired' = TRUE
  /\ UNCHANGED <<read_only, cache, pc, cmd, stopping, busVars, journal>>

Stop ==
  /\ ~stopping
  /\ stopping' = TRUE
  /\ UNCHANGED <<read_only, cache, pc, cmd, expired, busVars, journal>>

Next ==
  \/ \E r \in Requests : AnswerKnown(r) \/ RejectExpired(r) \/ Accept(r)
  \/ Refuse \/ Unavailable \/ BeginGet \/ GetReturns \/ GetRaises
  \/ BeginWrites \/ CheckWrite \/ FinishWrites \/ WriteAnswered \/ WriteRaises
  \/ Answer
  \/ Tick \/ CommandExpires \/ Stop

Spec == Init /\ [][Next]_vars

-----------------------------------------------------------------------------
(* Properties. *)

\* The running byte count is what the entries occupy, both limits hold, the
\* oldest entry is first, and no identifier has two results, after any mix of
\* saves, evictions, expiry.
CacheAccounted ==
  /\ cache.byte_count = Bytes(cache.entries)
  /\ Len(cache.entries) <= Size /\ cache.byte_count <= MaxBytes
  /\ \A j, k \in DOMAIN cache.entries :
       /\ cache.entries[j].id = cache.entries[k].id => j = k
       /\ j < k => cache.entries[j].age >= cache.entries[k].age

\* Every command counted by a device is counted once more, as a success or an
\* error, whichever of the handlers of its failure counts it.
CountersBalance == pc \in {"idle", "execute", "respond"} => open = 0

\* Types, and the two accounts that several functions keep together.
TypeOK ==
  /\ read_only \in BOOLEAN /\ expired \in BOOLEAN /\ stopping \in BOOLEAN
  /\ \A e \in Range(cache.entries) : e.age \in 0..(Ttl + 1) /\ e.bytes \in Nat
  /\ cache.byte_count \in Int
  /\ pc \in {"idle", "execute", "read", "check", "write", "respond"}
  /\ cmd \in Requests \cup {NONE}
  /\ \A n \in DOMAIN results : results[n] \in Outcomes
  /\ Range(todo) \subseteq Valid
  /\ open \in 0..1
  /\ applied \subseteq issued /\ issued \subseteq Valid
  /\ late \in Nat
  /\ Len(journal) <= Size + 1
  /\ CacheAccounted /\ CountersBalance

\* The longest recent part of the journal that fits in a cache.
Remembered ==
  LET fitting == {k \in 0..Len(journal) :
                    LET s == SubSeq(journal, k + 1, Len(journal))
                    IN Len(s) <= Size /\ Bytes(s) <= MaxBytes}
      from == CHOOSE k \in fitting : \A m \in fitting : k <= m
  IN SubSeq(journal, from + 1, Len(journal))

\* Results are forgotten only for their age or to make room for later ones:
\* the cache holds the latest unexpired results that fit, and no fewer.
CacheRemembersLatest == Live(cache.entries) = Remembered

\* A redelivered or repeated request is not executed again while its result
\* is recent and had no reason to be evicted.
NoReplayWhileRemembered ==
  cmd # NONE /\ Versioned(cmd) =>
    \A k \in DOMAIN Remembered : Remembered[k].id # cmd.id

\* What the client is told about each reference agrees with the bus, also
\* when a command fails, expires or is stopped half-way: nothing was sent for
\* a reference rejected or not attempted, and a write that took effect is
\* confirmed or unknown.
ResultsAreTruthful ==
  pc = "respond" /\ cmd.op = "set" =>
    /\ DOMAIN results = Names(cmd)
    /\ \A n \in Names(cmd) :
         /\ results[n] \in {"rejected", "not_attempted"} => n \notin issued
         /\ results[n] = "confirmed" => n \in applied
         /\ n \in applied => results[n] \in {"confirmed", "unknown"}

\* Every known reference of a command is validated before any is written.
AllOrNothing ==
  issued # {} =>
    /\ ~read_only
    /\ Names(cmd) \cap Known \subseteq Valid
    /\ \A c \in Conflicts : ~(c \subseteq Names(cmd))

\* After its expiry or a shutdown, a command writes at most the reference it
\* had already checked.
LateWritesBounded == late <= 1
=============================================================================
