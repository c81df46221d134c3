------------------------------ MODULE PollCycle ------------------------------
(***************************************************************************)
(* The poll cycle: the poll part of the owner loop (modpoll/main.py),      *)
(* ModbusHandler.poll (modpoll/modbus_task.py) and Poller.poll             *)
(* (modpoll/modbus_models.py), on top of the connection manager, which is  *)
(* represented by the circuit breaker it implements (BusAccess).           *)
(*                                                                         *)
(* One handler stands for one configuration file.  A step of the model     *)
(* ends where the owner blocks: in a connect, in one poller's request.     *)
(***************************************************************************)
EXTENDS Integers, Sequences, FiniteSets, SequencesExt

CONSTANTS
  NONE,           \* Python's None
  Handlers,       \* <<pollers of the 1st handler, ...>>, each in poll order
  Devices,
  DeviceOf,       \* poller -> its device
  RefsOf,         \* poller -> its readable references
  RecoverChoices  \* values of --poller-recover-after, in ticks

Pollers == UNION {ToSet(Handlers[h]) : h \in DOMAIN Handlers}
Refs == UNION {RefsOf[p] : p \in Pollers}
HandlerRefs(h) == UNION {RefsOf[p] : p \in ToSet(Handlers[h])}
DeviceRefs(d) == UNION {RefsOf[p] : p \in {q \in Pollers : DeviceOf[q] = d}}
HandlerDevices(h) == {DeviceOf[p] : p \in ToSet(Handlers[h])}

ASSUME ConfigAssumption ==
  /\ Handlers \in Seq(Seq(Pollers))
  /\ DeviceOf \in [Pollers -> Devices]
  /\ \A p \in Pollers : RefsOf[p] # {}
  /\ RecoverChoices \subseteq Nat /\ NONE \notin Nat

\* What Configuration guarantees: a poller has one place, a reference one
\* poller, and a device one file.
ASSUME LayoutAssumption ==
  /\ \A f, g \in DOMAIN Handlers :
       \A j \in DOMAIN Handlers[f], k \in DOMAIN Handlers[g] :
         Handlers[f][j] = Handlers[g][k] => f = g /\ j = k
  /\ \A p, q \in Pollers : RefsOf[p] \cap RefsOf[q] # {} => p = q
  /\ \A f, g \in DOMAIN Handlers :
       HandlerDevices(f) \cap HandlerDevices(g) # {} => f = g

FailuresToDisable == 3

VARIABLES
  autoremove, recover_after,  \* the configuration, fixed at the start
  access,                     \* the connection manager, as a circuit breaker
  link,                       \* TRUE while a connect attempt would succeed
  stop,                       \* the threading event
  phase,                      \* where the owner is in the cycle
  h,                          \* the handler it is at
  i,                          \* the index of the poller it is at
  attempted, all_success,     \* locals of ModbusHandler.poll
  failed,                     \* app(): some poll failed so far
  val,                        \* reference -> its value, by its age
  pollSuccess,                \* device -> Device.pollSuccess
  failcounter, disabled,      \* poller -> ...
  retry_left,                 \* poller -> ticks until retry_at, or NONE
  streak                      \* history: failed attempts in a row, up to 3

config == <<autoremove, recover_after>>
pollerVars == <<failcounter, disabled, retry_left, streak>>
vars == <<config, access, link, stop, phase, h, i, attempted, all_success,
          failed, val, pollSuccess, pollerVars>>

Bus == INSTANCE BusAccess WITH access <- access

Phases == {"idle", "handlers", "polling", "publish", "stopped"}
\* A value read in this cycle, one left over from an earlier cycle, or none.
Values == {"fresh", "stale", "none"}

AtMost3(n) == IF n < FailuresToDisable THEN n ELSE FailuresToDisable

Init ==
  /\ autoremove \in BOOLEAN
  /\ recover_after \in RecoverChoices
  /\ access = "free" /\ link = TRUE /\ stop = FALSE
  /\ phase = "idle" /\ h = 1 /\ i = 1
  /\ attempted = FALSE /\ all_success = TRUE /\ failed = FALSE
  /\ val = [r \in Refs |-> "none"]
  /\ pollSuccess = [d \in Devices |-> FALSE]
  /\ failcounter = [p \in Pollers |-> 0]
  /\ disabled = [p \in Pollers |-> FALSE]
  /\ retry_left = [p \in Pollers |-> NONE]
  /\ streak = [p \in Pollers |-> 0]

-----------------------------------------------------------------------------
(* What the operations are made of. *)

\* What a value read in the last cycle is called in this one.
Aged == [r \in Refs |-> IF val[r] = "none" THEN "none" ELSE "stale"]

\* Mistake: only poll() itself invalidates, and a refused handler never gets
\* there.
InvalidateOnEntryOnly ==
  /\ val' = Aged
  /\ UNCHANGED pollSuccess

\* app(): begin_poll_cycle of every handler, before the first one is polled.
InvalidateAll ==
  /\ val' = [r \in Refs |-> IF \E g \in DOMAIN Handlers : r \in HandlerRefs(g)
                            THEN "none" ELSE Aged[r]]
  /\ pollSuccess' =
       [d \in Devices |-> /\ \A g \in DOMAIN Handlers : d \notin HandlerDevices(g)
                          /\ pollSuccess[d]]

\* ModbusHandler.begin_poll_cycle, as poll() calls it on entry.
InvalidateHandler ==
  /\ val' = [r \in Refs |-> IF r \in HandlerRefs(h) THEN "none" ELSE val[r]]
  /\ pollSuccess' =
       [d \in Devices |-> d \notin HandlerDevices(h) /\ pollSuccess[d]]

\* Mistake: a success does not start the count of failures over.
UpdatePollerKeepsCount(p, success) ==
  LET before == IF disabled[p] THEN 0 ELSE failcounter[p]
      after == IF success THEN before ELSE AtMost3(before + 1)
      disable == autoremove /\ after >= FailuresToDisable
  IN /\ failcounter' = [failcounter EXCEPT ![p] = after]
     /\ disabled' = [disabled EXCEPT ![p] = disable]
     /\ retry_left' = [retry_left EXCEPT ![p] =
                         IF disable /\ recover_after > 0 THEN recover_after
                         ELSE IF disabled[p] THEN NONE ELSE @]
     /\ streak' = [streak EXCEPT ![p] = IF success THEN 0 ELSE AtMost3(@ + 1)]

\* Poller.update_statistics, the reset of a probed poller and
\* _maybe_disable_poller: what one attempt does to its poller.
UpdatePoller(p, success) ==
  LET before == IF disabled[p] THEN 0 ELSE failcounter[p]
      after == IF success THEN 0 ELSE AtMost3(before + 1)
      disable == autoremove /\ after >= FailuresToDisable
  IN /\ failcounter' = [failcounter EXCEPT ![p] = after]
     /\ disabled' = [disabled EXCEPT ![p] = disable]
     /\ retry_left' = [retry_left EXCEPT ![p] =
                         IF disable /\ recover_after > 0 THEN recover_after
                         ELSE IF disabled[p] THEN NONE ELSE @]
     /\ streak' = [streak EXCEPT ![p] = IF success THEN 0 ELSE AtMost3(@ + 1)]

\* poll() skips a disabled poller until its retry deadline.
Skipped(p) == disabled[p] /\ retry_left[p] # 0

Current == Handlers[h][i]
NextHandler == phase' = "handlers" /\ h' = h + 1 /\ i' = 1

-----------------------------------------------------------------------------
(* The owner loop around manager.execute("poll", handler.poll). *)

BeginCycle ==
  /\ phase = "idle" /\ ~stop
  /\ InvalidateAll
  /\ phase' = "handlers" /\ h' = 1 /\ i' = 1
  /\ UNCHANGED <<config, access, link, stop, attempted, all_success, failed,
                 pollerVars>>

\* Between two handlers the loop looks for a stop; a connect attempt that is
\* under way is not interrupted.
AtHandler ==
  /\ phase = "handlers" /\ h <= Len(Handlers)
  /\ stop /\ h > 1 => access = "trial"

\* execute refuses: the bus is cooling.
Refused ==
  /\ AtHandler /\ access = "cooling"
  /\ failed' = TRUE
  /\ NextHandler
  /\ UNCHANGED <<config, access, link, stop, attempted, all_success, val,
                 pollSuccess, pollerVars>>

TryConnect ==
  /\ AtHandler /\ Bus!Try
  /\ UNCHANGED <<config, link, stop, phase, h, i, attempted, all_success,
                 failed, val, pollSuccess, pollerVars>>

\* Mistake: a handler that could not connect is not a failed poll.
ConnectFailsQuietly ==
  /\ AtHandler /\ access = "trial" /\ ~link
  /\ Bus!Broke
  /\ NextHandler
  /\ UNCHANGED <<config, link, stop, attempted, all_success, failed, val,
                 pollSuccess, pollerVars>>

ConnectFails ==
  /\ AtHandler /\ access = "trial" /\ ~link
  /\ Bus!Broke
  /\ failed' = TRUE
  /\ NextHandler
  /\ UNCHANGED <<config, link, stop, attempted, all_success, val, pollSuccess,
                 pollerVars>>

\* execute has the bus: handler.poll starts.
EnterPoll ==
  /\ AtHandler
  /\ Bus!Reuse \/ Bus!Connected
  /\ InvalidateHandler
  /\ phase' = "polling" /\ i' = 1
  /\ attempted' = FALSE /\ all_success' = TRUE
  /\ UNCHANGED <<config, link, stop, h, failed, pollerVars>>

-----------------------------------------------------------------------------
(* ModbusHandler.poll. *)

\* Mistake: skipping a poller also skips the one after it.
SkipDisabledTwice ==
  /\ phase = "polling" /\ i <= Len(Handlers[h])
  /\ Skipped(Current)
  /\ all_success' = FALSE
  /\ i' = i + 2
  /\ UNCHANGED <<config, access, link, stop, phase, h, attempted, failed, val,
                 pollSuccess, pollerVars>>

SkipDisabled ==
  /\ phase = "polling" /\ i <= Len(Handlers[h])
  /\ Skipped(Current)
  /\ all_success' = FALSE
  /\ i' = i + 1
  /\ UNCHANGED <<config, access, link, stop, phase, h, attempted, failed, val,
                 pollSuccess, pollerVars>>

\* Poller.poll comes back, having decoded the references in `got`: all of
\* them, some, or none (an error response, a short block, bad data).  A stop
\* makes poll() return after the poller it is at.
PollAnswered(got) ==
  LET p == Current
      success == got = RefsOf[p]
  IN /\ phase = "polling" /\ i <= Len(Handlers[h])
     /\ ~Skipped(p)
     /\ val' = [r \in Refs |-> IF r \in got THEN "fresh"
                               ELSE IF r \in RefsOf[p] THEN "none" ELSE val[r]]
     /\ pollSuccess' = [pollSuccess EXCEPT ![DeviceOf[p]] = @ \/ got # {}]
     /\ UpdatePoller(p, success)
     /\ attempted' = TRUE
     /\ all_success' = (all_success /\ success)
     /\ i' = IF stop THEN Len(Handlers[h]) + 1 ELSE i + 1
     /\ UNCHANGED <<config, access, link, stop, phase, h, failed>>

\* Mistake: the exception path forgets _maybe_disable_poller.
PollRaisesNeverDisables ==
  LET p == Current
  IN /\ phase = "polling" /\ i <= Len(Handlers[h])
     /\ ~Skipped(p)
     /\ Bus!Broke
     /\ val' = [r \in Refs |-> IF r \in RefsOf[p] THEN "none" ELSE val[r]]
     /\ failcounter' = [failcounter EXCEPT ![p] = AtMost3(@ + 1)]
     /\ streak' = [streak EXCEPT ![p] = AtMost3(@ + 1)]
     /\ failed' = TRUE
     /\ NextHandler
     /\ UNCHANGED <<config, link, stop, attempted, all_success, pollSuccess,
                    disabled, retry_left>>

\* Poller.poll raises a transport exception: the rest of this handler's
\* pollers are abandoned and the connection is closed.
PollRaises ==
  LET p == Current
  IN /\ phase = "polling" /\ i <= Len(Handlers[h])
     /\ ~Skipped(p)
     /\ Bus!Broke
     /\ val' = [r \in Refs |-> IF r \in RefsOf[p] THEN "none" ELSE val[r]]
     /\ UpdatePoller(p, FALSE)
     /\ failed' = TRUE
     /\ NextHandler
     /\ UNCHANGED <<config, link, stop, attempted, all_success, pollSuccess>>

\* poll() returns `attempted and all_success`.
ReturnFromPoll ==
  /\ phase = "polling" /\ i > Len(Handlers[h])
  /\ Bus!Served
  /\ failed' = (failed \/ ~(attempted /\ all_success))
  /\ NextHandler
  /\ UNCHANGED <<config, link, stop, attempted, all_success, val, pollSuccess,
                 pollerVars>>

-----------------------------------------------------------------------------
\* All handlers had their turn: publish_data and the export come next, unless
\* a stop came first.
ReachPublish ==
  /\ phase = "handlers" /\ h > Len(Handlers) /\ ~stop
  /\ phase' = "publish"
  /\ UNCHANGED <<config, access, link, stop, h, i, attempted, all_success,
                 failed, val, pollSuccess, pollerVars>>

EndCycle ==
  /\ phase = "publish"
  /\ phase' = "idle"
  /\ UNCHANGED <<config, access, link, stop, h, i, attempted, all_success,
                 failed, val, pollSuccess, pollerVars>>

StopLoop ==
  /\ stop
  /\ phase = "idle" \/ (phase = "handlers" /\ h > 1 /\ access # "trial")
  /\ Bus!Halt
  /\ phase' = "stopped"
  /\ UNCHANGED <<config, link, stop, h, i, attempted, all_success, failed, val,
                 pollSuccess, pollerVars>>

Owner ==
  \/ BeginCycle \/ Refused \/ TryConnect \/ ConnectFails \/ EnterPoll
  \/ SkipDisabled \/ (\E got \in SUBSET Refs :
                        /\ phase = "polling" /\ i <= Len(Handlers[h])
                        /\ got \subseteq RefsOf[Current] /\ PollAnswered(got))
  \/ PollRaises \/ ReturnFromPoll \/ ReachPublish \/ EndCycle \/ StopLoop

(* The environment: time, the line, the operator. *)
Cool ==
  /\ Bus!Cool
  /\ UNCHANGED <<config, link, stop, phase, h, i, attempted, all_success,
                 failed, val, pollSuccess, pollerVars>>

Tick ==
  /\ phase # "stopped"
  /\ \E p \in Pollers : retry_left[p] \notin {NONE, 0}
  /\ retry_left' = [p \in Pollers |-> IF retry_left[p] \in {NONE, 0}
                                      THEN retry_left[p] ELSE retry_left[p] - 1]
  /\ UNCHANGED <<config, access, link, stop, phase, h, i, attempted,
                 all_success, failed, val, pollSuccess, failcounter, disabled,
                 streak>>

LinkChanges ==
  /\ phase # "stopped"
  /\ link' = ~link
  /\ UNCHANGED <<config, access, stop, phase, h, i, attempted, all_success,
                 failed, val, pollSuccess, pollerVars>>

Signal ==
  /\ ~stop
  /\ stop' = TRUE
  /\ UNCHANGED <<config, access, link, phase, h, i, attempted, all_success,
                 failed, val, pollSuccess, pollerVars>>

Next == Owner \/ Cool \/ Tick \/ LinkChanges \/ Signal

Spec == Init /\ [][Next]_vars

\* The owner loop never blocks for ever: connects and requests time out, a
\* cycle starts every --rate seconds, and the pause of the breaker passes.
FairSpec == Spec /\ WF_vars(Owner) /\ WF_vars(Cool)

-----------------------------------------------------------------------------
(* Properties. *)

TypeOK ==
  /\ autoremove \in BOOLEAN /\ recover_after \in RecoverChoices
  /\ Bus!TypeOK /\ link \in BOOLEAN /\ stop \in BOOLEAN
  /\ phase \in Phases
  /\ h \in 1..(Len(Handlers) + 1)
  /\ i \in Nat
  /\ phase = "polling" => i <= Len(Handlers[h]) + 1
  /\ attempted \in BOOLEAN /\ all_success \in BOOLEAN /\ failed \in BOOLEAN
  /\ val \in [Refs -> Values]
  /\ pollSuccess \in [Devices -> BOOLEAN]
  /\ failcounter \in [Pollers -> 0..FailuresToDisable]
  /\ disabled \in [Pollers -> BOOLEAN]
  /\ retry_left \in [Pollers -> Nat \cup {NONE}]
  /\ streak \in [Pollers -> 0..FailuresToDisable]

\* A cycle never publishes what an earlier cycle read, whichever handlers were
\* refused, skipped their pollers or aborted; and a device counts as polled
\* exactly if one of its references has a value of this cycle.
PublishedValuesAreFresh ==
  phase = "publish" =>
    /\ \A r \in Refs : val[r] # "stale"
    /\ \A d \in Devices :
         pollSuccess[d] <=> \E r \in DeviceRefs(d) : val[r] = "fresh"

\* If no poll has failed, everything was read: app() reports success (exit
\* status 0 with --once) only when every reference has a value of the cycle.
SuccessMeansAllRead ==
  phase = "publish" /\ ~failed => \A r \in Refs : val[r] = "fresh"

\* A poller is disabled exactly after three failed attempts in a row, by
\* --autoremove only; cycles in which it was not attempted do not count. It
\* is disabled for ever only without --poller-recover-after.
AutoremoveIsExact ==
  \A p \in Pollers :
    /\ disabled[p] => autoremove /\ streak[p] = FailuresToDisable
    /\ autoremove /\ recover_after = 0 =>
         (streak[p] = FailuresToDisable => disabled[p])
    /\ (disabled[p] /\ recover_after > 0) <=> retry_left[p] # NONE

BeingPolled(p) == phase = "polling" /\ i <= Len(Handlers[h]) /\ Current = p

\* With permanent --autoremove no poller starves: once connects succeed for
\* good, each one is reached over and over, or is itself disabled, although a
\* transport exception of an earlier one abandons those after it.
NoStarvation ==
  autoremove /\ recover_after = 0 =>
    (<>[](link /\ ~stop) =>
       \A p \in Pollers : []<>BeingPolled(p) \/ <>[]disabled[p])
=============================================================================
