---------------------------- MODULE PollCycle_proofs ----------------------------
(***************************************************************************)
(* For every layout of files, devices, blocks and references, and every    *)
(* delay: autoremove is exact, what is published is of this cycle, and a   *)
(* cycle that reports success has read everything.                         *)
(***************************************************************************)
EXTENDS PollCycle, TLAPS

USE ConfigAssumption, LayoutAssumption

-----------------------------------------------------------------------------
(* The layout. *)

LEMMA HandlerFacts ==
  ASSUME NEW g \in DOMAIN Handlers
  PROVE  /\ Handlers[g] \in Seq(Pollers)
         /\ g \in 1..Len(Handlers) /\ Len(Handlers) \in Nat
         /\ Len(Handlers[g]) \in Nat
         /\ DOMAIN Handlers[g] = 1..Len(Handlers[g])
         /\ \A k \in DOMAIN Handlers[g] : Handlers[g][k] \in Pollers
<1> DEFINE S == Seq(Pollers)
<1>1. Handlers \in Seq(S)
  OBVIOUS
<1> HIDE DEF S
<1>2. Handlers[g] \in S /\ g \in 1..Len(Handlers) /\ Len(Handlers) \in Nat
  BY <1>1
<1> QED
  BY <1>2 DEF S

LEMMA PlacesOfHandlers ==
  /\ \A p : p \in Pollers <=> \E g \in DOMAIN Handlers :
                                \E k \in DOMAIN Handlers[g] : p = Handlers[g][k]
  /\ \A g \in DOMAIN Handlers : \A r :
       r \in HandlerRefs(g) <=> \E k \in DOMAIN Handlers[g] :
                                  r \in RefsOf[Handlers[g][k]]
  /\ \A g \in DOMAIN Handlers : \A d :
       d \in HandlerDevices(g) <=> \E k \in DOMAIN Handlers[g] :
                                     d = DeviceOf[Handlers[g][k]]
  /\ \A r : r \in Refs <=> \E p \in Pollers : r \in RefsOf[p]
  /\ \A d, r : r \in DeviceRefs(d) <=> \E p \in Pollers : /\ DeviceOf[p] = d
                                                          /\ r \in RefsOf[p]
<1>1. \A p : p \in Pollers <=> \E g \in DOMAIN Handlers :
                                \E k \in DOMAIN Handlers[g] : p = Handlers[g][k]
  BY DEF Pollers, ToSet
<1>2. \A g \in DOMAIN Handlers : \A r :
        r \in HandlerRefs(g) <=> \E k \in DOMAIN Handlers[g] :
                                   r \in RefsOf[Handlers[g][k]]
  BY DEF HandlerRefs, ToSet
<1>3. \A g \in DOMAIN Handlers : \A d :
        d \in HandlerDevices(g) <=> \E k \in DOMAIN Handlers[g] :
                                      d = DeviceOf[Handlers[g][k]]
  BY DEF HandlerDevices, ToSet
<1>4. \A r : r \in Refs <=> \E p \in Pollers : r \in RefsOf[p]
  BY DEF Refs
<1>5. \A d, r : r \in DeviceRefs(d) <=> \E p \in Pollers : /\ DeviceOf[p] = d
                                                           /\ r \in RefsOf[p]
  BY DEF DeviceRefs
<1> QED
  BY <1>1, <1>2, <1>3, <1>4, <1>5

-----------------------------------------------------------------------------
(* Types. *)

ControlType ==
  /\ autoremove \in BOOLEAN /\ recover_after \in RecoverChoices
  /\ Bus!TypeOK /\ link \in BOOLEAN /\ stop \in BOOLEAN
  /\ phase \in Phases
  /\ attempted \in BOOLEAN /\ all_success \in BOOLEAN /\ failed \in BOOLEAN
PlaceType ==
  /\ h \in 1..(Len(Handlers) + 1)
  /\ i \in Nat
  /\ phase = "polling" => i <= Len(Handlers[h]) + 1
ValueType ==
  /\ val \in [Refs -> Values]
  /\ pollSuccess \in [Devices -> BOOLEAN]
PollerType ==
  /\ failcounter \in [Pollers -> 0..FailuresToDisable]
  /\ disabled \in [Pollers -> BOOLEAN]
  /\ retry_left \in [Pollers -> Nat \cup {NONE}]
  /\ streak \in [Pollers -> 0..FailuresToDisable]

LEMMA TypeParts == TypeOK <=> ControlType /\ PlaceType /\ ValueType /\ PollerType
BY DEF TypeOK, ControlType, PlaceType, ValueType, PollerType

\* poll() runs for a handler that exists.
PlaceInv == phase = "polling" => h \in DOMAIN Handlers /\ i \in Nat \ {0}

LEMMA InitType == Init => TypeOK /\ PlaceInv
<1> SUFFICES ASSUME Init PROVE TypeOK /\ PlaceInv
  OBVIOUS
<1>1. ControlType
  BY DEF Init, ControlType, Bus!TypeOK, Bus!AccessStates, Phases
<1>2. PlaceType /\ PlaceInv
  BY DEF Init, PlaceType, PlaceInv
<1>3. ValueType
  BY DEF Init, ValueType, Values
<1>4. PollerType
  BY DEF Init, PollerType, FailuresToDisable
<1> QED
  BY <1>1, <1>2, <1>3, <1>4, TypeParts

\* Poller.update_statistics and _maybe_disable_poller, of one poller.
LEMMA UpdateKeepsType ==
  ASSUME ControlType, PollerType, NEW p \in Pollers, NEW success \in BOOLEAN,
         UpdatePoller(p, success)
  PROVE  PollerType'
<1>1. recover_after \in Nat /\ autoremove \in BOOLEAN
  BY DEF ControlType
<1>2. \A n \in 0..3 : AtMost3(n + 1) \in 0..3
  BY DEF AtMost3, FailuresToDisable
<1>3. failcounter[p] \in 0..3 /\ streak[p] \in 0..3
  BY DEF PollerType, FailuresToDisable
<1>4. failcounter' \in [Pollers -> 0..3]
  BY <1>2, <1>3 DEF UpdatePoller, PollerType, FailuresToDisable
<1>5. disabled' \in [Pollers -> BOOLEAN]
  BY DEF UpdatePoller, PollerType
<1>6. retry_left' \in [Pollers -> Nat \cup {NONE}]
  BY <1>1 DEF UpdatePoller, PollerType
<1>7. streak' \in [Pollers -> 0..3]
  BY <1>2, <1>3 DEF UpdatePoller, PollerType, FailuresToDisable
<1> QED
  BY <1>4, <1>5, <1>6, <1>7 DEF PollerType, FailuresToDisable

LEMMA CurrentFacts ==
  ASSUME PlaceInv, phase = "polling", i <= Len(Handlers[h])
  PROVE  /\ h \in DOMAIN Handlers /\ i \in DOMAIN Handlers[h]
         /\ Current \in Pollers /\ DeviceOf[Current] \in Devices
         /\ Len(Handlers[h]) \in Nat
<1>1. h \in DOMAIN Handlers /\ i \in DOMAIN Handlers[h]
  BY HandlerFacts DEF PlaceInv
<1>2. Current \in Pollers /\ Len(Handlers[h]) \in Nat
  BY <1>1, HandlerFacts DEF Current
<1> QED
  BY <1>1, <1>2

LEMMA BusKeepsType ==
  ASSUME Bus!TypeOK, Bus!Next
  PROVE  Bus!TypeOK'
BY DEF Bus!TypeOK, Bus!AccessStates, Bus!Next, Bus!Reuse, Bus!Try,
       Bus!Connected, Bus!Served, Bus!Broke, Bus!Cool, Bus!Halt

LEMMA NextHandlerFits ==
  ASSUME NextHandler, h \in DOMAIN Handlers
  PROVE  PlaceType' /\ PlaceInv'
<1>1. h \in 1..Len(Handlers) /\ Len(Handlers) \in Nat
  BY HandlerFacts
<1> QED
  BY <1>1 DEF NextHandler, PlaceType, PlaceInv

LEMMA AtHandlerFacts ==
  ASSUME PlaceType, AtHandler
  PROVE  h \in DOMAIN Handlers /\ phase = "handlers"
BY DEF PlaceType, AtHandler

LEMMA StepKeepsType ==
  ASSUME TypeOK, PlaceInv, [Next]_vars
  PROVE  TypeOK' /\ PlaceInv'
<1>1. ControlType /\ PlaceType /\ ValueType /\ PollerType
  BY TypeParts
<1> USE DEF Phases
<1>2. CASE BeginCycle
  <2>1. ControlType'
    BY <1>1, <1>2 DEF BeginCycle, ControlType, config, Bus!TypeOK
  <2>2. PlaceType' /\ PlaceInv'
    BY <1>2 DEF BeginCycle, PlaceType, PlaceInv
  <2>3. ValueType'
    BY <1>1, <1>2 DEF BeginCycle, InvalidateAll, Aged, ValueType, Values
  <2>4. PollerType'
    BY <1>1, <1>2 DEF BeginCycle, PollerType, pollerVars
  <2> QED
    BY <2>1, <2>2, <2>3, <2>4, TypeParts, PTL
<1>3. CASE Refused \/ ConnectFails
  <2>1. h \in DOMAIN Handlers /\ NextHandler
    BY <1>1, <1>3, AtHandlerFacts DEF Refused, ConnectFails
  <2>2. PlaceType' /\ PlaceInv'
    BY <2>1, NextHandlerFits
  <2>3. Bus!TypeOK'
    BY <1>1, <1>3, BusKeepsType
       DEF Refused, ConnectFails, ControlType, Bus!TypeOK, Bus!Next
  <2>4. ControlType'
    BY <1>1, <1>3, <2>1, <2>3
       DEF Refused, ConnectFails, NextHandler, ControlType, config
  <2>5. ValueType' /\ PollerType'
    BY <1>1, <1>3 DEF Refused, ConnectFails, ValueType, PollerType, pollerVars
  <2> QED
    BY <2>2, <2>4, <2>5, TypeParts, PTL
<1>4. CASE EnterPoll
  <2>1. h \in DOMAIN Handlers
    BY <1>1, <1>4, AtHandlerFacts DEF EnterPoll
  <2>2. Len(Handlers[h]) \in Nat
    BY <2>1, HandlerFacts
  <2>3. PlaceType' /\ PlaceInv'
    BY <1>1, <1>4, <2>1, <2>2 DEF EnterPoll, PlaceType, PlaceInv
  <2>4. Bus!TypeOK'
    BY <1>1, <1>4, BusKeepsType DEF EnterPoll, ControlType, Bus!Next
  <2>5. ControlType'
    BY <1>1, <1>4, <2>4 DEF EnterPoll, ControlType, config
  <2>6. ValueType'
    BY <1>1, <1>4 DEF EnterPoll, InvalidateHandler, ValueType, Values
  <2>7. PollerType'
    BY <1>1, <1>4 DEF EnterPoll, PollerType, pollerVars
  <2> QED
    BY <2>3, <2>5, <2>6, <2>7, TypeParts, PTL
<1>5. CASE SkipDisabled
  <2>1. Len(Handlers[h]) \in Nat
    BY <1>5, CurrentFacts DEF SkipDisabled
  <2>2. PlaceType' /\ PlaceInv'
    BY <1>1, <1>5, <2>1 DEF SkipDisabled, PlaceType, PlaceInv
  <2>3. ControlType' /\ ValueType' /\ PollerType'
    BY <1>1, <1>5 DEF SkipDisabled, ControlType, ValueType, PollerType, config,
                      pollerVars, Bus!TypeOK
  <2> QED
    BY <2>2, <2>3, TypeParts, PTL
<1>6. ASSUME NEW got \in SUBSET Refs, PollAnswered(got)
      PROVE  TypeOK' /\ PlaceInv'
  <2>1. /\ phase = "polling" /\ i <= Len(Handlers[h])
        /\ UpdatePoller(Current, got = RefsOf[Current])
    BY <1>6 DEF PollAnswered
  <2>2. Current \in Pollers /\ DeviceOf[Current] \in Devices
        /\ Len(Handlers[h]) \in Nat
    BY <2>1, CurrentFacts
  <2>3. PlaceType' /\ PlaceInv'
    BY <1>1, <1>6, <2>2 DEF PollAnswered, PlaceType, PlaceInv
  <2>4. PollerType'
    BY <1>1, <2>1, <2>2, UpdateKeepsType
  <2>5. val' \in [Refs -> Values]
    BY <1>1, <1>6 DEF PollAnswered, ValueType, Values
  <2>6. pollSuccess' \in [Devices -> BOOLEAN]
    BY <1>1, <1>6, <2>2 DEF PollAnswered, ValueType
  <2>7. attempted' \in BOOLEAN /\ all_success' \in BOOLEAN
    BY <1>1, <1>6 DEF PollAnswered, ControlType
  <2>8. ControlType'
    BY <1>1, <1>6, <2>7 DEF PollAnswered, ControlType, config, Bus!TypeOK
  <2>9. ValueType'
    BY <2>5, <2>6 DEF ValueType
  <2> QED
    BY <2>3, <2>4, <2>8, <2>9, TypeParts, PTL
<1>7. CASE PollRaises
  <2>1. /\ phase = "polling" /\ i <= Len(Handlers[h]) /\ NextHandler
        /\ UpdatePoller(Current, FALSE)
    BY <1>7 DEF PollRaises
  <2>2. Current \in Pollers /\ h \in DOMAIN Handlers
    BY <2>1, CurrentFacts
  <2>3. PlaceType' /\ PlaceInv'
    BY <2>1, <2>2, NextHandlerFits
  <2>4. PollerType'
    BY <1>1, <2>1, <2>2, UpdateKeepsType
  <2>5. ValueType'
    BY <1>1, <1>7 DEF PollRaises, ValueType, Values
  <2>6. Bus!TypeOK'
    BY <1>1, <1>7, BusKeepsType DEF PollRaises, ControlType, Bus!Next
  <2>7. ControlType'
    BY <1>1, <1>7, <2>6 DEF PollRaises, NextHandler, ControlType, config
  <2> QED
    BY <2>3, <2>4, <2>5, <2>7, TypeParts, PTL
<1>8. CASE ReturnFromPoll
  <2>1. NextHandler /\ h \in DOMAIN Handlers
    BY <1>8 DEF ReturnFromPoll, PlaceInv
  <2>2. PlaceType' /\ PlaceInv'
    BY <2>1, NextHandlerFits
  <2>3. Bus!TypeOK'
    BY <1>1, <1>8, BusKeepsType DEF ReturnFromPoll, ControlType, Bus!Next
  <2>4. failed' \in BOOLEAN
    BY <1>1, <1>8 DEF ReturnFromPoll, ControlType
  <2>5. ControlType'
    BY <1>1, <1>8, <2>3, <2>4 DEF ReturnFromPoll, NextHandler, ControlType, config
  <2>6. ValueType' /\ PollerType'
    BY <1>1, <1>8 DEF ReturnFromPoll, ValueType, PollerType, pollerVars
  <2> QED
    BY <2>2, <2>5, <2>6, TypeParts, PTL
<1>9. CASE TryConnect \/ StopLoop \/ Cool
  <2>1. Bus!TypeOK'
    BY <1>1, <1>9, BusKeepsType DEF TryConnect, StopLoop, Cool, ControlType, Bus!Next
  <2>2. ControlType'
    BY <1>1, <1>9, <2>1 DEF TryConnect, StopLoop, Cool, ControlType, config
  <2>3. PlaceType' /\ PlaceInv'
    BY <1>1, <1>9 DEF TryConnect, StopLoop, Cool, PlaceType, PlaceInv
  <2>4. ValueType' /\ PollerType'
    BY <1>1, <1>9
       DEF TryConnect, StopLoop, Cool, ValueType, PollerType, pollerVars
  <2> QED
    BY <2>2, <2>3, <2>4, TypeParts, PTL
<1>10. CASE ReachPublish \/ EndCycle
  BY <1>10 DEF ReachPublish, EndCycle, TypeOK, PlaceInv, config, pollerVars,
               Bus!TypeOK
<1>11. CASE Tick
  <2>1. retry_left' \in [Pollers -> Nat \cup {NONE}]
    <3>1. \A p \in Pollers : retry_left[p] \in Nat \cup {NONE}
      BY <1>1 DEF PollerType
    <3>2. \A p \in Pollers : (IF retry_left[p] \in {NONE, 0} THEN retry_left[p]
                              ELSE retry_left[p] - 1) \in Nat \cup {NONE}
      BY <3>1
    <3> QED
      BY <1>11, <3>2 DEF Tick
  <2>2. PollerType' /\ ControlType'
    BY <1>1, <1>11, <2>1 DEF Tick, PollerType, ControlType, config, Bus!TypeOK
  <2>3. ValueType' /\ PlaceType' /\ PlaceInv'
    BY <1>1, <1>11 DEF Tick, ValueType, PlaceType, PlaceInv
  <2> QED
    BY <2>2, <2>3, TypeParts, PTL
<1>12. CASE LinkChanges \/ Signal \/ UNCHANGED vars
  <2>1. ControlType'
    BY <1>1, <1>12
       DEF LinkChanges, Signal, vars, ControlType, config, Bus!TypeOK
  <2>2. ValueType' /\ PlaceType' /\ PlaceInv' /\ PollerType'
    BY <1>1, <1>12 DEF LinkChanges, Signal, vars, ValueType, PlaceType, PlaceInv,
                       PollerType, pollerVars
  <2> QED
    BY <2>1, <2>2, TypeParts, PTL
<1> QED
  BY <1>2, <1>3, <1>4, <1>5, <1>6, <1>7, <1>8, <1>9, <1>10, <1>11, <1>12
     DEF Next, Owner

\* Every step of poll() and of the loop around it leaves values, counters and
\* retry deadlines in their types, and the loop at a poller that exists.
THEOREM TypeCorrect == Spec => []TypeOK
BY InitType, StepKeepsType, PTL DEF Spec

LEMMA InPlace == Spec => [](TypeOK /\ PlaceInv)
BY InitType, StepKeepsType, PTL DEF Spec

-----------------------------------------------------------------------------
(* Autoremove. *)

\* What AutoremoveIsExact needs of the failure counter: it never runs ahead of
\* the failures in a row, and is equal to them until a first probe.
CountInv ==
  \A p \in Pollers :
    /\ failcounter[p] <= streak[p]
    /\ autoremove /\ recover_after = 0 /\ ~disabled[p]
         => failcounter[p] = streak[p]

LEMMA AttemptIsExact ==
  ASSUME TypeOK, CountInv, AutoremoveIsExact,
         NEW p \in Pollers, NEW success \in BOOLEAN,
         ~Skipped(p), UpdatePoller(p, success), UNCHANGED config
  PROVE  CountInv' /\ AutoremoveIsExact'
<1> DEFINE before == IF disabled[p] THEN 0 ELSE failcounter[p]
           after == IF success THEN 0 ELSE AtMost3(before + 1)
           disable == autoremove /\ after >= FailuresToDisable
<1>1. /\ failcounter[p] \in 0..3 /\ streak[p] \in 0..3
      /\ recover_after \in Nat /\ retry_left[p] \in Nat \cup {NONE}
      /\ disabled[p] \in BOOLEAN
  BY DEF TypeOK, FailuresToDisable
<1>2. /\ failcounter'[p] = after
      /\ disabled'[p] = disable
      /\ streak'[p] = IF success THEN 0 ELSE AtMost3(streak[p] + 1)
      /\ retry_left'[p] = IF disable /\ recover_after > 0 THEN recover_after
                          ELSE IF disabled[p] THEN NONE ELSE retry_left[p]
  BY DEF UpdatePoller, TypeOK
<1>3. \A q \in Pollers \ {p} :
        /\ failcounter'[q] = failcounter[q] /\ disabled'[q] = disabled[q]
        /\ retry_left'[q] = retry_left[q] /\ streak'[q] = streak[q]
  BY DEF UpdatePoller, TypeOK
<1>4. autoremove' = autoremove /\ recover_after' = recover_after
  BY DEF config
<1>5. disabled[p] => recover_after > 0
  <2>1. disabled[p] => retry_left[p] = 0
    BY DEF Skipped
  <2> QED
    BY <1>1, <2>1 DEF AutoremoveIsExact
<1>6. failcounter[p] <= streak[p] /\ before <= failcounter[p]
  BY <1>1 DEF CountInv
<1>7. CountInv'
  <2>1. failcounter'[p] <= streak'[p]
    BY <1>1, <1>2, <1>6 DEF AtMost3, FailuresToDisable
  <2>2. autoremove /\ recover_after = 0 => failcounter'[p] = streak'[p]
    BY <1>1, <1>2, <1>5 DEF CountInv, AtMost3, FailuresToDisable
  <2> QED
    BY <1>3, <1>4, <2>1, <2>2 DEF CountInv
<1>8. AutoremoveIsExact'
  <2>4. disabled'[p] <=> autoremove /\ after >= FailuresToDisable
    BY <1>2, Zenon
  <2>1. disabled'[p] => autoremove /\ streak'[p] = FailuresToDisable
    <3>1. after >= 3 => streak'[p] = 3
      BY <1>1, <1>2, <1>6 DEF AtMost3, FailuresToDisable
    <3> QED
      BY <2>4, <3>1 DEF FailuresToDisable
  <2>2. autoremove /\ recover_after = 0 =>
          (streak'[p] = FailuresToDisable => disabled'[p])
    <3>1. recover_after = 0 /\ autoremove /\ streak'[p] = 3 => after >= 3
      BY <1>1, <1>2, <1>5 DEF CountInv, AtMost3, FailuresToDisable
    <3> QED
      BY <2>4, <3>1 DEF FailuresToDisable
  <2>3. (disabled'[p] /\ recover_after > 0) <=> retry_left'[p] # NONE
    <3>1. disabled[p] \/ retry_left[p] = NONE
      BY <1>1 DEF AutoremoveIsExact
    <3>2. (disable /\ recover_after > 0) <=> retry_left'[p] # NONE
      BY <1>1, <1>2, <3>1
    <3> QED
      BY <2>4, <3>2
  <2> QED
    BY <1>3, <1>4, <2>1, <2>2, <2>3 DEF AutoremoveIsExact
<1> QED
  BY <1>7, <1>8

\* update_statistics and _maybe_disable_poller, on both paths of poll(): a
\* block is disabled exactly when three attempts in a row have failed, and has a
\* retry deadline exactly when it is to be probed again.
THEOREM AutoremoveExact == Spec => []AutoremoveIsExact
<1>1. Init => CountInv /\ AutoremoveIsExact
  BY DEF Init, CountInv, AutoremoveIsExact, FailuresToDisable
<1>2. TypeOK /\ PlaceInv /\ CountInv /\ AutoremoveIsExact /\ [Next]_vars
        => CountInv' /\ AutoremoveIsExact'
  <2> SUFFICES ASSUME TypeOK, PlaceInv, CountInv, AutoremoveIsExact, [Next]_vars
               PROVE  CountInv' /\ AutoremoveIsExact'
    OBVIOUS
  <2>1. ASSUME NEW got \in SUBSET Refs, PollAnswered(got)
        PROVE  CountInv' /\ AutoremoveIsExact'
    <3>1. /\ phase = "polling" /\ i <= Len(Handlers[h]) /\ ~Skipped(Current)
          /\ UpdatePoller(Current, got = RefsOf[Current]) /\ UNCHANGED config
      BY <2>1 DEF PollAnswered
    <3>2. Current \in Pollers
      BY <3>1, CurrentFacts
    <3> QED
      BY <3>1, <3>2, AttemptIsExact
  <2>2. CASE PollRaises
    <3>1. /\ phase = "polling" /\ i <= Len(Handlers[h]) /\ ~Skipped(Current)
          /\ UpdatePoller(Current, FALSE) /\ UNCHANGED config
      BY <2>2 DEF PollRaises
    <3>2. Current \in Pollers
      BY <3>1, CurrentFacts
    <3> QED
      BY <3>1, <3>2, AttemptIsExact
  <2>3. CASE Tick
    <3>1. UNCHANGED <<config, failcounter, disabled, streak>>
      BY <2>3 DEF Tick
    <3>2. \A p \in Pollers : retry_left'[p] # NONE <=> retry_left[p] # NONE
      BY <2>3 DEF Tick, TypeOK
    <3> QED
      BY <3>1, <3>2 DEF CountInv, AutoremoveIsExact, config
  <2>4. CASE UNCHANGED <<config, pollerVars>>
    BY <2>4 DEF CountInv, AutoremoveIsExact, config, pollerVars
  <2>5. CASE \/ BeginCycle \/ Refused \/ TryConnect \/ ConnectFails \/ EnterPoll
             \/ SkipDisabled \/ ReturnFromPoll \/ ReachPublish \/ EndCycle
             \/ StopLoop
    BY <2>4, <2>5 DEF BeginCycle, Refused, TryConnect, ConnectFails, EnterPoll,
                      SkipDisabled, ReturnFromPoll, ReachPublish, EndCycle,
                      StopLoop
  <2>6. CASE Cool \/ LinkChanges \/ Signal \/ UNCHANGED vars
    BY <2>4, <2>6 DEF Cool, LinkChanges, Signal, vars
  <2> QED
    BY <2>1, <2>2, <2>3, <2>5, <2>6 DEF Next, Owner
<1> QED
  BY <1>1, <1>2, InPlace, PTL DEF Spec

-----------------------------------------------------------------------------
(* Freshness. *)

\* Values are of this cycle or none, from its beginning on, and a device counts
\* as polled if it has one.
ReadInv ==
  /\ \A r \in Refs : val[r] # "stale"
  /\ \A d \in Devices :
       pollSuccess[d] <=> \E r \in DeviceRefs(d) : val[r] = "fresh"

\* In poll(), the pollers from the current one on have no value.
AheadInv ==
  phase = "polling" =>
    \A k \in DOMAIN Handlers[h] : k >= i =>
      \A r \in RefsOf[Handlers[h][k]] : val[r] = "none"

LEMMA RefsOfPoller ==
  ASSUME NEW p \in Pollers
  PROVE  RefsOf[p] \subseteq Refs /\ RefsOf[p] \subseteq DeviceRefs(DeviceOf[p])
BY PlacesOfHandlers

LEMMA BeginReads ==
  ASSUME TypeOK, ReadInv, BeginCycle
  PROVE  ReadInv' /\ AheadInv'
<1>1. \A r \in Refs : \E g \in DOMAIN Handlers : r \in HandlerRefs(g)
  BY PlacesOfHandlers
<1>2. \A r \in Refs : val'[r] = "none"
  BY <1>1 DEF BeginCycle, InvalidateAll
<1>3. \A d \in Devices : \A r \in DeviceRefs(d) : val'[r] = "none"
  <2>1. \A d, r : r \in DeviceRefs(d) => r \in Refs
    BY PlacesOfHandlers
  <2> QED
    BY <1>2, <2>1, Zenon
<1>4. ASSUME NEW d \in Devices PROVE ~pollSuccess'[d]
  <2>1. pollSuccess'[d] <=> /\ \A g \in DOMAIN Handlers : d \notin HandlerDevices(g)
                            /\ pollSuccess[d]
    BY DEF BeginCycle, InvalidateAll
  <2>2. CASE pollSuccess[d]
    <3>1. PICK r \in DeviceRefs(d) : val[r] = "fresh"
      BY <2>2 DEF ReadInv
    <3>2. \E g \in DOMAIN Handlers : d \in HandlerDevices(g)
      BY PlacesOfHandlers
    <3> QED
      BY <2>1, <3>2
  <2> QED
    BY <2>1, <2>2
<1> QED
  BY <1>2, <1>3, <1>4 DEF ReadInv, AheadInv, BeginCycle

LEMMA EnterReads ==
  ASSUME TypeOK, ReadInv, EnterPoll
  PROVE  ReadInv' /\ AheadInv'
<1>1. h \in DOMAIN Handlers /\ h' = h
  BY AtHandlerFacts, TypeParts DEF EnterPoll
<1>2. \A r \in Refs : val'[r] = IF r \in HandlerRefs(h) THEN "none" ELSE val[r]
  BY DEF EnterPoll, InvalidateHandler
<1>3. \A d \in Devices : pollSuccess'[d] <=> d \notin HandlerDevices(h) /\ pollSuccess[d]
  BY DEF EnterPoll, InvalidateHandler
<1>4. \A d, r : r \in DeviceRefs(d) => r \in Refs
  BY PlacesOfHandlers
<1>5. ASSUME NEW d \in HandlerDevices(h), NEW r \in DeviceRefs(d)
      PROVE  r \in HandlerRefs(h)
  <2>1. PICK p \in Pollers : DeviceOf[p] = d /\ r \in RefsOf[p]
    BY PlacesOfHandlers
  <2>2. PICK g \in DOMAIN Handlers : \E k \in DOMAIN Handlers[g] : p = Handlers[g][k]
    BY PlacesOfHandlers
  <2>3. d \in HandlerDevices(g)
    BY <2>1, <2>2, PlacesOfHandlers
  <2>4. g = h
    BY <1>1, <2>3
  <2> QED
    BY <2>1, <2>2, <2>4, PlacesOfHandlers
<1>6. ASSUME NEW d, d \notin HandlerDevices(h), NEW r \in DeviceRefs(d)
      PROVE  r \notin HandlerRefs(h)
  <2>1. PICK p \in Pollers : DeviceOf[p] = d /\ r \in RefsOf[p]
    BY PlacesOfHandlers
  <2>2. SUFFICES ASSUME NEW k \in DOMAIN Handlers[h], r \in RefsOf[Handlers[h][k]]
                 PROVE  FALSE
    BY <1>1, PlacesOfHandlers
  <2>3. Handlers[h][k] \in Pollers
    BY <1>1, <2>2, PlacesOfHandlers
  <2>4. Handlers[h][k] = p
    BY <2>1, <2>2, <2>3
  <2> QED
    BY <1>1, <1>6, <2>1, <2>4, PlacesOfHandlers
<1>7. ReadInv'
  <2>1. \A r \in Refs : val'[r] # "stale"
    BY <1>2 DEF ReadInv
  <2>2. ASSUME NEW d \in Devices
        PROVE  pollSuccess'[d] <=> \E r \in DeviceRefs(d) : val'[r] = "fresh"
    <3>1. CASE d \in HandlerDevices(h)
      <4>1. \A r \in DeviceRefs(d) : val'[r] = "none"
        BY <1>2, <1>4, <1>5, <3>1
      <4> QED
        BY <1>3, <3>1, <4>1
    <3>2. CASE d \notin HandlerDevices(h)
      <4>1. \A r \in DeviceRefs(d) : val'[r] = val[r]
        BY <1>2, <1>4, <1>6, <3>2
      <4> QED
        BY <1>3, <3>2, <4>1 DEF ReadInv
    <3> QED
      BY <3>1, <3>2
  <2> QED
    BY <2>1, <2>2 DEF ReadInv
<1>8. AheadInv'
  <2>1. \A k \in DOMAIN Handlers[h] : \A r \in RefsOf[Handlers[h][k]] :
          r \in Refs /\ r \in HandlerRefs(h)
    BY <1>1, PlacesOfHandlers
  <2> QED
    BY <1>1, <1>2, <2>1 DEF AheadInv
<1> QED
  BY <1>7, <1>8

LEMMA AnsweredReads ==
  ASSUME TypeOK, PlaceInv, ReadInv, AheadInv,
         NEW got \in SUBSET Refs, got \subseteq RefsOf[Current], PollAnswered(got)
  PROVE  ReadInv' /\ AheadInv'
<1> DEFINE p == Current
<1>1. /\ phase = "polling" /\ i <= Len(Handlers[h]) /\ h' = h
  BY DEF PollAnswered
<1>2. /\ h \in DOMAIN Handlers /\ i \in DOMAIN Handlers[h]
      /\ p \in Pollers /\ DeviceOf[p] \in Devices
      /\ Len(Handlers[h]) \in Nat /\ p = Handlers[h][i]
  BY <1>1, CurrentFacts DEF Current
<1>3. \A r \in Refs : val'[r] = IF r \in got THEN "fresh"
                               ELSE IF r \in RefsOf[p] THEN "none" ELSE val[r]
  BY DEF PollAnswered
<1>4. \A r \in RefsOf[p] : val[r] = "none"
  <2>1. i >= i
    BY DEF TypeOK
  <2> QED
    BY <1>1, <1>2, <2>1, Zenon DEF AheadInv
<1>5. /\ pollSuccess'[DeviceOf[p]] <=> pollSuccess[DeviceOf[p]] \/ got # {}
      /\ \A d \in Devices \ {DeviceOf[p]} : pollSuccess'[d] <=> pollSuccess[d]
  <2>1. /\ DOMAIN pollSuccess = Devices
        /\ pollSuccess' = [pollSuccess EXCEPT ![DeviceOf[p]] = @ \/ got # {}]
    BY DEF PollAnswered, TypeOK
  <2> QED
    BY <1>2, <2>1, Zenon
<1>6. i' = Len(Handlers[h]) + 1 \/ i' = i + 1
  BY DEF PollAnswered
<1> HIDE DEF p
<1>7. RefsOf[p] \subseteq Refs /\ RefsOf[p] \subseteq DeviceRefs(DeviceOf[p])
  BY <1>2, RefsOfPoller
<1>8. \A r \in Refs : val'[r] = IF r \in got THEN "fresh" ELSE val[r]
  BY <1>3, <1>4
<1>9. got \subseteq RefsOf[p]
  BY DEF p
<1>10. ASSUME NEW d \in Devices
       PROVE  pollSuccess'[d] <=> \E r \in DeviceRefs(d) : val'[r] = "fresh"
  <2>1. pollSuccess[d] <=> \E r \in DeviceRefs(d) : val[r] = "fresh"
    BY DEF ReadInv
  <2>2. DeviceRefs(d) \subseteq Refs
    BY PlacesOfHandlers
  <2>3. CASE d = DeviceOf[p]
    <3>1. got \subseteq DeviceRefs(d)
      BY <1>7, <1>9, <2>3
    <3>2. (\E r \in DeviceRefs(d) : val'[r] = "fresh")
            <=> (\E r \in DeviceRefs(d) : val[r] = "fresh") \/ got # {}
      BY <1>8, <2>2, <3>1
    <3> QED
      BY <1>5, <2>1, <2>3, <3>2
  <2>4. CASE d # DeviceOf[p]
    <3>1. \A r \in DeviceRefs(d) : r \notin got
      <4>1. \A r \in DeviceRefs(d) : \E q \in Pollers : DeviceOf[q] = d /\ r \in RefsOf[q]
        BY PlacesOfHandlers, Zenon
      <4>2. \A q \in Pollers : RefsOf[q] \cap RefsOf[p] # {} => q = p
        BY <1>2
      <4> QED
        BY <1>9, <2>4, <4>1, <4>2
    <3>2. \A r \in DeviceRefs(d) : val'[r] = val[r]
      BY <1>8, <2>2, <3>1
    <3> QED
      BY <1>5, <2>1, <2>4, <3>2
  <2> QED
    BY <2>3, <2>4
<1>11. ReadInv'
  BY <1>8, <1>10 DEF ReadInv
<1>12. AheadInv'
  <2> SUFFICES ASSUME NEW k \in DOMAIN Handlers[h], k >= i',
                      NEW r \in RefsOf[Handlers[h][k]]
               PROVE  val'[r] = "none"
    BY <1>1 DEF AheadInv
  <2>1. i \in Nat /\ k \in 1..Len(Handlers[h]) /\ k > i
    BY <1>2, <1>6, HandlerFacts
  <2>2. val[r] = "none"
    <3>1. k >= i
      BY <2>1
    <3> QED
      BY <1>1, <3>1, Zenon DEF AheadInv
  <2>3. Handlers[h][k] \in Pollers /\ Handlers[h][k] # p
    BY <1>2, <2>1, PlacesOfHandlers
  <2>4. r \in Refs /\ r \notin got
    BY <1>2, <1>9, <2>3, PlacesOfHandlers
  <2> QED
    BY <1>8, <2>2, <2>4
<1> QED
  BY <1>11, <1>12

LEMMA RaisesReads ==
  ASSUME TypeOK, PlaceInv, ReadInv, AheadInv, PollRaises
  PROVE  ReadInv' /\ AheadInv'
<1>1. phase = "polling" /\ i <= Len(Handlers[h]) /\ phase' = "handlers"
      /\ pollSuccess' = pollSuccess
  BY DEF PollRaises, NextHandler
<1>2. i \in DOMAIN Handlers[h] /\ Current = Handlers[h][i]
  BY <1>1, CurrentFacts DEF Current
<1>3. \A r \in RefsOf[Current] : val[r] = "none"
  <2>1. i >= i
    BY DEF TypeOK
  <2> QED
    BY <1>1, <1>2, <2>1, Zenon DEF AheadInv
<1>4. \A r \in Refs : val'[r] = val[r]
  BY <1>3 DEF PollRaises
<1>5. \A d, r : r \in DeviceRefs(d) => r \in Refs
  BY PlacesOfHandlers
<1>6. ReadInv'
  BY <1>1, <1>4, <1>5 DEF ReadInv
<1>7. AheadInv'
  BY <1>1 DEF AheadInv
<1> QED
  BY <1>6, <1>7

LEMMA StepReads ==
  ASSUME TypeOK, PlaceInv, ReadInv, AheadInv, [Next]_vars
  PROVE  ReadInv' /\ AheadInv'
<1>1. CASE UNCHANGED <<val, pollSuccess>> /\ phase' # "polling"
  BY <1>1 DEF ReadInv, AheadInv
<1>2. CASE UNCHANGED <<val, pollSuccess, phase, h, i>>
  BY <1>2 DEF ReadInv, AheadInv
<1>3. CASE Refused \/ ConnectFails \/ ReturnFromPoll \/ ReachPublish \/ EndCycle
           \/ StopLoop
  BY <1>1, <1>3 DEF Refused, ConnectFails, ReturnFromPoll, ReachPublish, EndCycle,
                    StopLoop, NextHandler
<1>4. CASE TryConnect \/ Cool \/ Tick \/ LinkChanges \/ Signal \/ UNCHANGED vars
  BY <1>2, <1>4 DEF TryConnect, Cool, Tick, LinkChanges, Signal, vars
<1>5. CASE SkipDisabled
  <2>1. /\ UNCHANGED <<val, pollSuccess, phase, h>> /\ i' = i + 1
        /\ phase = "polling" /\ i <= Len(Handlers[h])
    BY <1>5 DEF SkipDisabled
  <2>2. /\ i \in Nat /\ h \in DOMAIN Handlers
        /\ \A k \in DOMAIN Handlers[h] : k \in Nat
    <3>1. h \in DOMAIN Handlers
      BY <2>1, CurrentFacts
    <3> QED
      BY <3>1, HandlerFacts DEF TypeOK
  <2>3. AheadInv'
    BY <2>1, <2>2 DEF AheadInv
  <2> QED
    BY <2>1, <2>3 DEF ReadInv
<1> QED
  BY <1>3, <1>4, <1>5, BeginReads, EnterReads, AnsweredReads, RaisesReads
     DEF Next, Owner

LEMMA ReadsInvariant == Spec => [](ReadInv /\ AheadInv)
<1>1. Init => ReadInv /\ AheadInv
  <2> SUFFICES ASSUME Init PROVE ReadInv /\ AheadInv
    OBVIOUS
  <2>1. \A d, r : r \in DeviceRefs(d) => r \in Refs
    BY PlacesOfHandlers
  <2> QED
    BY <2>1 DEF Init, ReadInv, AheadInv
<1> QED
  BY <1>1, StepReads, InPlace, PTL DEF Spec

\* begin_poll_cycle of all handlers, and again on entry to poll(): whatever is
\* refused, skipped, aborted or stopped in a cycle, it publishes nothing an
\* earlier one read, and marks exactly the devices that answered.
THEOREM PublishedFresh == Spec => []PublishedValuesAreFresh
<1>1. ReadInv => PublishedValuesAreFresh
  BY DEF ReadInv, PublishedValuesAreFresh
<1> QED
  BY <1>1, ReadsInvariant, PTL
-----------------------------------------------------------------------------
(* Success. *)

\* As long as nothing failed and nobody stops, the handlers and the pollers
\* that had their turn have been read.  (A stop makes poll() report a success it
\* has not had, but then nothing is published any more.)
DoneInv ==
  /\ phase \in {"handlers", "polling"} /\ ~stop /\ ~failed =>
       \A g \in DOMAIN Handlers : g < h =>
         \A r \in HandlerRefs(g) : val[r] = "fresh"
  /\ phase = "polling" /\ ~stop /\ all_success =>
       \A k \in DOMAIN Handlers[h] : k < i =>
         \A r \in RefsOf[Handlers[h][k]] : val[r] = "fresh"
  /\ phase = "publish" /\ ~failed => \A r \in Refs : val[r] = "fresh"

LEMMA PlaceNumbers ==
  ASSUME TypeOK
  PROVE  /\ h \in Nat /\ i \in Nat
         /\ \A g \in DOMAIN Handlers : g \in Nat /\ g >= 1 /\ g <= Len(Handlers)
         /\ \A g \in DOMAIN Handlers : \A k \in DOMAIN Handlers[g] :
              k \in Nat /\ k >= 1 /\ k <= Len(Handlers[g])
<1>1. \A g \in DOMAIN Handlers : g \in 1..Len(Handlers) /\ Len(Handlers) \in Nat
  BY HandlerFacts
<1>2. \A g \in DOMAIN Handlers : \A k \in DOMAIN Handlers[g] :
        k \in 1..Len(Handlers[g]) /\ Len(Handlers[g]) \in Nat
  BY HandlerFacts
<1>3. Len(Handlers) \in Nat
  <2> DEFINE S == Seq(Pollers)
  <2>1. Handlers \in Seq(S)
    OBVIOUS
  <2> HIDE DEF S
  <2> QED
    BY <2>1
<1> QED
  BY <1>1, <1>2, <1>3 DEF TypeOK

\* A reference belongs to one place, so that what happens at another leaves it.
LEMMA OnePlace ==
  ASSUME NEW f \in DOMAIN Handlers, NEW g \in DOMAIN Handlers,
         NEW j \in DOMAIN Handlers[f], NEW k \in DOMAIN Handlers[g],
         NEW r, r \in RefsOf[Handlers[f][j]], r \in RefsOf[Handlers[g][k]]
  PROVE  f = g /\ j = k
<1>1. Handlers[f][j] \in Pollers /\ Handlers[g][k] \in Pollers
  BY PlacesOfHandlers
<1>2. Handlers[f][j] = Handlers[g][k]
  BY <1>1
<1> QED
  BY <1>2

LEMMA EnterDone ==
  ASSUME TypeOK, DoneInv, EnterPoll
  PROVE  DoneInv'
<1>1. /\ phase = "handlers" /\ h \in DOMAIN Handlers /\ h' = h /\ i' = 1
      /\ phase' = "polling" /\ UNCHANGED <<stop, failed>>
  BY AtHandlerFacts, TypeParts DEF EnterPoll
<1>2. \A r \in Refs : val'[r] = IF r \in HandlerRefs(h) THEN "none" ELSE val[r]
  BY DEF EnterPoll, InvalidateHandler
<1>3. ASSUME ~stop, ~failed, NEW g \in DOMAIN Handlers, g < h,
             NEW r \in HandlerRefs(g)
      PROVE  val'[r] = "fresh"
  <2>1. val[r] = "fresh"
    BY <1>1, <1>3, Zenon DEF DoneInv
  <2>2. PICK k \in DOMAIN Handlers[g] : r \in RefsOf[Handlers[g][k]]
    BY PlacesOfHandlers
  <2>3. g # h
    BY <1>3, PlaceNumbers
  <2>4. r \notin HandlerRefs(h)
    <3>1. SUFFICES ASSUME NEW j \in DOMAIN Handlers[h],
                          r \in RefsOf[Handlers[h][j]]
                   PROVE  FALSE
      BY <1>1, PlacesOfHandlers, Zenon
    <3> QED
      BY <1>1, <2>2, <2>3, <3>1, OnePlace
  <2>5. r \in Refs
    BY <2>2, PlacesOfHandlers
  <2> QED
    BY <1>2, <2>1, <2>4, <2>5
<1>4. \A k \in DOMAIN Handlers[h] : ~(k < 1)
  BY <1>1, PlaceNumbers
<1> QED
  BY <1>1, <1>3, <1>4 DEF DoneInv

LEMMA AnsweredDone ==
  ASSUME TypeOK, PlaceInv, DoneInv,
         NEW got \in SUBSET Refs, got \subseteq RefsOf[Current], PollAnswered(got)
  PROVE  DoneInv'
<1>1. /\ phase = "polling" /\ i <= Len(Handlers[h])
      /\ UNCHANGED <<phase, h, stop, failed>>
      /\ all_success' = (all_success /\ got = RefsOf[Current])
      /\ ~stop => i' = i + 1
  BY DEF PollAnswered
<1>2. /\ h \in DOMAIN Handlers /\ i \in DOMAIN Handlers[h]
      /\ Current = Handlers[h][i]
  BY <1>1, CurrentFacts DEF Current
<1>3. \A r \in Refs : val'[r] = IF r \in got THEN "fresh"
                               ELSE IF r \in RefsOf[Current] THEN "none" ELSE val[r]
  BY DEF PollAnswered
<1>4. ASSUME NEW g \in DOMAIN Handlers, NEW k \in DOMAIN Handlers[g],
             g # h \/ k # i, NEW r \in RefsOf[Handlers[g][k]]
      PROVE  val'[r] = val[r]
  <2>1. r \notin RefsOf[Current]
    BY <1>2, <1>4, OnePlace
  <2>2. r \in Refs
    BY PlacesOfHandlers
  <2> QED
    BY <1>3, <2>1, <2>2
<1>5. ASSUME ~stop, ~failed, NEW g \in DOMAIN Handlers, g < h,
             NEW r \in HandlerRefs(g)
      PROVE  val'[r] = "fresh"
  <2>1. val[r] = "fresh"
    BY <1>1, <1>5, Zenon DEF DoneInv
  <2>2. PICK k \in DOMAIN Handlers[g] : r \in RefsOf[Handlers[g][k]]
    BY PlacesOfHandlers
  <2>3. g # h
    BY <1>5, PlaceNumbers
  <2> QED
    BY <1>4, <2>1, <2>2, <2>3
<1>6. ASSUME ~stop, all_success, got = RefsOf[Current],
             NEW k \in DOMAIN Handlers[h], k < i + 1,
             NEW r \in RefsOf[Handlers[h][k]]
      PROVE  val'[r] = "fresh"
  <2>1. k < i \/ k = i
    BY <1>2, <1>6, PlaceNumbers
  <2>2. CASE k < i
    <3>1. val[r] = "fresh"
      BY <1>1, <1>6, <2>2, Zenon DEF DoneInv
    <3>2. k # i
      BY <1>2, <2>2, PlaceNumbers
    <3> QED
      BY <1>2, <1>4, <3>1, <3>2
  <2>3. CASE k = i
    BY <1>2, <1>3, <1>6, <2>3
  <2> QED
    BY <2>1, <2>2, <2>3
<1> QED
  BY <1>1, <1>5, <1>6 DEF DoneInv

LEMMA ReturnDone ==
  ASSUME TypeOK, PlaceInv, DoneInv, ReturnFromPoll
  PROVE  DoneInv'
<1>1. /\ phase = "polling" /\ i > Len(Handlers[h])
      /\ phase' = "handlers" /\ h' = h + 1 /\ UNCHANGED <<stop, val>>
      /\ ~failed' => ~failed /\ all_success
  BY DEF ReturnFromPoll, NextHandler
<1>2. h \in DOMAIN Handlers
  BY <1>1 DEF PlaceInv
<1>3. ASSUME ~stop, ~failed', NEW g \in DOMAIN Handlers, g < h + 1,
             NEW r \in HandlerRefs(g)
      PROVE  val[r] = "fresh"
  <2>1. g < h \/ g = h
    BY <1>2, <1>3, PlaceNumbers
  <2>2. CASE g < h
    BY <1>1, <1>3, <2>2, Zenon DEF DoneInv
  <2>3. CASE g = h
    <3>1. PICK k \in DOMAIN Handlers[h] : r \in RefsOf[Handlers[h][k]]
      BY <2>3, PlacesOfHandlers
    <3>2. k < i
      <4>1. /\ k \in Nat /\ k <= Len(Handlers[h]) /\ i \in Nat
            /\ Len(Handlers[h]) \in Nat
        BY <1>2, PlaceNumbers, HandlerFacts
      <4> QED
        BY <1>1, <4>1
    <3> QED
      BY <1>1, <1>3, <3>1, <3>2, Zenon DEF DoneInv
  <2> QED
    BY <2>1, <2>2, <2>3
<1> QED
  BY <1>1, <1>3 DEF DoneInv

LEMMA PublishDone ==
  ASSUME TypeOK, DoneInv, ReachPublish
  PROVE  DoneInv'
<1>1. /\ phase = "handlers" /\ h > Len(Handlers) /\ ~stop
      /\ phase' = "publish" /\ UNCHANGED <<val, failed>>
  BY DEF ReachPublish
<1>2. ASSUME ~failed, NEW r \in Refs PROVE val[r] = "fresh"
  <2>1. PICK g \in DOMAIN Handlers : r \in HandlerRefs(g)
    BY PlacesOfHandlers
  <2>2. g < h
    <3>1. g \in Nat /\ g <= Len(Handlers) /\ h \in Nat /\ Len(Handlers) \in Nat
      BY PlaceNumbers, HandlerFacts
    <3> QED
      BY <1>1, <3>1
  <2> QED
    BY <1>1, <1>2, <2>1, <2>2, Zenon DEF DoneInv
<1> QED
  BY <1>1, <1>2 DEF DoneInv

LEMMA StepDone ==
  ASSUME TypeOK, PlaceInv, DoneInv, [Next]_vars
  PROVE  DoneInv'
<1>1. CASE UNCHANGED <<val, phase, h, i, failed, all_success>> /\ (stop => stop')
  BY <1>1 DEF DoneInv
<1>2. CASE TryConnect \/ Cool \/ Tick \/ LinkChanges \/ Signal \/ UNCHANGED vars
  BY <1>1, <1>2 DEF TryConnect, Cool, Tick, LinkChanges, Signal, vars
<1>3. CASE BeginCycle
  <2>1. phase' = "handlers" /\ h' = 1
    BY <1>3 DEF BeginCycle
  <2>2. \A g \in DOMAIN Handlers : ~(g < 1)
    BY PlaceNumbers
  <2> QED
    BY <2>1, <2>2 DEF DoneInv
<1>4. CASE Refused \/ ConnectFails \/ PollRaises
  BY <1>4 DEF Refused, ConnectFails, PollRaises, NextHandler, DoneInv
<1>5. CASE SkipDisabled
  BY <1>5 DEF SkipDisabled, DoneInv
<1>6. CASE EndCycle \/ StopLoop
  BY <1>6 DEF EndCycle, StopLoop, DoneInv
<1> QED
  BY <1>2, <1>3, <1>4, <1>5, <1>6, EnterDone, AnsweredDone, ReturnDone,
     PublishDone DEF Next, Owner

\* The result of poll() and of the loop over the files: whatever is refused,
\* skipped, aborted or stopped, a cycle that is published without a failure has
\* read every reference.
THEOREM SuccessIsHonest == Spec => []SuccessMeansAllRead
<1>1. Init => DoneInv
  BY DEF Init, DoneInv
<1>2. DoneInv => SuccessMeansAllRead
  BY DEF DoneInv, SuccessMeansAllRead
<1> QED
  BY <1>1, <1>2, StepDone, InPlace, PTL DEF Spec
=============================================================================
