------------------------------ MODULE OwnerLoop ------------------------------
(***************************************************************************)
(* The owner loop of app() (modpoll/main.py): poll cycles, diagnostics,    *)
(* commands and waiting share one thread and two deadlines; every cycle    *)
(* may end with a snapshot on disk (SnapshotExport).                       *)
(*                                                                         *)
(* Time is relative: poll_due and diag_due are next_poll and next_diag     *)
(* minus the clock. It passes while the loop is in an operation, which     *)
(* takes between 0 and `budget` ticks; what lies between is immediate.     *)
(* What a poll, a command or the queue does inside is the subject of       *)
(* PollCycle, CommandDispatch and CommandQueue.                            *)
(***************************************************************************)
EXTENDS Integers

CONSTANTS
  Rate,        \* --rate, in ticks
  DiagRates,   \* values of --diagnostics-rate; 0 is off
  Slice,       \* the 0.1 s a wait lasts at most
  MaxPoll,     \* the longest poll cycle, with publishing and export
  MaxDiag,     \* the longest diagnostics publication
  MaxCommand,  \* the longest execution of a command
  MaxQueue     \* the receive queue's size

ASSUME LoopAssumption ==
  /\ Rate \in Nat \ {0} /\ Slice \in Nat \ {0} /\ DiagRates \subseteq Nat
  /\ MaxPoll \in Nat \ {0} /\ MaxDiag \in Nat \ {0}
  /\ MaxCommand \in Nat \ {0}
  /\ MaxQueue \in Nat

VARIABLES
  once, mqtt, export, diagnostics_rate,  \* the options, fixed at the start
  phase,               \* where the loop is
  budget,              \* ticks the operation it is in may still take
  poll_due, diag_due,  \* ticks until next_poll and next_diag
  diag_seen,           \* now >= next_diag, for the `now` of this round
  stop, failed,
  queued, wakeup,      \* the receive queue and its event
  temp, dest, disk,    \* the snapshot
  since                \* history: time since the last two cycles began

options == <<once, mqtt, export, diagnostics_rate>>
mail == <<queued, wakeup>>
snapshot == <<temp, dest, disk>>
vars == <<options, phase, budget, poll_due, diag_due, diag_seen, stop, failed,
          mail, snapshot, since>>

File == INSTANCE SnapshotExport WITH temp <- temp, dest <- dest, disk <- disk

CyclePhases == {"polling", "exporting", "cycle_end"}
Phases == CyclePhases \cup {"top", "polled", "diagnosing", "receiving",
                            "command", "waiting", "flushing", "stopped"}

\* The abstract view: what the devices see of the loop.
Pacing == INSTANCE CyclePacing
            WITH Rate <- Rate, running <- phase \in CyclePhases, since <- since

Init ==
  /\ once \in BOOLEAN /\ mqtt \in BOOLEAN /\ export \in BOOLEAN
  /\ diagnostics_rate \in DiagRates
  /\ phase = "top" /\ budget = 0
  /\ poll_due = 0 /\ diag_due = 0 /\ diag_seen = FALSE
  /\ stop = FALSE /\ failed = FALSE
  /\ queued = 0 /\ wakeup = FALSE
  /\ since = Pacing!Fresh
  /\ File!Init

-----------------------------------------------------------------------------
(* A round of the loop. *)

\* The `now` of a round is read at its top, and diagnostics are checked
\* against it although a poll cycle may lie in between.
ReadClock == diag_seen' = (diagnostics_rate > 0 /\ diag_due <= 0)

StartCycle ==
  /\ phase = "top" /\ ~stop
  /\ poll_due <= 0
  /\ ReadClock
  /\ phase' = "polling" /\ budget' = MaxPoll
  /\ since' = [since EXCEPT ![1] = 0, ![2] = since[1]]
  /\ File!Age
  /\ UNCHANGED <<options, poll_due, diag_due, stop, failed, mail>>

NoCycle ==
  /\ phase = "top" /\ ~stop
  /\ poll_due > 0
  /\ ReadClock
  /\ phase' = "polled" /\ budget' = 0
  /\ UNCHANGED <<options, poll_due, diag_due, stop, failed, mail, snapshot,
                 since>>

\* All handlers were polled, or a stop came in between; then nothing is
\* published or exported.
PollsDone(ok) ==
  /\ phase = "polling"
  /\ failed' = (failed \/ ~ok)
  /\ phase' = IF export /\ ~stop THEN "exporting" ELSE "cycle_end"
  /\ UNCHANGED <<options, budget, poll_due, diag_due, diag_seen, stop, mail,
                 snapshot, since>>

ExportStep ==
  /\ phase = "exporting"
  /\ File!Create \/ File!Write \/ File!Fsync
  /\ UNCHANGED <<options, phase, budget, poll_due, diag_due, diag_seen, stop,
                 failed, mail, since>>

ExportDone ==
  /\ phase = "exporting"
  /\ File!Replace
  /\ phase' = "cycle_end"
  /\ UNCHANGED <<options, budget, poll_due, diag_due, diag_seen, stop, failed,
                 mail, since>>

ExportFails ==
  /\ phase = "exporting"
  /\ File!Fail
  /\ failed' = TRUE
  /\ phase' = "cycle_end"
  /\ UNCHANGED <<options, budget, poll_due, diag_due, diag_seen, stop, mail,
                 since>>

\* Mistake: after an overrun the missed periods are made up for.
NextPollCatchesUp == poll_due' = poll_due + Rate

\* next_poll += rate, unless that is already over.
NextPoll == poll_due' = IF poll_due + Rate > 0 THEN poll_due + Rate ELSE Rate

FinishCycle ==
  /\ phase = "cycle_end"
  /\ NextPoll
  /\ phase' = IF once THEN "flushing" ELSE "polled"
  /\ budget' = 0
  /\ UNCHANGED <<options, diag_due, diag_seen, stop, failed, mail, snapshot,
                 since>>

\* --once: wait for the broker, and leave.
FlushOnce ==
  /\ phase = "flushing"
  /\ failed' \in IF mqtt THEN {failed, TRUE} ELSE {failed}
  /\ phase' = "stopped"
  /\ UNCHANGED <<options, budget, poll_due, diag_due, diag_seen, stop, mail,
                 snapshot, since>>

StartDiagnostics ==
  /\ phase = "polled" /\ diag_seen
  /\ phase' = "diagnosing" /\ budget' = MaxDiag
  /\ UNCHANGED <<options, poll_due, diag_due, diag_seen, stop, failed, mail,
                 snapshot, since>>

NoDiagnostics ==
  /\ phase = "polled" /\ ~diag_seen
  /\ phase' = "receiving"
  /\ UNCHANGED <<options, budget, poll_due, diag_due, diag_seen, stop, failed,
                 mail, snapshot, since>>

FinishDiagnostics ==
  /\ phase = "diagnosing"
  /\ diag_due' = diagnostics_rate
  /\ phase' = "receiving" /\ budget' = 0
  /\ UNCHANGED <<options, poll_due, diag_seen, stop, failed, mail, snapshot,
                 since>>

-----------------------------------------------------------------------------
(* Commands and waiting. *)

\* receive() takes n messages, the last of which may be a command to execute:
\* those before it had expired. Taking the last one clears the event.
Take(n) ==
  /\ queued' = queued - n
  /\ wakeup' = (wakeup /\ ~(n > 0 /\ n = queued))

StartCommand(n) ==
  /\ phase = "receiving"
  /\ mqtt /\ ~stop
  /\ n \in 1..queued
  /\ Take(n)
  /\ phase' = "command" /\ budget' = MaxCommand
  /\ UNCHANGED <<options, poll_due, diag_due, diag_seen, stop, failed,
                 snapshot, since>>

\* Mistake: the loop goes on serving commands while there are any.
FinishCommandAndReceive ==
  /\ phase = "command"
  /\ phase' = "receiving" /\ budget' = 0
  /\ UNCHANGED <<options, poll_due, diag_due, diag_seen, stop, failed, mail,
                 snapshot, since>>

\* One command a round: `continue`.
FinishCommand ==
  /\ phase = "command"
  /\ phase' = "top" /\ budget' = 0
  /\ UNCHANGED <<options, poll_due, diag_due, diag_seen, stop, failed, mail,
                 snapshot, since>>

NextDeadline ==
  IF diagnostics_rate > 0 /\ diag_due < poll_due THEN diag_due ELSE poll_due

WaitTime == IF NextDeadline <= 0 THEN 0
            ELSE IF NextDeadline < Slice THEN NextDeadline ELSE Slice

StartWait ==
  /\ phase = "receiving"
  /\ IF mqtt /\ ~stop THEN Take(queued) ELSE UNCHANGED mail
  /\ phase' = "waiting" /\ budget' = WaitTime
  /\ UNCHANGED <<options, poll_due, diag_due, diag_seen, stop, failed,
                 snapshot, since>>

\* mqtt.wait is cut short by the receive queue's event, delay_thread by a stop.
EndWait ==
  /\ phase = "waiting"
  /\ budget = 0 \/ (mqtt /\ wakeup) \/ (~mqtt /\ stop)
  /\ phase' = "top" /\ budget' = 0
  /\ UNCHANGED <<options, poll_due, diag_due, diag_seen, stop, failed, mail,
                 snapshot, since>>

LeaveLoop ==
  /\ phase = "top" /\ stop
  /\ phase' = "stopped"
  /\ UNCHANGED <<options, budget, poll_due, diag_due, diag_seen, stop, failed,
                 mail, snapshot, since>>

Owner ==
  \/ StartCycle \/ NoCycle \/ (\E ok \in BOOLEAN : PollsDone(ok))
  \/ ExportStep \/ ExportDone \/ ExportFails \/ FinishCycle \/ FlushOnce
  \/ StartDiagnostics \/ NoDiagnostics \/ FinishDiagnostics
  \/ (\E n \in 1..MaxQueue : StartCommand(n)) \/ FinishCommand
  \/ StartWait \/ EndWait \/ LeaveLoop

-----------------------------------------------------------------------------
(* The environment. *)

Tick ==
  /\ phase # "stopped" /\ budget > 0
  /\ budget' = budget - 1
  /\ poll_due' = poll_due - 1
  /\ diag_due' = IF diagnostics_rate > 0 THEN diag_due - 1 ELSE diag_due
  /\ since' = [k \in 1..2 |-> Pacing!Older(since[k])]
  /\ UNCHANGED <<options, phase, diag_seen, stop, failed, mail, snapshot>>

\* Mistake: the queue has no size.
ArriveAlways ==
  /\ mqtt /\ phase # "stopped"
  /\ queued' = queued + 1 /\ wakeup' = TRUE
  /\ UNCHANGED <<options, phase, budget, poll_due, diag_due, diag_seen, stop,
                 failed, snapshot, since>>

Arrive ==
  /\ mqtt /\ phase # "stopped" /\ queued < MaxQueue
  /\ queued' = queued + 1 /\ wakeup' = TRUE
  /\ UNCHANGED <<options, phase, budget, poll_due, diag_due, diag_seen, stop,
                 failed, snapshot, since>>

\* on_connect, or a rejected message.
WakeUp ==
  /\ mqtt /\ phase # "stopped"
  /\ wakeup' = TRUE
  /\ UNCHANGED <<options, phase, budget, poll_due, diag_due, diag_seen, stop,
                 failed, queued, snapshot, since>>

Signal ==
  /\ phase # "stopped" /\ ~stop
  /\ stop' = TRUE
  /\ UNCHANGED <<options, phase, budget, poll_due, diag_due, diag_seen, failed,
                 mail, snapshot, since>>

Settle ==
  /\ File!Settle
  /\ UNCHANGED <<options, phase, budget, poll_due, diag_due, diag_seen, stop,
                 failed, mail, since>>

\* The process dies, or ends after an unexpected exception or a stop, and is
\* started again.
CrashAndRestart ==
  /\ File!Crash
  /\ phase' = "top" /\ budget' = 0
  /\ poll_due' = 0 /\ diag_due' = 0 /\ diag_seen' = FALSE
  /\ stop' = FALSE /\ failed' = FALSE
  /\ queued' = 0 /\ wakeup' = FALSE
  /\ since' = Pacing!Fresh
  /\ UNCHANGED options

Environment ==
  Tick \/ Arrive \/ WakeUp \/ Signal \/ Settle \/ CrashAndRestart

Next == Owner \/ Environment

Spec == Init /\ [][Next]_vars

-----------------------------------------------------------------------------
(* Properties. *)

TypeOK ==
  /\ once \in BOOLEAN /\ mqtt \in BOOLEAN /\ export \in BOOLEAN
  /\ diagnostics_rate \in DiagRates
  /\ phase \in Phases
  /\ budget \in Nat /\ poll_due \in Int /\ diag_due \in Int
  /\ diag_seen \in BOOLEAN /\ stop \in BOOLEAN /\ failed \in BOOLEAN
  /\ queued \in 0..MaxQueue /\ wakeup \in BOOLEAN
  /\ File!TypeOK
  /\ since \in [1..2 -> 0..Pacing!LongAgo]

\* A deadline is missed by a bounded time, whatever the traffic: a poll cycle
\* waits for at most one diagnostics publication and one command, and
\* diagnostics for at most two cycles, one of which began before they were
\* due, and one command.
LatenessBounded ==
  /\ phase = "top" => poll_due > -(MaxDiag + MaxCommand)
  /\ phase = "polled" /\ diag_seen => diag_due > -(2 * MaxPoll + MaxCommand)

\* Cycles that overrun do not make up for lost time: the loop implements
\* CyclePacing.
CyclesArePaced == Pacing!Spec

\* The destination is always absent or one whole snapshot, also after a power
\* loss at any moment; and a cycle that ends without its snapshot in place has
\* set `failed`, or is cut short by a stop.
SnapshotHonest ==
  /\ dest # "torn" /\ "torn" \notin disk
  /\ phase = "cycle_end" /\ export /\ ~failed /\ ~stop => dest = "new"
=============================================================================
