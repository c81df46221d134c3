--------------------------- MODULE OwnerLoop_proofs ---------------------------
(***************************************************************************)
(* For every period and every duration of the operations: deadlines are    *)
(* missed by a bounded time only, cycles are paced as CyclePacing says,    *)
(* and the snapshot on disk is whole.                                      *)
(***************************************************************************)
EXTENDS OwnerLoop, TLAPS

USE LoopAssumption

\* The loop's own places, and what the options are.
OptionsType ==
  /\ once \in BOOLEAN /\ mqtt \in BOOLEAN /\ export \in BOOLEAN
  /\ diagnostics_rate \in DiagRates

TimeType ==
  /\ budget \in Nat /\ poll_due \in Int /\ diag_due \in Int
  /\ since \in [1..2 -> 0..(Rate + 1)]

FlagType ==
  /\ phase \in Phases
  /\ diag_seen \in BOOLEAN /\ stop \in BOOLEAN /\ failed \in BOOLEAN
  /\ wakeup \in BOOLEAN

MailType == queued \in 0..MaxQueue

\* How late the next poll cycle can still become, by where the loop is: every
\* operation has used up what its budget has lost.
PollInv ==
  /\ phase = "top" => poll_due > -(MaxDiag + MaxCommand)
  /\ phase = "polled" => poll_due > 0
  /\ phase = "diagnosing" => poll_due > budget - MaxDiag
  /\ phase \in {"receiving", "waiting"} => poll_due > -MaxDiag
  /\ phase = "command" => poll_due > budget - MaxDiag - MaxCommand
  /\ phase = "waiting" => budget = 0 \/ budget <= poll_due
  /\ phase \in {"top", "polled", "receiving"} => budget = 0

\* The same for diagnostics, which a cycle can keep waiting twice: once when
\* they fall due during the cycle, and once when the next one is due as well.
DiagInv ==
  diagnostics_rate > 0 =>
    /\ phase = "top" => diag_due > -(MaxPoll + MaxCommand)
    /\ phase \in CyclePhases =>
         diag_due > budget - MaxPoll - (IF diag_seen THEN MaxPoll + MaxCommand
                                        ELSE 0)
    /\ phase = "polled" => diag_due > -MaxPoll - (IF diag_seen
                                                  THEN MaxPoll + MaxCommand
                                                  ELSE 0)
    /\ phase \in {"receiving", "waiting"} => diag_due > -MaxPoll
    /\ phase = "command" => diag_due > budget - MaxPoll - MaxCommand
    /\ phase = "waiting" => budget = 0 \/ budget <= diag_due
    /\ phase \in {"top", "polled", "receiving"} => budget = 0

\* Diagnostics that are off are never due.
SeenInv == diag_seen => diagnostics_rate > 0

\* Each cycle has a due time of its own, at least Rate after the one before,
\* and began before the next one's due time was set.
PaceInv ==
  /\ phase \in CyclePhases => since[2] > -poll_due \/ since[2] > Rate
  /\ phase \notin CyclePhases \cup {"flushing", "stopped"} =>
       /\ since[1] > -poll_due \/ since[1] > Rate
       /\ since[2] > Rate - poll_due \/ since[2] > Rate

-----------------------------------------------------------------------------
\* The options never change, and only FinishDiagnostics, with diagnostics on,
\* sets next_diag.
THEOREM TypeCorrect == Spec => []TypeOK
<1> DEFINE T == OptionsType /\ TimeType /\ FlagType /\ MailType /\ File!TypeOK
<1>1. T <=> TypeOK
  BY DEF OptionsType, TimeType, FlagType, MailType, TypeOK, Pacing!LongAgo
<1>2. Init => T
  <2> SUFFICES ASSUME Init PROVE T
    OBVIOUS
  <2>1. OptionsType
    BY DEF Init, OptionsType
  <2>2. TimeType
    BY DEF Init, TimeType, Pacing!Fresh, Pacing!LongAgo
  <2>3. FlagType
    BY DEF Init, FlagType, Phases
  <2>4. MailType
    BY DEF Init, MailType
  <2>5. File!TypeOK
    BY DEF Init, File!Init, File!TypeOK, File!TempStates, File!Contents
  <2> QED
    BY <2>1, <2>2, <2>3, <2>4, <2>5
<1>3. T /\ [Next]_vars => T'
  <2> SUFFICES ASSUME T, [Next]_vars PROVE T'
    OBVIOUS
  <2>1. OptionsType'
    BY DEF OptionsType, vars, options, Next, Owner, Environment, StartCycle,
           NoCycle, PollsDone, ExportStep, ExportDone, ExportFails,
           FinishCycle, FlushOnce, StartDiagnostics, NoDiagnostics,
           FinishDiagnostics, StartCommand, FinishCommand, StartWait, EndWait,
           LeaveLoop, Tick, Arrive, WakeUp, Signal, Settle, CrashAndRestart
  <2>2. TimeType'
    <3>1. CASE StartCycle
      BY <3>1 DEF StartCycle, TimeType
    <3>2. CASE FinishCycle
      BY <3>2 DEF FinishCycle, NextPoll, TimeType
    <3>3. CASE FinishDiagnostics
      BY <3>3 DEF FinishDiagnostics, OptionsType, TimeType
    <3>4. CASE StartWait
      BY <3>4 DEF StartWait, WaitTime, NextDeadline, TimeType
    <3>5. CASE Tick
      BY <3>5 DEF Tick, Pacing!Older, Pacing!LongAgo, TimeType
    <3>6. CASE CrashAndRestart
      BY <3>6 DEF CrashAndRestart, Pacing!Fresh, Pacing!LongAgo, TimeType
    <3>7. CASE \/ NoCycle \/ StartDiagnostics \/ FinishCommand \/ EndWait
               \/ \E n \in 1..MaxQueue : StartCommand(n)
      BY <3>7 DEF NoCycle, StartDiagnostics, FinishCommand, EndWait,
                  StartCommand, TimeType
    <3>8. CASE \/ ExportStep \/ ExportDone \/ ExportFails \/ FlushOnce
               \/ NoDiagnostics \/ LeaveLoop \/ Arrive \/ WakeUp \/ Signal
               \/ Settle \/ (\E ok \in BOOLEAN : PollsDone(ok))
               \/ UNCHANGED vars
      BY <3>8 DEF ExportStep, ExportDone, ExportFails, FlushOnce,
                  NoDiagnostics, LeaveLoop, Arrive, WakeUp, Signal, Settle,
                  PollsDone, vars, TimeType
    <3> QED
      BY <3>1, <3>2, <3>3, <3>4, <3>5, <3>6, <3>7, <3>8
         DEF Next, Owner, Environment
  <2>3. FlagType'
    <3>1. CASE StartCycle \/ NoCycle
      BY <3>1 DEF StartCycle, NoCycle, ReadClock, mail, FlagType, Phases,
                  CyclePhases
    <3>2. CASE \E ok \in BOOLEAN : PollsDone(ok)
      BY <3>2 DEF PollsDone, mail, FlagType, Phases, CyclePhases
    <3>3. CASE \/ ExportStep \/ ExportDone \/ ExportFails \/ FinishCycle
               \/ FlushOnce \/ StartDiagnostics \/ NoDiagnostics
               \/ FinishDiagnostics
      BY <3>3 DEF ExportStep, ExportDone, ExportFails, FinishCycle, FlushOnce,
                  StartDiagnostics, NoDiagnostics, FinishDiagnostics, mail,
                  FlagType, Phases, CyclePhases
    <3>4. CASE \/ FinishCommand \/ StartWait \/ EndWait \/ LeaveLoop \/ Tick
               \/ \E n \in 1..MaxQueue : StartCommand(n)
      BY <3>4 DEF FinishCommand, StartWait, EndWait, LeaveLoop, Tick,
                  StartCommand, Take, mail, FlagType, Phases
    <3>5. CASE \/ Arrive \/ WakeUp \/ Signal \/ Settle \/ CrashAndRestart
               \/ UNCHANGED vars
      BY <3>5 DEF Arrive, WakeUp, Signal, Settle, CrashAndRestart, vars, mail,
                  FlagType, Phases
    <3> QED
      BY <3>1, <3>2, <3>3, <3>4, <3>5 DEF Next, Owner, Environment
  <2>4. MailType'
    <3>1. CASE \E n \in 1..MaxQueue : StartCommand(n)
      BY <3>1 DEF StartCommand, Take, MailType
    <3>2. CASE StartWait
      BY <3>2 DEF StartWait, Take, MailType, mail
    <3>3. CASE Arrive \/ WakeUp \/ CrashAndRestart
      BY <3>3 DEF Arrive, WakeUp, CrashAndRestart, MailType
    <3>4. CASE UNCHANGED queued
      BY <3>4 DEF MailType
    <3> QED
      BY <3>1, <3>2, <3>3, <3>4
         DEF vars, mail, Next, Owner, Environment, StartCycle, NoCycle,
             PollsDone, ExportStep, ExportDone, ExportFails, FinishCycle, FlushOnce,
             StartDiagnostics, NoDiagnostics, FinishDiagnostics, FinishCommand,
             EndWait, LeaveLoop, Tick, Signal, Settle
  <2>5. File!TypeOK'
    <3>1. CASE StartCycle
      BY <3>1 DEF StartCycle, File!Age, File!Aged, File!TypeOK,
                  File!TempStates, File!Contents
    <3>2. CASE ExportStep \/ ExportDone \/ ExportFails
      BY <3>2 DEF ExportStep, ExportDone, ExportFails, File!Create, File!Write,
                  File!Fsync, File!Replace, File!Survives, File!Fail,
                  File!TypeOK, File!TempStates, File!Contents
    <3>3. CASE Settle \/ CrashAndRestart
      BY <3>3 DEF Settle, CrashAndRestart, File!Settle, File!Crash,
                  File!TypeOK, File!TempStates, File!Contents
    <3>4. CASE UNCHANGED snapshot
      BY <3>4 DEF snapshot, File!TypeOK
    <3> QED
      BY <3>1, <3>2, <3>3, <3>4
         DEF vars, Next, Owner, Environment, NoCycle, PollsDone, FinishCycle,
             FlushOnce, StartDiagnostics, NoDiagnostics, FinishDiagnostics,
             StartCommand, FinishCommand, StartWait, EndWait, LeaveLoop, Tick,
             Arrive, WakeUp, Signal
  <2> QED
    BY <2>1, <2>2, <2>3, <2>4, <2>5
<1> QED
  BY <1>1, <1>2, <1>3, PTL DEF Spec

-----------------------------------------------------------------------------
\* An operation ends before its budget does, and a wait before the next
\* deadline: how late a poll cycle can become is inductive.
LEMMA PollInvStep == TimeType /\ PollInv /\ [Next]_vars => PollInv'
<1> SUFFICES ASSUME TimeType, PollInv, [Next]_vars PROVE PollInv'
  OBVIOUS
<1> USE DEF TimeType, PollInv, CyclePhases
<1>1. CASE StartCycle
  BY <1>1 DEF StartCycle, ReadClock
<1>2. CASE NoCycle
  BY <1>2 DEF NoCycle, ReadClock
<1>3. CASE \/ ExportStep \/ ExportDone \/ ExportFails
           \/ \E ok \in BOOLEAN : PollsDone(ok)
  BY <1>3 DEF ExportStep, ExportDone, ExportFails, PollsDone
<1>4. CASE FinishCycle
  BY <1>4 DEF FinishCycle, NextPoll
<1>5. CASE StartDiagnostics \/ NoDiagnostics
  BY <1>5 DEF StartDiagnostics, NoDiagnostics
<1>6. CASE FinishDiagnostics
  BY <1>6 DEF FinishDiagnostics
<1>7. CASE (\E n \in 1..MaxQueue : StartCommand(n)) \/ FinishCommand
  BY <1>7 DEF StartCommand, FinishCommand
<1>8. CASE StartWait
  BY <1>8 DEF StartWait, WaitTime, NextDeadline
<1>9. CASE EndWait
  BY <1>9 DEF EndWait
<1>10. CASE FlushOnce \/ LeaveLoop
  BY <1>10 DEF FlushOnce, LeaveLoop
<1>11. CASE Tick
  BY <1>11 DEF Tick
<1>12. CASE Arrive \/ WakeUp \/ Signal \/ Settle \/ UNCHANGED vars
  BY <1>12 DEF Arrive, WakeUp, Signal, Settle, vars
<1>13. CASE CrashAndRestart
  BY <1>13 DEF CrashAndRestart
<1> QED
  BY <1>1, <1>2, <1>3, <1>4, <1>5, <1>6, <1>7, <1>8, <1>9, <1>10,
   <1>11, <1>12, <1>13 DEF Next, Owner, Environment

\* A deadline that the round found in the future lies ahead of everything the
\* round did. With diagnostics off there is nothing to show.
LEMMA DiagInvStep ==
  ASSUME OptionsType, TimeType, diag_seen \in BOOLEAN, diag_seen' \in BOOLEAN,
         SeenInv, DiagInv, [Next]_vars
  PROVE  SeenInv' /\ DiagInv'
<1> USE DEF OptionsType, TimeType, SeenInv, DiagInv, CyclePhases, options
<1>1. CASE StartCycle
  <2>1. diag_seen' <=> diagnostics_rate > 0 /\ diag_due <= 0
    BY <1>1 DEF StartCycle, ReadClock
  <2> QED
    BY <1>1, <2>1 DEF StartCycle
<1>2. CASE NoCycle
  <2>1. diag_seen' <=> diagnostics_rate > 0 /\ diag_due <= 0
    BY <1>2 DEF NoCycle, ReadClock
  <2> QED
    BY <1>2, <2>1 DEF NoCycle
<1>3. CASE \/ ExportStep \/ ExportDone \/ ExportFails
           \/ \E ok \in BOOLEAN : PollsDone(ok)
  BY <1>3 DEF ExportStep, ExportDone, ExportFails, PollsDone
<1>4. CASE FinishCycle
  BY <1>4 DEF FinishCycle, NextPoll
<1>5. CASE StartDiagnostics \/ NoDiagnostics
  BY <1>5 DEF StartDiagnostics, NoDiagnostics
<1>6. CASE FinishDiagnostics
  BY <1>6 DEF FinishDiagnostics
<1>7. CASE (\E n \in 1..MaxQueue : StartCommand(n)) \/ FinishCommand
  BY <1>7 DEF StartCommand, FinishCommand
<1>8. CASE StartWait
  BY <1>8 DEF StartWait, WaitTime, NextDeadline
<1>9. CASE EndWait
  BY <1>9 DEF EndWait
<1>10. CASE FlushOnce \/ LeaveLoop
  BY <1>10 DEF FlushOnce, LeaveLoop
<1>11. CASE Tick
  BY <1>11 DEF Tick
<1>12. CASE Arrive \/ WakeUp \/ Signal \/ Settle \/ UNCHANGED vars
  BY <1>12 DEF Arrive, WakeUp, Signal, Settle, vars
<1>13. CASE CrashAndRestart
  BY <1>13 DEF CrashAndRestart
<1> QED
  BY <1>1, <1>2, <1>3, <1>4, <1>5, <1>6, <1>7, <1>8, <1>9, <1>10,
   <1>11, <1>12, <1>13 DEF Next, Owner, Environment

THEOREM DeadlinesBounded == Spec => []LatenessBounded
<1>1. Init => PollInv /\ SeenInv /\ DiagInv
  BY DEF Init, PollInv, SeenInv, DiagInv, CyclePhases
<1>2. TypeOK => OptionsType /\ TimeType /\ diag_seen \in BOOLEAN
  BY DEF TypeOK, OptionsType, TimeType, Pacing!LongAgo
<1>3. PollInv /\ SeenInv /\ DiagInv => LatenessBounded
  BY DEF PollInv, SeenInv, DiagInv, LatenessBounded
<1>4. TypeOK /\ TypeOK' /\ SeenInv /\ DiagInv /\ [Next]_vars
      => SeenInv' /\ DiagInv'
  BY <1>2, DiagInvStep DEF TypeOK
<1> QED
  BY <1>1, <1>2, <1>3, <1>4, PollInvStep, TypeCorrect, PTL DEF Spec

-----------------------------------------------------------------------------
\* The loop implements CyclePacing: a cycle starts only when its own due time
\* has come, which is at least a period after the one before it.
THEOREM Paced == Spec => CyclesArePaced
<1>1. Init => PaceInv /\ Pacing!Init
  BY DEF Init, PaceInv, CyclePhases, Pacing!Init, Pacing!Fresh, Pacing!LongAgo
<1>2. TypeOK /\ PaceInv /\ [Next]_vars => PaceInv'
  <2> SUFFICES ASSUME TypeOK, PaceInv, [Next]_vars PROVE PaceInv'
    OBVIOUS
  <2> USE DEF TypeOK, PaceInv, CyclePhases, Pacing!LongAgo
  <2>1. CASE StartCycle
    BY <2>1 DEF StartCycle
  <2>2. CASE \/ ExportStep \/ ExportDone \/ ExportFails
             \/ \E ok \in BOOLEAN : PollsDone(ok)
    BY <2>2 DEF ExportStep, ExportDone, ExportFails, PollsDone
  <2>3. CASE FinishCycle
    BY <2>3 DEF FinishCycle, NextPoll
  <2>4. CASE \/ NoCycle \/ StartDiagnostics \/ NoDiagnostics
             \/ FinishDiagnostics \/ FinishCommand \/ StartWait \/ EndWait
             \/ \E n \in 1..MaxQueue : StartCommand(n)
    BY <2>4 DEF NoCycle, StartDiagnostics, NoDiagnostics, FinishDiagnostics,
                FinishCommand, StartWait, EndWait, StartCommand
  <2>5. CASE FlushOnce \/ LeaveLoop
    BY <2>5 DEF FlushOnce, LeaveLoop
  <2>6. CASE Tick
    BY <2>6 DEF Tick, Pacing!Older
  <2>7. CASE Arrive \/ WakeUp \/ Signal \/ Settle \/ UNCHANGED vars
    BY <2>7 DEF Arrive, WakeUp, Signal, Settle, vars
  <2>8. CASE CrashAndRestart
    BY <2>8 DEF CrashAndRestart, Pacing!Fresh
  <2> QED
    BY <2>1, <2>2, <2>3, <2>4, <2>5, <2>6, <2>7, <2>8
       DEF Next, Owner, Environment
<1>3. TypeOK /\ PaceInv /\ [Next]_vars
      => [Pacing!Next]_<<phase \in CyclePhases, since>>
  <2> SUFFICES ASSUME TypeOK, PaceInv, [Next]_vars
               PROVE  [Pacing!Next]_<<phase \in CyclePhases, since>>
    OBVIOUS
  <2> USE DEF CyclePhases
  <2>1. CASE StartCycle
    <3>1. since[2] > Rate
      BY <2>1 DEF StartCycle, PaceInv, TypeOK, Pacing!LongAgo
    <3> QED
      BY <2>1, <3>1 DEF StartCycle, Pacing!Start, Pacing!Next
  <2>2. CASE FinishCycle
    BY <2>2 DEF FinishCycle, Pacing!Finish, Pacing!Next
  <2>3. CASE Tick
    BY <2>3 DEF Tick, Pacing!Pass, Pacing!Next
  <2>4. CASE CrashAndRestart
    BY <2>4 DEF CrashAndRestart, Pacing!Restart, Pacing!Next
  <2>5. CASE \/ ExportStep \/ ExportDone \/ ExportFails
             \/ \E ok \in BOOLEAN : PollsDone(ok)
    BY <2>5 DEF ExportStep, ExportDone, ExportFails, PollsDone
  <2>6. CASE \/ NoCycle \/ StartDiagnostics \/ NoDiagnostics
             \/ FinishDiagnostics \/ FinishCommand \/ StartWait \/ EndWait
             \/ \E n \in 1..MaxQueue : StartCommand(n)
    BY <2>6 DEF NoCycle, StartDiagnostics, NoDiagnostics, FinishDiagnostics,
                FinishCommand, StartWait, EndWait, StartCommand
  <2>8. CASE FlushOnce
    BY <2>8 DEF FlushOnce
  <2>9. CASE LeaveLoop
    BY <2>9 DEF LeaveLoop
  <2>7. CASE Arrive \/ WakeUp \/ Signal \/ Settle \/ UNCHANGED vars
    BY <2>7 DEF Arrive, WakeUp, Signal, Settle, vars
  <2> QED
    BY <2>1, <2>2, <2>3, <2>4, <2>5, <2>6, <2>7, <2>8, <2>9
       DEF Next, Owner, Environment
<1> QED
  BY <1>1, <1>2, <1>3, TypeCorrect, PTL
     DEF Spec, CyclesArePaced, Pacing!Spec

-----------------------------------------------------------------------------
\* Nothing unsynced ever gets the destination's name, so that neither the
\* running system nor the disk shows a torn file.
THEOREM SnapshotsWhole == Spec => []SnapshotHonest
<1>1. Init => SnapshotHonest
  BY DEF Init, File!Init, SnapshotHonest
<1>2. SnapshotHonest /\ [Next]_vars => SnapshotHonest'
  <2> SUFFICES ASSUME SnapshotHonest, [Next]_vars PROVE SnapshotHonest'
    OBVIOUS
  <2> USE DEF SnapshotHonest
  <2>1. CASE StartCycle
    BY <2>1 DEF StartCycle, File!Age, File!Aged
  <2>2. CASE ExportStep \/ ExportDone \/ ExportFails
    BY <2>2 DEF ExportStep, ExportDone, ExportFails, File!Create, File!Write,
                File!Fsync, File!Replace, File!Survives, File!Fail, options
  <2>3. CASE Settle
    BY <2>3 DEF Settle, File!Settle, options
  <2>4. CASE CrashAndRestart
    BY <2>4 DEF CrashAndRestart, File!Crash
  <2>5. CASE \E ok \in BOOLEAN : PollsDone(ok)
    BY <2>5 DEF PollsDone, snapshot, options
  <2>6. CASE \/ NoCycle \/ FinishCycle \/ FlushOnce \/ StartDiagnostics
             \/ NoDiagnostics \/ FinishDiagnostics \/ FinishCommand
             \/ StartWait \/ EndWait \/ LeaveLoop
             \/ \E n \in 1..MaxQueue : StartCommand(n)
    BY <2>6 DEF NoCycle, FinishCycle, FlushOnce, StartDiagnostics,
                NoDiagnostics, FinishDiagnostics, FinishCommand, StartWait,
                EndWait, LeaveLoop, StartCommand, snapshot
  <2>7. CASE Tick \/ Arrive \/ WakeUp \/ Signal \/ UNCHANGED vars
    BY <2>7 DEF Tick, Arrive, WakeUp, Signal, vars, snapshot, options
  <2> QED
    BY <2>1, <2>2, <2>3, <2>4, <2>5, <2>6, <2>7 DEF Next, Owner, Environment
<1> QED
  BY <1>1, <1>2, PTL DEF Spec
=============================================================================
