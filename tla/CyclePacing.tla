----------------------------- MODULE CyclePacing -----------------------------
(***************************************************************************)
(* What the devices see of the owner loop: poll cycles, one at a time, and *)
(* never three that begin within one period. (Two may begin less than a    *)
(* period apart: the first one late, the second one on time.)              *)
(*                                                                         *)
(* No deadline appears here: since[1] and since[2] are the time since the  *)
(* latest cycle began and since the one before it, up to Rate + 1.         *)
(***************************************************************************)
EXTENDS Integers

CONSTANT Rate   \* --rate, at least 1

VARIABLES running, since

LongAgo == Rate + 1
Older(n) == IF n < LongAgo THEN n + 1 ELSE LongAgo

TypeOK == running \in BOOLEAN /\ since \in [1..2 -> 0..LongAgo]

\* Nothing is known of the cycles of a process that crashed.
Fresh == [k \in 1..2 |-> LongAgo]

Init == running = FALSE /\ since = Fresh

Start ==
  /\ ~running
  /\ since[2] > Rate
  /\ running' = TRUE
  /\ since' = [since EXCEPT ![1] = 0, ![2] = since[1]]

Finish == running /\ running' = FALSE /\ UNCHANGED since

Pass == since' = [k \in 1..2 |-> Older(since[k])] /\ UNCHANGED running

Restart == running' = FALSE /\ since' = Fresh

Next == Start \/ Finish \/ Pass \/ Restart

Spec == Init /\ [][Next]_<<running, since>>
=============================================================================
