----------------------------- MODULE BusAccess -----------------------------
(***************************************************************************)
(* What the Modbus connection manager promises its callers, with no        *)
(* clock, no counters and no delays: a circuit breaker.                    *)
(*                                                                         *)
(*   free     the next operation may be given the bus                      *)
(*   trial    a connection attempt is in progress                          *)
(*   busy     an operation is using the bus                                *)
(*   cooling  the bus failed; operations are refused without touching it   *)
(*   cooled   the pause is over; the next operation may try to connect     *)
(*   halted   the gateway has shut the bus down                            *)
(***************************************************************************)

VARIABLE access

AccessStates == {"free", "trial", "busy", "cooling", "cooled", "halted"}

TypeOK == access \in AccessStates

Init == access = "free"

\* An operation gets the bus over the connection that is already open.
Reuse == access = "free" /\ access' = "busy"

\* An operation first has to connect: never while the bus is cooling.
Try == access \in {"free", "cooled"} /\ access' = "trial"

Connected == access = "trial" /\ access' = "busy"

Served == access = "busy" /\ access' = "free"

\* A failed attempt or a broken operation. The pause may be over at once: it
\* is counted from the start of the attempt, which can outlast it.
Broke == access \in {"trial", "busy"} /\ access' \in {"cooling", "cooled"}

Cool == access = "cooling" /\ access' = "cooled"

Halt == access # "halted" /\ access' = "halted"

Next == Reuse \/ Try \/ Connected \/ Served \/ Broke \/ Cool \/ Halt

Spec == Init /\ [][Next]_access
=============================================================================
