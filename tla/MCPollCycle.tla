----------------------------- MODULE MCPollCycle -----------------------------
(* Two configuration files: one with a device of two blocks, one of them read
   into two references, and one with a device of a single block. *)
EXTENDS PollCycle

CONSTANTS a, b, c, d1, d2, r1, r2, r3, r4

MCHandlers == << <<a, b>>, <<c>> >>
MCDeviceOf == [p \in {a, b, c} |-> IF p = c THEN d2 ELSE d1]
MCRefsOf == [p \in {a, b, c} |->
               CASE p = a -> {r1, r2} [] p = b -> {r3} [] p = c -> {r4}]
=============================================================================
