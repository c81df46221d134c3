-------------------------- MODULE MCCommandDispatch --------------------------
(* References a and b are writable, c overlaps b, d is not writable, and u   *)
(* is unknown.  Two requests use the same identifier; one response is longer *)
(* than the cache.                                                           *)
EXTENDS CommandDispatch
CONSTANTS a, b, c, d, u, i1, i2, i3
Set(id, names) == [id |-> id, op |-> "set", names |-> names]
MCRequests ==
  {Set(i1, <<a, b>>), Set(i1, <<b, c>>), Set(i2, <<a>>),
   [id |-> i2, op |-> "get", names |-> <<a, b, u, c>>],
   Set(i3, <<a, u>>), Set(NONE, <<u, a>>), Set(NONE, <<a, d>>)}
MCConflicts == {{b, c}}
=============================================================================
