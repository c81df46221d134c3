-------------------------- MODULE MCReferenceAccess --------------------------
(***************************************************************************)
(* Rows for model checking: two devices, blocks of three tables in several *)
(* orders, and references that touch, overlap, contain one another, or do  *)
(* not fit every block. A byte has two bits, so a register has four and    *)
(* groups are two coils apart.                                             *)
(***************************************************************************)
EXTENDS ReferenceAccess

Device(name, id) == [kind |-> "device", name |-> name, id |-> id]
Poll(fc, start, size, endian) ==
  [kind |-> "poll", fc |-> fc, start |-> start, size |-> size,
   endian |-> endian]
Ref(name, address, bit, dtype, rw) ==
  [kind |-> "ref", name |-> name, address |-> address, bit |-> bit,
   dtype |-> dtype, rw |-> rw]

MCRows ==
  { Device("a", 1), Device("b", 2),
    Poll(3, 0, 4, "LE_LE"), Poll(4, 1, 3, "BE_LE"), Poll(1, 1, 5, "BE_BE"),
    Ref("long", 0, NONE, "uint64", "rw"), Ref("in", 1, NONE, "bool16", "rw"),
    Ref("text", 1, NONE, "string3", "rw"), Ref("bit", 1, 2, "bool", "rw"),
    Ref("bit", 3, NONE, "bool", "rw"), Ref("bit", 3, NONE, "bool8", "rw") }

\* As if one were named like the other with its unit.
MCCollisions == {{"in", "bit"}}
=============================================================================
