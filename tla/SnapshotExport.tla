--------------------------- MODULE SnapshotExport ---------------------------
(***************************************************************************)
(* export_snapshot (modpoll/export.py): the snapshot of a poll cycle is    *)
(* written to a temporary file, which then replaces the destination.       *)
(*                                                                         *)
(* Only a synced file is sure to survive a power loss, and a rename gets   *)
(* to the disk at some later time: `disk` is what may be found under the   *)
(* destination's name after a power loss at this moment.                   *)
(***************************************************************************)

VARIABLES
  temp,   \* the temporary file, by how far it got
  dest,   \* the destination, as the running system shows it
  disk    \* what a power loss may leave of it

snapshotVars == <<temp, dest, disk>>

TempStates == {"none", "partial", "whole", "synced"}
\* The snapshot of this cycle, one of an earlier cycle, a broken file, no file.
Contents == {"new", "old", "torn", "none"}

TypeOK == temp \in TempStates /\ dest \in Contents /\ disk \in SUBSET Contents

Init == temp = "none" /\ dest = "none" /\ disk = {"none"}

-----------------------------------------------------------------------------
\* What the disk may hold of a file that was renamed in state t.
Survives(t) == IF t = "synced" THEN "new" ELSE "torn"

\* NamedTemporaryFile, in the destination's directory.
Create == temp = "none" /\ temp' = "partial" /\ UNCHANGED <<dest, disk>>

\* json.dump and flush.
Write == temp = "partial" /\ temp' = "whole" /\ UNCHANGED <<dest, disk>>

Fsync == temp = "whole" /\ temp' = "synced" /\ UNCHANGED <<dest, disk>>

\* Mistake: the file is flushed, but not synced, before it is renamed.
ReplaceFlushed ==
  /\ temp = "whole"
  /\ temp' = "none"
  /\ dest' = "new"
  /\ disk' = disk \cup {Survives(temp)}

\* os.replace.
Replace ==
  /\ temp = "synced"
  /\ temp' = "none"
  /\ dest' = "new"
  /\ disk' = disk \cup {Survives(temp)}

\* Any step raises OSError, or json.dump ValueError: the temporary file is
\* removed.
Fail == temp' = "none" /\ UNCHANGED <<dest, disk>>

\* The next cycle begins: what was this cycle's snapshot is now an old one.
Aged(c) == IF c = "new" THEN "old" ELSE c
Age == dest' = Aged(dest) /\ disk' = {Aged(c) : c \in disk} /\ UNCHANGED temp

-----------------------------------------------------------------------------
\* The kernel writes the directory back.
Settle == disk' = {dest} /\ UNCHANGED <<temp, dest>>

\* The process dies, with or without the power; its temporary file is left
\* behind under a name nobody uses again.
Crash ==
  /\ dest' \in disk \cup {dest}
  /\ disk' = {dest'}
  /\ temp' = "none"
=============================================================================
