---------------------------- MODULE RequestCache ----------------------------
(***************************************************************************)
(* RequestCache (modpoll/commands.py): the results of versioned commands,  *)
(* oldest first, remembered for a time and within two limits.              *)
(*                                                                         *)
(* A cache is [entries, byte_count].  An entry stands for the key, the     *)
(* digest of the payload, the length of the response and the time since it *)
(* was saved; monotonic time is counted in ages, up to one past Ttl.       *)
(***************************************************************************)
EXTENDS Integers, Sequences, SequencesExt

CONSTANTS
  Size,      \* size: entries at most
  Ttl,       \* ttl: an entry older than this is forgotten
  MaxBytes   \* max_bytes of responses at most

ASSUME CacheAssumption ==
  Size \in Nat \ {0} /\ Ttl \in Nat /\ MaxBytes \in Nat

EmptyCache == [entries |-> <<>>, byte_count |-> 0]

Bytes(entries) ==
  LET upto[k \in 0..Len(entries)] ==
        IF k = 0 THEN 0 ELSE upto[k - 1] + entries[k].bytes
  IN upto[Len(entries)]

\* A sequence without its first n elements.
From(s, n) == SubSeq(s, n + 1, Len(s))

\* What follows the last entry that is too old.
Live(entries) ==
  From(entries, Max({0} \cup {k \in DOMAIN entries : entries[k].age > Ttl}))

\* Every entry one unit of time older.
Aged(entries) ==
  [k \in DOMAIN entries |->
     [entries[k] EXCEPT !.age = IF @ > Ttl THEN @ ELSE @ + 1]]

\* Mistake: forgotten entries still count.
PopOldestKeepsBytes(c) ==
  [entries |-> Tail(c.entries), byte_count |-> c.byte_count]

\* _pop_oldest
PopOldest(c) ==
  [entries |-> Tail(c.entries),
   byte_count |-> c.byte_count - Head(c.entries).bytes]

\* The cache after `n` calls of _pop_oldest.
Popped(c, n) ==
  LET after[k \in 0..n] == IF k = 0 THEN c ELSE PopOldest(after[k - 1])
  IN after[n]

\* _expire: pop while the oldest entry is too old.
Expire(c) ==
  LET enough == {n \in 0..Len(c.entries) :
                   LET left == Popped(c, n).entries
                   IN left = <<>> \/ Head(left).age <= Ttl}
  IN Popped(c, Min(enough))

\* lookup, after its _expire: the entries saved under the identifier.
Found(c, id) == {e \in Range(Expire(c).entries) : e.id = id}

\* Mistake: the limit is reached one entry early.
FitsOneLess(c) == Len(c.entries) < Size /\ c.byte_count <= MaxBytes

WithinLimits(c) == Len(c.entries) <= Size /\ c.byte_count <= MaxBytes

\* Pop while a limit is exceeded.
Shrink(c) ==
  LET enough == {n \in 0..Len(c.entries) :
                   \/ Popped(c, n).entries = <<>>
                   \/ WithinLimits(Popped(c, n))}
  IN Popped(c, Min(enough))

\* save: replace the entry of this identifier, then pop to the limits.
Save(c, entry) ==
  LET old == Expire(c)
      previous == {k \in DOMAIN old.entries : old.entries[k].id = entry.id}
      others ==
        IF previous = {} THEN old
        ELSE LET k == Min(previous)
             IN [entries |-> RemoveAt(old.entries, k),
                 byte_count |-> old.byte_count - old.entries[k].bytes]
  IN Shrink([entries |-> Append(others.entries, entry),
             byte_count |-> others.byte_count + entry.bytes])
=============================================================================
