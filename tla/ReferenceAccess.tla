--------------------------- MODULE ReferenceAccess ---------------------------
(***************************************************************************)
(* Reading and writing the references of an accepted configuration:        *)
(* Poller.poll (modpoll/modbus_models.py), read_references                 *)
(* (modpoll/reference_read.py) and write_validated                         *)
(* (modpoll/reference_write.py), on the coils and registers of the slaves, *)
(* which another bus master writes too.                                    *)
(*                                                                         *)
(* A cell is one bit of a coil or register: <<slave, table, address, bit>>,*)
(* the table being named by the function code that reads it. Reads are     *)
(* followed by the cells a decoded value is made of, whatever they hold.   *)
(***************************************************************************)
EXTENDS Configuration, FiniteSetsExt, SequencesExt

CONSTANTS
  MaxWrites,    \* bound: writes of one run
  MaxChanges    \* bound: changes by the other master during one write

ASSUME WriteAssumption == MaxWrites \in Nat /\ MaxChanges \in Nat

\* NONE is no result of a write.
ASSUME NoneAssumption == NONE \notin {"confirmed", "rejected"}

VARIABLES
  strategy,   \* --modbus-bit-write
  mem,        \* the coils and holding registers: cell -> Boolean
  writing,    \* the write in progress, or NONE
  writes,     \* writes begun
  result,     \* of the last write: "confirmed", "rejected" or NONE
  others,     \* history: mem, had this write never come
  touched     \* history: cells the other master changed during it

accessVars == <<strategy, mem, writing, writes, result, others, touched>>
vars == <<configVars, accessVars>>

WordBits == 0..(2 * ByteBits - 1)

\* What a row may address of the tables that can be written.
Slaves == {row.id : row \in {r \in Rows : r.kind = "device"}}
PollRows == {row \in Rows : row.kind = "poll"}
Addresses == UNION {p.start..(p.start + p.size - 1) : p \in PollRows}
Coil(id, fc, a) == <<id, fc, a, 0>>
Cells == {Coil(id, 1, a) : id \in Slaves, a \in Addresses} \cup
         {<<id, 3, a, b>> : id \in Slaves, a \in Addresses, b \in WordBits}

PollerOf(devs, ref) == devs[ref.poller[1]].pollers[ref.poller[2]]
RefNamed(dev, name) ==
  dev.refs[CHOOSE r \in DOMAIN dev.refs : dev.refs[r].name = name]

-----------------------------------------------------------------------------
(* Poller: decoding. *)

GroupWidth(ref) == IF ref.dtype = "bool8" THEN ByteBits ELSE 2 * ByteBits

\* A group's address counts from the poller's start in groups of 8 coils.
CoilGroupStart(p, ref) == p.start + (ref.address - p.start) * ByteBits

IsPartialGroup(p, ref) ==
  /\ OnBits(p.fc) /\ ref.dtype \in {"bool8", "bool16"}
  /\ CoilGroupStart(p, ref) + GroupWidth(ref) > p.start + p.size

\* The coils of a group that were not read count as FALSE.
Padding == <<>>
DecodeCoilBits(p, ref, bits, read_start) ==
  IF ref.dtype = "bool" THEN <<bits[ref.address - read_start + 1]>>
  ELSE LET offset == CoilGroupStart(p, ref) - read_start
       IN [k \in 1..GroupWidth(ref) |->
             IF offset + k <= Len(bits) THEN bits[offset + k] ELSE Padding]

DecodeRegisterBlock(p, ref, registers, read_start) ==
  LET words == Decode(p.endian, registers, ref.address - read_start,
                      RefWidth[ref.dtype])
  IN CASE ref.dtype = "bool" -> <<BitOf(words[1], ref.bit)>>
       [] ref.dtype \in {"bool8", "bool16"} ->
            [k \in 1..GroupWidth(ref) |-> BitOf(words[1], k - 1)]
       [] ref.dtype \in DOMAIN StringBytes ->
            SubSeq(BytesOf(words), 1, StringBytes[ref.dtype])
       [] OTHER -> BytesOf(words)

\* The response of slave `id`: the cells of `count` coils or registers.
WordAt(id, fc, a) ==
  << [b \in 0..(ByteBits - 1) |-> <<id, fc, a, b + ByteBits>>],
     [b \in 0..(ByteBits - 1) |-> <<id, fc, a, b>>] >>
Response(id, fc, start, count) ==
  [k \in 1..count |-> IF OnBits(fc) THEN Coil(id, fc, start + k - 1)
                      ELSE WordAt(id, fc, start + k - 1)]

\* What Poller.poll makes of its whole block for this reference. The request
\* goes to the slave of the poller's device.
PolledValue(devs, ref) ==
  LET p == PollerOf(devs, ref)
      block == Response(devs[ref.poller[1]].id, p.fc, p.start, p.size)
  IN IF OnBits(p.fc) THEN DecodeCoilBits(p, ref, block, p.start)
     ELSE DecodeRegisterBlock(p, ref, block, p.start)

-----------------------------------------------------------------------------
(* read_references: one request for each coil reference, and one for each  *)
(* run of touching or overlapping register references of a poller.         *)

CoilReadCount(p, ref) ==
  IF ref.dtype = "bool" THEN 1
  ELSE Min({GroupWidth(ref), p.start + p.size - CoilGroupStart(p, ref)})

CoilReadStart(p, ref) ==
  IF ref.dtype = "bool" THEN ref.address ELSE CoilGroupStart(p, ref)

ReadCoilReference(dev, p, ref) ==
  LET start == CoilReadStart(p, ref)
  IN DecodeCoilBits(p, ref, Response(dev.id, p.fc, start, CoilReadCount(p, ref)),
                    start)

\* Mistake: a batch ends where its last reference ends, although an earlier
\* one may be longer.
ExtendToLast(batches, ref) ==
  LET last == Len(batches)
      ref_end == ref.address + RefWidth[ref.dtype]
  IN IF last > 0 /\ ref.address <= batches[last].end
     THEN [batches EXCEPT ![last].end = ref_end,
                          ![last].refs = @ \cup {ref}]
     ELSE Append(batches, [start |-> ref.address, end |-> ref_end,
                           refs |-> {ref}])

Extend(batches, ref) ==
  LET last == Len(batches)
      ref_end == ref.address + RefWidth[ref.dtype]
  IN IF last > 0 /\ ref.address <= batches[last].end
     THEN [batches EXCEPT ![last].end = Max({@, ref_end}),
                          ![last].refs = @ \cup {ref}]
     ELSE Append(batches, [start |-> ref.address, end |-> ref_end,
                           refs |-> {ref}])

\* The next reference in the order of addresses; among those at one address the
\* order does not matter.
NextRef(left) == CHOOSE r \in left : \A q \in left : r.address <= q.address
TakeRef(state) ==
  LET ref == NextRef(state.left)
  IN [left |-> state.left \ {ref}, batches |-> Extend(state.batches, ref)]

\* _group_register_batches for the references asked of one poller.
GroupRegisterBatches(refs) ==
  LET taken[k \in 0..Cardinality(refs)] ==
        IF k = 0 THEN [left |-> refs, batches |-> <<>>] ELSE TakeRef(taken[k - 1])
  IN taken[Cardinality(refs)].batches

\* The registers of a batch, as its request returns them.
BatchResponse(dev, p, batch) ==
  Response(dev.id, p.fc, batch.start, batch.end - batch.start)

-----------------------------------------------------------------------------
(* Writing. *)

Held(word) == <<[b \in DOMAIN word[1] |-> mem[word[1][b]]],
                [b \in DOMAIN word[2] |-> mem[word[2][b]]]>>

\* mem with the words of `image` stored from the register at `a` on.
StoreWords(id, a, image) ==
  [c \in Cells |->
     IF c[1] = id /\ c[2] = 3 /\ c[3] \in a..(a + Len(image) - 1)
     THEN BitOf(image[c[3] - a + 1], c[4]) ELSE mem[c]]
StoreCoils(id, a, bits) ==
  [c \in Cells |->
     IF c[1] = id /\ c[2] = 1 /\ c[3] \in a..(a + Len(bits) - 1)
     THEN bits[c[3] - a + 1] ELSE mem[c]]

ConstByte(v) == [b \in 0..(ByteBits - 1) |-> v]
WordFrom(set) == << [b \in 0..(ByteBits - 1) |-> b + ByteBits \in set],
                    [b \in 0..(ByteBits - 1) |-> b \in set] >>

\* The bits of a decoded word that a bool, bool8 or bool16 reference names,
\* and the word that holds its value there.
NamedBits(ref) ==
  IF ref.dtype = "bool" THEN {ref.bit} ELSE 0..(GroupWidth(ref) - 1)
ValueWord(ref, value) ==
  WordFrom({b \in NamedBits(ref) :
              IF ref.dtype = "bool" THEN value[1] ELSE value[b + 1]})

\* Mistake: only the value is put in byte order.
RawMaskUnordered(p, ref) == WordFrom(NamedBits(ref))

\* The bits of the raw register that the slave changes: the mask goes through
\* the encoder like the value.
RawMask(p, ref) == PackWords(p.endian, <<WordFrom(NamedBits(ref))>>)[1]

\* (register AND and_mask) OR or_mask, in the slave, at once.
MaskedWord(p, ref, value, held) ==
  Merge(held, PackWords(p.endian, <<ValueWord(ref, value)>>)[1],
        {b \in WordBits : BitOf(RawMask(p, ref), b)})

\* The register written back: the one read, decoded, with the bits replaced.
ModifiedWord(p, ref, value, read) ==
  PackWords(p.endian,
    <<Merge(UnpackWords(p.endian, <<read>>)[1], ValueWord(ref, value),
            NamedBits(ref))>>)[1]

\* Numbers and strings, which are padded to whole registers.
EncodedWords(p, ref, value) ==
  LET bytes == [k \in 1..(2 * RefWidth[ref.dtype]) |->
                  IF k <= Len(value) THEN value[k] ELSE ConstByte(FALSE)]
  IN PackWords(p.endian, WordsOf(bytes))

OnBitsOfRegister(p, ref) ==
  OnRegisters(p.fc) /\ ref.dtype \in {"bool", "bool8", "bool16"}

\* What validate_write lets through of the values tried here, while the poller
\* is not disabled (PollCycle).
MayWrite(p, ref) ==
  /\ Writable(ref) /\ p.fc \in {1, 3}
  /\ ~IsPartialGroup(p, ref)

OneHot(n) == {[k \in 1..n |-> k = j] : j \in 1..n}
ValueBytes(ref) == IF ref.dtype \in DOMAIN StringBytes
                   THEN StringBytes[ref.dtype] ELSE 2 * RefWidth[ref.dtype]
\* The values tried: no bit set, every single bit or, as the bits of a byte
\* stay together, every single byte.
TestValues(p, ref) ==
  IF ref.dtype = "bool" THEN {<<TRUE>>, <<FALSE>>}
  ELSE IF ref.dtype \in {"bool8", "bool16"}
  THEN OneHot(GroupWidth(ref)) \cup {[k \in 1..GroupWidth(ref) |-> FALSE]}
  ELSE {[k \in 1..ValueBytes(ref) |-> ConstByte(one[k])] :
          one \in OneHot(ValueBytes(ref))}

-----------------------------------------------------------------------------
Init ==
  /\ ConfigInit
  /\ strategy \in {"read-modify-write", "mask"}
  /\ mem = [c \in Cells |-> (c[3] + c[4]) % 2 = 0]
  /\ writing = NONE /\ writes = 0 /\ result = NONE
  /\ others = mem /\ touched = {}

ConfigStep == Parse /\ UNCHANGED accessVars

StartWrite(f, d, r, value) ==
  LET dev == files[f][d]
      ref == dev.refs[r]
      p == PollerOf(files[f], ref)
  IN /\ status = "accepted" /\ writing = NONE /\ writes < MaxWrites
     /\ MayWrite(p, ref)
     /\ writes' = writes + 1
     /\ writing' = [id |-> dev.id, p |-> p, ref |-> ref, value |-> value,
                    read |-> IF OnBitsOfRegister(p, ref)
                                /\ strategy = "read-modify-write"
                             THEN Held(WordAt(dev.id, 3, ref.address))
                             ELSE NONE]
     /\ result' = NONE /\ others' = mem /\ touched' = {}
     /\ UNCHANGED <<configVars, strategy, mem>>

Image(w) ==
  IF w.p.fc = 1
  THEN StoreCoils(w.id, IF w.ref.dtype = "bool" THEN w.ref.address
                        ELSE CoilGroupStart(w.p, w.ref), w.value)
  ELSE StoreWords(w.id, w.ref.address,
         IF w.read # NONE
         THEN <<ModifiedWord(w.p, w.ref, w.value, w.read)>>
         ELSE IF OnBitsOfRegister(w.p, w.ref)
         THEN <<MaskedWord(w.p, w.ref, w.value,
                           Held(WordAt(w.id, 3, w.ref.address)))>>
         ELSE EncodedWords(w.p, w.ref, w.value))

\* The slave carries the write out and confirms it.
WriteConfirmed ==
  /\ writing # NONE /\ result = NONE
  /\ mem' = Image(writing)
  /\ result' = "confirmed"
  /\ UNCHANGED <<configVars, strategy, writing, writes, others, touched>>

\* It answers the read or the write with an error.
WriteRejected ==
  /\ writing # NONE /\ result = NONE
  /\ result' = "rejected"
  /\ UNCHANGED <<configVars, strategy, mem, writing, writes, others, touched>>

EndWrite ==
  /\ writing # NONE /\ result # NONE
  /\ writing' = NONE
  /\ touched' = {} /\ others' = mem
  /\ UNCHANGED <<configVars, strategy, mem, writes, result>>

\* Another master changes a bit of the register or coil being written; what
\* it does elsewhere, or between two writes, meets no step of the gateway.
OtherMaster(c) ==
  /\ writing # NONE /\ result = NONE
  /\ c[1] = writing.id /\ c[2] = writing.p.fc /\ c[3] = writing.ref.address
  /\ Cardinality(touched) < MaxChanges /\ c \notin touched
  /\ mem' = [mem EXCEPT ![c] = ~@]
  /\ others' = [others EXCEPT ![c] = ~@]
  /\ touched' = touched \cup {c}
  /\ UNCHANGED <<configVars, strategy, writing, writes, result>>

SomeWrite ==
  \E f \in DOMAIN files : \E d \in DOMAIN files[f] :
    \E r \in DOMAIN files[f][d].refs :
      \E value \in TestValues(PollerOf(files[f], files[f][d].refs[r]),
                              files[f][d].refs[r]) :
        StartWrite(f, d, r, value)

Next ==
  \/ ConfigStep \/ SomeWrite \/ WriteConfirmed \/ WriteRejected \/ EndWrite
  \/ \E c \in Cells : OtherMaster(c)

Spec == Init /\ [][Next]_vars

-----------------------------------------------------------------------------
(* Properties. *)

TypeOK ==
  /\ ConfigTypeOK
  /\ strategy \in {"read-modify-write", "mask"}
  /\ mem \in [Cells -> BOOLEAN] /\ others \in [Cells -> BOOLEAN]
  /\ touched \subseteq Cells /\ Cardinality(touched) <= MaxChanges
  /\ writes \in 0..MaxWrites
  /\ result \in {NONE, "confirmed", "rejected"}
  /\ writing # NONE => status = "accepted" /\ MayWrite(writing.p, writing.ref)

\* What a reference stands for, said without a decoder: the cell behind bit b
\* of its only register, and byte k of its value, by the two orders.
OwnBit(dev, p, ref, b) ==
  <<dev.id, p.fc, ref.address,
    IF LittleBytes(p.endian) THEN (b + ByteBits) % (2 * ByteBits) ELSE b>>
OwnByte(dev, p, ref, k) ==
  LET word == (k - 1) \div 2
      a == ref.address + (IF LittleWords(p.endian)
                          THEN RefWidth[ref.dtype] - 1 - word ELSE word)
      high == (k % 2 = 1) # LittleBytes(p.endian)
  IN [b \in 0..(ByteBits - 1) |->
        <<dev.id, p.fc, a, IF high THEN b + ByteBits ELSE b>>]
OwnCoil(dev, p, ref, k) ==
  LET a == p.start + (ref.address - p.start) * ByteBits + k
  IN IF a < p.start + p.size THEN Coil(dev.id, p.fc, a) ELSE Padding

OwnValue(dev, p, ref) ==
  CASE OnBits(p.fc) /\ ref.dtype = "bool" ->
         <<Coil(dev.id, p.fc, ref.address)>>
    [] OnBits(p.fc) /\ ref.dtype # "bool" ->
         [k \in 1..GroupWidth(ref) |-> OwnCoil(dev, p, ref, k - 1)]
    [] OnRegisters(p.fc) /\ ref.dtype = "bool" ->
         <<OwnBit(dev, p, ref, ref.bit)>>
    [] OnRegisters(p.fc) /\ ref.dtype \in {"bool8", "bool16"} ->
         [k \in 1..GroupWidth(ref) |-> OwnBit(dev, p, ref, k - 1)]
    [] OTHER -> [k \in 1..ValueBytes(ref) |-> OwnByte(dev, p, ref, k)]

ReadableRefs(dev) == {ref \in Range(dev.refs) : Readable(ref)}

\* Every readable reference is decoded from its own cells: by a poll of its
\* whole block, and by a get for it alone or together with any others of its
\* device, whatever batches that makes; and no request leaves the block.
ReadsAgree ==
  status = "accepted" /\ writes = 0 =>
    \A devs \in Range(files) : \A dev \in Range(devs) :
      /\ \A ref \in ReadableRefs(dev) :
           LET p == PollerOf(devs, ref)
           IN /\ PolledValue(devs, ref) = OwnValue(dev, p, ref)
              /\ OnBits(p.fc) =>
                   ReadCoilReference(dev, p, ref) = OwnValue(dev, p, ref)
      /\ \A p \in {q \in Range(dev.pollers) : OnRegisters(q.fc)} :
           \A asked \in SUBSET {ref \in ReadableRefs(dev) :
                                  PollerOf(devs, ref) = p} :
             LET batches == GroupRegisterBatches(asked)
             IN /\ UNION {batch.refs : batch \in Range(batches)} = asked
                /\ \A batch \in Range(batches) :
                     /\ batch.start >= p.start /\ batch.end <= p.start + p.size
                     /\ \A ref \in batch.refs :
                          /\ ref.address + RefWidth[ref.dtype] <= batch.end
                          /\ DecodeRegisterBlock(p, ref,
                               BatchResponse(dev, p, batch), batch.start)
                             = OwnValue(dev, p, ref)

\* The cells a write may change: those the value is made of, and the byte that
\* fills the last register of a string.
TargetCells(w) ==
  {c \in Cells :
     /\ c[1] = w.id /\ c[2] = w.p.fc
     /\ IF OnBits(w.p.fc)
        THEN c \in Range(OwnValue([id |-> w.id], w.p, w.ref))
        ELSE IF OnBitsOfRegister(w.p, w.ref)
        THEN c \in Range(OwnValue([id |-> w.id], w.p, w.ref))
        ELSE c[3] \in w.ref.address..(w.ref.address
                                        + RefWidth[w.ref.dtype] - 1)}

HeldValue(w) ==
  LET own == OwnValue([id |-> w.id], w.p, w.ref)
  IN [k \in DOMAIN own |->
        IF OnBits(w.p.fc) \/ OnBitsOfRegister(w.p, w.ref) THEN mem[own[k]]
        ELSE [b \in 0..(ByteBits - 1) |-> mem[own[k][b]]]]

\* A confirmed write leaves exactly its value in the cells its reference is
\* read from, and nothing of it anywhere else; what the other master changed
\* stays, with one exception: a read-modify-write undoes a change made in the
\* register after it was read. A rejected write changes nothing.
WritesExact ==
  /\ result = "rejected" => mem = others
  /\ result = "confirmed" /\ writing # NONE =>
       /\ HeldValue(writing) = writing.value
       /\ \A c \in Cells \ TargetCells(writing) :
            mem[c] # others[c] => writing.read # NONE /\ c \in touched
=============================================================================
