------------------------ MODULE ReferenceAccess_proofs ------------------------
(***************************************************************************)
(* For payloads of every length, in each of the four orders: encoding and  *)
(* decoding are inverse, a value is decoded alike from a whole block and   *)
(* from any batch of it, and a masked write changes exactly the masked     *)
(* bits.  For every set of rows, in any order and number of files, and     *)
(* every limit: each reference is bound to a poller of its own device that *)
(* covers it, a poll and a get read it from its own cells, and a write of  *)
(* it leaves exactly its value.                                            *)
(***************************************************************************)
EXTENDS ReferenceAccess, SequenceTheorems, FiniteSetTheorems, TLAPS

USE ByteAssumption

-----------------------------------------------------------------------------
(* Words and bytes. *)

\* Words of any bytes.
WordsType(Byte) == Seq(Byte \X Byte)

-----------------------------------------------------------------------------
(* Swapping bytes and reversing words each undo themselves. *)

LEMMA SwapTwice ==
  ASSUME NEW Byte, NEW words \in WordsType(Byte)
  PROVE  /\ SwapBytes(words) \in WordsType(Byte)
         /\ SwapBytes(SwapBytes(words)) = words
<1>1. words \in [1..Len(words) -> Byte \X Byte] /\ Len(words) \in Nat
  BY DEF WordsType
<1>2. \A k \in 1..Len(words) :
        /\ words[k] = <<words[k][1], words[k][2]>>
        /\ words[k][1] \in Byte /\ words[k][2] \in Byte
  BY <1>1
<1>3. SwapBytes(words) \in [1..Len(words) -> Byte \X Byte]
  BY <1>1, <1>2 DEF SwapBytes
<1>4. SwapBytes(words) \in WordsType(Byte)
  BY <1>1, <1>3 DEF WordsType
<1>5. \A k \in 1..Len(words) : SwapBytes(words)[k] = <<words[k][2], words[k][1]>>
  BY <1>1 DEF SwapBytes
<1>6. \A k \in 1..Len(words) : SwapBytes(SwapBytes(words))[k] = words[k]
  BY <1>2, <1>3, <1>5 DEF SwapBytes
<1>7. SwapBytes(SwapBytes(words)) = [k \in 1..Len(words) |-> words[k]]
  BY <1>3, <1>6 DEF SwapBytes
<1> QED
  BY <1>1, <1>4, <1>7

LEMMA ReverseTwice ==
  ASSUME NEW Byte, NEW words \in WordsType(Byte)
  PROVE  /\ ReverseWords(words) \in WordsType(Byte)
         /\ ReverseWords(ReverseWords(words)) = words
<1> DEFINE n == Len(words)
           back == ReverseWords(words)
<1>1. words \in [1..n -> Byte \X Byte] /\ n \in Nat
  BY DEF WordsType
<1>2. back \in [1..n -> Byte \X Byte]
  BY <1>1 DEF ReverseWords
<1>3. back \in WordsType(Byte) /\ Len(back) = n
  BY <1>1, <1>2 DEF WordsType
<1>4. \A k \in 1..n : back[k] = words[n - k + 1]
  BY <1>1 DEF ReverseWords
<1>5. \A k \in 1..n : back[n - k + 1] = words[k]
  <2> SUFFICES ASSUME NEW k \in 1..n PROVE back[n - k + 1] = words[k]
    OBVIOUS
  <2>1. n - k + 1 \in 1..n /\ n - (n - k + 1) + 1 = k
    BY <1>1
  <2> QED
    BY <1>4, <2>1
<1>6. ReverseWords(back) = [k \in 1..n |-> back[n - k + 1]]
  BY <1>2, <1>3 DEF ReverseWords
<1>7. ReverseWords(back) = [k \in 1..n |-> words[k]]
  BY <1>5, <1>6
<1> QED
  BY <1>1, <1>3, <1>7

\* What the encoder makes of words, the decoder makes back of it, and the
\* other way round: a read-modify-write puts back the bits it does not change.
THEOREM PackUnpack ==
  ASSUME NEW Byte, NEW words \in WordsType(Byte), NEW endian \in Endians
  PROVE  /\ UnpackWords(endian, PackWords(endian, words)) = words
         /\ PackWords(endian, UnpackWords(endian, words)) = words
<1>1. /\ SwapBytes(words) \in WordsType(Byte)
      /\ SwapBytes(SwapBytes(words)) = words
  BY SwapTwice
<1>2. /\ ReverseWords(words) \in WordsType(Byte)
      /\ ReverseWords(ReverseWords(words)) = words
  BY ReverseTwice
<1>3. SwapBytes(SwapBytes(ReverseWords(words))) = ReverseWords(words)
  BY <1>2, SwapTwice
<1>4. ReverseWords(ReverseWords(SwapBytes(words))) = SwapBytes(words)
  BY <1>1, ReverseTwice
<1> QED
  BY <1>1, <1>2, <1>3, <1>4 DEF UnpackWords, PackWords

-----------------------------------------------------------------------------
(* Bytes and words. *)

\* Cutting a value's bytes into words and back loses nothing.
THEOREM BytesWords ==
  ASSUME NEW Byte, NEW m \in Nat, NEW bytes \in [1..(2 * m) -> Byte]
  PROVE  /\ WordsOf(bytes) \in WordsType(Byte)
         /\ Len(WordsOf(bytes)) = m
         /\ BytesOf(WordsOf(bytes)) = bytes
<1> DEFINE words == WordsOf(bytes)
<1>1. bytes \in Seq(Byte) /\ Len(bytes) = 2 * m
  OBVIOUS
<1>2. (2 * m) \div 2 = m
  OBVIOUS
<1>3. words = [k \in 1..m |-> <<bytes[2 * k - 1], bytes[2 * k]>>]
  BY <1>1, <1>2 DEF WordsOf
<1>4. \A k \in 1..m : bytes[2 * k - 1] \in Byte /\ bytes[2 * k] \in Byte
  OBVIOUS
<1>5. words \in [1..m -> Byte \X Byte]
  BY <1>3, <1>4
<1>6. words \in WordsType(Byte) /\ Len(words) = m
  BY <1>5 DEF WordsType
<1>7. BytesOf(words)
        = [k \in 1..(2 * m) |-> words[(k + 1) \div 2][2 - (k % 2)]]
  BY <1>6 DEF BytesOf
<1>8. \A k \in 1..(2 * m) : words[(k + 1) \div 2][2 - (k % 2)] = bytes[k]
  <2> SUFFICES ASSUME NEW k \in 1..(2 * m)
               PROVE  words[(k + 1) \div 2][2 - (k % 2)] = bytes[k]
    OBVIOUS
  <2>1. (k + 1) \div 2 \in 1..m
    OBVIOUS
  <2>2. words[(k + 1) \div 2]
          = <<bytes[2 * ((k + 1) \div 2) - 1], bytes[2 * ((k + 1) \div 2)]>>
    BY <1>3, <2>1
  <2>3. CASE k % 2 = 1
    <3>1. 2 * ((k + 1) \div 2) - 1 = k
      BY <2>3
    <3> QED
      BY <2>2, <2>3, <3>1
  <2>4. CASE k % 2 = 0
    <3>1. 2 * ((k + 1) \div 2) = k /\ 2 - (k % 2) = 2
      BY <2>4
    <3>2. words[(k + 1) \div 2][2] = bytes[2 * ((k + 1) \div 2)]
      BY <2>2
    <3> QED
      BY <3>1, <3>2
  <2> QED
    BY <2>3, <2>4
<1> QED
  BY <1>6, <1>7, <1>8

\* A value of m registers that is written and then read is the value written,
\* whatever the order.
THEOREM WriteThenRead ==
  ASSUME NEW Byte, NEW m \in Nat, NEW bytes \in [1..(2 * m) -> Byte],
         NEW endian \in Endians
  PROVE  BytesOf(UnpackWords(endian, PackWords(endian, WordsOf(bytes)))) = bytes
BY BytesWords, PackUnpack

\* Decoding from the response to a batch, which starts `start` registers into
\* the block and holds the value, is decoding from the block: a get returns
\* what a poll publishes.
THEOREM BatchDecodesAlike ==
  ASSUME NEW Byte, NEW block \in WordsType(Byte), NEW endian \in Endians,
         NEW start \in Nat, NEW count \in Nat, NEW offset \in Nat,
         NEW width \in Nat,
         start <= offset, offset + width <= start + count,
         start + count <= Len(block)
  PROVE  Decode(endian, SubSeq(block, start + 1, start + count),
                offset - start, width)
         = Decode(endian, block, offset, width)
<1> DEFINE batch == SubSeq(block, start + 1, start + count)
<1>1. batch = [k \in 1..count |-> block[start + k]]
  BY DEF WordsType
<1>2. SubSeq(batch, offset - start + 1, offset - start + width)
        = [k \in 1..width |-> batch[offset - start + k]]
  BY <1>1 DEF WordsType
<1>3. \A k \in 1..width : batch[offset - start + k] = block[offset + k]
  BY <1>1
<1>4. SubSeq(block, offset + 1, offset + width)
        = [k \in 1..width |-> block[offset + k]]
  BY DEF WordsType
<1>5. SubSeq(batch, offset - start + 1, offset - start + width)
        = SubSeq(block, offset + 1, offset + width)
  BY <1>2, <1>3, <1>4
<1> QED
  BY <1>5 DEF Decode

-----------------------------------------------------------------------------
\* One word of any kind of bits.
WordOver(Bit) == [0..(ByteBits - 1) -> Bit] \X [0..(ByteBits - 1) -> Bit]

\* A masked write takes the masked bits from the value and leaves the others,
\* for bytes of every size.
THEOREM MergeIsExact ==
  ASSUME NEW Bit,
         NEW word \in WordOver(Bit), NEW other \in WordOver(Bit),
         NEW set \in SUBSET (0..(2 * ByteBits - 1)),
         NEW b \in 0..(2 * ByteBits - 1)
  PROVE  BitOf(Merge(word, other, set), b)
         = IF b \in set THEN BitOf(other, b) ELSE BitOf(word, b)
<1>1. CASE b < ByteBits
  <2>1. b \in 0..(ByteBits - 1)
    BY <1>1
  <2> QED
    BY <1>1, <2>1 DEF BitOf, Merge, WordOver
<1>2. CASE ~(b < ByteBits)
  <2>1. b - ByteBits \in 0..(ByteBits - 1) /\ b - ByteBits + ByteBits = b
    BY <1>2
  <2> QED
    BY <1>2, <2>1 DEF BitOf, Merge, WordOver
<1> QED
  BY <1>1, <1>2

-----------------------------------------------------------------------------
(* Configurations. *)

\* What the parser builds: anything a row may say, in its place.
PollerRecord ==
  [fc : 1..4, start : Nat, size : Nat, endian : Endians,
   readable : Seq(Nat \X {row.name : row \in Rows})]
PollerType ==
  {p \in PollerRecord : p.start..(p.start + p.size - 1) \subseteq Addresses}
RefType ==
  [name : {row.name : row \in Rows}, address : Int,
   bit : {row.bit : row \in Rows}, dtype : Dtypes,
   rw : {row.rw : row \in Rows}, poller : Nat \X Nat]
DeviceType ==
  [name : {row.name : row \in Rows}, id : Slaves,
   pollers : Seq(PollerType), refs : Seq(RefType)]

\* The current poller belongs to the current device.
CursorInv ==
  poller # NONE =>
    /\ devices # <<>>
    /\ poller = <<Len(devices), poller[2]>>
    /\ poller[2] \in DOMAIN devices[Len(devices)].pollers

\* What a reference was accepted for stays true of its poller.
Sane(dev) ==
  \A r \in DOMAIN dev.refs :
    LET p == dev.pollers[dev.refs[r].poller[2]]
    IN WellFormed(dev.refs[r], p) /\ CheckSanity(dev.refs[r], p)

\* ReferencesBound for one file.
FileBound(devs) ==
  /\ NamesDistinct(devs)
  /\ \A d \in DOMAIN devs :
       BoundRight(devs[d], d) /\ Sane(devs[d]) /\ NamesDistinct(devs[d].refs)

FilesApart ==
  \A f, g \in DOMAIN files : Names(files[f]) \cap Names(files[g]) # {} => f = g

BoundInv ==
  /\ devices \in Seq(DeviceType)
  /\ files \in Seq(Seq(DeviceType))
  /\ CursorInv
  /\ FileBound(devices)
  /\ \A f \in DOMAIN files : FileBound(files[f])
  /\ FilesApart

-----------------------------------------------------------------------------
(* Appending to a sequence. *)

LEMMA Appended ==
  ASSUME NEW S, NEW s \in Seq(S), NEW e \in S
  PROVE  /\ Append(s, e) \in Seq(S)
         /\ DOMAIN Append(s, e) = 1..(Len(s) + 1)
         /\ DOMAIN s = 1..Len(s)
         /\ \A k \in DOMAIN s : Append(s, e)[k] = s[k]
         /\ Append(s, e)[Len(s) + 1] = e
         /\ Len(Append(s, e)) = Len(s) + 1
         /\ Len(s) \in Nat
OBVIOUS

Elements(s) == {s[j] : j \in DOMAIN s}

LEMMA ElementsAppended ==
  ASSUME NEW S, NEW s \in Seq(S), NEW e \in S
  PROVE  Elements(Append(s, e)) = Elements(s) \cup {e}
<1> DEFINE t == Append(s, e)
           n == Len(s)
<1>1. /\ DOMAIN t = DOMAIN s \cup {n + 1}
      /\ \A k \in DOMAIN s : t[k] = s[k]
      /\ t[n + 1] = e
  BY Appended
<1> HIDE DEF t, n
<1>2. {t[j] : j \in DOMAIN t} = {s[j] : j \in DOMAIN s} \cup {e}
  BY <1>1
<1> QED
  BY <1>2 DEF t, Elements

LEMMA NamesAppended ==
  ASSUME NEW S, NEW s \in Seq(S), NEW e \in S,
         NamesDistinct(s), e.name \notin Names(s)
  PROVE  NamesDistinct(Append(s, e))
<1>1. \A k \in DOMAIN s : s[k].name # e.name
  BY DEF Names
<1> QED
  BY <1>1, Appended DEF NamesDistinct

-----------------------------------------------------------------------------
(* The rows. *)

LEMMA DeviceRowBinds ==
  ASSUME BoundInv, NEW row \in Rows, DeviceRow(row)
  PROVE  BoundInv'
<1> DEFINE new == [name |-> row.name, id |-> row.id, pollers |-> <<>>,
                   refs |-> <<>>]
<1>1. /\ devices' = Append(devices, new) /\ files' = files /\ poller' = NONE
      /\ row.id \in Slaves /\ row.name \notin Names(devices)
  BY DEF DeviceRow, AddDevice, AcceptsDevice, Slaves
<1>2. new \in DeviceType
  BY <1>1 DEF DeviceType
<1>3. devices \in Seq(DeviceType) /\ FileBound(devices)
  BY DEF BoundInv
<1>4. NamesDistinct(devices')
  BY <1>1, <1>2, <1>3, NamesAppended DEF FileBound
<1>5. \A d \in DOMAIN devices' :
        /\ BoundRight(devices'[d], d) /\ Sane(devices'[d])
        /\ NamesDistinct(devices'[d].refs)
  <2> SUFFICES ASSUME NEW d \in DOMAIN devices'
               PROVE  /\ BoundRight(devices'[d], d) /\ Sane(devices'[d])
                      /\ NamesDistinct(devices'[d].refs)
    OBVIOUS
  <2>1. CASE d \in DOMAIN devices
    <3>1. devices'[d] = devices[d]
      BY <1>1, <1>2, <1>3, <2>1, Appended
    <3> QED
      BY <1>3, <2>1, <3>1 DEF FileBound
  <2>2. CASE d \notin DOMAIN devices
    <3>1. devices'[d] = new
      BY <1>1, <1>2, <1>3, <2>2, Appended
    <3> QED
      BY <3>1 DEF BoundRight, Sane, NamesDistinct
  <2> QED
    BY <2>1, <2>2
<1>6. devices' \in Seq(DeviceType)
  BY <1>1, <1>2, <1>3, Appended
<1>7. CursorInv'
  BY <1>1 DEF CursorInv
<1>8. files' \in Seq(Seq(DeviceType)) /\ FilesApart'
  BY <1>1 DEF BoundInv, FilesApart
<1>9. \A f \in DOMAIN files' : FileBound(files'[f])
  BY <1>1 DEF BoundInv
<1> QED
  BY <1>4, <1>5, <1>6, <1>7, <1>8, <1>9 DEF BoundInv, FileBound

\* A row that changes only the last device, and not its name.
LEMMA LastDeviceChanges ==
  ASSUME BoundInv, devices # <<>>, NEW dev \in DeviceType,
         dev.name = devices[Len(devices)].name,
         devices' = [devices EXCEPT ![Len(devices)] = dev],
         BoundRight(dev, Len(devices)), Sane(dev), NamesDistinct(dev.refs)
  PROVE  devices' \in Seq(DeviceType) /\ FileBound(devices')
<1>1. devices \in Seq(DeviceType) /\ FileBound(devices)
  BY DEF BoundInv
<1>2. Len(devices) \in DOMAIN devices
  BY <1>1
<1>3. /\ devices' \in Seq(DeviceType)
      /\ DOMAIN devices' = DOMAIN devices
      /\ \A d \in DOMAIN devices :
           devices'[d] = IF d = Len(devices) THEN dev ELSE devices[d]
  BY <1>1, <1>2
<1>4. \A d \in DOMAIN devices : devices'[d].name = devices[d].name
  BY <1>3
<1>5. NamesDistinct(devices')
  BY <1>1, <1>3, <1>4 DEF FileBound, NamesDistinct
<1>6. \A d \in DOMAIN devices' :
        /\ BoundRight(devices'[d], d) /\ Sane(devices'[d])
        /\ NamesDistinct(devices'[d].refs)
  BY <1>1, <1>3 DEF FileBound
<1> QED
  BY <1>3, <1>5, <1>6 DEF FileBound

LEMMA PollRowBinds ==
  ASSUME BoundInv, NEW row \in Rows, PollRow(row)
  PROVE  BoundInv'
<1> DEFINE d == Len(devices)
           list == devices[d].pollers
           new == [fc |-> row.fc, start |-> row.start, size |-> row.size,
                   endian |-> row.endian, readable |-> <<>>]
           dev == [devices[d] EXCEPT !.pollers = Append(list, new)]
<1>1. /\ devices # <<>> /\ files' = files
      /\ row.fc \in 1..4 /\ row.start \in 0..(AddressSpace - 1)
      /\ row.size \in 1..(IF OnBits(row.fc) THEN MaxCoils ELSE MaxRegisters)
      /\ row.endian \in Endians
  BY DEF PollRow, AcceptsPoll
<1>2. \/ /\ devices' = devices
         /\ \E k \in DOMAIN list : poller' = <<d, k>>
      \/ /\ devices' = [devices EXCEPT ![d].pollers = Append(@, new)]
         /\ poller' = <<d, Len(list) + 1>>
  BY DEF PollRow
<1>3. devices \in Seq(DeviceType) /\ FileBound(devices)
  BY DEF BoundInv
<1>4. d \in DOMAIN devices /\ devices[d] \in DeviceType
  BY <1>1, <1>3
<1>5. new \in PollerType
  <2>1. row.start..(row.start + row.size - 1) \subseteq Addresses
    <3>1. row \in PollRows
      BY DEF PollRow, AcceptsPoll, PollRows
    <3> QED
      BY <3>1 DEF Addresses
  <2>2. new \in PollerRecord
    BY <1>1 DEF PollerRecord
  <2> QED
    BY <2>1, <2>2 DEF PollerType
<1>6. list \in Seq(PollerType)
  BY <1>4 DEF DeviceType
<1>7. CASE devices' = devices /\ \E k \in DOMAIN list : poller' = <<d, k>>
  <2>1. CursorInv'
    BY <1>1, <1>7 DEF CursorInv
  <2> QED
    BY <1>1, <1>7, <2>1 DEF BoundInv, FilesApart
<1>8. CASE /\ devices' = [devices EXCEPT ![d].pollers = Append(@, new)]
           /\ poller' = <<d, Len(list) + 1>>
  <2>1. devices' = [devices EXCEPT ![d] = dev]
    BY <1>3, <1>4, <1>8
  <2>2. Append(list, new) \in Seq(PollerType)
    BY <1>5, <1>6, Appended
  <2>3. /\ dev \in DeviceType
        /\ dev.name = devices[d].name /\ dev.refs = devices[d].refs
        /\ dev.pollers = Append(list, new)
    BY <1>4, <2>2 DEF DeviceType
  <2>4. /\ BoundRight(devices[d], d) /\ Sane(devices[d])
        /\ NamesDistinct(devices[d].refs)
    BY <1>3, <1>4 DEF FileBound
  <2>5. /\ DOMAIN dev.pollers = DOMAIN list \cup {Len(list) + 1}
        /\ \A k \in DOMAIN list : dev.pollers[k] = list[k]
        /\ dev.pollers[Len(list) + 1] = new
        /\ Len(list) + 1 \notin DOMAIN list
    <3> HIDE DEF list, new, dev
    <3> QED
      BY <1>5, <1>6, <2>3, Appended
  <2>6. BoundRight(dev, d)
    <3>1. \A r \in DOMAIN dev.refs :
            /\ dev.refs[r].poller[1] = d
            /\ dev.refs[r].poller[2] \in DOMAIN list
            /\ Covers(list[dev.refs[r].poller[2]], dev.refs[r])
      BY <2>3, <2>4 DEF BoundRight
    <3>2. ASSUME NEW k \in DOMAIN list
          PROVE  Listed(dev.pollers[k]) = OwnReadable(dev, d, k)
      <4>1. Listed(list[k]) = OwnReadable(devices[d], d, k)
        BY <2>4 DEF BoundRight
      <4>2. OwnReadable(devices[d], d, k) = OwnReadable(dev, d, k)
        BY <2>3 DEF OwnReadable
      <4> QED
        BY <2>5, <4>1, <4>2
    <3>3. Listed(new) = {}
      BY DEF Listed
    <3>4. \A q \in DOMAIN dev.refs : dev.refs[q].poller # <<d, Len(list) + 1>>
      BY <2>5, <3>1
    <3>5. OwnReadable(dev, d, Len(list) + 1) = {}
      BY <3>4 DEF OwnReadable
    <3> HIDE DEF list, new, dev, d
    <3>6. \A k \in DOMAIN dev.pollers :
            Listed(dev.pollers[k]) = OwnReadable(dev, d, k)
      BY <2>5, <3>2, <3>3, <3>5
    <3> QED
      BY <2>5, <3>1, <3>6 DEF BoundRight
  <2>7. devices' \in Seq(DeviceType) /\ FileBound(devices')
    <3>1. \A r \in DOMAIN dev.refs : dev.refs[r].poller[2] \in DOMAIN list
      BY <2>3, <2>4 DEF BoundRight
    <3>2. Sane(dev)
      <4> HIDE DEF new, dev
      <4> QED
        BY <2>3, <2>4, <2>5, <3>1 DEF Sane
    <3> QED
      BY <1>1, <2>1, <2>3, <2>4, <2>6, <3>2, LastDeviceChanges
  <2>8. CursorInv'
    <3>1. Len(devices') = d /\ devices'[d] = dev
      BY <1>3, <1>4, <2>1
    <3>2. devices' # <<>>
      BY <1>3, <1>4, <2>1
    <3>3. poller' = <<d, poller'[2]>> /\ poller'[2] = Len(list) + 1
      BY <1>8
    <3> HIDE DEF list, new, dev, d
    <3> QED
      BY <2>5, <3>1, <3>2, <3>3 DEF CursorInv
  <2> QED
    BY <1>1, <2>7, <2>8 DEF BoundInv, FilesApart
<1> QED
  BY <1>2, <1>7, <1>8

\* check_sanity keeps a reference inside its poller, also the first coil of a
\* group, whose address is multiplied.
LEMMA SaneIsCovered ==
  ASSUME NEW ref, NEW p \in PollerType, ref.address \in Int, CheckSanity(ref, p)
  PROVE  Covers(p, ref)
<1>1. p.start \in Nat /\ p.size \in Nat /\ ByteBits \in Nat
  BY DEF PollerType, PollerRecord
<1>2. CASE OnBits(p.fc) /\ ref.dtype \in {"bool8", "bool16"}
  <2> DEFINE x == ref.address - p.start
  <2>1. x \in Nat /\ x * ByteBits < p.size
    BY <1>1, <1>2 DEF CheckSanity
  <2>2. x * ByteBits \in Nat
    BY <1>1, <2>1
  <2> HIDE DEF x
  <2>3. p.start + x * ByteBits >= p.start /\ p.start + x * ByteBits < p.start + p.size
    BY <1>1, <2>1, <2>2
  <2> QED
    BY <1>2, <2>3 DEF Covers, x
<1>3. CASE OnBits(p.fc) /\ ref.dtype \notin {"bool8", "bool16"}
  <2>1. ref.address \in p.start..(p.start + p.size - 1)
    BY <1>3 DEF CheckSanity
  <2>2. ref.address >= p.start /\ ref.address < p.start + p.size
    BY <1>1, <2>1
  <2> QED
    BY <1>3, <2>2 DEF Covers
<1>4. CASE ~OnBits(p.fc)
  <2>1. /\ ref.address \in p.start..(p.start + p.size - 1)
        /\ ref.address + RefWidth[ref.dtype] - 1
             \in p.start..(p.start + p.size - 1)
    BY <1>4 DEF CheckSanity
  <2>2. /\ ref.address >= p.start
        /\ ref.address + RefWidth[ref.dtype] - 1 < p.start + p.size
    BY <1>1, <2>1
  <2> QED
    BY <1>4, <2>2 DEF Covers
<1> QED
  BY <1>2, <1>3, <1>4

LEMMA RefRowBinds ==
  ASSUME BoundInv, NEW row \in Rows, RefRow(row)
  PROVE  BoundInv'
<1> DEFINE d == Len(devices)
           k == poller[2]
           old == devices[d]
           p == old.pollers[k]
           ref == [name |-> row.name, address |-> row.address,
                   bit |-> row.bit, dtype |-> row.dtype, rw |-> row.rw,
                   poller |-> poller]
           entry == <<d, row.name>>
           newp == IF Readable(ref)
                   THEN [p EXCEPT !.readable = Append(p.readable, entry)]
                   ELSE p
           dev == [old EXCEPT !.refs = Append(old.refs, ref),
                              !.pollers = [old.pollers EXCEPT ![k] = newp]]
<1>1. /\ files' = files /\ poller' = poller
      /\ row.kind = "ref" /\ devices # <<>> /\ poller # NONE
      /\ row.name \notin Names(old.refs)
      /\ row.dtype \in Dtypes
      /\ WellFormed(row, CurrentPoller) /\ CheckSanity(row, CurrentPoller)
  BY DEF RefRow, AcceptsRef, WellFormed
<1>2. devices \in Seq(DeviceType) /\ FileBound(devices)
  BY DEF BoundInv
<1>3. poller = <<d, k>> /\ k \in DOMAIN old.pollers
  BY <1>1 DEF BoundInv, CursorInv
<1>4. d \in DOMAIN devices /\ d \in Nat /\ old \in DeviceType
  BY <1>1, <1>2
<1>5. /\ old.pollers \in Seq(PollerType) /\ old.refs \in Seq(RefType)
      /\ k \in Nat /\ p \in PollerType
      /\ p.readable \in Seq(Nat \X {r.name : r \in Rows})
  <2>1. old.pollers \in Seq(PollerType) /\ old.refs \in Seq(RefType)
    BY <1>4 DEF DeviceType
  <2>2. k \in Nat /\ old.pollers[k] \in PollerType
    <3> DEFINE list == old.pollers
    <3>1. list \in Seq(PollerType) /\ k \in DOMAIN list
      BY <1>3, <2>1
    <3> HIDE DEF list, k
    <3>2. k \in Nat /\ list[k] \in PollerType
      BY <3>1
    <3> QED
      BY <3>2 DEF list
  <2> HIDE DEF old, k
  <2>3. p.readable \in Seq(Nat \X {r.name : r \in Rows})
    BY <2>2 DEF PollerType, PollerRecord
  <2> QED
    BY <2>1, <2>2, <2>3
<1>6. CurrentPoller = p
  BY <1>3 DEF CurrentPoller
<1>7. ref \in RefType
  BY <1>1, <1>3, <1>4, <1>5, RowAssumption DEF RefType
<1>8. entry \in Nat \X {r.name : r \in Rows}
  BY <1>4
<1>9. /\ newp \in PollerType
      /\ newp.fc = p.fc /\ newp.start = p.start /\ newp.size = p.size
      /\ newp.endian = p.endian
  <2>1. Append(p.readable, entry) \in Seq(Nat \X {r.name : r \in Rows})
    BY <1>5, <1>8
  <2> HIDE DEF entry, ref
  <2> QED
    BY <1>5, <2>1 DEF PollerType, PollerRecord
<1>10. /\ Append(old.refs, ref) \in Seq(RefType)
       /\ [old.pollers EXCEPT ![k] = newp] \in Seq(PollerType)
  <2> HIDE DEF newp, ref
  <2> QED
    BY <1>3, <1>5, <1>7, <1>9
<1>11. /\ dev \in DeviceType /\ dev.name = old.name
       /\ dev.refs = Append(old.refs, ref)
       /\ dev.pollers = [old.pollers EXCEPT ![k] = newp]
  <2> HIDE DEF newp, ref
  <2> QED
    BY <1>4, <1>10 DEF DeviceType
<1>12. devices' = [devices EXCEPT ![d] = dev]
  <2>1. CASE Readable(ref)
    <3>1. newp = [p EXCEPT !.readable = Append(p.readable, entry)]
      BY <2>1
    <3>2. devices' = [[devices EXCEPT ![d].refs = Append(@, ref)] EXCEPT
                        ![poller[1]].pollers[k].readable = Append(@, entry)]
      BY <2>1 DEF RefRow
    <3>3. poller[1] = d
      BY <1>3
    <3> DEFINE mid == [old EXCEPT !.refs = Append(old.refs, ref)]
               mapped == [devices EXCEPT ![d].refs = Append(@, ref)]
    <3>4. /\ mapped = [devices EXCEPT ![d] = mid]
          /\ mapped[d] = mid /\ d \in DOMAIN mapped
      BY <1>2, <1>4
    <3>5. /\ mid.pollers = old.pollers /\ mid.pollers[k] = p
          /\ k \in DOMAIN mid.pollers
      BY <1>3, <1>4 DEF DeviceType
    <3> HIDE DEF mapped, ref, entry
    <3>6. devices' = [mapped EXCEPT ![d].pollers[k].readable = Append(@, entry)]
      BY <3>2, <3>3 DEF mapped
    <3> HIDE DEF mid, newp, d, k, old
    <3>7. devices' = [mapped EXCEPT ![d] =
                        [mid EXCEPT !.pollers = [old.pollers EXCEPT ![k] = newp]]]
      BY <3>1, <3>4, <3>5, <3>6
    <3>8. [mid EXCEPT !.pollers = [old.pollers EXCEPT ![k] = newp]] = dev
      BY DEF mid
    <3> QED
      BY <3>4, <3>7, <3>8
  <2>2. CASE ~Readable(ref)
    <3>1. newp = p
      BY <2>2
    <3>2. devices' = [devices EXCEPT ![d].refs = Append(@, ref)]
      BY <2>2 DEF RefRow
    <3> HIDE DEF ref
    <3>3. [old.pollers EXCEPT ![k] = newp] = old.pollers
      <4> DEFINE list == old.pollers
      <4>1. list \in Seq(PollerType) /\ k \in DOMAIN list /\ newp = list[k]
        BY <1>3, <1>5, <3>1
      <4> HIDE DEF list, newp, k
      <4>2. [list EXCEPT ![k] = newp] = list
        BY <4>1
      <4> QED
        BY <4>2 DEF list
    <3> QED
      BY <1>2, <1>3, <1>4, <1>5, <3>2, <3>3 DEF DeviceType
  <2> QED
    BY <2>1, <2>2
<1>13. BoundRight(old, d) /\ Sane(old) /\ NamesDistinct(old.refs)
  BY <1>2, <1>4 DEF FileBound
<1>14. /\ DOMAIN dev.refs = DOMAIN old.refs \cup {Len(old.refs) + 1}
       /\ \A r \in DOMAIN old.refs : dev.refs[r] = old.refs[r]
       /\ dev.refs[Len(old.refs) + 1] = ref
       /\ Len(old.refs) + 1 \notin DOMAIN old.refs
  <2> DEFINE list == old.refs
  <2>1. list \in Seq(RefType) /\ dev.refs = Append(list, ref)
    BY <1>5, <1>11
  <2> HIDE DEF list, ref, dev
  <2>2. /\ DOMAIN dev.refs = DOMAIN list \cup {Len(list) + 1}
        /\ \A r \in DOMAIN list : dev.refs[r] = list[r]
        /\ dev.refs[Len(list) + 1] = ref
        /\ Len(list) + 1 \notin DOMAIN list
    BY <1>7, <2>1, Appended
  <2> QED
    BY <2>2 DEF list
<1>15. /\ DOMAIN dev.pollers = DOMAIN old.pollers
       /\ \A j \in DOMAIN old.pollers :
            dev.pollers[j] = IF j = k THEN newp ELSE old.pollers[j]
  <2> HIDE DEF newp, old, dev
  <2> QED
    BY <1>3, <1>5, <1>11
<1>16. \A j \in DOMAIN old.pollers, r \in {q \in DOMAIN dev.refs : TRUE} :
         Covers(old.pollers[j], dev.refs[r]) => Covers(dev.pollers[j], dev.refs[r])
  <2> HIDE DEF newp, old, dev, k
  <2> QED
    BY <1>9, <1>15 DEF Covers
<1>17. \A r \in DOMAIN dev.refs :
         /\ dev.refs[r].poller[1] = d
         /\ dev.refs[r].poller[2] \in DOMAIN dev.pollers
         /\ Covers(dev.pollers[dev.refs[r].poller[2]], dev.refs[r])
  <2> SUFFICES ASSUME NEW r \in DOMAIN dev.refs
               PROVE  /\ dev.refs[r].poller[1] = d
                      /\ dev.refs[r].poller[2] \in DOMAIN old.pollers
                      /\ Covers(old.pollers[dev.refs[r].poller[2]], dev.refs[r])
    BY <1>15, <1>16
  <2>1. CASE r \in DOMAIN old.refs
    BY <1>13, <1>14, <2>1 DEF BoundRight
  <2>2. CASE r = Len(old.refs) + 1
    <3>1. dev.refs[r] = ref
      BY <1>14, <2>2
    <3>2. ref.address \in Int /\ CheckSanity(ref, p)
      BY <1>1, <1>6, RowAssumption DEF CheckSanity
    <3>3. Covers(p, ref)
      BY <1>5, <3>2, SaneIsCovered
    <3>4. ref.poller = <<d, k>>
      BY <1>3
    <3> HIDE DEF ref, dev, old
    <3> QED
      BY <1>3, <3>1, <3>3, <3>4
  <2> QED
    BY <1>14, <2>1, <2>2
<1>18. ASSUME NEW j \in DOMAIN old.pollers
       PROVE  Listed(dev.pollers[j]) = OwnReadable(dev, d, j)
  <2>1. Listed(old.pollers[j]) = OwnReadable(old, d, j)
    BY <1>13 DEF BoundRight
  <2>2. ref.poller = <<d, k>> /\ ref.name = row.name
    BY <1>3
  <2>3. OwnReadable(dev, d, j) = OwnReadable(old, d, j)
          \cup IF Readable(ref) /\ j = k THEN {entry} ELSE {}
    <3> DEFINE Picks(some) ==
                 {q \in DOMAIN some.refs : /\ Readable(some.refs[q])
                                           /\ some.refs[q].poller = <<d, j>>}
               last == Len(old.refs) + 1
    <3>1. Picks(dev) = Picks(old)
            \cup IF Readable(ref) /\ j = k THEN {last} ELSE {}
      <4> HIDE DEF ref, dev, old, d, k
      <4> QED
        BY <1>14, <2>2
    <3>2. /\ OwnReadable(dev, d, j) = {<<d, dev.refs[r].name>> : r \in Picks(dev)}
          /\ OwnReadable(old, d, j) = {<<d, old.refs[r].name>> : r \in Picks(old)}
      BY DEF OwnReadable
    <3>3. \A r \in Picks(old) : dev.refs[r].name = old.refs[r].name
      BY <1>14
    <3>4. dev.refs[last].name = row.name
      BY <1>14, <2>2
    <3> HIDE DEF Picks, last, ref, dev, old, d, k
    <3> QED
      BY <3>1, <3>2, <3>3, <3>4
  <2>4. Listed(dev.pollers[j]) = Listed(old.pollers[j])
          \cup IF Readable(ref) /\ j = k THEN {entry} ELSE {}
    <3>1. CASE Readable(ref) /\ j = k
      <4>1. newp.readable = Append(p.readable, entry)
        BY <1>5, <3>1 DEF PollerType, PollerRecord
      <4>2. dev.pollers[j] = newp /\ old.pollers[j] = p
        BY <1>15, <3>1
      <4> DEFINE rd == p.readable
                 T == Nat \X {r.name : r \in Rows}
      <4>3. /\ rd \in Seq(T) /\ entry \in T
            /\ newp.readable = Append(rd, entry)
        BY <1>5, <1>8, <4>1
      <4>4. Listed(newp) = Elements(newp.readable) /\ Listed(p) = Elements(rd)
        BY DEF Listed, Elements
      <4> HIDE DEF rd, T, newp, p, entry, dev, old, ref
      <4>5. Elements(Append(rd, entry)) = Elements(rd) \cup {entry}
        BY <4>3, ElementsAppended
      <4>6. Listed(newp) = Listed(p) \cup {entry}
        BY <4>3, <4>4, <4>5
      <4> QED
        BY <3>1, <4>2, <4>6
    <3>2. CASE ~(Readable(ref) /\ j = k)
      <4>1. dev.pollers[j] = old.pollers[j]
        BY <1>15, <3>2
      <4> QED
        BY <3>2, <4>1
    <3> QED
      BY <3>1, <3>2
  <2> HIDE DEF ref, dev, old, entry, d, k
  <2> QED
    BY <2>1, <2>3, <2>4
<1>19. BoundRight(dev, d)
  <2> HIDE DEF dev, old
  <2> QED
    BY <1>15, <1>17, <1>18 DEF BoundRight
<1>20. NamesDistinct(dev.refs)
  <2>1. ref.name \notin Names(old.refs)
    BY <1>1
  <2> HIDE DEF ref, dev, old
  <2> QED
    BY <1>5, <1>7, <1>11, <1>13, <2>1, NamesAppended
<1>21. Sane(dev)
  <2> SUFFICES ASSUME NEW r \in DOMAIN dev.refs
               PROVE  LET q == dev.pollers[dev.refs[r].poller[2]]
                      IN WellFormed(dev.refs[r], q) /\ CheckSanity(dev.refs[r], q)
    BY DEF Sane
  <2>1. \A j \in DOMAIN old.pollers :
          /\ dev.pollers[j].fc = old.pollers[j].fc
          /\ dev.pollers[j].start = old.pollers[j].start
          /\ dev.pollers[j].size = old.pollers[j].size
    <3> HIDE DEF newp, old, dev, k
    <3> QED
      BY <1>9, <1>15
  <2>2. CASE r \in DOMAIN old.refs
    <3>1. /\ dev.refs[r] = old.refs[r]
          /\ old.refs[r].poller[2] \in DOMAIN old.pollers
      BY <1>13, <1>14, <2>2 DEF BoundRight
    <3>2. LET q == old.pollers[old.refs[r].poller[2]]
          IN WellFormed(old.refs[r], q) /\ CheckSanity(old.refs[r], q)
      BY <1>13, <2>2 DEF Sane
    <3> HIDE DEF dev, old
    <3> QED
      BY <2>1, <3>1, <3>2 DEF WellFormed, CheckSanity
  <2>3. CASE r = Len(old.refs) + 1
    <3>1. dev.refs[r] = ref
      BY <1>14, <2>3
    <3>2. WellFormed(ref, p) /\ CheckSanity(ref, p)
      BY <1>1, <1>6 DEF WellFormed, CheckSanity
    <3>3. ref.poller[2] = k /\ k \in DOMAIN old.pollers
      BY <1>3
    <3> HIDE DEF dev, old, ref, k
    <3> QED
      BY <2>1, <3>1, <3>2, <3>3 DEF WellFormed, CheckSanity
  <2> QED
    BY <1>14, <2>2, <2>3
<1>22. devices' \in Seq(DeviceType) /\ FileBound(devices')
  <2> HIDE DEF dev
  <2> QED
    BY <1>1, <1>11, <1>12, <1>19, <1>20, <1>21, LastDeviceChanges
<1>23. CursorInv'
  <2>1. Len(devices') = d /\ devices'[d] = dev /\ devices' # <<>>
    <3> HIDE DEF dev
    <3> QED
      BY <1>1, <1>2, <1>4, <1>12
  <2> HIDE DEF dev, old, d
  <2> QED
    BY <1>1, <1>3, <1>15, <2>1 DEF CursorInv
<1> QED
  BY <1>1, <1>22, <1>23 DEF BoundInv, FilesApart
-----------------------------------------------------------------------------
(* The end of a file, and the rest. *)

LEMMA EndFileBinds ==
  ASSUME BoundInv, EndFile
  PROVE  BoundInv'
<1>1. /\ files' = Append(files, devices) /\ devices' = <<>> /\ poller' = NONE
      /\ Names(devices) \cap EarlierNames = {}
  BY DEF EndFile, FileIsComplete
<1>2. /\ devices \in Seq(DeviceType) /\ files \in Seq(Seq(DeviceType))
      /\ FileBound(devices) /\ FilesApart
      /\ \A f \in DOMAIN files : FileBound(files[f])
  BY DEF BoundInv
<1> DEFINE n == Len(files)
<1>3. /\ files' \in Seq(Seq(DeviceType))
      /\ DOMAIN files' = DOMAIN files \cup {n + 1}
      /\ \A f \in DOMAIN files : files'[f] = files[f]
      /\ files'[n + 1] = devices
  BY <1>1, <1>2, Appended
<1> HIDE DEF n
<1>4. \A f \in DOMAIN files' : FileBound(files'[f])
  BY <1>2, <1>3
<1>5. \A f \in DOMAIN files : Names(files[f]) \cap Names(devices) = {}
  BY <1>1 DEF EarlierNames
<1>6. FilesApart'
  BY <1>2, <1>3, <1>5 DEF FilesApart
<1>7. devices' \in Seq(DeviceType) /\ CursorInv'
  BY <1>1 DEF CursorInv
<1>8. FileBound(devices')
  BY <1>1 DEF FileBound, NamesDistinct
<1> QED
  BY <1>3, <1>4, <1>6, <1>7, <1>8 DEF BoundInv

LEMMA NothingIsBound ==
  ASSUME files = <<>>, devices = <<>>, poller = NONE
  PROVE  BoundInv
BY DEF BoundInv, CursorInv, FileBound, FilesApart, NamesDistinct

LEMMA RejectBinds ==
  ASSUME Reject
  PROVE  BoundInv'
<1>1. files' = <<>> /\ devices' = <<>> /\ poller' = NONE
  BY DEF Reject
<1> QED
  BY <1>1 DEF BoundInv, CursorInv, FileBound, FilesApart, NamesDistinct

LEMMA StepBinds ==
  ASSUME BoundInv, [Next]_vars
  PROVE  BoundInv'
<1>1. CASE Parse
  <2>1. CASE \E row \in Rows : DeviceRow(row)
    BY <2>1, DeviceRowBinds
  <2>2. CASE \E row \in Rows : PollRow(row)
    BY <2>2, PollRowBinds
  <2>3. CASE \E row \in Rows : RefRow(row)
    BY <2>3, RefRowBinds
  <2>4. CASE \E row \in Rows : RejectRow(row)
    BY <2>4, RejectBinds DEF RejectRow
  <2>5. CASE EndFile
    BY <2>5, EndFileBinds
  <2>6. CASE RejectFile
    BY <2>6, RejectBinds DEF RejectFile
  <2> QED
    BY <1>1, <2>1, <2>2, <2>3, <2>4, <2>5, <2>6 DEF Parse, ReadRow
<1>2. CASE UNCHANGED configVars
  <2>1. files' = files /\ devices' = devices /\ poller' = poller
    BY <1>2 DEF configVars
  <2> QED
    BY <2>1 DEF BoundInv, CursorInv, FileBound, FilesApart
<1>3. CASE SomeWrite
  BY <1>2, <1>3 DEF SomeWrite, StartWrite
<1>4. CASE WriteConfirmed \/ WriteRejected \/ EndWrite
  BY <1>2, <1>4 DEF WriteConfirmed, WriteRejected, EndWrite
<1>5. CASE \E c \in Cells : OtherMaster(c)
  BY <1>2, <1>5 DEF OtherMaster
<1>6. CASE UNCHANGED vars
  BY <1>2, <1>6 DEF vars
<1> QED
  BY <1>1, <1>3, <1>4, <1>5, <1>6 DEF Next, ConfigStep

LEMMA BoundIsEnough ==
  ASSUME BoundInv
  PROVE  ReferencesBound
<1> DEFINE all == Append(files, devices)
<1>1. /\ devices \in Seq(DeviceType) /\ files \in Seq(Seq(DeviceType))
      /\ FileBound(devices) /\ FilesApart
      /\ \A f \in DOMAIN files : FileBound(files[f])
  BY DEF BoundInv
<1>2. \A f \in DOMAIN all : FileBound(all[f])
  <2> DEFINE n == Len(files)
  <2>1. /\ DOMAIN all = DOMAIN files \cup {n + 1}
        /\ \A f \in DOMAIN files : all[f] = files[f]
        /\ all[n + 1] = devices
    BY <1>1, Appended
  <2> HIDE DEF all, n
  <2> QED
    BY <1>1, <2>1
<1> HIDE DEF all
<1>3. \A f \in DOMAIN all :
        /\ NamesDistinct(all[f])
        /\ \A d \in DOMAIN all[f] :
             BoundRight(all[f][d], d) /\ NamesDistinct(all[f][d].refs)
  BY <1>2 DEF FileBound
<1> QED
  BY <1>1, <1>3 DEF ReferencesBound, FilesApart, all

\* parse_config and load_configurations: whatever rows are read, in whatever
\* order and however many files, a reference is bound to a poller of the device
\* it was written under that covers it, pollers list exactly their own readable
\* references, and names are unique.
THEOREM BoundAsWritten == Spec => []ReferencesBound
<1>1. Init => BoundInv
  BY NothingIsBound DEF Init, ConfigInit
<1>2. BoundInv /\ [Next]_vars => BoundInv'
  BY StepBinds
<1>3. BoundInv => ReferencesBound
  BY BoundIsEnough
<1> QED
  BY <1>1, <1>2, <1>3, PTL DEF Spec

-----------------------------------------------------------------------------
(* A write in progress. *)

ByteType == [0..(ByteBits - 1) -> BOOLEAN]
WordType == WordOver(BOOLEAN)

\* A value of the reference: bits, or bytes.
BitCount(ref) == IF ref.dtype = "bool" THEN 1 ELSE GroupWidth(ref)
ValueType(p, ref) ==
  IF OnBits(p.fc) \/ OnBitsOfRegister(p, ref) THEN [1..BitCount(ref) -> BOOLEAN]
  ELSE [1..ValueBytes(ref) -> ByteType]

\* What is written is an accepted reference and a value of its own.
ProperWrite(w) ==
  /\ w.id \in Slaves /\ w.p \in PollerType /\ w.ref \in RefType
  /\ WellFormed(w.ref, w.p) /\ CheckSanity(w.ref, w.p) /\ MayWrite(w.p, w.ref)
  /\ w.value \in ValueType(w.p, w.ref)
  /\ w.read # NONE => w.read \in WordType /\ OnBitsOfRegister(w.p, w.ref)

\* What was read is what is held, but for the changes of the other master.
ReadHolds(w) ==
  w.read # NONE =>
    \A b \in WordBits :
      LET c == <<w.id, 3, w.ref.address, b>>
      IN BitOf(w.read, b) = IF c \in touched THEN ~mem[c] ELSE mem[c]

MemoryType ==
  /\ mem \in [Cells -> BOOLEAN] /\ others \in [Cells -> BOOLEAN]
  /\ strategy \in {"read-modify-write", "mask"}
  /\ touched \subseteq Cells /\ IsFiniteSet(touched)
  /\ Cardinality(touched) <= MaxChanges
  /\ writes \in 0..MaxWrites
  /\ result \in {NONE, "confirmed", "rejected"}

ConfigInv ==
  /\ ConfigTypeOK
  /\ status = "parsing" => Len(files) < MaxFiles

WriteInv ==
  /\ writing # NONE => status = "accepted" /\ ProperWrite(writing)
  /\ writing # NONE /\ result = NONE => ReadHolds(writing)
  /\ writing = NONE \/ result # "confirmed" => mem = others

-----------------------------------------------------------------------------
(* The bits of one word. *)

\* Where bit b of a decoded word is in the register.
RawBit(endian, b) ==
  IF LittleBytes(endian) THEN (b + ByteBits) % (2 * ByteBits) ELSE b

LEMMA Modulo ==
  ASSUME NEW m \in Nat \ {0}, NEW n \in Nat, n < m
  PROVE  n % m = n /\ (n + m) % m = n
OBVIOUS

LEMMA RawBitIs ==
  ASSUME NEW endian, NEW b \in WordBits
  PROVE  /\ RawBit(endian, b) = IF LittleBytes(endian)
                                THEN IF b < ByteBits THEN b + ByteBits
                                                     ELSE b - ByteBits
                                ELSE b
         /\ RawBit(endian, b) \in WordBits
         /\ RawBit(endian, RawBit(endian, b)) = b
<1> DEFINE Moved(n) == IF n < ByteBits THEN n + ByteBits ELSE n - ByteBits
<1>1. \A n \in WordBits : (n + ByteBits) % (2 * ByteBits) = Moved(n)
  <2> SUFFICES ASSUME NEW n \in WordBits
               PROVE  (n + ByteBits) % (2 * ByteBits) = Moved(n)
    OBVIOUS
  <2>1. 2 * ByteBits \in Nat \ {0} /\ n \in Nat
    BY DEF WordBits
  <2>2. CASE n < ByteBits
    <3>1. n + ByteBits \in Nat /\ n + ByteBits < 2 * ByteBits
      BY <2>1, <2>2
    <3> QED
      BY <2>1, <2>2, <3>1, Modulo
  <2>3. CASE ~(n < ByteBits)
    <3>1. /\ n - ByteBits \in Nat /\ n - ByteBits < 2 * ByteBits
          /\ n + ByteBits = (n - ByteBits) + 2 * ByteBits
      BY <2>1, <2>3 DEF WordBits
    <3> QED
      BY <2>1, <2>3, <3>1, Modulo
  <2> QED
    BY <2>2, <2>3
<1>2. \A n \in WordBits : Moved(n) \in WordBits /\ Moved(Moved(n)) = n
  BY DEF WordBits
<1> HIDE DEF Moved
<1>3. RawBit(endian, b) = IF LittleBytes(endian) THEN Moved(b) ELSE b
  BY <1>1 DEF RawBit
<1>4. RawBit(endian, b) \in WordBits
  BY <1>2, <1>3
<1>5. RawBit(endian, RawBit(endian, b)) = b
  BY <1>1, <1>2, <1>3, <1>4 DEF RawBit
<1> QED
  BY <1>3, <1>4, <1>5 DEF Moved

\* Encoding or decoding one word only moves its bits.
BitsMoved(endian, raw, word) ==
  \A b \in WordBits : BitOf(raw, RawBit(endian, b)) = BitOf(word, b)

LEMMA OneWord ==
  ASSUME NEW Bit, NEW endian,
         NEW word \in WordOver(Bit)
  PROVE  /\ PackWords(endian, <<word>>) = <<PackWords(endian, <<word>>)[1]>>
         /\ UnpackWords(endian, <<word>>) = <<PackWords(endian, <<word>>)[1]>>
         /\ PackWords(endian, <<word>>)[1] \in WordOver(Bit)
         /\ BitsMoved(endian, PackWords(endian, <<word>>)[1], word)
<1> DEFINE swapped == <<word[2], word[1]>>
           raw == IF LittleBytes(endian) THEN swapped ELSE word
<1>1. \A w : ReverseWords(<<w>>) = <<w>>
  BY DEF ReverseWords
<1>2. SwapBytes(<<word>>) = <<swapped>>
  BY DEF SwapBytes
<1>3. PackWords(endian, <<word>>) = <<raw>> /\ UnpackWords(endian, <<word>>) = <<raw>>
  BY <1>1, <1>2 DEF PackWords, UnpackWords
<1>4. raw \in WordOver(Bit)
  BY DEF WordOver
<1>5. ASSUME NEW b \in WordBits
      PROVE  BitOf(raw, RawBit(endian, b)) = BitOf(word, b)
  <2>1. b \in Nat /\ b < 2 * ByteBits
    BY DEF WordBits
  <2>2. CASE LittleBytes(endian) /\ b < ByteBits
    <3>1. RawBit(endian, b) = b + ByteBits
      BY <2>2, RawBitIs
    <3> QED
      BY <2>1, <2>2, <3>1 DEF BitOf
  <2>3. CASE LittleBytes(endian) /\ ~(b < ByteBits)
    <3>1. RawBit(endian, b) = b - ByteBits
      BY <2>3, RawBitIs
    <3> QED
      BY <2>1, <2>3, <3>1 DEF BitOf
  <2>4. CASE ~LittleBytes(endian)
    BY <2>4, RawBitIs
  <2> QED
    BY <2>2, <2>3, <2>4
<1>6. PackWords(endian, <<word>>)[1] = raw
  BY <1>3
<1> HIDE DEF raw
<1> QED
  BY <1>3, <1>4, <1>5, <1>6 DEF BitsMoved

LEMMA WordOfBits ==
  ASSUME NEW set
  PROVE  /\ WordFrom(set) \in WordType
         /\ \A b \in WordBits : BitOf(WordFrom(set), b) = (b \in set)
<1> DEFINE I == 0..(ByteBits - 1)
           High == [b \in I |-> b + ByteBits \in set]
           Low == [b \in I |-> b \in set]
<1>1. WordFrom(set) = <<High, Low>>
  BY DEF WordFrom
<1>2. High \in [I -> BOOLEAN] /\ Low \in [I -> BOOLEAN]
  <2> HIDE DEF I
  <2>1. \A b \in I : (b + ByteBits \in set) \in BOOLEAN /\ (b \in set) \in BOOLEAN
    OBVIOUS
  <2> QED
    BY <2>1, Zenon
<1>3. \A b \in I : High[b] = (b + ByteBits \in set) /\ Low[b] = (b \in set)
  <2> HIDE DEF I
  <2> QED
    BY Zenon
<1> HIDE DEF High, Low
<1>4. ASSUME NEW b \in WordBits
      PROVE  BitOf(WordFrom(set), b) = (b \in set)
  <2>1. CASE b < ByteBits
    <3>1. b \in I
      BY <2>1 DEF WordBits
    <3>2. BitOf(WordFrom(set), b) = Low[b]
      BY <1>1, <2>1 DEF BitOf
    <3> QED
      BY <1>3, <3>1, <3>2, Zenon
  <2>2. CASE ~(b < ByteBits)
    <3>1. b - ByteBits \in I /\ b - ByteBits + ByteBits = b
      BY <2>2 DEF WordBits
    <3>2. BitOf(WordFrom(set), b) = High[b - ByteBits]
      BY <1>1, <2>2 DEF BitOf
    <3>3. High[b - ByteBits] = (b - ByteBits + ByteBits \in set)
      BY <1>3, <3>1, Zenon
    <3> QED
      BY <3>1, <3>2, <3>3, Zenon
  <2> QED
    BY <2>1, <2>2
<1>5. WordFrom(set) \in WordType
  BY <1>1, <1>2 DEF WordType, WordOver
<1> QED
  BY <1>4, <1>5

LEMMA BitIsBoolean ==
  ASSUME NEW word \in WordType, NEW b \in WordBits
  PROVE  BitOf(word, b) \in BOOLEAN
<1>1. b < ByteBits => b \in 0..(ByteBits - 1)
  BY DEF WordBits
<1>2. ~(b < ByteBits) => b - ByteBits \in 0..(ByteBits - 1)
  BY DEF WordBits
<1> QED
  BY <1>1, <1>2 DEF BitOf, WordType, WordOver

LEMMA MergeIsWord ==
  ASSUME NEW word \in WordType, NEW other \in WordType, NEW set
  PROVE  Merge(word, other, set) \in WordType
BY DEF Merge, WordType, WordOver

-----------------------------------------------------------------------------
(* Writing bits of a register. *)

\* The bit that component k of a value stands for.
BitAt(ref, k) == IF ref.dtype = "bool" THEN ref.bit ELSE k - 1

LEMMA BitsNamed ==
  ASSUME NEW p, NEW ref, WellFormed(ref, p), OnBitsOfRegister(p, ref)
  PROVE  /\ BitCount(ref) \in Nat \ {0}
         /\ NamedBits(ref) \subseteq WordBits
         /\ \A k \in 1..BitCount(ref) : BitAt(ref, k) \in NamedBits(ref)
         /\ \A b \in NamedBits(ref) : \E k \in 1..BitCount(ref) : b = BitAt(ref, k)
<1>1. CASE ref.dtype = "bool"
  <2>1. ref.bit \in WordBits
    BY <1>1 DEF WellFormed, OnBitsOfRegister, WordBits
  <2> QED
    BY <1>1, <2>1 DEF BitCount, NamedBits, BitAt
<1>2. CASE ref.dtype # "bool"
  <2>1. /\ GroupWidth(ref) \in Nat \ {0} /\ GroupWidth(ref) <= 2 * ByteBits
        /\ BitCount(ref) = GroupWidth(ref)
    BY <1>2 DEF GroupWidth, BitCount
  <2>2. NamedBits(ref) = 0..(GroupWidth(ref) - 1)
    BY <1>2 DEF NamedBits
  <2>3. \A b \in NamedBits(ref) : b + 1 \in 1..GroupWidth(ref) /\ b = (b + 1) - 1
    BY <2>1, <2>2
  <2>4. \A k \in 1..BitCount(ref) : BitAt(ref, k) \in NamedBits(ref)
    BY <1>2, <2>1, <2>2 DEF BitAt
  <2>5. \A b \in NamedBits(ref) : \E k \in 1..BitCount(ref) : b = BitAt(ref, k)
    BY <1>2, <2>1, <2>3 DEF BitAt
  <2> QED
    BY <2>1, <2>2, <2>4, <2>5 DEF WordBits
<1> QED
  BY <1>1, <1>2

LEMMA ValueBits ==
  ASSUME NEW p, NEW ref, WellFormed(ref, p), OnBitsOfRegister(p, ref),
         NEW value \in [1..BitCount(ref) -> BOOLEAN]
  PROVE  /\ ValueWord(ref, value) \in WordType
         /\ \A k \in 1..BitCount(ref) :
              BitOf(ValueWord(ref, value), BitAt(ref, k)) = value[k]
<1> DEFINE On == {b \in NamedBits(ref) :
                    IF ref.dtype = "bool" THEN value[1] ELSE value[b + 1]}
<1>1. ValueWord(ref, value) = WordFrom(On)
  BY DEF ValueWord
<1>2. ASSUME NEW k \in 1..BitCount(ref)
      PROVE  BitOf(ValueWord(ref, value), BitAt(ref, k)) = value[k]
  <2> DEFINE b == BitAt(ref, k)
  <2>1. b \in NamedBits(ref) /\ b \in WordBits
    BY BitsNamed
  <2>2. value[k] = IF ref.dtype = "bool" THEN value[1] ELSE value[b + 1]
    BY BitsNamed DEF BitCount, BitAt
  <2>3. value[k] \in BOOLEAN
    OBVIOUS
  <2>4. value[k] <=> b \in On
    <3> HIDE DEF b
    <3> QED
      BY <2>1, <2>2
  <2>5. BitOf(WordFrom(On), b) = (b \in On)
    <3> HIDE DEF On, b
    <3> QED
      BY <2>1, WordOfBits
  <2> HIDE DEF On, b
  <2>6. (b \in On) = value[k]
    BY <2>3, <2>4
  <2>7. BitOf(ValueWord(ref, value), b) = value[k]
    BY <1>1, <2>5, <2>6
  <2> QED
    BY <2>7 DEF b
<1> HIDE DEF On
<1> QED
  BY <1>1, <1>2, WordOfBits

\* Both strategies put the value in the named bits and leave the others as
\* they are in the word they start from, in every order of bytes.
LEMMA BitsReplaced ==
  ASSUME NEW p, NEW ref, WellFormed(ref, p), OnBitsOfRegister(p, ref),
         NEW value \in [1..BitCount(ref) -> BOOLEAN], NEW base \in WordType,
         NEW word, \/ word = ModifiedWord(p, ref, value, base)
                   \/ word = MaskedWord(p, ref, value, base)
  PROVE  /\ word \in WordType
         /\ \A b \in WordBits :
              BitOf(word, RawBit(p.endian, b))
              = IF b \in NamedBits(ref) THEN BitOf(ValueWord(ref, value), b)
                ELSE BitOf(base, RawBit(p.endian, b))
<1> DEFINE e == p.endian
           new == ValueWord(ref, value)
           named == NamedBits(ref)
<1>1. new \in WordType /\ named \subseteq WordBits
  BY ValueBits, BitsNamed
<1>2. \A w \in WordType :
        /\ PackWords(e, <<w>>)[1] \in WordType
        /\ UnpackWords(e, <<w>>)[1] = PackWords(e, <<w>>)[1]
        /\ \A b \in WordBits : BitOf(PackWords(e, <<w>>)[1], RawBit(e, b)) = BitOf(w, b)
  <2> SUFFICES ASSUME NEW w \in WordType
               PROVE  /\ PackWords(e, <<w>>)[1] \in WordType
                      /\ UnpackWords(e, <<w>>)[1] = PackWords(e, <<w>>)[1]
                      /\ \A b \in WordBits :
                           BitOf(PackWords(e, <<w>>)[1], RawBit(e, b)) = BitOf(w, b)
    OBVIOUS
  <2> DEFINE Bit == BOOLEAN
  <2>1. w \in WordOver(Bit)
    BY DEF WordType
  <2> HIDE DEF e, Bit
  <2>2. /\ PackWords(e, <<w>>)[1] \in WordOver(Bit)
        /\ UnpackWords(e, <<w>>) = <<PackWords(e, <<w>>)[1]>>
        /\ \A b \in WordBits : BitOf(PackWords(e, <<w>>)[1], RawBit(e, b)) = BitOf(w, b)
    <3> HIDE DEF new, named
    <3>1. PackWords(e, <<w>>)[1] \in WordOver(Bit)
      BY <2>1, OneWord
    <3>2. UnpackWords(e, <<w>>) = <<PackWords(e, <<w>>)[1]>>
      BY <2>1, OneWord
    <3>3. BitsMoved(e, PackWords(e, <<w>>)[1], w)
      BY <2>1, OneWord
    <3> QED
      BY <3>1, <3>2, <3>3 DEF BitsMoved
  <2>3. UnpackWords(e, <<w>>)[1] = PackWords(e, <<w>>)[1]
    BY <2>2
  <2> QED
    BY <2>2, <2>3 DEF WordType, Bit
<1>3. \A w, v \in WordType : \A set \in SUBSET WordBits :
        /\ Merge(w, v, set) \in WordType
        /\ \A b \in WordBits :
             BitOf(Merge(w, v, set), b) = IF b \in set THEN BitOf(v, b) ELSE BitOf(w, b)
  BY MergeIsExact, MergeIsWord DEF WordType, WordBits
<1>4. \A b \in WordBits : RawBit(e, b) \in WordBits /\ RawBit(e, RawBit(e, b)) = b
  BY RawBitIs
<1> HIDE DEF e, new, named
<1>5. CASE word = ModifiedWord(p, ref, value, base)
  <2> DEFINE plain == UnpackWords(e, <<base>>)[1]
             merged == Merge(plain, new, named)
  <2>1. word = PackWords(e, <<merged>>)[1]
    BY <1>5 DEF ModifiedWord, e, new, named
  <2>2. plain \in WordType /\ \A b \in WordBits : BitOf(plain, RawBit(e, b)) = BitOf(base, b)
    BY <1>2
  <2> HIDE DEF plain
  <2>3. /\ merged \in WordType
        /\ \A b \in WordBits :
             BitOf(merged, b) = IF b \in named THEN BitOf(new, b) ELSE BitOf(plain, b)
    BY <1>1, <1>3, <2>2
  <2> HIDE DEF merged
  <2>4. \A b \in WordBits : BitOf(plain, b) = BitOf(base, RawBit(e, b))
    BY <1>4, <2>2
  <2>5. /\ word \in WordType
        /\ \A b \in WordBits : BitOf(word, RawBit(e, b)) = BitOf(merged, b)
    BY <1>2, <2>1, <2>3
  <2>6. \A b \in WordBits :
          BitOf(word, RawBit(e, b))
          = IF b \in named THEN BitOf(new, b) ELSE BitOf(base, RawBit(e, b))
    BY <2>3, <2>4, <2>5
  <2> QED
    BY <2>5, <2>6 DEF e, new, named
<1>6. CASE word = MaskedWord(p, ref, value, base)
  <2> DEFINE raw == PackWords(e, <<new>>)[1]
             mask == PackWords(e, <<WordFrom(named)>>)[1]
             set == {b \in WordBits : BitOf(mask, b)}
  <2>1. word = Merge(base, raw, set)
    BY <1>6 DEF MaskedWord, RawMask, e, new, named
  <2>2. raw \in WordType /\ \A b \in WordBits : BitOf(raw, RawBit(e, b)) = BitOf(new, b)
    BY <1>1, <1>2
  <2>3. /\ WordFrom(named) \in WordType
        /\ \A b \in WordBits : BitOf(WordFrom(named), b) = (b \in named)
    BY WordOfBits
  <2>4. \A b \in WordBits : BitOf(mask, RawBit(e, b)) = BitOf(WordFrom(named), b)
    BY <1>2, <2>3
  <2> HIDE DEF raw, mask
  <2>5. \A b \in WordBits : RawBit(e, b) \in set <=> b \in named
    <3>1. ASSUME NEW b \in WordBits
          PROVE  BitOf(mask, RawBit(e, b)) = (b \in named)
      BY <2>3, <2>4, Zenon
    <3> QED
      BY <1>4, <3>1
  <2>6. set \in SUBSET WordBits
    OBVIOUS
  <2> HIDE DEF set
  <2>7. /\ word \in WordType
        /\ \A b \in WordBits :
             BitOf(word, b) = IF b \in set THEN BitOf(raw, b) ELSE BitOf(base, b)
    BY <1>3, <2>1, <2>2, <2>6
  <2>8. \A b \in WordBits :
          BitOf(word, RawBit(e, b))
          = IF b \in named THEN BitOf(new, b) ELSE BitOf(base, RawBit(e, b))
    BY <1>4, <2>2, <2>5, <2>7
  <2> QED
    BY <2>7, <2>8 DEF e, new, named
<1> QED
  BY <1>5, <1>6

-----------------------------------------------------------------------------
(* What a confirmed write leaves behind. *)

LEMMA Within ==
  ASSUME NEW first \in Int, NEW last \in Int, NEW a \in Int,
         NEW n \in Nat \ {0}, NEW j \in 1..n, first <= a, a + n - 1 <= last
  PROVE  /\ a + j - 1 \in first..last /\ a + j - 1 \in a..(a + n - 1)
         /\ (a + j - 1) - a + 1 = j
OBVIOUS

LEMMA CellShape ==
  ASSUME NEW c \in Cells
  PROVE  \/ c = Coil(c[1], 1, c[3])
         \/ c = <<c[1], 3, c[3], c[4]>> /\ c[4] \in WordBits
BY DEF Cells, Coil

Own(w) == OwnValue([id |-> w.id], w.p, w.ref)

\* HeldValue in the memory m.
ValueIn(m, w) ==
  [k \in DOMAIN Own(w) |->
     IF OnBits(w.p.fc) \/ OnBitsOfRegister(w.p, w.ref) THEN m[Own(w)[k]]
     ELSE [b \in 0..(ByteBits - 1) |-> m[Own(w)[k][b]]]]

Written(m, w) ==
  /\ m \in [Cells -> BOOLEAN]
  /\ ValueIn(m, w) = w.value
  /\ \A c \in Cells \ TargetCells(w) :
       m[c] # mem[c] => w.read # NONE /\ c \in touched

LEMMA CoilsWritten ==
  ASSUME MemoryType, NEW w, ProperWrite(w), OnBits(w.p.fc)
  PROVE  Written(Image(w), w)
<1> DEFINE p == w.p
           ref == w.ref
           n == BitCount(ref)
           a == IF ref.dtype = "bool" THEN ref.address ELSE CoilGroupStart(p, ref)
           m == Image(w)
<1>1. /\ p.fc = 1 /\ w.id \in Slaves /\ mem \in [Cells -> BOOLEAN]
      /\ p.start \in Nat /\ p.size \in Nat
      /\ p.start..(p.start + p.size - 1) \subseteq Addresses
      /\ ref.address \in Int
      /\ CheckSanity(ref, p) /\ ~IsPartialGroup(p, ref)
      /\ w.value \in [1..n -> BOOLEAN]
  <2>1. /\ p \in PollerType /\ ref \in RefType /\ w.id \in Slaves
        /\ CheckSanity(ref, p) /\ MayWrite(p, ref)
        /\ w.value \in ValueType(p, ref)
    BY DEF ProperWrite
  <2>2. p.fc = 1 /\ ~IsPartialGroup(p, ref)
    BY <2>1 DEF MayWrite, OnBits
  <2>3. w.value \in [1..n -> BOOLEAN]
    BY <2>1 DEF ValueType
  <2> HIDE DEF p, ref, n
  <2>4. /\ p.start \in Nat /\ p.size \in Nat /\ ref.address \in Int
        /\ p.start..(p.start + p.size - 1) \subseteq Addresses
    BY <2>1 DEF PollerType, PollerRecord, RefType
  <2> QED
    BY <2>1, <2>2, <2>3, <2>4 DEF MemoryType
<1>2. ref.dtype = "bool" \/ ref.dtype \in {"bool8", "bool16"}
  BY <1>1 DEF CheckSanity, OnBits
<1>3. n \in Nat \ {0}
  BY DEF BitCount, GroupWidth
<1>4. a \in Int /\ p.start <= a /\ a + n <= p.start + p.size
  <2>1. CASE ref.dtype = "bool"
    <3>1. ref.address \in p.start..(p.start + p.size - 1)
      BY <1>1, <2>1 DEF CheckSanity, OnBits
    <3> QED
      BY <1>1, <2>1, <3>1 DEF BitCount
  <2>2. CASE ref.dtype \in {"bool8", "bool16"}
    <3>1. ref.address - p.start \in Nat
      BY <1>1, <2>2 DEF CheckSanity, OnBits
    <3>2. (ref.address - p.start) * ByteBits \in Nat
      BY <3>1
    <3>3. a = p.start + (ref.address - p.start) * ByteBits /\ n = GroupWidth(ref)
      BY <2>2 DEF CoilGroupStart, BitCount
    <3>4. ~(a + n > p.start + p.size)
      BY <1>1, <2>2, <3>3 DEF IsPartialGroup, OnBits
    <3> DEFINE x == (ref.address - p.start) * ByteBits
               end == p.start + p.size
    <3>8. x \in Nat /\ a = p.start + x
      BY <3>2, <3>3
    <3> HIDE DEF x
    <3>9. ~(a + n > end)
      BY <3>4
    <3> HIDE DEF a, n
    <3>5. x \in Nat /\ a = p.start + x /\ p.start \in Nat /\ end \in Nat
          /\ n \in Nat /\ ~(a + n > end)
      BY <1>1, <1>3, <3>8, <3>9
    <3>6. \A s, e, i, y \in Nat :
            ~((s + i) + y > e) => s + i \in Int /\ s <= s + i /\ (s + i) + y <= e
      OBVIOUS
    <3> HIDE DEF end
    <3>7. a \in Int /\ p.start <= a /\ a + n <= end
      BY <3>5, <3>6
    <3> QED
      BY <3>7 DEF end
  <2> QED
    BY <1>2, <2>1, <2>2
<1>5. Own(w) = [k \in 1..n |-> Coil(w.id, 1, a + k - 1)]
  <2>1. CASE ref.dtype = "bool"
    <3>1. Own(w) = <<Coil(w.id, 1, ref.address)>>
      <4> HIDE DEF p, ref
      <4>1. Own(w) = OwnValue([id |-> w.id], p, ref)
        BY DEF Own, p, ref
      <4>2. OwnValue([id |-> w.id], p, ref) = <<Coil([id |-> w.id].id, p.fc, ref.address)>>
        BY <1>1, <2>1 DEF OwnValue, OnBits, OnRegisters
      <4> QED
        BY <1>1, <4>1, <4>2
    <3>2. n = 1 /\ a + 1 - 1 = ref.address
      BY <1>1, <2>1 DEF BitCount
    <3> HIDE DEF a, n
    <3> QED
      BY <3>1, <3>2
  <2>2. CASE ref.dtype \in {"bool8", "bool16"}
    <3>1. a = p.start + (ref.address - p.start) * ByteBits /\ n = GroupWidth(ref)
      BY <2>2 DEF CoilGroupStart, BitCount
    <3>2. Own(w) = [k \in 1..n |-> OwnCoil([id |-> w.id], p, ref, k - 1)]
      <4> HIDE DEF p, ref, a, n
      <4>1. Own(w) = OwnValue([id |-> w.id], p, ref)
        BY DEF Own, p, ref
      <4>2. OwnValue([id |-> w.id], p, ref)
            = [k \in 1..GroupWidth(ref) |-> OwnCoil([id |-> w.id], p, ref, k - 1)]
        BY <1>1, <2>2 DEF OwnValue, OnBits, OnRegisters
      <4> QED
        BY <3>1, <4>1, <4>2
    <3>3. ASSUME NEW k \in 1..n
          PROVE  OwnCoil([id |-> w.id], p, ref, k - 1) = Coil(w.id, 1, a + k - 1)
      <4>1. a + (k - 1) < p.start + p.size /\ a + (k - 1) = a + k - 1
        <5> HIDE DEF a, n
        <5> QED
          BY <1>1, <1>3, <1>4
      <4>2. OwnCoil([id |-> w.id], p, ref, k - 1) =
              IF a + (k - 1) < p.start + p.size
              THEN Coil(w.id, 1, a + (k - 1)) ELSE Padding
        <5> HIDE DEF a, n
        <5> QED
          BY <1>1, <3>1 DEF OwnCoil
      <4> QED
        BY <4>1, <4>2
    <3> HIDE DEF a, n
    <3> QED
      BY <3>2, <3>3
  <2> QED
    BY <1>2, <2>1, <2>2
<1>6. m = [c \in Cells |->
             IF c[1] = w.id /\ c[2] = 1 /\ c[3] \in a..(a + n - 1)
             THEN w.value[c[3] - a + 1] ELSE mem[c]]
  <2>1. Len(w.value) = n
    <3> HIDE DEF n
    <3> QED
      BY <1>1, <1>3
  <2>2. m = StoreCoils(w.id, a, w.value)
    BY <1>1 DEF Image
  <2> HIDE DEF a, n, m
  <2> QED
    BY <2>1, <2>2 DEF StoreCoils
<1> HIDE DEF a, n, m
<1>7. \A k \in 1..n : Coil(w.id, 1, a + k - 1) \in Cells
  <2> SUFFICES ASSUME NEW k \in 1..n PROVE Coil(w.id, 1, a + k - 1) \in Cells
    OBVIOUS
  <2> DEFINE last == p.start + p.size - 1
  <2>0. a + n - 1 <= last /\ last \in Int /\ p.start \in Int
    BY <1>1, <1>3, <1>4
  <2> HIDE DEF last
  <2>1. a + k - 1 \in p.start..last
    BY <1>3, <1>4, <2>0, Within
  <2> QED
    BY <1>1, <2>1 DEF Cells, last
<1>8. m \in [Cells -> BOOLEAN]
  <2>1. \A c \in Cells : c[3] \in a..(a + n - 1) => c[3] - a + 1 \in 1..n
    BY <1>3, <1>4
  <2> QED
    BY <1>1, <1>6, <2>1
<1>9. ValueIn(m, w) = w.value
  <2>1. ASSUME NEW k \in 1..n PROVE m[Own(w)[k]] = w.value[k]
    <3> DEFINE c == Coil(w.id, 1, a + k - 1)
    <3>1. c \in Cells /\ Own(w)[k] = c
      BY <1>5, <1>7
    <3>2. /\ c[1] = w.id /\ c[2] = 1 /\ c[3] = a + k - 1
      BY DEF Coil
    <3>3. a + k - 1 \in a..(a + n - 1) /\ a + k - 1 - a + 1 = k
      BY <1>3, <1>4
    <3>4. m[c] = IF c[1] = w.id /\ c[2] = 1 /\ c[3] \in a..(a + n - 1)
                 THEN w.value[c[3] - a + 1] ELSE mem[c]
      <4> HIDE DEF c
      <4> QED
        BY <1>6, <3>1
    <3> HIDE DEF c
    <3>5. m[c] = w.value[c[3] - a + 1]
      BY <3>2, <3>3, <3>4
    <3>6. c[3] - a + 1 = k
      BY <1>4, <3>2
    <3> QED
      BY <3>1, <3>5, <3>6
  <2>2. ValueIn(m, w) = [k \in 1..n |-> m[Own(w)[k]]]
    BY <1>5 DEF ValueIn
  <2> QED
    BY <1>1, <2>1, <2>2
<1>10. ASSUME NEW c \in Cells, m[c] # mem[c]
       PROVE  c \in TargetCells(w)
  <2>1. c[1] = w.id /\ c[2] = 1 /\ c[3] \in a..(a + n - 1)
    BY <1>6, <1>10
  <2>2. c = Coil(w.id, 1, c[3])
    BY <2>1, CellShape
  <2> DEFINE k == c[3] - a + 1
  <2>3. k \in 1..n /\ a + k - 1 = c[3]
    BY <1>3, <1>4, <2>1
  <2> HIDE DEF k
  <2>4. Own(w)[k] = c /\ k \in DOMAIN Own(w)
    BY <1>5, <2>2, <2>3
  <2>5. c \in Range(Own(w))
    BY <2>4 DEF Range
  <2> QED
    BY <1>1, <2>1, <2>5 DEF TargetCells, Own, OnBits
<1> QED
  BY <1>8, <1>9, <1>10 DEF Written, m

\* What both kinds of register write have in common: memory m is mem with the
\* n words of `image` stored from the reference's first register on.
Stored(m, w, n, image) ==
  /\ m \in [Cells -> BOOLEAN]
  /\ \A j \in 1..n, b \in WordBits :
       LET c == <<w.id, 3, w.ref.address + j - 1, b>>
       IN c \in Cells /\ m[c] = BitOf(image[j], b)
  /\ \A c \in Cells :
       m[c] # mem[c] =>
         /\ c[1] = w.id /\ c[2] = 3
         /\ c[3] \in w.ref.address..(w.ref.address + n - 1)

LEMMA RegistersStored ==
  ASSUME MemoryType, NEW w, w.id \in Slaves, w.p \in PollerType,
         w.ref.address \in Int, NEW n \in Nat \ {0},
         {w.ref.address, w.ref.address + n - 1}
           \subseteq w.p.start..(w.p.start + w.p.size - 1),
         NEW image \in [1..n -> WordType],
         NEW m, m = StoreWords(w.id, w.ref.address, image)
  PROVE  Stored(m, w, n, image)
<1> DEFINE a == w.ref.address
           first == w.p.start
           last == w.p.start + w.p.size - 1
<1>1. mem \in [Cells -> BOOLEAN] /\ first..last \subseteq Addresses
  BY DEF MemoryType, PollerType, PollerRecord
<1>2. Len(image) = n
  OBVIOUS
<1>3. m = [c \in Cells |->
             IF c[1] = w.id /\ c[2] = 3 /\ c[3] \in a..(a + n - 1)
             THEN BitOf(image[c[3] - a + 1], c[4]) ELSE mem[c]]
  BY <1>2 DEF StoreWords
<1>0. /\ first \in Int /\ last \in Int /\ a \in Int
          /\ first <= a /\ a + n - 1 <= last
  <2>1. first \in Int /\ last \in Int /\ a \in Int
    BY DEF PollerType, PollerRecord
  <2>2. a \in first..last /\ a + n - 1 \in first..last
    OBVIOUS
  <2> HIDE DEF a, first, last
  <2> QED
    BY <2>1, <2>2
<1> HIDE DEF a, first, last
<1>4. ASSUME NEW j \in 1..n, NEW b \in WordBits
      PROVE  LET c == <<w.id, 3, a + j - 1, b>>
             IN c \in Cells /\ m[c] = BitOf(image[j], b)
  <2> DEFINE c == <<w.id, 3, a + j - 1, b>>
  <2>1. /\ a + j - 1 \in first..last
        /\ a + j - 1 \in a..(a + n - 1) /\ (a + j - 1) - a + 1 = j
    BY <1>0, Within
  <2>2. c \in Cells
    BY <1>1, <2>1 DEF Cells
  <2>3. c[1] = w.id /\ c[2] = 3 /\ c[3] = a + j - 1 /\ c[4] = b
    OBVIOUS
  <2>4. m[c] = IF c[1] = w.id /\ c[2] = 3 /\ c[3] \in a..(a + n - 1)
               THEN BitOf(image[c[3] - a + 1], c[4]) ELSE mem[c]
    <3> HIDE DEF c
    <3> QED
      BY <1>3, <2>2
  <2> HIDE DEF c
  <2>5. m[c] = BitOf(image[c[3] - a + 1], c[4])
    BY <2>1, <2>3, <2>4
  <2>6. c[3] - a + 1 = j
    BY <2>1, <2>3
  <2>7. m[c] = BitOf(image[j], b)
    BY <2>3, <2>5, <2>6
  <2> QED
    BY <2>2, <2>7 DEF c
<1>5. ASSUME NEW c \in Cells
      PROVE  /\ m[c] \in BOOLEAN
             /\ m[c] # mem[c] =>
                  c[1] = w.id /\ c[2] = 3 /\ c[3] \in a..(a + n - 1)
  <2>1. CASE c[1] = w.id /\ c[2] = 3 /\ c[3] \in a..(a + n - 1)
    <3>1. c[4] \in WordBits
      BY <2>1, CellShape DEF Coil
    <3>2. c[3] - a + 1 \in 1..n
      <4>1. \A i \in a..(a + n - 1) : i - a + 1 \in 1..n
        BY <1>0
      <4> QED
        BY <2>1, <4>1
    <3>3. image[c[3] - a + 1] \in WordType
      BY <3>2
    <3>4. BitOf(image[c[3] - a + 1], c[4]) \in BOOLEAN
      BY <3>1, <3>3, BitIsBoolean
    <3> QED
      BY <1>3, <2>1, <3>4
  <2>2. CASE ~(c[1] = w.id /\ c[2] = 3 /\ c[3] \in a..(a + n - 1))
    <3>1. m[c] = mem[c]
      BY <1>3, <2>2
    <3> QED
      BY <1>1, <3>1
  <2> QED
    BY <2>1, <2>2
<1>6. m \in [Cells -> BOOLEAN]
  BY <1>3, <1>5
<1> QED
  BY <1>4, <1>5, <1>6 DEF Stored, a

LEMMA HeldWord ==
  ASSUME MemoryType, NEW id \in Slaves, NEW a \in Addresses
  PROVE  /\ Held(WordAt(id, 3, a)) \in WordType
         /\ \A b \in WordBits :
              BitOf(Held(WordAt(id, 3, a)), b) = mem[<<id, 3, a, b>>]
<1> DEFINE I == 0..(ByteBits - 1)
           High == [b \in I |-> mem[<<id, 3, a, b + ByteBits>>]]
           Low == [b \in I |-> mem[<<id, 3, a, b>>]]
<1>1. Held(WordAt(id, 3, a)) = <<High, Low>>
  BY DEF Held, WordAt
<1>2. \A b \in I : b \in WordBits /\ b + ByteBits \in WordBits
  BY DEF WordBits
<1>3. \A b \in WordBits : <<id, 3, a, b>> \in Cells
  BY DEF Cells
<1>4. \A b \in WordBits : mem[<<id, 3, a, b>>] \in BOOLEAN
  BY <1>3 DEF MemoryType
<1>5. High \in [I -> BOOLEAN] /\ Low \in [I -> BOOLEAN]
  BY <1>2, <1>4
<1>6. ASSUME NEW b \in WordBits
      PROVE  BitOf(<<High, Low>>, b) = mem[<<id, 3, a, b>>]
  <2>1. CASE b < ByteBits
    <3>1. b \in I
      BY <2>1 DEF WordBits
    <3> QED
      BY <2>1, <3>1 DEF BitOf
  <2>2. CASE ~(b < ByteBits)
    <3>1. b - ByteBits \in I /\ b - ByteBits + ByteBits = b
      BY <2>2 DEF WordBits
    <3> QED
      BY <2>2, <3>1 DEF BitOf
  <2> QED
    BY <2>1, <2>2
<1>7. <<High, Low>> \in WordType
  BY <1>5 DEF WordType, WordOver
<1> HIDE DEF High, Low
<1> QED
  BY <1>1, <1>6, <1>7

LEMMA RegisterBitsWritten ==
  ASSUME MemoryType, NEW w, ProperWrite(w), ReadHolds(w),
         OnBitsOfRegister(w.p, w.ref)
  PROVE  Written(Image(w), w)
<1> DEFINE p == w.p
           ref == w.ref
           n == BitCount(ref)
           a == ref.address
           base == IF w.read # NONE THEN w.read ELSE Held(WordAt(w.id, 3, a))
           word == IF w.read # NONE THEN ModifiedWord(p, ref, w.value, w.read)
                   ELSE MaskedWord(p, ref, w.value, Held(WordAt(w.id, 3, a)))
           m == Image(w)
<1>1. /\ p \in PollerType /\ ref \in RefType /\ w.id \in Slaves
      /\ WellFormed(ref, p) /\ CheckSanity(ref, p) /\ MayWrite(p, ref)
      /\ w.value \in ValueType(p, ref)
      /\ w.read # NONE => w.read \in WordType
      /\ OnBitsOfRegister(p, ref)
  BY DEF ProperWrite
<1> HIDE DEF p, ref, n
<1>2. /\ p.fc = 3 /\ ~OnBits(p.fc)
      /\ ref.dtype \in {"bool", "bool8", "bool16"} /\ RefWidth[ref.dtype] = 1
  BY <1>1 DEF MayWrite, OnBitsOfRegister, OnRegisters, OnBits, RefWidth
<1>3. /\ p.start \in Nat /\ p.size \in Nat /\ a \in Int
      /\ p.start..(p.start + p.size - 1) \subseteq Addresses
  BY <1>1 DEF PollerType, PollerRecord, RefType
<1>4. {a, a + 1 - 1} \subseteq p.start..(p.start + p.size - 1)
  BY <1>1, <1>2, <1>3 DEF CheckSanity
<1>5. w.value \in [1..n -> BOOLEAN]
  BY <1>1 DEF ValueType, n
<1>6. Held(WordAt(w.id, 3, a)) \in WordType
  BY <1>1, <1>3, <1>4, HeldWord
<1>7. base \in WordType
  BY <1>1, <1>6
<1>8. \/ word = ModifiedWord(p, ref, w.value, base)
      \/ word = MaskedWord(p, ref, w.value, base)
  OBVIOUS
<1> HIDE DEF base, word
<1>9. /\ word \in WordType
      /\ \A b \in WordBits :
           BitOf(word, RawBit(p.endian, b))
           = IF b \in NamedBits(ref) THEN BitOf(ValueWord(ref, w.value), b)
             ELSE BitOf(base, RawBit(p.endian, b))
  BY <1>1, <1>5, <1>7, <1>8, BitsReplaced DEF n
<1>10. m = StoreWords(w.id, a, <<word>>)
  BY <1>1, <1>2 DEF Image, p, ref, word
<1> HIDE DEF m
<1>11. <<word>> \in [1..1 -> WordType]
  BY <1>9
<1>12. /\ m \in [Cells -> BOOLEAN]
       /\ \A b \in WordBits : /\ <<w.id, 3, a, b>> \in Cells
                              /\ m[<<w.id, 3, a, b>>] = BitOf(word, b)
       /\ \A c \in Cells :
            m[c] # mem[c] => c[1] = w.id /\ c[2] = 3 /\ c[3] = a
  <2>1. /\ m \in [Cells -> BOOLEAN]
        /\ \A j \in 1..1, b \in WordBits :
             LET c == <<w.id, 3, a + j - 1, b>>
             IN c \in Cells /\ m[c] = BitOf(<<word>>[j], b)
        /\ \A c \in Cells :
             m[c] # mem[c] =>
               c[1] = w.id /\ c[2] = 3 /\ c[3] \in a..(a + 1 - 1)
    <3>1. 1 \in Nat \ {0}
      OBVIOUS
    <3> DEFINE one == 1
               image == <<word>>
    <3>2. /\ w.p \in PollerType /\ w.id \in Slaves /\ w.ref.address \in Int
          /\ {w.ref.address, w.ref.address + one - 1}
               \subseteq w.p.start..(w.p.start + w.p.size - 1)
          /\ image \in [1..one -> WordType] /\ one \in Nat \ {0}
          /\ m = StoreWords(w.id, w.ref.address, image)
      BY <1>1, <1>3, <1>4, <1>10, <1>11, <3>1 DEF p, ref
    <3> HIDE DEF one, image
    <3>3. Stored(m, w, one, image)
      BY <3>2, RegistersStored
    <3> QED
      BY <3>3 DEF Stored, one, image, p, ref
  <2>2. a + 1 - 1 = a /\ <<word>>[1] = word /\ 1 \in 1..1
    BY <1>3
  <2> HIDE DEF a
  <2>3. \A b \in WordBits :
          LET c == <<w.id, 3, a + 1 - 1, b>>
          IN c \in Cells /\ m[c] = BitOf(<<word>>[1], b)
    BY <2>1, <2>2
  <2> QED
    BY <1>3, <2>1, <2>2, <2>3
<1>13. Own(w) = [k \in 1..n |-> <<w.id, 3, a, RawBit(p.endian, BitAt(ref, k))>>]
  <2>1. Own(w) = OwnValue([id |-> w.id], p, ref)
    BY DEF Own, p, ref
  <2>2. \A b : OwnBit([id |-> w.id], p, ref, b) = <<w.id, 3, a, RawBit(p.endian, b)>>
    BY <1>2 DEF OwnBit, RawBit
  <2>3. CASE ref.dtype = "bool"
    <3>1. OwnValue([id |-> w.id], p, ref) = <<OwnBit([id |-> w.id], p, ref, ref.bit)>>
      BY <1>2, <2>3 DEF OwnValue, OnBits, OnRegisters
    <3>2. n = 1 /\ \A k \in 1..1 : BitAt(ref, k) = ref.bit
      BY <2>3 DEF BitCount, BitAt, n
    <3> QED
      BY <2>1, <2>2, <3>1, <3>2
  <2>4. CASE ref.dtype \in {"bool8", "bool16"}
    <3>1. OwnValue([id |-> w.id], p, ref)
          = [k \in 1..GroupWidth(ref) |-> OwnBit([id |-> w.id], p, ref, k - 1)]
      BY <1>2, <2>4 DEF OwnValue, OnBits, OnRegisters
    <3>2. n = GroupWidth(ref) /\ \A k \in 1..n : BitAt(ref, k) = k - 1
      BY <2>4 DEF BitCount, BitAt, n
    <3> HIDE DEF a
    <3> QED
      BY <2>1, <2>2, <3>1, <3>2
  <2> QED
    BY <1>2, <2>3, <2>4
<1> HIDE DEF a
<1>14. ValueIn(m, w) = w.value
  <2>1. ASSUME NEW k \in 1..n PROVE m[Own(w)[k]] = w.value[k]
    <3> DEFINE b == BitAt(ref, k)
    <3>1. b \in NamedBits(ref) /\ b \in WordBits
      BY <1>1, BitsNamed DEF n
    <3>2. BitOf(ValueWord(ref, w.value), b) = w.value[k]
      BY <1>1, <1>5, ValueBits DEF n
    <3> HIDE DEF b
    <3>3. RawBit(p.endian, b) \in WordBits
      BY <3>1, RawBitIs
    <3>4. Own(w)[k] = <<w.id, 3, a, RawBit(p.endian, b)>>
      BY <1>13 DEF b
    <3>5. BitOf(word, RawBit(p.endian, b)) = w.value[k]
      BY <1>9, <3>1, <3>2
    <3> QED
      BY <1>12, <3>3, <3>4, <3>5
  <2>2. ValueIn(m, w) = [k \in 1..n |-> m[Own(w)[k]]]
    BY <1>1, <1>13 DEF ValueIn, p, ref
  <2> QED
    BY <1>5, <2>1, <2>2
<1>15. ASSUME NEW c \in Cells \ TargetCells(w), m[c] # mem[c]
       PROVE  w.read # NONE /\ c \in touched
  <2>1. c[1] = w.id /\ c[2] = 3 /\ c[3] = a
    BY <1>12, <1>15
  <2>2. c = <<w.id, 3, a, c[4]>> /\ c[4] \in WordBits
    BY <2>1, CellShape DEF Coil
  <2> DEFINE b == RawBit(p.endian, c[4])
  <2>3. b \in WordBits /\ RawBit(p.endian, b) = c[4]
    BY <2>2, RawBitIs
  <2> HIDE DEF b
  <2>4. b \notin NamedBits(ref)
    <3> SUFFICES ASSUME b \in NamedBits(ref) PROVE FALSE
      OBVIOUS
    <3>1. PICK k \in 1..n : b = BitAt(ref, k)
      BY <1>1, BitsNamed DEF n
    <3>2. Own(w)[k] = c /\ k \in DOMAIN Own(w)
      BY <1>13, <2>2, <2>3, <3>1
    <3>3. c \in Range(Own(w))
      BY <3>2 DEF Range
    <3>4. c \in TargetCells(w)
      BY <1>1, <1>2, <1>15, <2>1, <3>3 DEF TargetCells, Own, p, ref
    <3> QED
      BY <1>15, <3>4
  <2>5. m[c] = BitOf(base, c[4])
    <3>1. m[c] = BitOf(word, c[4])
      BY <1>12, <2>2
    <3>2. BitOf(word, c[4]) = BitOf(base, c[4])
      BY <1>9, <2>3, <2>4
    <3> QED
      BY <3>1, <3>2
  <2>6. CASE w.read = NONE
    <3>1. a \in Addresses
      BY <1>3, <1>4
    <3>2. BitOf(base, c[4]) = mem[<<w.id, 3, a, c[4]>>]
      BY <1>1, <2>2, <2>6, <3>1, HeldWord DEF base
    <3> QED
      BY <1>15, <2>2, <2>5, <3>2
  <2>7. CASE w.read # NONE
    <3>1. BitOf(base, c[4]) = IF c \in touched THEN ~mem[c] ELSE mem[c]
      BY <2>2, <2>7 DEF ReadHolds, base, a, ref
    <3> QED
      BY <1>15, <2>5, <2>7, <3>1
  <2> QED
    BY <2>6, <2>7
<1> QED
  BY <1>12, <1>14, <1>15 DEF Written, m

\* Byte k of a number or string is cut into word (k - 1) \div 2, as its first
\* or its second byte.
LEMMA ByteOfWord ==
  ASSUME NEW n \in Nat, NEW k \in 1..(2 * n)
  PROVE  /\ (k - 1) \div 2 \in 0..(n - 1)
         /\ k % 2 = 1 => 2 * ((k - 1) \div 2 + 1) - 1 = k
         /\ k % 2 # 1 => 2 * ((k - 1) \div 2 + 1) = k
OBVIOUS

\* The bytes of a value that fill n registers, two of them, and the word of
\* the value that is sent as word j.
Padded(n, value) ==
  [k \in 1..(2 * n) |-> IF k <= Len(value) THEN value[k] ELSE ConstByte(FALSE)]
PairAt(bytes, j) == <<bytes[2 * j - 1], bytes[2 * j]>>
SentAs(endian, n, j) == IF LittleWords(endian) THEN n - j + 1 ELSE j

EncodesTo(p, n, value, image) ==
  /\ image \in [1..n -> WordType]
  /\ \A j \in 1..n :
       LET pair == PairAt(Padded(n, value), SentAs(p.endian, n, j))
       IN image[j] = IF LittleBytes(p.endian) THEN <<pair[2], pair[1]>> ELSE pair
  /\ \A k \in DOMAIN value : Padded(n, value)[k] = value[k]

LEMMA EncodedWordsAre ==
  ASSUME NEW p, NEW ref, NEW n \in Nat \ {0}, n = RefWidth[ref.dtype],
         NEW size \in 1..(2 * n), NEW value \in [1..size -> ByteType]
  PROVE  EncodesTo(p, n, value, EncodedWords(p, ref, value))
<1> DEFINE bytes == Padded(n, value)
           pair(j) == PairAt(bytes, j)
           at(j) == SentAs(p.endian, n, j)
           words == WordsOf(bytes)
           ordered == IF LittleWords(p.endian) THEN ReverseWords(words) ELSE words
           packed == PackWords(p.endian, words)
<1>0. Len(value) = size
  OBVIOUS
<1>1. /\ bytes \in [1..(2 * n) -> ByteType]
      /\ \A k \in 1..size : bytes[k] = value[k]
  <2>1. ConstByte(FALSE) \in ByteType
    BY DEF ConstByte, ByteType
  <2>2. \A k \in 1..(2 * n) : k <= size => value[k] \in ByteType
    OBVIOUS
  <2>3. bytes = [k \in 1..(2 * n) |->
                   IF k <= size THEN value[k] ELSE ConstByte(FALSE)]
    BY <1>0 DEF Padded
  <2>4. \A k \in 1..size : k \in 1..(2 * n) /\ k <= size
    OBVIOUS
  <2> HIDE DEF bytes
  <2> QED
    BY <2>1, <2>2, <2>3, <2>4
<1>2. EncodedWords(p, ref, value) = packed
  BY DEF EncodedWords, Padded
<1>3. (2 * n) \div 2 = n /\ Len(bytes) = 2 * n
  <2>1. (2 * n) \div 2 = n /\ 2 * n \in Nat
    OBVIOUS
  <2> HIDE DEF bytes
  <2> QED
    BY <1>1, <2>1
<1> HIDE DEF bytes
<1>4. words = [j \in 1..n |-> pair(j)]
  BY <1>3 DEF WordsOf, PairAt
<1>5. \A j \in 1..n : pair(j) \in ByteType \X ByteType
  <2> SUFFICES ASSUME NEW j \in 1..n PROVE pair(j) \in ByteType \X ByteType
    OBVIOUS
  <2>1. 2 * j - 1 \in 1..(2 * n) /\ 2 * j \in 1..(2 * n)
    OBVIOUS
  <2> QED
    BY <1>1, <2>1 DEF PairAt
<1> HIDE DEF pair
<1>6. words \in [1..n -> ByteType \X ByteType] /\ Len(words) = n
  <2> HIDE DEF words
  <2> QED
    BY <1>4, <1>5
<1>7. \A j \in 1..n : at(j) = IF LittleWords(p.endian) THEN n - j + 1 ELSE j
  BY DEF SentAs
<1>7a. \A j \in 1..n : n - j + 1 \in 1..n /\ at(j) \in 1..n
  <2>1. \A j \in 1..n : n - j + 1 \in 1..n
    OBVIOUS
  <2> HIDE DEF at
  <2> QED
    BY <1>7, <2>1
<1> HIDE DEF at
<1>8. ordered = [j \in 1..n |-> pair(at(j))]
  <2>1. CASE LittleWords(p.endian)
    <3>1. ordered = [j \in 1..n |-> words[n - j + 1]]
      <4> HIDE DEF words
      <4> QED
        BY <1>6, <2>1 DEF ReverseWords
    <3>2. \A j \in 1..n : words[n - j + 1] = pair(at(j))
      <4> HIDE DEF words
      <4> QED
        BY <1>4, <1>7, <1>7a, <2>1
    <3> HIDE DEF ordered, words
    <3> QED
      BY <3>1, <3>2
  <2>2. CASE ~LittleWords(p.endian)
    BY <1>4, <1>7, <2>2
  <2> QED
    BY <2>1, <2>2
<1>9. packed = IF LittleBytes(p.endian) THEN SwapBytes(ordered) ELSE ordered
  BY DEF PackWords
<1> HIDE DEF words, ordered, packed
<1>10. packed = [j \in 1..n |-> IF LittleBytes(p.endian)
                                THEN <<pair(at(j))[2], pair(at(j))[1]>>
                                ELSE pair(at(j))]
  BY <1>8, <1>9 DEF SwapBytes
<1>11. \A j \in 1..n : pair(at(j)) \in ByteType \X ByteType
  BY <1>5, <1>7a
<1>12. packed \in [1..n -> ByteType \X ByteType]
  BY <1>10, <1>11
<1>13. WordType = ByteType \X ByteType
  BY DEF WordType, WordOver, ByteType
<1> QED
  BY <1>1, <1>2, <1>10, <1>12, <1>13 DEF EncodesTo, bytes, pair, at

LEMMA BytesWritten ==
  ASSUME MemoryType, NEW w, ProperWrite(w),
         ~OnBits(w.p.fc), ~OnBitsOfRegister(w.p, w.ref)
  PROVE  Written(Image(w), w)
<1> DEFINE p == w.p
           ref == w.ref
           n == RefWidth[ref.dtype]
           size == ValueBytes(ref)
           a == ref.address
           image == EncodedWords(p, ref, w.value)
           m == Image(w)
           bytes == Padded(n, w.value)
<1>1. /\ p \in PollerType /\ ref \in RefType /\ w.id \in Slaves
      /\ WellFormed(ref, p) /\ CheckSanity(ref, p) /\ MayWrite(p, ref)
      /\ w.value \in ValueType(p, ref) /\ w.read = NONE
      /\ ~OnBits(p.fc) /\ ~OnBitsOfRegister(p, ref)
  BY DEF ProperWrite
<1> HIDE DEF p, ref
<1>2. /\ p.fc = 3 /\ OnRegisters(p.fc)
      /\ ref.dtype \in Dtypes /\ ref.dtype \notin {"bool", "bool8", "bool16"}
  BY <1>1 DEF MayWrite, OnBitsOfRegister, OnRegisters, OnBits, WellFormed
<1>3. n \in Nat \ {0} /\ size \in 1..(2 * n)
  BY <1>2 DEF Dtypes, RefWidth, ValueBytes, StringBytes
<1>4. a \in Int /\ {a, a + n - 1} \subseteq p.start..(p.start + p.size - 1)
  BY <1>1 DEF CheckSanity, RefType
<1>5. w.value \in [1..size -> ByteType]
  BY <1>1 DEF ValueType
<1> HIDE DEF n, size
<1>6. /\ image \in [1..n -> WordType]
      /\ \A j \in 1..n :
           LET pair == PairAt(bytes, SentAs(p.endian, n, j))
           IN image[j] = IF LittleBytes(p.endian) THEN <<pair[2], pair[1]>>
                         ELSE pair
      /\ \A k \in 1..size : bytes[k] = w.value[k]
  <2>1. n = RefWidth[ref.dtype]
    BY DEF n
  <2> DEFINE value == w.value
  <2>2. value \in [1..size -> ByteType]
    BY <1>5
  <2> HIDE DEF value
  <2>3. EncodesTo(p, n, value, EncodedWords(p, ref, value))
    BY <1>3, <2>1, <2>2, EncodedWordsAre
  <2>4. DOMAIN value = 1..size
    BY <2>2
  <2> QED
    BY <2>3, <2>4 DEF EncodesTo, value
<1> HIDE DEF image, bytes
<1>7. m = StoreWords(w.id, a, image)
  BY <1>1, <1>2 DEF Image, p, ref, image
<1> HIDE DEF m
<1>8. /\ m \in [Cells -> BOOLEAN]
      /\ \A j \in 1..n, b \in WordBits :
           LET c == <<w.id, 3, a + j - 1, b>>
           IN c \in Cells /\ m[c] = BitOf(image[j], b)
      /\ \A c \in Cells :
           m[c] # mem[c] =>
             c[1] = w.id /\ c[2] = 3 /\ c[3] \in a..(a + n - 1)
  <2>1. /\ w.p \in PollerType /\ w.id \in Slaves /\ w.ref.address \in Int
        /\ {w.ref.address, w.ref.address + n - 1}
             \subseteq w.p.start..(w.p.start + w.p.size - 1)
        /\ m = StoreWords(w.id, w.ref.address, image)
        /\ image \in [1..n -> WordType]
    BY <1>1, <1>4, <1>6, <1>7 DEF p, ref
  <2>2. Stored(m, w, n, image)
    BY <1>3, <2>1, RegistersStored
  <2> QED
    BY <2>2 DEF Stored, ref
<1>9. Own(w) = [k \in 1..size |-> OwnByte([id |-> w.id], p, ref, k)]
  <2>1. Own(w) = OwnValue([id |-> w.id], p, ref)
    BY DEF Own, p, ref
  <2>2. OwnValue([id |-> w.id], p, ref)
        = [k \in 1..ValueBytes(ref) |-> OwnByte([id |-> w.id], p, ref, k)]
    BY <1>1, <1>2 DEF OwnValue
  <2> QED
    BY <2>1, <2>2 DEF size
<1>10. ASSUME NEW k \in 1..size
       PROVE  [b \in 0..(ByteBits - 1) |-> m[Own(w)[k][b]]] = w.value[k]
  <2> DEFINE I == 0..(ByteBits - 1)
             word == (k - 1) \div 2
             j == IF LittleWords(p.endian) THEN n - word ELSE word + 1
             high == (k % 2 = 1) # LittleBytes(p.endian)
  <2>1. k \in 1..(2 * n) /\ k \in Nat
    BY <1>3
  <2>2. /\ word \in 0..(n - 1)
        /\ k % 2 = 1 => 2 * (word + 1) - 1 = k
        /\ k % 2 # 1 => 2 * (word + 1) = k
    BY <1>3, <2>1, ByteOfWord
  <2> HIDE DEF word
  <2>3. j \in 1..n /\ SentAs(p.endian, n, j) = word + 1
    BY <1>3, <2>2 DEF SentAs
  <2>4. Own(w)[k] = [b \in I |-> <<w.id, 3, a + j - 1,
                                   IF high THEN b + ByteBits ELSE b>>]
    <3>1. Own(w)[k] = OwnByte([id |-> w.id], p, ref, k)
      BY <1>9
    <3>2. OwnByte([id |-> w.id], p, ref, k)
          = [b \in I |->
               <<w.id, 3, a + (IF LittleWords(p.endian) THEN n - 1 - word ELSE word),
                 IF high THEN b + ByteBits ELSE b>>]
      BY <1>2 DEF OwnByte, n, word
    <3>3. a + (IF LittleWords(p.endian) THEN n - 1 - word ELSE word) = a + j - 1
      BY <1>3, <1>4, <2>2
    <3> QED
      BY <3>1, <3>2, <3>3
  <2>5. bytes[k] = w.value[k] /\ w.value[k] \in ByteType
    BY <1>5, <1>6
  <2> HIDE DEF j
  <2> DEFINE x == bytes[2 * (word + 1) - 1]
             y == bytes[2 * (word + 1)]
  <2>6. PairAt(bytes, word + 1) = <<x, y>>
    BY DEF PairAt
  <2>7. image[j] = IF LittleBytes(p.endian) THEN <<y, x>> ELSE <<x, y>>
    <3> HIDE DEF x, y
    <3>1. <<x, y>>[1] = x /\ <<x, y>>[2] = y
      OBVIOUS
    <3> QED
      BY <1>6, <2>3, <2>6, <3>1
  <2>8. image[j][IF high THEN 1 ELSE 2] = w.value[k]
    <3>1. /\ k % 2 = 1 => x = w.value[k]
          /\ k % 2 # 1 => y = w.value[k]
      BY <2>2, <2>5
    <3> HIDE DEF x, y
    <3>2. <<x, y>>[1] = x /\ <<x, y>>[2] = y /\ <<y, x>>[1] = y /\ <<y, x>>[2] = x
      OBVIOUS
    <3>3. CASE k % 2 = 1
      BY <2>7, <3>1, <3>2, <3>3
    <3>4. CASE k % 2 # 1
      BY <2>7, <3>1, <3>2, <3>4 DEF LittleBytes
    <3> QED
      BY <3>3, <3>4
  <2> HIDE DEF high, a
  <2>9. ASSUME NEW b \in I
        PROVE  m[Own(w)[k][b]] = w.value[k][b]
    <3> DEFINE bit == IF high THEN b + ByteBits ELSE b
    <3>1. /\ bit \in WordBits
          /\ BitOf(image[j], bit) = image[j][IF high THEN 1 ELSE 2][b]
      BY DEF WordBits, BitOf
    <3>2. Own(w)[k][b] = <<w.id, 3, a + j - 1, bit>>
      BY <2>4
    <3> HIDE DEF bit
    <3> QED
      BY <1>8, <2>3, <2>8, <3>1, <3>2
  <2>10. w.value[k] = [b \in I |-> w.value[k][b]]
    BY <2>5 DEF ByteType
  <2> HIDE DEF I
  <2> QED
    BY <2>9, <2>10 DEF I
<1>11. ValueIn(m, w) = w.value
  <2>1. ValueIn(m, w)
        = [k \in 1..size |-> [b \in 0..(ByteBits - 1) |-> m[Own(w)[k][b]]]]
    BY <1>1, <1>9 DEF ValueIn, p, ref
  <2>2. ValueIn(m, w) = [k \in 1..size |-> w.value[k]]
    BY <1>10, <2>1
  <2> QED
    BY <1>5, <2>2
<1>12. ASSUME NEW c \in Cells, m[c] # mem[c]
       PROVE  c \in TargetCells(w)
  <2>1. c[1] = w.id /\ c[2] = 3 /\ c[3] \in a..(a + n - 1)
    BY <1>8, <1>12
  <2> QED
    BY <1>1, <1>2, <2>1 DEF TargetCells, p, ref, n
<1> QED
  BY <1>8, <1>11, <1>12 DEF Written, m

LEMMA ImageIsWritten ==
  ASSUME MemoryType, NEW w, ProperWrite(w), ReadHolds(w)
  PROVE  Written(Image(w), w)
BY CoilsWritten, RegisterBitsWritten, BytesWritten

-----------------------------------------------------------------------------
(* The steps of a write. *)

\* What a reference of an accepted file and its poller are.
LEMMA RefIsSane ==
  ASSUME BoundInv, NEW f \in DOMAIN files, NEW d \in DOMAIN files[f],
         NEW r \in DOMAIN files[f][d].refs
  PROVE  LET dev == files[f][d]
             ref == dev.refs[r]
             p == PollerOf(files[f], ref)
         IN /\ dev.id \in Slaves /\ ref \in RefType /\ p \in PollerType
            /\ WellFormed(ref, p) /\ CheckSanity(ref, p)
<1> DEFINE devs == files[f]
           dev == devs[d]
           refs == dev.refs
           ref == refs[r]
           pollers == dev.pollers
<1>1. devs \in Seq(DeviceType) /\ FileBound(devs)
  BY DEF BoundInv
<1> HIDE DEF devs
<1>2. dev \in DeviceType /\ BoundRight(dev, d) /\ Sane(dev)
  BY <1>1 DEF FileBound, devs
<1>3. /\ dev.id \in Slaves
      /\ pollers \in Seq(PollerType) /\ refs \in Seq(RefType)
  BY <1>2 DEF DeviceType
<1>4. /\ ref.poller[1] = d /\ ref.poller[2] \in DOMAIN pollers
      /\ WellFormed(ref, pollers[ref.poller[2]])
      /\ CheckSanity(ref, pollers[ref.poller[2]])
  BY <1>2 DEF BoundRight, Sane, devs
<1>5. r \in DOMAIN refs
  BY DEF devs
<1> HIDE DEF dev
<1>6. ref \in RefType
  <2> HIDE DEF refs
  <2> QED
    BY <1>3, <1>5
<1> HIDE DEF ref
<1>7. pollers[ref.poller[2]] \in PollerType
  <2> HIDE DEF pollers
  <2> QED
    BY <1>3, <1>4
<1>8. PollerOf(devs, ref) = pollers[ref.poller[2]]
  BY <1>4 DEF PollerOf, dev
<1> QED
  BY <1>3, <1>4, <1>6, <1>7, <1>8 DEF dev, devs, ref

\* The values tried are values of the reference.
LEMMA TestValuesAre ==
  ASSUME NEW p, NEW ref \in RefType,
         MayWrite(p, ref), WellFormed(ref, p),
         CheckSanity(ref, p), NEW value \in TestValues(p, ref)
  PROVE  value \in ValueType(p, ref)
<1>1. (p.fc = 1 \/ p.fc = 3) /\ ref.dtype \in Dtypes
  BY DEF MayWrite, WellFormed
<1>2. CASE ref.dtype = "bool"
  <2>1. value \in [1..1 -> BOOLEAN]
    <3>1. \A v \in BOOLEAN : <<v>> \in [1..1 -> BOOLEAN]
      OBVIOUS
    <3>2. value = <<TRUE>> \/ value = <<FALSE>>
      BY <1>2 DEF TestValues
    <3> QED
      BY <3>1, <3>2
  <2>2. ValueType(p, ref) = [1..1 -> BOOLEAN]
    BY <1>1, <1>2 DEF ValueType, BitCount, OnBits, OnRegisters, OnBitsOfRegister
  <2> QED
    BY <2>1, <2>2
<1>3. CASE ref.dtype \in {"bool8", "bool16"}
  <2>1. value \in [1..GroupWidth(ref) -> BOOLEAN]
    BY <1>3 DEF TestValues, OneHot
  <2>2. ValueType(p, ref) = [1..GroupWidth(ref) -> BOOLEAN]
    BY <1>1, <1>3 DEF ValueType, BitCount, OnBits, OnRegisters, OnBitsOfRegister
  <2> QED
    BY <2>1, <2>2
<1>4. CASE ref.dtype \notin {"bool", "bool8", "bool16"}
  <2> DEFINE n == ValueBytes(ref)
  <2>1. \E one \in OneHot(n) : value = [k \in 1..n |-> ConstByte(one[k])]
    BY <1>4 DEF TestValues
  <2>2. \A one \in OneHot(n) : one \in [1..n -> BOOLEAN]
    BY DEF OneHot
  <2>3. \A v \in BOOLEAN : ConstByte(v) \in ByteType
    BY DEF ConstByte, ByteType
  <2> HIDE DEF n
  <2>4. value \in [1..n -> ByteType]
    BY <2>1, <2>2, <2>3
  <2>5. ~OnBits(p.fc) /\ ~OnBitsOfRegister(p, ref)
    BY <1>4 DEF CheckSanity, OnBitsOfRegister
  <2> QED
    BY <2>4, <2>5 DEF ValueType, n
<1> QED
  BY <1>2, <1>3, <1>4

AccessInv == BoundInv /\ ConfigInv /\ MemoryType /\ WriteInv /\ WritesExact

LEMMA ParseKeepsConfig ==
  ASSUME ConfigInv, BoundInv, BoundInv', Parse
  PROVE  ConfigInv'
<1>1. /\ files \in Seq(Seq(DeviceType)) /\ files' \in Seq(Seq(DeviceType))
      /\ devices' \in Seq(DeviceType) /\ CursorInv'
  BY DEF BoundInv
<1>2. /\ status = "parsing" /\ rows \in 0..MaxRows
      /\ Len(files) < MaxFiles /\ Len(files) \in Nat
  <2>1. status = "parsing"
    <3>1. CASE ReadRow
      BY <3>1 DEF ReadRow, DeviceRow, PollRow, RefRow, RejectRow, ReadNextRow
    <3>2. CASE EndFile \/ RejectFile
      BY <3>2 DEF EndFile, RejectFile
    <3> QED
      BY <3>1, <3>2 DEF Parse
  <2> QED
    BY <1>1, <2>1 DEF ConfigInv, ConfigTypeOK
<1>3. poller' # NONE => /\ poller'[1] \in DOMAIN devices'
                        /\ poller'[2] \in DOMAIN devices'[poller'[1]].pollers
  <2> SUFFICES ASSUME poller' # NONE
               PROVE  /\ poller'[1] \in DOMAIN devices'
                      /\ poller'[2] \in DOMAIN devices'[poller'[1]].pollers
    OBVIOUS
  <2>1. /\ devices' # <<>> /\ poller' = <<Len(devices'), poller'[2]>>
        /\ poller'[2] \in DOMAIN devices'[Len(devices')].pollers
    BY <1>1 DEF CursorInv
  <2>2. Len(devices') \in DOMAIN devices'
    BY <1>1, <2>1
  <2>3. poller'[1] = Len(devices')
    BY <2>1
  <2> QED
    BY <2>1, <2>2, <2>3
<1>4. CASE \E row \in Rows : DeviceRow(row) \/ PollRow(row) \/ RefRow(row)
  <2>1. /\ rows < MaxRows /\ rows' = rows + 1
        /\ status' = status /\ files' = files
    BY <1>4 DEF DeviceRow, PollRow, RefRow, ReadNextRow
  <2>2. rows' \in 0..MaxRows
    BY <1>2, <2>1, LimitAssumption
  <2>3. Len(files') <= MaxFiles
    BY <1>2, <2>1, LimitAssumption
  <2> QED
    BY <1>2, <1>3, <2>1, <2>2, <2>3 DEF ConfigInv, ConfigTypeOK
<1>5. CASE (\E row \in Rows : RejectRow(row)) \/ RejectFile
  <2>1. /\ status' = "rejected" /\ files' = <<>> /\ devices' = <<>>
        /\ rows' = rows \/ (rows < MaxRows /\ rows' = rows + 1)
    BY <1>5 DEF RejectRow, RejectFile, ReadNextRow, Reject
  <2>2. rows' \in 0..MaxRows
    BY <1>2, <2>1, LimitAssumption
  <2>3. Len(files') <= MaxFiles
    BY <2>1, LimitAssumption
  <2> QED
    BY <1>3, <2>1, <2>2, <2>3 DEF ConfigInv, ConfigTypeOK
<1>6. CASE EndFile
  <2>1. /\ files' = Append(files, devices) /\ devices' = <<>> /\ rows' = rows
        /\ \/ status' = "accepted"
           \/ Len(files) + 1 < MaxFiles /\ status' = status
    BY <1>6 DEF EndFile
  <2>2. Len(files') = Len(files) + 1 /\ files' # <<>>
    <3>1. devices \in Seq(DeviceType)
      BY DEF BoundInv
    <3>2. Len(files') = Len(files) + 1
      BY <1>1, <2>1, <3>1
    <3>3. Len(files') # 0 /\ Len(<<>>) = 0
      BY <1>2, <3>2
    <3> QED
      BY <3>2, <3>3
  <2> QED
    BY <1>2, <1>3, <2>1, <2>2, LimitAssumption DEF ConfigInv, ConfigTypeOK
<1> QED
  BY <1>4, <1>5, <1>6 DEF Parse, ReadRow

LEMMA ConfigKept ==
  ASSUME ConfigInv, UNCHANGED configVars
  PROVE  ConfigInv'
BY DEF ConfigInv, ConfigTypeOK, configVars

LEMMA StartWriteKeeps ==
  ASSUME BoundInv, MemoryType, WriteInv, SomeWrite
  PROVE  MemoryType' /\ WriteInv' /\ WritesExact'
<1>1. PICK f \in DOMAIN files : \E d \in DOMAIN files[f] :
        \E r \in DOMAIN files[f][d].refs :
          \E value \in TestValues(PollerOf(files[f], files[f][d].refs[r]),
                                  files[f][d].refs[r]) :
            StartWrite(f, d, r, value)
  BY DEF SomeWrite
<1>2. PICK d \in DOMAIN files[f] : \E r \in DOMAIN files[f][d].refs :
        \E value \in TestValues(PollerOf(files[f], files[f][d].refs[r]),
                                files[f][d].refs[r]) :
          StartWrite(f, d, r, value)
  BY <1>1
<1>3. PICK r \in DOMAIN files[f][d].refs :
        \E value \in TestValues(PollerOf(files[f], files[f][d].refs[r]),
                                files[f][d].refs[r]) :
          StartWrite(f, d, r, value)
  BY <1>2
<1> DEFINE dev == files[f][d]
           ref == dev.refs[r]
           p == PollerOf(files[f], ref)
           held == Held(WordAt(dev.id, 3, ref.address))
<1>4. PICK value \in TestValues(p, ref) : StartWrite(f, d, r, value)
  BY <1>3
<1> DEFINE read == IF OnBitsOfRegister(p, ref) /\ strategy = "read-modify-write"
                   THEN held ELSE NONE
<1>5. /\ status' = "accepted" /\ MayWrite(p, ref)
      /\ writes < MaxWrites /\ writes' = writes + 1
      /\ writing' = [id |-> dev.id, p |-> p, ref |-> ref, value |-> value,
                     read |-> read]
      /\ result' = NONE /\ others' = mem /\ touched' = {}
      /\ mem' = mem /\ strategy' = strategy
  BY <1>4 DEF StartWrite, configVars
<1>6. /\ dev.id \in Slaves /\ ref \in RefType /\ p \in PollerType
      /\ WellFormed(ref, p) /\ CheckSanity(ref, p)
  BY RefIsSane
<1> HIDE DEF dev, ref, p
<1>7. value \in ValueType(p, ref)
  BY <1>5, <1>6, TestValuesAre
<1>8. read # NONE => /\ read = held /\ OnBitsOfRegister(p, ref)
                     /\ ref.address \in Addresses /\ held \in WordType
  <2> SUFFICES ASSUME read # NONE
               PROVE  /\ read = held /\ OnBitsOfRegister(p, ref)
                      /\ ref.address \in Addresses /\ held \in WordType
    OBVIOUS
  <2>1. read = held /\ OnBitsOfRegister(p, ref)
    OBVIOUS
  <2>2. ref.address \in p.start..(p.start + p.size - 1)
    BY <1>6, <2>1 DEF CheckSanity, OnBitsOfRegister, OnBits, OnRegisters
  <2>3. ref.address \in Addresses
    BY <1>6, <2>2 DEF PollerType
  <2> QED
    BY <1>6, <2>1, <2>3, HeldWord
<1> HIDE DEF read
<1> DEFINE w == writing'
<1>9. /\ w.id = dev.id /\ w.p = p /\ w.ref = ref /\ w.value = value
      /\ w.read = read
  BY <1>5
<1> HIDE DEF w
<1>10. ProperWrite(w)
  BY <1>5, <1>6, <1>7, <1>8, <1>9 DEF ProperWrite
<1>11. w.read # NONE =>
         \A b \in WordBits : BitOf(w.read, b) = mem[<<w.id, 3, w.ref.address, b>>]
  BY <1>6, <1>8, <1>9, HeldWord
<1>12. ReadHolds(writing)'
  BY <1>5, <1>11 DEF ReadHolds, w
<1>13. MemoryType'
  <2>1. IsFiniteSet({}) /\ Cardinality({}) = 0
    BY FS_EmptySet
  <2> QED
    BY <1>5, <2>1, WriteAssumption DEF MemoryType
<1>14. ProperWrite(writing)'
  BY <1>10 DEF w
<1>15. WriteInv'
  BY <1>5, <1>12, <1>14 DEF WriteInv
<1>16. WritesExact'
  BY <1>5, NoneAssumption DEF WritesExact
<1> QED
  BY <1>13, <1>15, <1>16

LEMMA WriteConfirmedKeeps ==
  ASSUME MemoryType, WriteInv, WriteConfirmed
  PROVE  MemoryType' /\ WriteInv' /\ WritesExact'
<1>1. /\ writing # NONE /\ result = NONE /\ mem' = Image(writing)
      /\ result' = "confirmed"
      /\ status' = status /\ strategy' = strategy /\ writing' = writing
      /\ writes' = writes /\ others' = others /\ touched' = touched
  BY DEF WriteConfirmed, configVars
<1>2. ProperWrite(writing) /\ ReadHolds(writing) /\ mem = others
      /\ status = "accepted"
  BY <1>1, NoneAssumption DEF WriteInv
<1>3. Written(Image(writing), writing)
  BY <1>2, ImageIsWritten
<1>4. /\ mem' \in [Cells -> BOOLEAN]
      /\ ValueIn(mem', writing) = writing.value
      /\ \A c \in Cells \ TargetCells(writing) :
           mem'[c] # others[c] => writing.read # NONE /\ c \in touched
  BY <1>1, <1>2, <1>3 DEF Written
<1>5. MemoryType'
  BY <1>1, <1>4 DEF MemoryType
<1>6. ProperWrite(writing)'
  BY <1>1, <1>2 DEF ProperWrite
<1>7. WriteInv'
  BY <1>1, <1>2, <1>6, NoneAssumption DEF WriteInv
<1>8. HeldValue(writing)' = ValueIn(mem', writing)
  BY <1>1 DEF HeldValue, ValueIn, Own
<1>9. TargetCells(writing)' = TargetCells(writing)
  BY <1>1
<1>10. WritesExact'
  BY <1>1, <1>4, <1>8, <1>9 DEF WritesExact
<1> QED
  BY <1>5, <1>7, <1>10

LEMMA WriteRejectedKeeps ==
  ASSUME MemoryType, WriteInv, WriteRejected
  PROVE  MemoryType' /\ WriteInv' /\ WritesExact'
<1>1. /\ writing # NONE /\ result = NONE /\ mem' = mem
      /\ result' = "rejected"
      /\ status' = status /\ strategy' = strategy /\ writing' = writing
      /\ writes' = writes /\ others' = others /\ touched' = touched
  BY DEF WriteRejected, configVars
<1>2. ProperWrite(writing)'
  BY <1>1 DEF WriteInv, ProperWrite
<1> QED
  BY <1>1, <1>2, NoneAssumption DEF MemoryType, WriteInv, WritesExact

LEMMA EndWriteKeeps ==
  ASSUME MemoryType, WriteInv, WritesExact, EndWrite
  PROVE  MemoryType' /\ WriteInv' /\ WritesExact'
<1>1. /\ writing' = NONE /\ touched' = {} /\ others' = mem /\ mem' = mem
      /\ strategy' = strategy /\ writes' = writes /\ result' = result
  BY DEF EndWrite
<1>2. IsFiniteSet({}) /\ Cardinality({}) = 0
  BY FS_EmptySet
<1> QED
  BY <1>1, <1>2, WriteAssumption DEF MemoryType, WriteInv, WritesExact

LEMMA OtherMasterKeeps ==
  ASSUME MemoryType, WriteInv, NEW c \in Cells, OtherMaster(c)
  PROVE  MemoryType' /\ WriteInv' /\ WritesExact'
<1>1. /\ writing # NONE /\ result = NONE
      /\ Cardinality(touched) < MaxChanges /\ c \notin touched
      /\ mem' = [mem EXCEPT ![c] = ~@] /\ others' = [others EXCEPT ![c] = ~@]
      /\ touched' = touched \cup {c}
      /\ status' = status /\ strategy' = strategy /\ writing' = writing
      /\ writes' = writes /\ result' = result
  BY DEF OtherMaster, configVars
<1>2. /\ ProperWrite(writing) /\ ReadHolds(writing) /\ mem = others
      /\ status = "accepted"
  BY <1>1, NoneAssumption DEF WriteInv
<1>3. /\ mem' \in [Cells -> BOOLEAN] /\ mem' = others'
      /\ mem'[c] = ~mem[c] /\ \A e \in Cells \ {c} : mem'[e] = mem[e]
  BY <1>1, <1>2 DEF MemoryType
<1>4. /\ IsFiniteSet(touched') /\ touched' \subseteq Cells
      /\ Cardinality(touched') <= MaxChanges
  <2>1. IsFiniteSet(touched) /\ touched \subseteq Cells
    BY DEF MemoryType
  <2>2. /\ IsFiniteSet(touched \cup {c})
        /\ Cardinality(touched \cup {c}) = Cardinality(touched) + 1
    BY <1>1, <2>1, FS_AddElement
  <2>3. Cardinality(touched) \in Nat
    BY <2>1, FS_CardinalityType
  <2> QED
    BY <1>1, <2>1, <2>2, <2>3, WriteAssumption
<1>5. MemoryType'
  BY <1>1, <1>3, <1>4 DEF MemoryType
<1>6. ProperWrite(writing)'
  BY <1>1, <1>2 DEF ProperWrite
<1>7. ReadHolds(writing)'
  <2> SUFFICES ASSUME writing.read # NONE, NEW b \in WordBits
               PROVE  LET e == <<writing.id, 3, writing.ref.address, b>>
                      IN BitOf(writing.read, b)
                         = IF e \in touched' THEN ~mem'[e] ELSE mem'[e]
    BY <1>1 DEF ReadHolds
  <2> DEFINE e == <<writing.id, 3, writing.ref.address, b>>
  <2>1. BitOf(writing.read, b) = IF e \in touched THEN ~mem[e] ELSE mem[e]
    BY <1>2 DEF ReadHolds
  <2>2. e \in Cells
    <3>1. /\ writing.id \in Slaves
          /\ OnBitsOfRegister(writing.p, writing.ref)
          /\ CheckSanity(writing.ref, writing.p) /\ writing.p \in PollerType
      BY <1>2 DEF ProperWrite
    <3>2. writing.ref.address \in Addresses
      BY <3>1 DEF CheckSanity, PollerType, OnBitsOfRegister, OnBits, OnRegisters
    <3> QED
      BY <3>1, <3>2 DEF Cells
  <2>3. mem[e] \in BOOLEAN
    BY <2>2 DEF MemoryType
  <2> HIDE DEF e
  <2> DEFINE bit == BitOf(writing.read, b)
  <2> HIDE DEF bit
  <2>4. bit = IF e \in touched' THEN ~mem'[e] ELSE mem'[e]
    <3>1. CASE e = c
      <4>1. bit = mem[e]
        BY <1>1, <2>1, <3>1 DEF bit
      <4>2. mem'[e] = ~mem[e] /\ e \in touched'
        BY <1>1, <1>3, <3>1
      <4>3. mem[e] = (~mem'[e])
        BY <2>3, <4>2
      <4> QED
        BY <4>1, <4>2, <4>3
    <3>2. CASE e # c
      <4>1. mem'[e] = mem[e] /\ (e \in touched' <=> e \in touched)
        BY <1>1, <1>3, <2>2, <3>2
      <4> QED
        BY <2>1, <4>1 DEF bit
    <3> QED
      BY <3>1, <3>2
  <2> QED
    BY <2>4 DEF e, bit
<1>8. WriteInv'
  BY <1>1, <1>2, <1>3, <1>6, <1>7 DEF WriteInv
<1>9. WritesExact'
  BY <1>1, <1>3, NoneAssumption DEF WritesExact
<1> QED
  BY <1>5, <1>8, <1>9

LEMMA WritesUndisturbed ==
  ASSUME MemoryType, WriteInv, WritesExact, UNCHANGED accessVars,
         writing = NONE \/ status' = status
  PROVE  MemoryType' /\ WriteInv' /\ WritesExact'
<1>1. /\ strategy' = strategy /\ mem' = mem /\ writing' = writing
      /\ writes' = writes /\ result' = result
      /\ others' = others /\ touched' = touched
  BY DEF accessVars
<1>2. MemoryType'
  BY <1>1 DEF MemoryType
<1>3. writing # NONE => ProperWrite(writing)'
  BY <1>1 DEF WriteInv, ProperWrite
<1>4. writing # NONE /\ result = NONE => ReadHolds(writing)'
  BY <1>1 DEF WriteInv, ReadHolds
<1>5. WriteInv'
  BY <1>1, <1>3, <1>4 DEF WriteInv
<1>6. HeldValue(writing)' = HeldValue(writing)
  BY <1>1 DEF HeldValue
<1>7. TargetCells(writing)' = TargetCells(writing)
  BY <1>1
<1>8. WritesExact'
  BY <1>1, <1>6, <1>7 DEF WritesExact
<1> QED
  BY <1>2, <1>5, <1>8

LEMMA AccessInit ==
  ASSUME Init
  PROVE  AccessInv
<1>1. BoundInv
  BY NothingIsBound DEF Init, ConfigInit
<1>2. ConfigInv
  BY LimitAssumption DEF Init, ConfigInit, ConfigInv, ConfigTypeOK
<1>3. IsFiniteSet({}) /\ Cardinality({}) = 0
  BY FS_EmptySet
<1>4. MemoryType
  <2>1. mem \in [Cells -> BOOLEAN]
    BY DEF Init
  <2> QED
    BY <1>3, <2>1, WriteAssumption DEF Init, MemoryType
<1>5. WriteInv /\ WritesExact
  BY NoneAssumption DEF Init, WriteInv, WritesExact
<1> QED
  BY <1>1, <1>2, <1>4, <1>5 DEF AccessInv

LEMMA AccessStep ==
  ASSUME AccessInv, [Next]_vars
  PROVE  AccessInv'
<1>1. BoundInv /\ ConfigInv /\ MemoryType /\ WriteInv /\ WritesExact
  BY DEF AccessInv
<1>2. BoundInv'
  BY <1>1, StepBinds
<1>3. CASE ConfigStep
  <2>1. Parse /\ UNCHANGED accessVars
    BY <1>3 DEF ConfigStep
  <2>2. ConfigInv'
    BY <1>1, <1>2, <2>1, ParseKeepsConfig
  <2>3. status = "parsing"
    BY <2>1 DEF Parse, ReadRow, DeviceRow, PollRow, RefRow, RejectRow,
                ReadNextRow, EndFile, RejectFile
  <2>4. writing = NONE
    BY <1>1, <2>3 DEF WriteInv
  <2> QED
    BY <1>1, <1>2, <2>1, <2>2, <2>4, WritesUndisturbed DEF AccessInv
<1>4. CASE SomeWrite
  <2>1. UNCHANGED configVars
    BY <1>4 DEF SomeWrite, StartWrite
  <2> QED
    BY <1>1, <1>2, <1>4, <2>1, ConfigKept, StartWriteKeeps DEF AccessInv
<1>5. CASE WriteConfirmed
  <2>1. UNCHANGED configVars
    BY <1>5 DEF WriteConfirmed
  <2> QED
    BY <1>1, <1>2, <1>5, <2>1, ConfigKept, WriteConfirmedKeeps DEF AccessInv
<1>6. CASE WriteRejected
  <2>1. UNCHANGED configVars
    BY <1>6 DEF WriteRejected
  <2> QED
    BY <1>1, <1>2, <1>6, <2>1, ConfigKept, WriteRejectedKeeps DEF AccessInv
<1>7. CASE EndWrite
  <2>1. UNCHANGED configVars
    BY <1>7 DEF EndWrite
  <2> QED
    BY <1>1, <1>2, <1>7, <2>1, ConfigKept, EndWriteKeeps DEF AccessInv
<1>8. CASE \E c \in Cells : OtherMaster(c)
  <2>1. UNCHANGED configVars
    BY <1>8 DEF OtherMaster
  <2> QED
    BY <1>1, <1>2, <1>8, <2>1, ConfigKept, OtherMasterKeeps DEF AccessInv
<1>9. CASE UNCHANGED vars
  <2>1. UNCHANGED configVars /\ UNCHANGED accessVars /\ status' = status
    BY <1>9 DEF vars, configVars
  <2> QED
    BY <1>1, <1>2, <2>1, ConfigKept, WritesUndisturbed DEF AccessInv
<1> QED
  BY <1>3, <1>4, <1>5, <1>6, <1>7, <1>8, <1>9 DEF Next

\* The fields of ReferenceAccess keep their types, and only what
\* validate_write lets through of an accepted configuration is ever written.
THEOREM TypeCorrect == Spec => []TypeOK
<1>1. Init => AccessInv
  BY AccessInit
<1>2. AccessInv /\ [Next]_vars => AccessInv'
  BY AccessStep
<1>3. AccessInv => TypeOK
  BY DEF AccessInv, ConfigInv, MemoryType, WriteInv, ProperWrite, TypeOK
<1> QED
  BY <1>1, <1>2, <1>3, PTL DEF Spec

\* write_validated and apply_bit_write: for every configuration, width of the
\* word and order of bytes and words, a confirmed write leaves exactly its
\* value in the cells its reference is read from and nothing elsewhere, save
\* what a read-modify-write undoes of a change made after its read; a rejected
\* one changes nothing.
THEOREM WrittenAsMeant == Spec => []WritesExact
<1>1. Init => AccessInv
  BY AccessInit
<1>2. AccessInv /\ [Next]_vars => AccessInv'
  BY AccessStep
<1>3. AccessInv => WritesExact
  BY DEF AccessInv
<1> QED
  BY <1>1, <1>2, <1>3, PTL DEF Spec

-----------------------------------------------------------------------------
(* Reading coils. *)

\* Decoding a response that starts at `s` and has `n` coils, all that the block
\* has of the reference, finds the reference's own coils.
LEMMA CoilsDecoded ==
  ASSUME NEW dev, NEW p \in PollerType, NEW ref \in RefType,
         OnBits(p.fc), WellFormed(ref, p), CheckSanity(ref, p),
         NEW s \in Int, NEW n \in Nat,
         ref.dtype = "bool" => s <= ref.address /\ ref.address < s + n,
         ref.dtype # "bool" =>
           /\ s <= CoilGroupStart(p, ref)
           /\ \A k \in 1..GroupWidth(ref) :
                CoilGroupStart(p, ref) - s + k <= n
                  <=> CoilGroupStart(p, ref) + k - 1 < p.start + p.size
  PROVE  DecodeCoilBits(p, ref, Response(dev.id, p.fc, s, n), s)
         = OwnValue(dev, p, ref)
<1> DEFINE bits == Response(dev.id, p.fc, s, n)
           group == CoilGroupStart(p, ref)
<1>1. /\ Len(bits) = n
      /\ \A k \in 1..n : bits[k] = Coil(dev.id, p.fc, s + k - 1)
  BY DEF Response
<1> HIDE DEF bits
<1>2. ref.address \in Int /\ p.start \in Int /\ p.size \in Int
  BY DEF RefType, PollerType, PollerRecord
<1>3. CASE ref.dtype = "bool"
  <2>1. /\ ref.address - s + 1 \in 1..n
        /\ s + (ref.address - s + 1) - 1 = ref.address
    BY <1>2, <1>3
  <2>2. bits[ref.address - s + 1] = Coil(dev.id, p.fc, ref.address)
    BY <1>1, <2>1
  <2>3. DecodeCoilBits(p, ref, bits, s) = <<Coil(dev.id, p.fc, ref.address)>>
    BY <1>3, <2>2 DEF DecodeCoilBits
  <2>4. OwnValue(dev, p, ref) = <<Coil(dev.id, p.fc, ref.address)>>
    BY <1>3 DEF OwnValue, OnBits, OnRegisters
  <2> QED
    BY <2>3, <2>4 DEF bits
<1>4. CASE ref.dtype # "bool"
  <2>1. group = p.start + (ref.address - p.start) * ByteBits
    BY DEF CoilGroupStart
  <2>2. group \in Int
    <3>1. (ref.address - p.start) * ByteBits \in Int
      BY <1>2
    <3> QED
      BY <1>2, <3>1 DEF CoilGroupStart
  <2>3. GroupWidth(ref) \in Nat
    BY DEF GroupWidth
  <2>4. OwnValue(dev, p, ref) = [k \in 1..GroupWidth(ref) |-> OwnCoil(dev, p, ref, k - 1)]
    BY <1>4 DEF OwnValue, OnBits, OnRegisters
  <2>5. DecodeCoilBits(p, ref, bits, s)
          = [k \in 1..GroupWidth(ref) |->
               IF (group - s) + k <= n THEN bits[(group - s) + k] ELSE Padding]
    BY <1>1, <1>4 DEF DecodeCoilBits
  <2>6. ASSUME NEW k \in 1..GroupWidth(ref)
        PROVE  (IF (group - s) + k <= n THEN bits[(group - s) + k] ELSE Padding)
               = OwnCoil(dev, p, ref, k - 1)
    <3>1. (group - s) + k <= n <=> group + (k - 1) < p.start + p.size
      <4> HIDE DEF group
      <4>1. group + (k - 1) = group + k - 1
        BY <2>2, <2>3
      <4> QED
        BY <1>4, <4>1 DEF group
    <3>2. OwnCoil(dev, p, ref, k - 1)
            = IF group + (k - 1) < p.start + p.size
              THEN Coil(dev.id, p.fc, group + (k - 1)) ELSE Padding
      BY <2>1 DEF OwnCoil
    <3>3. s <= group
      BY <1>4
    <3> HIDE DEF group
    <3>4. ASSUME (group - s) + k <= n
          PROVE  bits[(group - s) + k] = Coil(dev.id, p.fc, group + (k - 1))
      <4>1. /\ (group - s) + k \in 1..n
            /\ s + ((group - s) + k) - 1 = group + (k - 1)
        BY <2>2, <2>3, <3>3, <3>4
      <4> QED
        BY <1>1, <4>1
    <3> QED
      BY <3>1, <3>2, <3>4
  <2> HIDE DEF group
  <2>7. DecodeCoilBits(p, ref, bits, s) = OwnValue(dev, p, ref)
    BY <2>4, <2>5, <2>6
  <2> QED
    BY <2>7 DEF bits
<1> QED
  BY <1>3, <1>4

LEMMA CoilsReadAlike ==
  ASSUME NEW dev, NEW p \in PollerType, NEW ref \in RefType,
         OnBits(p.fc), WellFormed(ref, p), CheckSanity(ref, p)
  PROVE  /\ DecodeCoilBits(p, ref, Response(dev.id, p.fc, p.start, p.size), p.start)
              = OwnValue(dev, p, ref)
         /\ ReadCoilReference(dev, p, ref) = OwnValue(dev, p, ref)
<1> DEFINE group == CoilGroupStart(p, ref)
           width == GroupWidth(ref)
           last == p.start + p.size
           count == CoilReadCount(p, ref)
<1>1. ref.address \in Int /\ p.start \in Nat /\ p.size \in Nat
  BY DEF RefType, PollerType, PollerRecord
<1>2. ref.dtype = "bool" => p.start <= ref.address /\ ref.address < p.start + p.size
  BY <1>1 DEF CheckSanity
<1>3. ref.dtype # "bool" => group \in Nat /\ p.start <= group /\ group < last
  <2> SUFFICES ASSUME ref.dtype # "bool"
               PROVE  group \in Nat /\ p.start <= group /\ group < last
    OBVIOUS
  <2> DEFINE x == ref.address - p.start
             y == x * ByteBits
  <2>1. x \in Nat /\ y < p.size
    BY <1>1 DEF CheckSanity
  <2>2. y \in Nat
    BY <2>1
  <2>3. group = p.start + y
    BY DEF CoilGroupStart
  <2> HIDE DEF y, x, group
  <2> QED
    BY <1>1, <2>1, <2>2, <2>3
<1>4. width \in Nat \ {0}
  BY DEF GroupWidth
<1>5. ref.dtype # "bool" =>
        \A k \in 1..width : group - p.start + k <= p.size <=> group + k - 1 < last
  <2> HIDE DEF group, width
  <2> QED
    BY <1>1, <1>3, <1>4
<1>6. DecodeCoilBits(p, ref, Response(dev.id, p.fc, p.start, p.size), p.start)
        = OwnValue(dev, p, ref)
  <2>1. p.start \in Int /\ (ref.dtype # "bool" => p.start <= group)
    BY <1>1, <1>3
  <2> QED
    BY <1>1, <1>2, <1>5, <2>1, CoilsDecoded
<1>7. CASE ref.dtype = "bool"
  <2>1. CoilReadStart(p, ref) = ref.address /\ CoilReadCount(p, ref) = 1
    BY <1>7 DEF CoilReadStart, CoilReadCount
  <2>2. /\ ref.address <= ref.address /\ ref.address < ref.address + 1
    BY <1>1
  <2>3. DecodeCoilBits(p, ref, Response(dev.id, p.fc, ref.address, 1), ref.address)
          = OwnValue(dev, p, ref)
    BY <1>1, <1>7, <2>2, CoilsDecoded
  <2> QED
    BY <1>6, <2>1, <2>3 DEF ReadCoilReference
<1>8. CASE ref.dtype # "bool"
  <2>1. CoilReadStart(p, ref) = group
    BY <1>8 DEF CoilReadStart
  <2>2. /\ count \in Nat
        /\ \A k \in 1..width : k <= count <=> group + k - 1 < last
    <3>1. count = Min({width, last - group})
      <4>1. p.start + p.size - group = last - group
        <5> HIDE DEF group
        <5> QED
          BY <1>1, <1>3, <1>8
      <4> QED
        BY <1>8, <4>1, Zenon DEF CoilReadCount
    <3> HIDE DEF group, width, count, last
    <3>2. last - group \in Nat
      BY <1>1, <1>3, <1>8 DEF last
    <3>3. count \in {width, last - group} /\ count <= width /\ count <= last - group
      <4>1. \E m \in {width, last - group} : \A q \in {width, last - group} : m <= q
        BY <1>4, <3>2
      <4> QED
        BY <3>1, <4>1 DEF Min
    <3> QED
      BY <1>1, <1>3, <1>4, <1>8, <3>2, <3>3 DEF last
  <2>3. \A k \in 1..width : group - group + k <= count <=> group + k - 1 < last
    <3> HIDE DEF group, width, count, last
    <3>1. \A k \in 1..width : group - group + k = k
      BY <1>3, <1>4, <1>8
    <3> QED
      BY <2>2, <3>1
  <2>4. group <= group /\ group \in Int
    <3> HIDE DEF group
    <3> QED
      BY <1>3, <1>8
  <2>5. DecodeCoilBits(p, ref, Response(dev.id, p.fc, group, count), group)
          = OwnValue(dev, p, ref)
    BY <1>8, <2>2, <2>3, <2>4, CoilsDecoded
  <2> QED
    BY <1>6, <2>1, <2>5 DEF ReadCoilReference
<1> QED
  BY <1>7, <1>8

-----------------------------------------------------------------------------
(* Reading registers. *)

\* The words of the `width` registers from `a` on.
WordsAt(id, fc, a, width) == [j \in 1..width |-> WordAt(id, fc, a + j - 1)]

\* In a response of `n` registers from `s` on they start at `offset`.
InResponse(s, n, a, width, offset) ==
  offset = a - s /\ s <= a /\ a + width <= s + n

\* Any response that holds the registers gives the same words.
LEMMA WordsOfResponse ==
  ASSUME NEW endian, NEW id, NEW fc, NEW s \in Int, NEW n \in Nat,
         NEW a \in Int, NEW width \in Nat, NEW offset,
         ~OnBits(fc), InResponse(s, n, a, width, offset)
  PROVE  Decode(endian, Response(id, fc, s, n), offset, width)
         = UnpackWords(endian, WordsAt(id, fc, a, width))
<1> DEFINE words == Response(id, fc, s, n)
<1>1. words = [k \in 1..n |-> WordAt(id, fc, s + k - 1)]
  BY DEF Response
<1>2. offset \in Nat /\ offset + width <= n /\ a = s + offset
  BY DEF InResponse
<1>3. \A j \in 1..width : offset + j \in 1..n /\ s + (offset + j) - 1 = a + j - 1
  BY <1>2
<1>4. SubSeq(words, offset + 1, offset + width)
        = [j \in 1..width |-> words[offset + j]]
  <2> HIDE DEF words
  <2>1. (offset + width) - (offset + 1) + 1 = width
    BY <1>2
  <2>2. \A j \in 1..width : (offset + 1) + j - 1 = offset + j
    BY <1>2
  <2> QED
    BY <1>2, <2>1, <2>2
<1>5. \A j \in 1..width : words[offset + j] = WordAt(id, fc, a + j - 1)
  <2> HIDE DEF words
  <2> QED
    BY <1>1, <1>3
<1> QED
  BY <1>4, <1>5 DEF WordsAt, Decode

\* The cells of a register.
CellsAt(id, fc, a) == {<<id, fc, a, b>> : b \in WordBits}

LEMMA WordAtIs ==
  ASSUME NEW id, NEW fc, NEW a
  PROVE  /\ WordAt(id, fc, a) \in WordOver(CellsAt(id, fc, a))
         /\ \A b \in WordBits : BitOf(WordAt(id, fc, a), b) = <<id, fc, a, b>>
<1> DEFINE I == 0..(ByteBits - 1)
           High == [b \in I |-> <<id, fc, a, b + ByteBits>>]
           Low == [b \in I |-> <<id, fc, a, b>>]
<1>1. WordAt(id, fc, a) = <<High, Low>>
  BY DEF WordAt
<1>2. \A b \in I : b \in WordBits /\ b + ByteBits \in WordBits
  BY DEF WordBits
<1>3. High \in [I -> CellsAt(id, fc, a)] /\ Low \in [I -> CellsAt(id, fc, a)]
  <2> HIDE DEF I
  <2> QED
    BY <1>2 DEF CellsAt
<1>4. ASSUME NEW b \in WordBits
      PROVE  BitOf(WordAt(id, fc, a), b) = <<id, fc, a, b>>
  <2>1. CASE b < ByteBits
    <3>1. b \in I
      BY <2>1 DEF WordBits
    <3> HIDE DEF I
    <3> QED
      BY <1>1, <2>1, <3>1 DEF BitOf
  <2>2. CASE ~(b < ByteBits)
    <3>1. b - ByteBits \in I /\ (b - ByteBits) + ByteBits = b
      BY <2>2 DEF WordBits
    <3> HIDE DEF I
    <3> QED
      BY <1>1, <2>2, <3>1 DEF BitOf
  <2> QED
    BY <2>1, <2>2
<1> HIDE DEF High, Low
<1> QED
  BY <1>1, <1>3, <1>4 DEF WordOver

\* The bits of a decoded register are its own, in the byte order.
LEMMA BitsDecoded ==
  ASSUME NEW dev, NEW p, NEW ref, ref.address \in Int, NEW b \in WordBits
  PROVE  BitOf(UnpackWords(p.endian, WordsAt(dev.id, p.fc, ref.address, 1))[1], b)
         = OwnBit(dev, p, ref, b)
<1> DEFINE word == WordAt(dev.id, p.fc, ref.address)
           raw == PackWords(p.endian, <<word>>)[1]
           c == RawBit(p.endian, b)
<1>1. WordsAt(dev.id, p.fc, ref.address, 1) = <<word>>
  <2> HIDE DEF word
  <2>1. 1..1 = {1} /\ ref.address + 1 - 1 = ref.address
    OBVIOUS
  <2>2. WordsAt(dev.id, p.fc, ref.address, 1) = [j \in 1..1 |-> word]
    BY <2>1 DEF WordsAt, word
  <2> QED
    BY <2>2
<1>2. /\ word \in WordOver(CellsAt(dev.id, p.fc, ref.address))
      /\ \A n \in WordBits : BitOf(word, n) = <<dev.id, p.fc, ref.address, n>>
  BY WordAtIs
<1> HIDE DEF word
<1>3. UnpackWords(p.endian, <<word>>) = <<raw>> /\ BitsMoved(p.endian, raw, word)
  BY <1>2, OneWord
<1> HIDE DEF raw
<1>4. c \in WordBits /\ RawBit(p.endian, c) = b
  BY RawBitIs
<1>5. BitOf(raw, b) = <<dev.id, p.fc, ref.address, c>>
  BY <1>2, <1>3, <1>4 DEF BitsMoved
<1>6. UnpackWords(p.endian, WordsAt(dev.id, p.fc, ref.address, 1))[1] = raw
  BY <1>1, <1>3
<1> QED
  BY <1>5, <1>6 DEF OwnBit, RawBit

\* Word j of the decoded value.
DecodedWord(endian, id, fc, a, width, j) ==
  LET sent == WordAt(id, fc, a + SentAs(endian, width, j) - 1)
  IN IF LittleBytes(endian) THEN <<sent[2], sent[1]>> ELSE sent
DecodedWords(endian, id, fc, a, width) ==
  [j \in 1..width |-> DecodedWord(endian, id, fc, a, width, j)]

LEMMA WordsDecoded ==
  ASSUME NEW endian, NEW id, NEW fc, NEW a \in Int, NEW width \in Nat
  PROVE  UnpackWords(endian, WordsAt(id, fc, a, width))
         = DecodedWords(endian, id, fc, a, width)
<1> DEFINE words == WordsAt(id, fc, a, width)
           Sent(j) == WordAt(id, fc, a + j - 1)
           Swapped(w) == IF LittleBytes(endian) THEN <<w[2], w[1]>> ELSE w
           bytes == IF LittleBytes(endian) THEN SwapBytes(words) ELSE words
           unpacked == UnpackWords(endian, words)
<1>1. words = [j \in 1..width |-> Sent(j)]
  BY DEF WordsAt
<1> HIDE DEF words, Sent
<1>2. bytes = [j \in 1..width |-> Swapped(Sent(j))]
  BY <1>1 DEF SwapBytes
<1>3. unpacked = IF LittleWords(endian) THEN ReverseWords(bytes) ELSE bytes
  BY DEF UnpackWords
<1> HIDE DEF bytes, unpacked, Swapped
<1>4. Len(bytes) = width /\ DOMAIN bytes = 1..width
  BY <1>2
<1>5. \A j \in 1..width : width - j + 1 \in 1..width
  OBVIOUS
<1>6. unpacked = [j \in 1..width |-> Swapped(Sent(SentAs(endian, width, j)))]
  <2>1. CASE LittleWords(endian)
    <3>1. unpacked = [j \in 1..width |-> bytes[width - j + 1]]
      BY <1>3, <1>4, <2>1 DEF ReverseWords
    <3>2. \A j \in 1..width : bytes[width - j + 1] = Swapped(Sent(width - j + 1))
      BY <1>2, <1>5
    <3> QED
      BY <2>1, <3>1, <3>2 DEF SentAs
  <2>2. CASE ~LittleWords(endian)
    BY <1>2, <1>3, <2>2 DEF SentAs
  <2> QED
    BY <2>1, <2>2
<1> QED
  BY <1>6 DEF DecodedWord, DecodedWords, Swapped, Sent, words, unpacked

\* The bytes of decoded registers are its own, in the byte and word order.
LEMMA BytesDecoded ==
  ASSUME NEW dev, NEW p, NEW ref \in RefType, NEW width \in Nat,
         width = RefWidth[ref.dtype], NEW k \in 1..(2 * width)
  PROVE  BytesOf(UnpackWords(p.endian, WordsAt(dev.id, p.fc, ref.address, width)))[k]
         = OwnByte(dev, p, ref, k)
<1> DEFINE a == ref.address
           words == UnpackWords(p.endian, WordsAt(dev.id, p.fc, a, width))
           i == (k - 1) \div 2
           own == a + (IF LittleWords(p.endian) THEN width - 1 - i ELSE i)
           Half(n) == [b \in 0..(ByteBits - 1) |-> <<dev.id, p.fc, own, b + n>>]
           sent == WordAt(dev.id, p.fc, own)
<1>1. a \in Int
  BY DEF RefType
<1>2. /\ i \in 0..(width - 1)
      /\ (k + 1) \div 2 = i + 1
      /\ k % 2 = 1 \/ k % 2 = 0
  OBVIOUS
<1>3. words = DecodedWords(p.endian, dev.id, p.fc, a, width)
  BY <1>1, WordsDecoded
<1>4. Len(words) = width
  <2> HIDE DEF words
  <2> QED
    BY <1>3 DEF DecodedWords
<1>5. BytesOf(words)[k] = words[i + 1][2 - (k % 2)]
  <2> HIDE DEF words, i
  <2> QED
    BY <1>2, <1>4 DEF BytesOf
<1>6. words[i + 1] = DecodedWord(p.endian, dev.id, p.fc, a, width, i + 1)
  <2>1. i + 1 \in 1..width
    BY <1>2
  <2> HIDE DEF words, i
  <2> QED
    BY <1>3, <2>1 DEF DecodedWords
<1>7. a + SentAs(p.endian, width, i + 1) - 1 = own
  <2> HIDE DEF a, i
  <2> QED
    BY <1>1, <1>2 DEF SentAs
<1>8. words[i + 1] = IF LittleBytes(p.endian) THEN <<sent[2], sent[1]>> ELSE sent
  <2> HIDE DEF words, i, own, a
  <2> QED
    BY <1>6, <1>7 DEF DecodedWord
<1>9. /\ sent[1] = [b \in 0..(ByteBits - 1) |-> <<dev.id, p.fc, own, b + ByteBits>>]
      /\ sent[2] = [b \in 0..(ByteBits - 1) |-> <<dev.id, p.fc, own, b>>]
  BY DEF WordAt
<1>10. OwnByte(dev, p, ref, k)
         = IF (k % 2 = 1) # LittleBytes(p.endian) THEN sent[1] ELSE sent[2]
  <2> HIDE DEF sent, words
  <2>1. CASE (k % 2 = 1) # LittleBytes(p.endian)
    BY <1>9, <2>1 DEF OwnByte
  <2>2. CASE ~((k % 2 = 1) # LittleBytes(p.endian))
    BY <1>9, <2>2 DEF OwnByte
  <2> QED
    BY <2>1, <2>2
<1> HIDE DEF words, sent, i, own, a
<1>11. LittleBytes(p.endian) \in BOOLEAN
  BY DEF LittleBytes
<1>12. CASE k % 2 = 1
  BY <1>5, <1>8, <1>10, <1>11, <1>12 DEF words, a
<1>13. CASE k % 2 = 0
  <2>1. OwnByte(dev, p, ref, k) = IF LittleBytes(p.endian) THEN sent[1] ELSE sent[2]
    BY <1>10, <1>11, <1>13
  <2>2. words[i + 1][2]
          = IF LittleBytes(p.endian) THEN sent[1] ELSE sent[2]
    BY <1>8
  <2>3. BytesOf(words)[k] = words[i + 1][2]
    BY <1>5, <1>13
  <2> QED
    BY <2>1, <2>2, <2>3 DEF words, a
<1> QED
  BY <1>2, <1>12, <1>13

\* Whatever response holds its registers, a reference is decoded from its own
\* cells.
LEMMA RegistersDecoded ==
  ASSUME NEW dev, NEW p \in PollerType, NEW ref \in RefType,
         OnRegisters(p.fc), WellFormed(ref, p), NEW s \in Int, NEW n \in Nat,
         s <= ref.address, ref.address + RefWidth[ref.dtype] <= s + n
  PROVE  DecodeRegisterBlock(p, ref, Response(dev.id, p.fc, s, n), s)
         = OwnValue(dev, p, ref)
<1> DEFINE block == Response(dev.id, p.fc, s, n)
           width == RefWidth[ref.dtype]
           words == Decode(p.endian, block, ref.address - s, width)
           size == ValueBytes(ref)
<1>1. /\ ref.address \in Int /\ ref.dtype \in Dtypes /\ ~OnBits(p.fc)
      /\ width \in Nat \ {0}
  BY DEF RefType, OnRegisters, OnBits, Dtypes, RefWidth
<1>2. words = UnpackWords(p.endian, WordsAt(dev.id, p.fc, ref.address, width))
  <2> DEFINE a == ref.address
             offset == a - s
  <2>1. /\ ~OnBits(p.fc) /\ a \in Int /\ width \in Nat
        /\ InResponse(s, n, a, width, offset)
    BY <1>1 DEF InResponse
  <2> HIDE DEF a, offset, width
  <2>2. Decode(p.endian, block, offset, width)
          = UnpackWords(p.endian, WordsAt(dev.id, p.fc, a, width))
    BY <2>1, WordsOfResponse
  <2> QED
    BY <2>2 DEF a, offset
<1>3. CASE ref.dtype = "bool"
  <2>1. width = 1 /\ ref.bit \in WordBits
    BY <1>3 DEF RefWidth, WellFormed, WordBits
  <2>2. BitOf(words[1], ref.bit) = OwnBit(dev, p, ref, ref.bit)
    BY <1>1, <1>2, <2>1, BitsDecoded
  <2>3. DecodeRegisterBlock(p, ref, block, s) = <<BitOf(words[1], ref.bit)>>
    <3> HIDE DEF block
    <3> QED
      BY <1>3 DEF DecodeRegisterBlock, StringBytes
  <2>4. OwnValue(dev, p, ref) = <<OwnBit(dev, p, ref, ref.bit)>>
    BY <1>1, <1>3 DEF OwnValue
  <2> QED
    BY <2>2, <2>3, <2>4
<1>4. CASE ref.dtype \in {"bool8", "bool16"}
  <2>1. /\ width = 1
        /\ \A k \in 1..GroupWidth(ref) : k - 1 \in WordBits
    BY <1>4 DEF RefWidth, GroupWidth, WordBits
  <2>2. \A k \in 1..GroupWidth(ref) :
          BitOf(words[1], k - 1) = OwnBit(dev, p, ref, k - 1)
    BY <1>1, <1>2, <2>1, BitsDecoded
  <2>3. DecodeRegisterBlock(p, ref, block, s)
          = [k \in 1..GroupWidth(ref) |-> BitOf(words[1], k - 1)]
    <3> HIDE DEF block
    <3> QED
      BY <1>4 DEF DecodeRegisterBlock, StringBytes
  <2>4. OwnValue(dev, p, ref)
          = [k \in 1..GroupWidth(ref) |-> OwnBit(dev, p, ref, k - 1)]
    BY <1>1, <1>4 DEF OwnValue
  <2> QED
    BY <2>2, <2>3, <2>4
<1>5. CASE ref.dtype \notin {"bool", "bool8", "bool16"}
  <2> DEFINE bytes == BytesOf(words)
  <2>1. \A k \in 1..(2 * width) : bytes[k] = OwnByte(dev, p, ref, k)
    <3>1. width \in Nat /\ width = RefWidth[ref.dtype]
      BY <1>1
    <3> HIDE DEF words, width
    <3> QED
      BY <1>2, <3>1, BytesDecoded
  <2>2. bytes = [k \in 1..(2 * width) |-> bytes[k]]
    <3>1. Len(words) = width
      <4> DEFINE a == ref.address
      <4>1. a \in Int /\ width \in Nat
        BY <1>1
      <4>2. words = UnpackWords(p.endian, WordsAt(dev.id, p.fc, a, width))
        BY <1>2
      <4> HIDE DEF a, words, width
      <4>3. UnpackWords(p.endian, WordsAt(dev.id, p.fc, a, width))
              = DecodedWords(p.endian, dev.id, p.fc, a, width)
        BY <4>1, WordsDecoded
      <4> QED
        BY <4>1, <4>2, <4>3 DEF DecodedWords
    <3> HIDE DEF words, width
    <3> QED
      BY <3>1 DEF BytesOf
  <2>3. OwnValue(dev, p, ref) = [k \in 1..size |-> OwnByte(dev, p, ref, k)]
    BY <1>1, <1>5 DEF OwnValue
  <2>4. CASE ref.dtype \in DOMAIN StringBytes
    <3>1. size = 3 /\ width = 2
      BY <2>4 DEF ValueBytes, StringBytes, RefWidth
    <3>2. DecodeRegisterBlock(p, ref, block, s) = SubSeq(bytes, 1, 3)
      <4>1. StringBytes[ref.dtype] = 3
        BY <2>4 DEF StringBytes
      <4> HIDE DEF block
      <4> QED
        BY <1>5, <2>4, <4>1 DEF DecodeRegisterBlock
    <3>3. SubSeq(bytes, 1, 3) = [k \in 1..3 |-> bytes[k]]
      <4> HIDE DEF bytes
      <4>1. bytes = [k \in 1..4 |-> bytes[k]]
        BY <2>2, <3>1
      <4> QED
        BY <4>1
    <3>4. \A k \in 1..3 : bytes[k] = OwnByte(dev, p, ref, k)
      <4> HIDE DEF bytes
      <4> QED
        BY <2>1, <3>1
    <3> HIDE DEF bytes
    <3> QED
      BY <2>3, <3>1, <3>2, <3>3, <3>4
  <2>5. CASE ref.dtype \notin DOMAIN StringBytes
    <3>1. size = 2 * width
      BY <2>5 DEF ValueBytes
    <3>2. DecodeRegisterBlock(p, ref, block, s) = bytes
      <4> HIDE DEF block
      <4> QED
        BY <1>5, <2>5 DEF DecodeRegisterBlock
    <3> HIDE DEF bytes, size, width
    <3> QED
      BY <2>1, <2>2, <2>3, <3>1, <3>2
  <2> QED
    BY <2>4, <2>5
<1> QED
  BY <1>3, <1>4, <1>5

-----------------------------------------------------------------------------
(* Natural numbers: the least of a set, and induction. *)

LEMMA LeastNumber ==
  ASSUME NEW T \in SUBSET Nat, T # {}
  PROVE  \E n \in T : \A m \in T : n <= m
<1> DEFINE U == {1..n : n \in T}
<1>1. U \subseteq FiniteSubsetsOf(Nat)
  <2>1. \A n \in Nat : IsFiniteSet(1..n) /\ 1..n \in SUBSET Nat
    BY FS_Interval
  <2> QED
    BY <2>1 DEF FiniteSubsetsOf
<1>2. PICK x \in U : \A y \in U : <<y, x>> \notin StrictSubsetOrdering(Nat)
  <2>1. U # {}
    OBVIOUS
  <2> HIDE DEF U
  <2> QED
    BY <1>1, <2>1, FS_StrictSubsetOrderingWellFounded, WFMin
<1>3. PICK n \in T : x = 1..n
  BY <1>2
<1>4. ASSUME NEW m \in T, m < n PROVE FALSE
  <2>1. 1..m \in U /\ 1..m \in SUBSET Nat /\ 1..n \in SUBSET Nat
    OBVIOUS
  <2>2. n \in 1..n /\ n \notin 1..m /\ 1..m \subseteq 1..n
    BY <1>4
  <2> QED
    BY <1>2, <1>3, <2>1, <2>2 DEF StrictSubsetOrdering
<1> QED
  BY <1>3, <1>4

LEMMA Induction ==
  ASSUME NEW S, 0 \in S, \A n \in Nat : n \in S => n + 1 \in S
  PROVE  Nat \subseteq S
<1> DEFINE T == Nat \ S
<1> SUFFICES ASSUME T # {} PROVE FALSE
  OBVIOUS
<1>1. PICK n \in T : \A m \in T : n <= m
  BY LeastNumber
<1>2. n # 0 /\ n - 1 \in Nat
  OBVIOUS
<1>3. n - 1 \in S
  BY <1>1, <1>2
<1> QED
  BY <1>2, <1>3

-----------------------------------------------------------------------------
(* Grouping references into batches. *)

\* References that fit between two addresses.
Fits(lo, hi, ref) ==
  /\ ref.address \in Int /\ RefWidth[ref.dtype] \in Nat
  /\ lo <= ref.address /\ ref.address + RefWidth[ref.dtype] <= hi

BatchType(asked) == [start : Int, end : Int, refs : SUBSET asked]
GoodBatch(lo, hi, batch) ==
  /\ lo <= batch.start /\ batch.start <= batch.end /\ batch.end <= hi
  /\ \A ref \in batch.refs :
       batch.start <= ref.address /\ ref.address + RefWidth[ref.dtype] <= batch.end
Collected(batches) == UNION {batches[j].refs : j \in DOMAIN batches}

\* Batches of some of the references, when the next is not before any of them.
Grouped(asked, lo, hi, batches, ref) ==
  /\ batches \in Seq(BatchType(asked))
  /\ \A j \in DOMAIN batches :
       GoodBatch(lo, hi, batches[j]) /\ batches[j].start <= ref.address

\* The next reference is put in, and nothing else changes.
ExtendedBy(asked, lo, hi, batches, ref) ==
  /\ Grouped(asked, lo, hi, Extend(batches, ref), ref)
  /\ Collected(Extend(batches, ref)) = Collected(batches) \cup {ref}

LEMMA MaxOfTwo ==
  ASSUME NEW x \in Int, NEW y \in Int
  PROVE  Max({x, y}) \in Int /\ Max({x, y}) \in {x, y}
         /\ Max({x, y}) >= x /\ Max({x, y}) >= y
<1>1. \E m \in {x, y} : \A q \in {x, y} : m >= q
  OBVIOUS
<1> QED
  BY <1>1 DEF Max

LEMMA ExtendGroups ==
  ASSUME NEW asked, NEW lo \in Int, NEW hi \in Int, NEW batches,
         NEW ref \in asked, \A r \in asked : Fits(lo, hi, r),
         Grouped(asked, lo, hi, batches, ref)
  PROVE  ExtendedBy(asked, lo, hi, batches, ref)
<1> DEFINE last == Len(batches)
           ref_end == ref.address + RefWidth[ref.dtype]
           old == batches[last]
           longer == [old EXCEPT !.end = Max({old.end, ref_end}), !.refs = @ \cup {ref}]
           new == [start |-> ref.address, end |-> ref_end, refs |-> {ref}]
           grown == Extend(batches, ref)
<1>1. /\ ref.address \in Int /\ ref_end \in Int
      /\ lo <= ref.address /\ ref.address <= ref_end /\ ref_end <= hi
  BY DEF Fits
<1>2. batches \in Seq(BatchType(asked)) /\ last \in Nat /\ DOMAIN batches = 1..last
  BY DEF Grouped
<1>3. \A j \in DOMAIN batches :
        /\ batches[j] \in BatchType(asked)
        /\ GoodBatch(lo, hi, batches[j]) /\ batches[j].start <= ref.address
  BY <1>2 DEF Grouped
<1>4. CASE last > 0 /\ ref.address <= batches[last].end
  <2>1. last \in DOMAIN batches
    BY <1>2, <1>4
  <2>2. old \in BatchType(asked) /\ GoodBatch(lo, hi, old) /\ old.start <= ref.address
    BY <1>3, <2>1
  <2>3. grown = [batches EXCEPT ![last] = longer]
    <3>1. grown = [batches EXCEPT ![last].end = Max({@, ref_end}),
                                   ![last].refs = @ \cup {ref}]
      BY <1>4 DEF Extend
    <3> QED
      BY <1>2, <2>1, <3>1
  <2> HIDE DEF grown, ref_end
  <2>4. /\ longer.start = old.start /\ longer.end = Max({old.end, ref_end})
        /\ longer.refs = old.refs \cup {ref}
    BY <2>2 DEF BatchType
  <2>5. /\ old.end \in Int /\ Max({old.end, ref_end}) \in {old.end, ref_end}
        /\ Max({old.end, ref_end}) >= old.end /\ Max({old.end, ref_end}) >= ref_end
    BY <1>1, <2>2, MaxOfTwo DEF BatchType
  <2>6. longer \in BatchType(asked)
    BY <1>1, <2>2, <2>5 DEF BatchType
  <2>7. GoodBatch(lo, hi, longer)
    <3>1. old.start \in Int /\ old.refs \subseteq asked
      BY <2>2 DEF BatchType
    <3>2. ASSUME NEW r \in longer.refs
          PROVE  /\ longer.start <= r.address
                 /\ r.address + RefWidth[r.dtype] <= longer.end
      <4>1. CASE r \in old.refs
        <5>1. /\ old.start <= r.address
              /\ r.address + RefWidth[r.dtype] <= old.end
              /\ r.address + RefWidth[r.dtype] \in Int
          BY <2>2, <3>1, <4>1 DEF GoodBatch, Fits
        <5> DEFINE top == Max({old.end, ref_end})
                   r_end == r.address + RefWidth[r.dtype]
        <5>2. top \in Int /\ top >= old.end
          BY <1>1, <2>5
        <5> HIDE DEF top, r_end
        <5>3. r_end <= top
          BY <2>5, <5>1, <5>2 DEF r_end
        <5> QED
          BY <2>4, <5>1, <5>3 DEF top, r_end
      <4>2. CASE r = ref
        BY <1>1, <2>2, <2>4, <2>5, <4>2 DEF ref_end
      <4> QED
        BY <2>4, <3>2, <4>1, <4>2
    <3>3. lo <= longer.start /\ longer.start <= longer.end /\ longer.end <= hi
      <4> DEFINE top == Max({old.end, ref_end})
      <4>1. /\ lo <= old.start /\ old.start <= old.end /\ old.end <= hi
            /\ top >= old.end /\ top \in {old.end, ref_end} /\ ref_end <= hi
            /\ old.end \in Int
        BY <1>1, <2>2, <2>5 DEF GoodBatch
      <4> HIDE DEF top, longer, old
      <4> QED
        BY <1>1, <2>4, <3>1, <4>1 DEF top
    <3> HIDE DEF longer, old
    <3> QED
      BY <3>2, <3>3 DEF GoodBatch
  <2> HIDE DEF longer
  <2>8. /\ grown \in Seq(BatchType(asked)) /\ DOMAIN grown = DOMAIN batches
        /\ \A j \in DOMAIN batches : grown[j] = IF j = last THEN longer ELSE batches[j]
    BY <1>2, <2>1, <2>3, <2>6
  <2>9. Grouped(asked, lo, hi, grown, ref)
    <3>1. longer.start <= ref.address
      BY <2>2, <2>4
    <3> QED
      BY <1>3, <2>7, <2>8, <3>1 DEF Grouped
  <2>10. Collected(grown) = Collected(batches) \cup {ref}
    <3>1. \A j \in DOMAIN batches :
            grown[j].refs = IF j = last THEN batches[j].refs \cup {ref}
                                        ELSE batches[j].refs
      BY <2>4, <2>8
    <3> HIDE DEF old
    <3>2. \A x : (\E j \in DOMAIN grown : x \in grown[j].refs)
                  <=> (\E j \in DOMAIN batches : x \in batches[j].refs) \/ x = ref
      BY <2>1, <2>8, <3>1
    <3> QED
      BY <3>2 DEF Collected
  <2> QED
    BY <2>9, <2>10 DEF grown, ExtendedBy
<1>5. CASE ~(last > 0 /\ ref.address <= batches[last].end)
  <2>1. grown = Append(batches, new)
    BY <1>5 DEF Extend
  <2>2. new \in BatchType(asked)
    BY <1>1 DEF BatchType
  <2>3. GoodBatch(lo, hi, new) /\ new.start <= ref.address
    BY <1>1 DEF GoodBatch
  <2>4. /\ grown \in Seq(BatchType(asked)) /\ DOMAIN grown = 1..(last + 1)
        /\ \A j \in DOMAIN batches : grown[j] = batches[j]
        /\ grown[last + 1] = new
    <3> HIDE DEF grown, new
    <3> QED
      BY <1>2, <2>1, <2>2, Appended
  <2>5. new.refs = {ref}
    OBVIOUS
  <2> HIDE DEF grown, new
  <2>6. DOMAIN grown = DOMAIN batches \cup {last + 1}
    BY <1>2, <2>4
  <2>7. Grouped(asked, lo, hi, grown, ref)
    BY <1>3, <2>3, <2>4, <2>6 DEF Grouped
  <2>8. Collected(grown) = Collected(batches) \cup {ref}
    <3>1. \A x : (\E j \in DOMAIN grown : x \in grown[j].refs)
                  <=> (\E j \in DOMAIN batches : x \in batches[j].refs) \/ x = ref
      BY <2>4, <2>5, <2>6
    <3> QED
      BY <3>1 DEF Collected
  <2> QED
    BY <2>7, <2>8 DEF grown, ExtendedBy
<1> QED
  BY <1>4, <1>5

LEMMA NextRefIs ==
  ASSUME NEW left, left # {}, NEW lo \in Int,
         \A r \in left : r.address \in Int /\ lo <= r.address
  PROVE  NextRef(left) \in left /\ \A q \in left : NextRef(left).address <= q.address
<1> DEFINE T == {r.address - lo : r \in left}
<1>1. T \in SUBSET Nat /\ T # {}
  OBVIOUS
<1>2. PICK n \in T : \A m \in T : n <= m
  <2> HIDE DEF T
  <2> QED
    BY <1>1, LeastNumber
<1>3. PICK r \in left : n = r.address - lo
  BY <1>2
<1>4. \A q \in left : r.address <= q.address
  <2> TAKE q \in left
  <2>1. r.address - lo <= q.address - lo
    BY <1>2, <1>3
  <2> QED
    BY <2>1
<1> QED
  BY <1>4 DEF NextRef

\* The recursive function of GroupRegisterBatches exists.
LEMMA TakenExists ==
  ASSUME NEW refs, Cardinality(refs) \in Nat
  PROVE  \E f : /\ GroupRegisterBatches(refs) = f[Cardinality(refs)].batches
                /\ f[0] = [left |-> refs, batches |-> <<>>]
                /\ \A k \in 1..Cardinality(refs) : f[k] = TakeRef(f[k - 1])
<1> DEFINE N == Cardinality(refs)
           base == [left |-> refs, batches |-> <<>>]
           Body(f) == [k \in 0..N |-> IF k = 0 THEN base ELSE TakeRef(f[k - 1])]
           S == {n \in Nat :
                   \E f : f[0] = base /\ \A k \in 1..n : f[k] = TakeRef(f[k - 1])}
<1>1. GroupRegisterBatches(refs) = (CHOOSE f : f = Body(f))[N].batches
  BY DEF GroupRegisterBatches
<1> HIDE DEF N, base
<1>2. 0 \in S
  <2>1. [k \in 0..0 |-> base][0] = base /\ 1..0 = {}
    OBVIOUS
  <2> QED
    BY <2>1
<1>3. ASSUME NEW n \in Nat, n \in S PROVE n + 1 \in S
  <2>1. PICK f : f[0] = base /\ \A k \in 1..n : f[k] = TakeRef(f[k - 1])
    BY <1>3
  <2> DEFINE g == [k \in 0..(n + 1) |-> IF k <= n THEN f[k] ELSE TakeRef(f[n])]
  <2>2. g[0] = base
    BY <2>1
  <2>3. \A k \in 1..(n + 1) : g[k] = TakeRef(g[k - 1])
    <3> TAKE k \in 1..(n + 1)
    <3>1. CASE k \in 1..n
      BY <2>1, <3>1
    <3>2. CASE k = n + 1
      BY <3>2
    <3> QED
      BY <3>1, <3>2
  <2> HIDE DEF g
  <2> QED
    BY <2>2, <2>3
<1>4. N \in S
  <2>1. N \in Nat
    BY DEF N
  <2> HIDE DEF S
  <2> QED
    BY <1>2, <1>3, <2>1, Induction
<1>5. PICK f : f[0] = base /\ \A k \in 1..N : f[k] = TakeRef(f[k - 1])
  BY <1>4
<1>6. 0 \in 0..N /\ \A k \in 1..N : k \in 0..N /\ k # 0 /\ k - 1 \in 0..N
  BY DEF N
<1>7. \A k \in 0..N : k = 0 \/ k \in 1..N
  BY DEF N
<1> DEFINE g == [k \in 0..N |-> f[k]]
<1>8. g = Body(g)
  <2>1. \A k \in 0..N : f[k] = IF k = 0 THEN base ELSE TakeRef(g[k - 1])
    BY <1>5, <1>6, <1>7
  <2> HIDE DEF g
  <2> QED
    BY <2>1 DEF g
<1>9. PICK w : w = CHOOSE h : h = Body(h)
  OBVIOUS
<1>10. w = Body(w)
  <2> HIDE DEF Body, g
  <2> QED
    BY <1>8, <1>9
<1>11. w[0] = base /\ \A k \in 1..N : w[k] = TakeRef(w[k - 1])
  <2>1. \A k \in 0..N : w[k] = Body(w)[k]
    <3> HIDE DEF Body
    <3> QED
      BY <1>10
  <2> QED
    BY <1>6, <2>1
<1> QED
  BY <1>1, <1>9, <1>11 DEF N, base

\* `k` references have been put in batches, and no batch starts after one of
\* those that are left.
Taken(asked, lo, hi, state, k) ==
  /\ state.left \subseteq asked
  /\ Cardinality(state.left) = Cardinality(asked) - k
  /\ state.batches \in Seq(BatchType(asked))
  /\ Collected(state.batches) = asked \ state.left
  /\ \A j \in DOMAIN state.batches :
       /\ GoodBatch(lo, hi, state.batches[j])
       /\ \A r \in state.left : state.batches[j].start <= r.address

LEMMA TakeKeeps ==
  ASSUME NEW asked, IsFiniteSet(asked), NEW lo \in Int, NEW hi \in Int,
         \A r \in asked : Fits(lo, hi, r),
         NEW state, NEW k \in Nat, k < Cardinality(asked),
         Taken(asked, lo, hi, state, k)
  PROVE  Taken(asked, lo, hi, TakeRef(state), k + 1)
<1> DEFINE left == state.left
           ref == NextRef(left)
           taken == TakeRef(state)
           batches == Extend(state.batches, ref)
<1>1. taken.left = left \ {ref} /\ taken.batches = batches
  BY DEF TakeRef
<1>2. /\ IsFiniteSet(left) /\ Cardinality(asked) \in Nat
      /\ Cardinality(left) = Cardinality(asked) - k /\ left \subseteq asked
  BY FS_Subset, FS_CardinalityType DEF Taken
<1>3. left # {}
  <2>1. Cardinality(left) # 0
    BY <1>2
  <2> QED
    BY <2>1, FS_EmptySet
<1>4. \A r \in left : r.address \in Int /\ lo <= r.address
  BY <1>2 DEF Fits
<1>5. ref \in left /\ \A q \in left : ref.address <= q.address
  <2> HIDE DEF left
  <2> QED
    BY <1>3, <1>4, NextRefIs
<1>6. Cardinality(left \ {ref}) = Cardinality(asked) - (k + 1)
  <2> HIDE DEF left, ref
  <2>1. Cardinality(left \ {ref}) = Cardinality(left) - 1
    BY <1>2, <1>5, FS_RemoveElement
  <2> QED
    BY <1>2, <2>1
<1>7. ref \in asked
  BY <1>2, <1>5
<1> HIDE DEF ref, taken
<1>8. Grouped(asked, lo, hi, state.batches, ref)
  BY <1>5 DEF Taken, Grouped
<1>9. /\ Grouped(asked, lo, hi, batches, ref)
      /\ Collected(batches) = Collected(state.batches) \cup {ref}
  <2> DEFINE old == state.batches
  <2>1. Grouped(asked, lo, hi, old, ref)
    BY <1>8
  <2> HIDE DEF old
  <2>2. ExtendedBy(asked, lo, hi, old, ref)
    BY <1>7, <2>1, ExtendGroups
  <2> QED
    BY <2>2 DEF old, ExtendedBy
<1> HIDE DEF batches
<1>10. Collected(batches) = asked \ (left \ {ref})
  BY <1>7, <1>9 DEF Taken
<1>11. \A j \in DOMAIN batches : \A r \in left : batches[j].start <= r.address
  <2> SUFFICES ASSUME NEW j \in DOMAIN batches, NEW r \in left
               PROVE  batches[j].start <= r.address
    OBVIOUS
  <2>1. batches[j] \in BatchType(asked) /\ batches[j].start <= ref.address
    BY <1>9 DEF Grouped
  <2>2. batches[j].start \in Int
    BY <2>1 DEF BatchType
  <2> HIDE DEF left
  <2> QED
    BY <1>4, <1>5, <2>1, <2>2
<1> HIDE DEF left
<1> QED
  BY <1>1, <1>2, <1>6, <1>9, <1>10, <1>11 DEF Taken, Grouped, left, taken

\* Whatever is asked is batched, each reference in a batch that has it.
LEMMA BatchesCover ==
  ASSUME NEW asked, IsFiniteSet(asked), NEW lo \in Int, NEW hi \in Int,
         \A r \in asked : Fits(lo, hi, r)
  PROVE  /\ GroupRegisterBatches(asked) \in Seq(BatchType(asked))
         /\ Collected(GroupRegisterBatches(asked)) = asked
         /\ \A j \in DOMAIN GroupRegisterBatches(asked) :
              GoodBatch(lo, hi, GroupRegisterBatches(asked)[j])
<1> DEFINE N == Cardinality(asked)
<1>1. N \in Nat
  BY FS_CardinalityType
<1>2. PICK f : /\ GroupRegisterBatches(asked) = f[N].batches
               /\ f[0] = [left |-> asked, batches |-> <<>>]
               /\ \A k \in 1..N : f[k] = TakeRef(f[k - 1])
  BY <1>1, TakenExists
<1> DEFINE S == {k \in Nat : k <= N => Taken(asked, lo, hi, f[k], k)}
<1>3. 0 \in S
  <2>1. f[0].left = asked /\ f[0].batches = <<>>
    BY <1>2
  <2>2. <<>> \in Seq(BatchType(asked)) /\ DOMAIN <<>> = {}
    OBVIOUS
  <2>3. Collected(<<>>) = {}
    BY <2>2 DEF Collected
  <2>4. Cardinality(asked) - 0 = Cardinality(asked)
    BY <1>1
  <2>5. Taken(asked, lo, hi, f[0], 0)
    BY <2>1, <2>2, <2>3, <2>4 DEF Taken
  <2> QED
    BY <2>5
<1>4. ASSUME NEW k \in Nat, k \in S PROVE k + 1 \in S
  <2> SUFFICES ASSUME k + 1 <= N PROVE Taken(asked, lo, hi, f[k + 1], k + 1)
    OBVIOUS
  <2>1. k < N /\ k + 1 \in 1..N /\ (k + 1) - 1 = k
    BY <1>1
  <2>2. Taken(asked, lo, hi, f[k], k)
    BY <1>1, <1>4, <2>1
  <2>3. f[k + 1] = TakeRef(f[k])
    BY <1>2, <2>1
  <2> QED
    BY <2>1, <2>2, <2>3, TakeKeeps
<1>5. Taken(asked, lo, hi, f[N], N)
  <2>1. N \in S
    <3> HIDE DEF S, N
    <3> QED
      BY <1>1, <1>3, <1>4, Induction
  <2> QED
    BY <1>1, <2>1
<1>6. f[N].left = {}
  <2>1. IsFiniteSet(f[N].left) /\ Cardinality(f[N].left) = N - N
    BY <1>5, FS_Subset DEF Taken
  <2> QED
    BY <1>1, <2>1, FS_EmptySet
<1> QED
  BY <1>2, <1>5, <1>6 DEF Taken

-----------------------------------------------------------------------------
(* Every accepted configuration. *)

\* A register reference lies between the ends of its poller's block.
LEMMA FitsInBlock ==
  ASSUME NEW p \in PollerType, NEW ref \in RefType,
         OnRegisters(p.fc), WellFormed(ref, p), CheckSanity(ref, p)
  PROVE  Fits(p.start, p.start + p.size, ref)
<1> DEFINE width == RefWidth[ref.dtype]
<1>1. ~OnBits(p.fc)
  BY DEF OnBits, OnRegisters
<1>2. ref.address \in Int /\ p.start \in Nat /\ p.size \in Nat /\ width \in Nat
  BY DEF RefType, PollerType, PollerRecord, Dtypes, RefWidth
<1>3. {ref.address, ref.address + width - 1} \subseteq p.start..(p.start + p.size - 1)
  BY <1>1 DEF CheckSanity
<1> HIDE DEF width
<1>4. p.start <= ref.address /\ ref.address + width <= p.start + p.size
  BY <1>2, <1>3
<1> QED
  BY <1>2, <1>4 DEF Fits, width

\* The reference is one of its device's, and belongs to a poller of it.
LEMMA ReferenceOf ==
  ASSUME BoundInv, NEW f \in DOMAIN files, NEW d \in DOMAIN files[f],
         NEW ref \in Range(files[f][d].refs)
  PROVE  LET p == PollerOf(files[f], ref)
         IN /\ ref.poller[1] = d
            /\ ref \in RefType /\ p \in PollerType
            /\ WellFormed(ref, p) /\ CheckSanity(ref, p)
<1> DEFINE devs == files[f]
           dev == devs[d]
<1>1. PICK r \in DOMAIN dev.refs : ref = dev.refs[r]
  BY DEF Range
<1>2. devs \in Seq(DeviceType) /\ FileBound(devs)
  BY DEF BoundInv
<1>3. ref.poller[1] = d
  BY <1>1, <1>2 DEF FileBound, BoundRight
<1> QED
  BY <1>1, <1>3, RefIsSane

LEMMA ReferenceReads ==
  ASSUME BoundInv, NEW f \in DOMAIN files, NEW d \in DOMAIN files[f],
         NEW ref \in Range(files[f][d].refs)
  PROVE  LET p == PollerOf(files[f], ref)
             dev == files[f][d]
         IN /\ PolledValue(files[f], ref) = OwnValue(dev, p, ref)
            /\ OnBits(p.fc) => ReadCoilReference(dev, p, ref) = OwnValue(dev, p, ref)
<1> DEFINE devs == files[f]
           dev == devs[d]
           p == PollerOf(devs, ref)
           block == Response(dev.id, p.fc, p.start, p.size)
<1>1. /\ ref.poller[1] = d /\ ref \in RefType /\ p \in PollerType
      /\ WellFormed(ref, p) /\ CheckSanity(ref, p)
  BY ReferenceOf
<1>2. PolledValue(devs, ref)
        = IF OnBits(p.fc) THEN DecodeCoilBits(p, ref, block, p.start)
          ELSE DecodeRegisterBlock(p, ref, block, p.start)
  BY <1>1 DEF PolledValue
<1>3. p.fc \in 1..4 /\ p.start \in Nat /\ p.size \in Nat
  BY <1>1 DEF PollerType, PollerRecord
<1> HIDE DEF p, dev
<1>4. CASE OnBits(p.fc)
  BY <1>1, <1>2, <1>4, CoilsReadAlike DEF p, dev
<1>5. CASE ~OnBits(p.fc)
  <2>1. OnRegisters(p.fc)
    BY <1>3, <1>5 DEF OnBits, OnRegisters
  <2>2. Fits(p.start, p.start + p.size, ref)
    BY <1>1, <2>1, FitsInBlock
  <2>3. DecodeRegisterBlock(p, ref, block, p.start) = OwnValue(dev, p, ref)
    BY <1>1, <1>3, <2>1, <2>2, RegistersDecoded DEF Fits
  <2> QED
    BY <1>2, <1>5, <2>3 DEF p, dev
<1> QED
  BY <1>4, <1>5

\* What a get makes of the references asked of one poller.
BatchesRead(dev, p, asked) ==
  LET batches == GroupRegisterBatches(asked)
  IN /\ UNION {batch.refs : batch \in Range(batches)} = asked
     /\ \A batch \in Range(batches) :
          /\ batch.start >= p.start /\ batch.end <= p.start + p.size
          /\ \A ref \in batch.refs :
               /\ ref.address + RefWidth[ref.dtype] <= batch.end
               /\ DecodeRegisterBlock(p, ref,
                    BatchResponse(dev, p, batch), batch.start)
                  = OwnValue(dev, p, ref)

LEMMA GetReads ==
  ASSUME BoundInv, NEW f \in DOMAIN files, NEW d \in DOMAIN files[f],
         NEW p \in PollerType, OnRegisters(p.fc),
         NEW asked \in SUBSET {ref \in Range(files[f][d].refs) :
                                 PollerOf(files[f], ref) = p}
  PROVE  BatchesRead(files[f][d], p, asked)
<1> DEFINE devs == files[f]
           dev == devs[d]
           lo == p.start
           hi == p.start + p.size
           batches == GroupRegisterBatches(asked)
<1>1. \A ref \in asked : /\ ref \in RefType /\ WellFormed(ref, p)
                         /\ CheckSanity(ref, p)
  BY ReferenceOf
<1>2. lo \in Int /\ hi \in Int
  BY DEF PollerType, PollerRecord
<1>3. \A ref \in asked : Fits(lo, hi, ref)
  BY <1>1, FitsInBlock
<1>4. IsFiniteSet(asked)
  <2>1. dev.refs \in Seq(RefType)
    <3>1. devs \in Seq(DeviceType)
      BY DEF BoundInv
    <3> HIDE DEF devs
    <3>2. dev \in DeviceType
      BY <3>1 DEF devs
    <3> QED
      BY <3>2 DEF DeviceType
  <2> DEFINE refs == dev.refs
  <2>2. IsFiniteSet(DOMAIN refs)
    <3> HIDE DEF refs
    <3> QED
      BY <2>1, FS_Interval DEF refs
  <2>3. IsFiniteSet(Range(refs))
    <3>1. refs \in [DOMAIN refs -> Range(refs)]
      <4> HIDE DEF refs
      <4> QED
        BY <2>1 DEF Range, refs
    <3> HIDE DEF refs
    <3>2. refs \in Surjection(DOMAIN refs, Range(refs))
      BY <3>1 DEF Surjection, Range
    <3> QED
      BY <2>2, <3>2, FS_Surjection
  <2> QED
    BY <2>3, FS_Subset
<1> HIDE DEF dev, lo, hi
<1>5. /\ batches \in Seq(BatchType(asked)) /\ Collected(batches) = asked
      /\ \A j \in DOMAIN batches : GoodBatch(lo, hi, batches[j])
  BY <1>2, <1>3, <1>4, BatchesCover
<1> HIDE DEF batches
<1>6. UNION {batch.refs : batch \in Range(batches)} = asked
  BY <1>5 DEF Collected, Range
<1>7. ASSUME NEW batch \in Range(batches)
      PROVE  /\ batch \in BatchType(asked) /\ GoodBatch(lo, hi, batch)
  BY <1>5 DEF Range
<1>8. ASSUME NEW batch \in Range(batches), NEW ref \in batch.refs
      PROVE  DecodeRegisterBlock(p, ref, BatchResponse(dev, p, batch), batch.start)
             = OwnValue(dev, p, ref)
  <2> DEFINE s == batch.start
             n == batch.end - batch.start
  <2>1. ref \in asked /\ s \in Int /\ batch.end \in Int
    BY <1>7 DEF BatchType
  <2>2. /\ s <= ref.address /\ ref.address + RefWidth[ref.dtype] <= batch.end
        /\ s <= batch.end
    BY <1>7 DEF GoodBatch
  <2>3. n \in Nat /\ s + n = batch.end
    BY <2>1, <2>2
  <2>4. ref \in RefType /\ WellFormed(ref, p)
    BY <1>1, <2>1
  <2>5. BatchResponse(dev, p, batch) = Response(dev.id, p.fc, s, n)
    BY DEF BatchResponse
  <2> HIDE DEF s, n
  <2>6. DecodeRegisterBlock(p, ref, Response(dev.id, p.fc, s, n), s)
          = OwnValue(dev, p, ref)
    BY <2>1, <2>2, <2>3, <2>4, RegistersDecoded
  <2> QED
    BY <2>5, <2>6 DEF s
<1>9. \A batch \in Range(batches) :
        /\ batch.start >= p.start /\ batch.end <= p.start + p.size
        /\ \A ref \in batch.refs : ref.address + RefWidth[ref.dtype] <= batch.end
  <2> SUFFICES ASSUME NEW batch \in Range(batches)
               PROVE  /\ batch.start >= p.start /\ batch.end <= p.start + p.size
                      /\ \A ref \in batch.refs :
                           ref.address + RefWidth[ref.dtype] <= batch.end
    OBVIOUS
  <2>1. lo <= batch.start /\ batch.end <= hi
    BY <1>7 DEF GoodBatch
  <2>2. batch.start \in Int
    BY <1>7 DEF BatchType
  <2> QED
    BY <1>2, <1>7, <2>1, <2>2 DEF lo, hi, GoodBatch
<1> QED
  BY <1>6, <1>8, <1>9 DEF BatchesRead, batches, dev

\* ReadsAgree for one device.
DeviceReads(devs, dev) ==
  /\ \A ref \in ReadableRefs(dev) :
       LET p == PollerOf(devs, ref)
       IN /\ PolledValue(devs, ref) = OwnValue(dev, p, ref)
          /\ OnBits(p.fc) => ReadCoilReference(dev, p, ref) = OwnValue(dev, p, ref)
  /\ \A p \in {q \in Range(dev.pollers) : OnRegisters(q.fc)} :
       \A asked \in SUBSET {ref \in ReadableRefs(dev) : PollerOf(devs, ref) = p} :
         BatchesRead(dev, p, asked)

LEMMA BoundReadsAgree == BoundInv => ReadsAgree
<1> SUFFICES ASSUME BoundInv PROVE ReadsAgree
  OBVIOUS
<1>1. ASSUME NEW f \in DOMAIN files, NEW d \in DOMAIN files[f]
      PROVE  DeviceReads(files[f], files[f][d])
  <2> DEFINE devs == files[f]
             dev == devs[d]
  <2>1. \A ref \in ReadableRefs(dev) : ref \in Range(dev.refs)
    BY DEF ReadableRefs
  <2>2. dev.pollers \in Seq(PollerType)
    <3>1. devs \in Seq(DeviceType)
      BY DEF BoundInv
    <3> HIDE DEF devs
    <3>2. dev \in DeviceType
      BY <3>1 DEF devs
    <3> QED
      BY <3>2 DEF DeviceType
  <2>3. \A p \in Range(dev.pollers) : p \in PollerType
    BY <2>2 DEF Range
  <2>4. \A ref \in ReadableRefs(dev) :
          LET p == PollerOf(devs, ref)
          IN /\ PolledValue(devs, ref) = OwnValue(dev, p, ref)
             /\ OnBits(p.fc) =>
                  ReadCoilReference(dev, p, ref) = OwnValue(dev, p, ref)
    BY <2>1, ReferenceReads
  <2>5. \A p \in {q \in Range(dev.pollers) : OnRegisters(q.fc)} :
          \A asked \in SUBSET {ref \in ReadableRefs(dev) : PollerOf(devs, ref) = p} :
            BatchesRead(dev, p, asked)
    <3> SUFFICES ASSUME NEW p \in Range(dev.pollers), OnRegisters(p.fc),
                        NEW asked \in SUBSET {ref \in ReadableRefs(dev) :
                                                PollerOf(devs, ref) = p}
                 PROVE  BatchesRead(dev, p, asked)
      OBVIOUS
    <3>1. asked \in SUBSET {ref \in Range(dev.refs) : PollerOf(devs, ref) = p}
      BY <2>1
    <3> QED
      BY <2>3, <3>1, GetReads
  <2> QED
    BY <2>4, <2>5 DEF DeviceReads
<1>2. \A devs \in Range(files) : \A dev \in Range(devs) : DeviceReads(devs, dev)
  BY <1>1 DEF Range
<1> QED
  BY <1>2 DEF ReadsAgree, DeviceReads, BatchesRead

\* Poller.poll and read_references: for every configuration, width of the word
\* and order of bytes and words, a readable reference is decoded from its own
\* cells, by a poll of its whole block and by a get for it with any others of
\* its device; and no request leaves the block.
THEOREM ReadAlike == Spec => []ReadsAgree
<1>1. Init => AccessInv
  BY AccessInit
<1>2. AccessInv /\ [Next]_vars => AccessInv'
  BY AccessStep
<1>3. AccessInv => ReadsAgree
  BY BoundReadsAgree DEF AccessInv
<1> QED
  BY <1>1, <1>2, <1>3, PTL DEF Spec
=============================================================================
