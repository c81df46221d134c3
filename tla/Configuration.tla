---------------------------- MODULE Configuration ----------------------------
(***************************************************************************)
(* parse_config (modpoll/configuration.py) over the rows of one or more    *)
(* files, load_configurations (modpoll/modbus_task.py), and the parts of   *)
(* Device, Poller and Reference (modpoll/modbus_models.py) they construct. *)
(*                                                                         *)
(* A row is read with two cursors that the rows before it left behind: the *)
(* current device, which is the last one, and the current poller.          *)
(***************************************************************************)
EXTENDS Integers, Sequences, RegisterCodec

CONSTANTS
  NONE,
  Rows,          \* the rows a file may have
  MaxRows,       \* bound: rows of all files together
  MaxFiles,      \* bound: configuration files
  AddressSpace,  \* 65536
  MaxRegisters,  \* registers one request may read: 125
  MaxCoils,      \* coils one request may read: 2000
  MaxDeviceId,   \* 255, or 247 on a serial line
  Collisions     \* sets of references that would share a payload key

ASSUME LimitAssumption ==
  /\ {MaxRows, AddressSpace, MaxDeviceId} \subseteq Nat /\ MaxFiles \in Nat \ {0}
  /\ MaxRegisters \in 1..AddressSpace /\ MaxCoils \in 1..AddressSpace

\* A cell that is no number never becomes a row: int() raises ValueError.
ASSUME RowAssumption == \A row \in Rows : row.kind = "ref" => row.address \in Int

VARIABLES
  status,   \* "parsing", "rejected" or "accepted"
  rows,     \* rows read so far
  files,    \* the devices of the files read before this one
  devices,  \* the devices of this file
  poller    \* the current poller, as <<device, its place>>, or NONE

configVars == <<status, rows, files, devices, poller>>

\* Registers a value takes; the bytes of a string. All types of one width
\* are decoded alike.
RefWidth == [bool |-> 1, bool8 |-> 1, bool16 |-> 1, uint16 |-> 1,
             uint32 |-> 2, uint64 |-> 4, string3 |-> 2]
StringBytes == [string3 |-> 3]
Dtypes == DOMAIN RefWidth

OnBits(fc) == fc \in {1, 2}
OnRegisters(fc) == fc \in {3, 4}

Names(list) == {list[k].name : k \in DOMAIN list}
Readable(ref) == ref.rw \in {"r", "rw"}
Writable(ref) == ref.rw \in {"w", "rw"}

ConfigInit ==
  /\ status = "parsing" /\ rows = 0
  /\ files = <<>> /\ devices = <<>> /\ poller = NONE

-----------------------------------------------------------------------------
\* Reference.check_sanity: the reference lies inside the poller. A group of
\* coils may reach past its end.
CheckSanity(ref, p) ==
  IF OnBits(p.fc)
  THEN \/ ref.dtype = "bool" /\ ref.bit = NONE
          /\ ref.address \in p.start..(p.start + p.size - 1)
       \/ ref.dtype \in {"bool8", "bool16"}
          /\ ref.address >= p.start
          /\ (ref.address - p.start) * ByteBits < p.size
  ELSE {ref.address, ref.address + RefWidth[ref.dtype] - 1}
         \subseteq p.start..(p.start + p.size - 1)

\* Reference.__init__, and the register bool that needs a bit.
WellFormed(ref, p) ==
  /\ ref.dtype \in Dtypes
  /\ ref.bit # NONE => ref.dtype = "bool" /\ ref.bit \in 0..(2 * ByteBits - 1)
  /\ OnRegisters(p.fc) /\ ref.dtype = "bool" => ref.bit # NONE

ReadNextRow == status = "parsing" /\ rows < MaxRows /\ rows' = rows + 1

-----------------------------------------------------------------------------
(* The rows. *)

AcceptsDevice(row) ==
  /\ row.kind = "device"
  /\ row.id \in 1..MaxDeviceId
  /\ row.name \notin Names(devices)

AddDevice(row) ==
  devices' = Append(devices, [name |-> row.name, id |-> row.id,
                              pollers |-> <<>>, refs |-> <<>>])

\* Mistake: the references that follow go to the last device's poller.
DeviceRowKeepsPoller(row) ==
  /\ ReadNextRow /\ AcceptsDevice(row)
  /\ AddDevice(row)
  /\ UNCHANGED <<status, files, poller>>

DeviceRow(row) ==
  /\ ReadNextRow /\ AcceptsDevice(row)
  /\ AddDevice(row)
  /\ poller' = NONE
  /\ UNCHANGED <<status, files>>

AcceptsPoll(row) ==
  /\ row.kind = "poll" /\ devices # <<>>
  /\ row.fc \in 1..4
  /\ row.size \in 1..(IF OnBits(row.fc) THEN MaxCoils ELSE MaxRegisters)
  /\ row.start \in 0..(AddressSpace - 1) /\ row.start + row.size <= AddressSpace
  /\ row.endian \in Endians

\* A poller that is there already is used again.
PollRow(row) ==
  LET d == Len(devices)
      list == devices[d].pollers
      same == {k \in DOMAIN list :
                 /\ list[k].fc = row.fc /\ list[k].start = row.start
                 /\ list[k].size = row.size /\ list[k].endian = row.endian}
      new == [fc |-> row.fc, start |-> row.start, size |-> row.size,
              endian |-> row.endian, readable |-> <<>>]
  IN /\ ReadNextRow /\ AcceptsPoll(row)
     /\ IF same # {}
        THEN /\ \E k \in same : poller' = <<d, k>>
             /\ UNCHANGED devices
        ELSE /\ devices' = [devices EXCEPT ![d].pollers = Append(@, new)]
             /\ poller' = <<d, Len(list) + 1>>
     /\ UNCHANGED <<status, files>>

CurrentPoller == devices[poller[1]].pollers[poller[2]]

AcceptsRef(row) ==
  /\ row.kind = "ref" /\ devices # <<>> /\ poller # NONE
  /\ row.name \notin Names(devices[Len(devices)].refs)
  /\ WellFormed(row, CurrentPoller)
  /\ CheckSanity(row, CurrentPoller)

RefRow(row) ==
  LET d == Len(devices)
      ref == [name |-> row.name, address |-> row.address, bit |-> row.bit,
              dtype |-> row.dtype, rw |-> row.rw, poller |-> poller]
      mapped == [devices EXCEPT ![d].refs = Append(@, ref)]
  IN /\ ReadNextRow /\ AcceptsRef(row)
     /\ devices' =
          IF Readable(ref)
          THEN [mapped EXCEPT ![poller[1]].pollers[poller[2]].readable =
                  Append(@, <<d, ref.name>>)]
          ELSE mapped
     /\ UNCHANGED <<status, files, poller>>

\* ConfigurationError: the gateway does not start.
Reject ==
  /\ status' = "rejected"
  /\ files' = <<>> /\ devices' = <<>> /\ poller' = NONE

RejectRow(row) ==
  /\ ReadNextRow
  /\ ~(AcceptsDevice(row) \/ AcceptsPoll(row) \/ AcceptsRef(row))
  /\ Reject

-----------------------------------------------------------------------------
(* The end of a file. *)

EarlierNames == UNION {Names(files[f]) : f \in DOMAIN files}

FileIsComplete ==
  /\ devices # <<>>
  /\ \A d \in DOMAIN devices : devices[d].pollers # <<>> /\ devices[d].refs # <<>>
  /\ Names(devices) \cap EarlierNames = {}
  /\ \A d \in DOMAIN devices : \A set \in Collisions :
       ~(set \subseteq Names(devices[d].refs))

\* Mistake: the poller of one file is still the current one in the next.
EndFileKeepsPoller ==
  /\ status = "parsing" /\ FileIsComplete
  /\ files' = Append(files, devices)
  /\ devices' = <<>>
  /\ \/ status' = "accepted"
     \/ Len(files) + 1 < MaxFiles /\ UNCHANGED status
  /\ UNCHANGED <<rows, poller>>

EndFile ==
  /\ status = "parsing" /\ FileIsComplete
  /\ files' = Append(files, devices)
  /\ devices' = <<>> /\ poller' = NONE
  /\ \/ status' = "accepted"
     \/ Len(files) + 1 < MaxFiles /\ UNCHANGED status
  /\ UNCHANGED rows

RejectFile ==
  /\ status = "parsing" /\ ~FileIsComplete
  /\ Reject
  /\ UNCHANGED rows

ReadRow ==
  \E row \in Rows :
    DeviceRow(row) \/ PollRow(row) \/ RefRow(row) \/ RejectRow(row)

Parse == ReadRow \/ EndFile \/ RejectFile

-----------------------------------------------------------------------------
(* Properties. *)

ConfigTypeOK ==
  /\ status \in {"parsing", "rejected", "accepted"}
  /\ rows \in 0..MaxRows
  /\ Len(files) <= MaxFiles
  /\ poller # NONE => /\ poller[1] \in DOMAIN devices
                      /\ poller[2] \in DOMAIN devices[poller[1]].pollers
  /\ status = "rejected" => files = <<>> /\ devices = <<>>
  /\ status = "accepted" => files # <<>> /\ devices = <<>>

\* The poller reads the reference's registers, or its first coil.
Covers(p, ref) ==
  LET first == IF ref.dtype \in {"bool8", "bool16"} /\ OnBits(p.fc)
               THEN p.start + (ref.address - p.start) * ByteBits
               ELSE ref.address
      last == IF OnBits(p.fc) THEN first
              ELSE ref.address + RefWidth[ref.dtype] - 1
  IN first >= p.start /\ last < p.start + p.size

\* What poller k of device d lists, and what it should.
Listed(p) == {p.readable[j] : j \in DOMAIN p.readable}
OwnReadable(dev, d, k) ==
  {<<d, dev.refs[r].name>> :
     r \in {q \in DOMAIN dev.refs : /\ Readable(dev.refs[q])
                                    /\ dev.refs[q].poller = <<d, k>>}}

\* The reference is bound to a poller of its own device that covers it, and
\* that poller lists exactly its own readable references.
BoundRight(dev, d) ==
  /\ \A r \in DOMAIN dev.refs :
       LET ref == dev.refs[r]
       IN /\ ref.poller[1] = d
          /\ ref.poller[2] \in DOMAIN dev.pollers
          /\ Covers(dev.pollers[ref.poller[2]], ref)
  /\ \A k \in DOMAIN dev.pollers : Listed(dev.pollers[k]) = OwnReadable(dev, d, k)

NamesDistinct(list) ==
  \A j, k \in DOMAIN list : list[j].name = list[k].name => j = k

\* Whatever rows came before, a reference belongs to the device it was written
\* under and to one poller of that device; names are unique where a topic or a
\* payload needs them to be: references within a device, devices within and
\* across files.
ReferencesBound ==
  LET all == Append(files, devices)
  IN /\ \A f \in DOMAIN all :
          /\ NamesDistinct(all[f])
          /\ \A d \in DOMAIN all[f] :
               BoundRight(all[f][d], d) /\ NamesDistinct(all[f][d].refs)
     /\ \A f, g \in DOMAIN files :
          Names(files[f]) \cap Names(files[g]) # {} => f = g
=============================================================================
