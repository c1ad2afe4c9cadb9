---------------------------- MODULE WireFormats ----------------------------
(***************************************************************************)
(* The byte formats the program reads back: input payloads and the packets *)
(* that carry them (src/network_security.cpp), corrections and the         *)
(* reference datagrams that carry them (modules/distributed_reference),    *)
(* durable timeline records (src/temporal_contract.cpp) and the plaintext  *)
(* of a protected bundle (src/production_security.cpp).  A message is      *)
(* encoded, bytes of it are changed, lost or added on the way, and         *)
(* whatever is left is decoded.                                            *)
(*                                                                         *)
(* A message is a sequence of cells.  A cell <<b>> is one byte, of Base    *)
(* values; the cell of a digest or of a tag holds what was hashed, and     *)
(* reads as DigestByte where a decoder takes it for a number.  The widths  *)
(* of the integers, in cells, are constants.                               *)
(***************************************************************************)
EXTENDS Integers, SequencesExt

CONSTANTS
  Base,                  \* values of a byte
  U16, U32, U64,         \* bytes of the integers; Fixed::rep has U64
  DigestByte,            \* what a byte of a digest reads as
  MaximumAcceleration,   \* maximum_acceleration_raw
  MaximumInputs,         \* limits.maximum_input_commands, input_buffer_.size()
  MaximumPayload,        \* limits.maximum_payload_bytes
  MaximumRecord,         \* maximum_record_bytes_
  MaximumEntries,        \* the 1'024 entries of a bundle
  MaximumPath,           \* the 4'096 bytes of a path
  MaximumBundle,         \* maximum_plaintext_bytes
  CommandLists,          \* lists of [entity, x, y]
  Records, Bundles,      \* records and bundles to be written
  MaxDamage              \* bound: changes on the way

VARIABLES
  format,    \* the format of the message
  message,   \* what was encoded
  bytes,     \* what arrives
  damage     \* changes so far

vars == <<format, message, bytes, damage>>

\* The one version and the magic number every format has.
Version == 1
Magic == 1
HmacKey == <<2>>

Digest(cells) == <<<<-1, cells>>>>
Tag(key, cells) == <<<<-1, <<key>> \o cells>>>>

Byte(cell) == IF Len(cell) = 1 THEN cell[1] ELSE DigestByte

Sub(cells, from, length) == SubSeq(cells, from + 1, from + length)

\* append_little_endian and append_big_endian; a negative number is written
\* in two's complement
Little(value, width) ==
  [i \in 1..width |-> <<((value % Base^width) \div Base^(i - 1)) % Base>>]

Big(value, width) == Reverse(Little(value, width))

\* read_little_endian and read_big_endian at a cursor
ReadLittle(cells, at, width) ==
  LET value[i \in 0..width] ==
        IF i = 0 THEN 0
        ELSE value[i - 1] + Byte(cells[at + i]) * Base^(i - 1)
  IN value[width]

ReadBig(cells, at, width) == ReadLittle(Reverse(Sub(cells, at, width)), 0, width)

AsSigned(n) == IF 2 * n >= Base^U64 THEN n - Base^U64 ELSE n

\* Where the fields of a header of these widths end
Offset(widths, field) == FoldLeft(+, 0, SubSeq(widths, 1, field))

HeaderLittle(cells, widths, field) ==
  ReadLittle(cells, Offset(widths, field - 1), widths[field])

HeaderBig(cells, widths, field) ==
  ReadBig(cells, Offset(widths, field - 1), widths[field])

-----------------------------------------------------------------------------
(* Commands *)

CommandBytes == U32 + 2 * U64

EncodeCommand(command) ==
  Little(command.entity, U32) \o Little(command.x, U64) \o Little(command.y, U64)

EncodeCommands(commands) ==
  FlattenSeq([i \in DOMAIN commands |-> EncodeCommand(commands[i])])

\* The commands that follow a header, as they are read
CommandsAt(cells, header, count) ==
  [i \in 1..count |->
     LET at == header + (i - 1) * CommandBytes IN
     [entity |-> ReadLittle(cells, at, U32),
      x |-> AsSigned(ReadLittle(cells, at + U32, U64)),
      y |-> AsSigned(ReadLittle(cells, at + U32 + U64, U64))]]

\* absolute_exceeds
AbsoluteExceeds(value) ==
  \/ 2 * value = -(Base^U64)
  \/ (IF value < 0 THEN -value ELSE value) > MaximumAcceleration

CommandRejection(command) ==
  IF command.entity = 0 THEN "InvalidEntity"
  ELSE IF AbsoluteExceeds(command.x) \/ AbsoluteExceeds(command.y)
       THEN "AccelerationOutOfRange" ELSE "None"

Rejected(reason) == [reason |-> reason, value |-> <<>>]
Accepted(value) == [reason |-> "None", value |-> value]

EncodeInputPayload(commands) ==
  Little(Len(commands), U16) \o EncodeCommands(commands)

\* A mutant: bytes after the last command are ignored.
ParseInputPayloadPrefix(cells) ==
  IF Len(cells) < U16 THEN Rejected("HeaderTruncated")
  ELSE LET count == ReadLittle(cells, 0, U16) IN
    IF count > MaximumInputs THEN Rejected("TooManyCommands")
    ELSE IF Len(cells) < U16 + count * CommandBytes
         THEN Rejected("InvalidLength")
    ELSE LET commands == CommandsAt(cells, U16, count)
             wrong == {i \in 1..count : CommandRejection(commands[i]) # "None"}
         IN IF wrong = {} THEN Accepted(commands) ELSE Rejected("InvalidEntity")

\* parse_input_payload: the first wrong command gives the reason
ParseInputPayload(cells) ==
  IF Len(cells) < U16 THEN Rejected("HeaderTruncated")
  ELSE LET count == ReadLittle(cells, 0, U16) IN
    IF count > MaximumInputs THEN Rejected("TooManyCommands")
    ELSE IF Len(cells) # U16 + count * CommandBytes
         THEN Rejected("InvalidLength")
    ELSE LET commands == CommandsAt(cells, U16, count)
             wrong == {i \in 1..count : CommandRejection(commands[i]) # "None"}
         IN IF wrong = {} THEN Accepted(commands)
            ELSE Rejected(CommandRejection(
                   commands[CHOOSE i \in wrong : \A j \in wrong : i <= j]))

PacketHeader == <<U32, U16, U16, U64, U64, U64, U32>>

\* encode_authenticated_packet of an input payload
EncodePacket(packet) ==
  LET payload == EncodeInputPayload(packet.commands)
      signed == Little(Magic, U32) \o Little(Version, U16) \o Little(0, U16)
                  \o Little(packet.session, U64) \o Little(packet.sequence, U64)
                  \o Little(packet.sent, U64) \o Little(Len(payload), U32)
                  \o payload
  IN signed \o Tag(HmacKey, signed)

\* The header and the tag of a packet as NetworkSecurityGateway::process
\* reads them, then the payload
DecodePacket(cells) ==
  LET header == Offset(PacketHeader, 7)
      field(i) == HeaderLittle(cells, PacketHeader, i)
  IN IF Len(cells) < header + 1 THEN Rejected("DatagramTooSmall")
     ELSE IF Len(cells) > header + MaximumPayload + 1
          THEN Rejected("DatagramTooLarge")
     ELSE IF field(1) # Magic THEN Rejected("InvalidMagic")
     ELSE IF field(2) # Version THEN Rejected("UnsupportedVersion")
     ELSE IF field(3) # 0 THEN Rejected("UnsupportedFlags")
     ELSE IF field(7) > MaximumPayload \/ Len(cells) # header + field(7) + 1
          THEN Rejected("InvalidLength")
     ELSE LET signed == Sub(cells, 0, header + field(7)) IN
       IF Tag(HmacKey, signed) # <<cells[Len(cells)]>>
       THEN Rejected("AuthenticationFailed")
       ELSE LET parsed == ParseInputPayload(Sub(cells, header, field(7))) IN
         IF parsed.reason # "None" THEN parsed
         ELSE Accepted([session |-> field(4), sequence |-> field(5),
                        sent |-> field(6), commands |-> parsed.value])

-----------------------------------------------------------------------------
(* Corrections and reference datagrams *)

CorrectionHeader == U16 + U16 + U32

\* encode_inputs
EncodeInputs(commands) ==
  Little(Version, U16) \o Little(0, U16) \o Little(Len(commands), U32)
    \o EncodeCommands(commands)

\* decode_inputs
DecodeInputs(cells) ==
  LET count == ReadLittle(cells, 2 * U16, U32)
      commands == CommandsAt(cells, CorrectionHeader, count)
      correct == /\ Len(cells) >= CorrectionHeader
                 /\ ReadLittle(cells, 0, U16) = Version
                 /\ ReadLittle(cells, U16, U16) = 0
                 /\ Len(cells) = CorrectionHeader + count * CommandBytes
                 /\ \A i \in 1..count : commands[i].entity # 0
  IN IF correct THEN Accepted(commands) ELSE Rejected("CorruptPayload")

DatagramHeader == <<U32, U16, U16, U64, U64, U32, U64, U32>>

\* A mutant: the digest is that of the payload alone.
DatagramDigestOfPayload(prefix, payload) == Digest(payload)

\* datagram_digest
DatagramDigest(prefix, payload) == Digest(prefix \o payload)

\* encode_reference_datagram of a correction
EncodeDatagram(datagram) ==
  LET payload == EncodeInputs(datagram.commands)
      prefix == Big(Magic, U32) \o Big(Version, U16) \o Big(datagram.kind, U16)
                  \o Big(datagram.epoch, U64) \o Big(datagram.sequence, U64)
                  \o Big(datagram.channel, U32) \o Big(datagram.frame, U64)
                  \o Big(Len(payload), U32)
  IN prefix \o DatagramDigest(prefix, payload) \o payload

\* decode_reference_datagram, then decode_inputs of what it carries
DecodeDatagram(cells) ==
  LET header == Offset(DatagramHeader, 8)
      field(i) == HeaderBig(cells, DatagramHeader, i)
      payload == SubSeq(cells, header + 2, Len(cells))
  IN IF Len(cells) < header + 1 \/ field(1) # Magic
     THEN Rejected("MalformedDatagram")
     ELSE IF field(2) # Version THEN Rejected("UnsupportedVersion")
     ELSE IF Len(cells) # header + 1 + field(8)
          THEN Rejected("MalformedDatagram")
     ELSE IF <<cells[header + 1]>> # DatagramDigest(Sub(cells, 0, header), payload)
          THEN Rejected("IntegrityMismatch")
     ELSE LET decoded == DecodeInputs(payload) IN
       IF decoded.reason # "None" THEN decoded
       ELSE Accepted([kind |-> field(3), epoch |-> field(4),
                      sequence |-> field(5), channel |-> field(6),
                      frame |-> field(7), commands |-> decoded.value])

-----------------------------------------------------------------------------
(* Durable records *)

RecordHeader == <<U64, U16, U16, U64, U64, U64, U64, U64, U64>>

\* The three digests after the numbers, and the one at the end
RecordPrefix == Offset(RecordHeader, 9) + 3

\* encode_record
EncodeRecord(record) ==
  LET numbers == Little(Magic, U64) \o Little(Version, U16) \o Little(0, U16)
        \o Little(record.sequence, U64) \o Little(record.branch, U64)
        \o Little(record.first, U64) \o Little(record.last, U64)
        \o Little(Len(record.timeline), U64) \o Little(Len(record.evidence), U64)
      content == numbers \o <<record.previous>> \o Digest(record.timeline)
        \o Digest(record.evidence) \o record.timeline \o record.evidence
  IN content \o Digest(content)

\* A mutant: the digest at the end is not compared.
TextDigestsHold(cells, timeline, evidence) ==
  /\ <<cells[RecordPrefix - 1]>> = Digest(timeline)
  /\ <<cells[RecordPrefix]>> = Digest(evidence)

\* The three comparisons of digests that end decode_record
RecordDigestsHold(cells, timeline, evidence) ==
  /\ <<cells[RecordPrefix - 1]>> = Digest(timeline)
  /\ <<cells[RecordPrefix]>> = Digest(evidence)
  /\ <<cells[Len(cells)]>> = Digest(Sub(cells, 0, Len(cells) - 1))

\* decode_record, by a recorder that expects this sequence and predecessor
DecodeRecord(cells, sequence, previous) ==
  LET field(i) == HeaderLittle(cells, RecordHeader, i)
      timeline == Sub(cells, RecordPrefix, field(8))
      evidence == Sub(cells, RecordPrefix + field(8), field(9))
  IN IF Len(cells) > MaximumRecord THEN Rejected("RecordTooLarge")
     ELSE IF \/ Len(cells) < RecordPrefix + 1
             \/ field(1) # Magic \/ field(2) # Version \/ field(3) # 0
          THEN Rejected("CorruptRecord")
     ELSE IF field(4) # sequence THEN Rejected("SequenceMismatch")
     ELSE IF cells[RecordPrefix - 2] # previous THEN Rejected("ChainMismatch")
     ELSE IF \/ field(5) = 0 \/ field(6) > field(7)
             \/ field(8) = 0 \/ field(9) = 0
             \/ Len(cells) # RecordPrefix + field(8) + field(9) + 1
             \/ ~RecordDigestsHold(cells, timeline, evidence)
          THEN Rejected("CorruptRecord")
     ELSE Accepted([sequence |-> field(4), branch |-> field(5),
                    first |-> field(6), last |-> field(7),
                    previous |-> cells[RecordPrefix - 2],
                    timeline |-> timeline, evidence |-> evidence])

-----------------------------------------------------------------------------
(* The plaintext of a protected bundle *)

\* append_sized_string
Sized(text) == Little(Len(text), U64) \o text

\* canonical_bundle_bytes; the domain is one cell
EncodeBundle(bundle) ==
  Little(Magic, U16) \o Little(Version, U16) \o Little(Len(bundle.entries), U64)
    \o FlattenSeq([i \in DOMAIN bundle.entries |->
         Sized(bundle.entries[i].path) \o Sized(bundle.entries[i].content)
           \o <<bundle.entries[i].digest>>])
    \o Sized(bundle.manifest) \o <<bundle.digest>>

\* A reader of a bundle: where it is, what it has read, whether it failed.
Failed == [at |-> 0, texts |-> <<>>, ok |-> FALSE]

\* read_sized_string: the text at the cursor is added to those read
ReadSized(cells, reader, maximum) ==
  IF ~reader.ok \/ Len(cells) - reader.at < U64 THEN Failed
  ELSE LET size == ReadLittle(cells, reader.at, U64)
           from == reader.at + U64
       IN IF size > maximum \/ size > Len(cells) - from THEN Failed
          ELSE [at |-> from + size, ok |-> TRUE,
                texts |-> Append(reader.texts, Sub(cells, from, size))]

\* copy_n of a digest
ReadDigest(cells, reader) ==
  IF ~reader.ok \/ Len(cells) - reader.at < 1 THEN Failed
  ELSE [reader EXCEPT !.at = @ + 1,
                      !.texts = Append(@, Sub(cells, reader.at, 1))]

ReadEntry(cells, reader) ==
  ReadDigest(cells, ReadSized(cells, ReadSized(cells, reader, MaximumPath),
                              MaximumBundle))

\* A mutant: what follows the manifest's digest is ignored.
EndsInDigestOrMore(cells, reader) == reader.ok /\ Len(cells) - reader.at >= 1

\* Only the digest of the manifest is left.
EndsInDigest(cells, reader) == reader.ok /\ Len(cells) - reader.at = 1

\* decode_bundle_bytes
DecodeBundle(cells) ==
  LET count == ReadLittle(cells, 2 * U16, U64)
      start == [at |-> 2 * U16 + U64, texts |-> <<>>, ok |-> TRUE]
      entries == FoldLeft(LAMBDA reader, i : ReadEntry(cells, reader), start,
                          [i \in 1..count |-> i])
      reader == ReadSized(cells, entries, MaximumBundle)
  IN IF \/ Len(cells) > MaximumBundle \/ Len(cells) < 2 * U16 + U64
        \/ ReadLittle(cells, 0, U16) # Magic
        \/ ReadLittle(cells, U16, U16) # Version
        \/ count > MaximumEntries
        \/ ~EndsInDigest(cells, reader)
     THEN Rejected("InvalidBundle")
     ELSE Accepted(
            [entries |-> [i \in 1..count |->
                            [path |-> reader.texts[3 * i - 2],
                             content |-> reader.texts[3 * i - 1],
                             digest |-> reader.texts[3 * i][1]]],
             manifest |-> reader.texts[3 * count + 1],
             digest |-> cells[Len(cells)]])

-----------------------------------------------------------------------------
Encode(f, m) ==
  CASE f = "payload" -> EncodeInputPayload(m)
    [] f = "packet" -> EncodePacket(m)
    [] f = "correction" -> EncodeInputs(m)
    [] f = "datagram" -> EncodeDatagram(m)
    [] f = "record" -> EncodeRecord(m)
    [] f = "bundle" -> EncodeBundle(m)

Decode(f, cells) ==
  CASE f = "payload" -> ParseInputPayload(cells)
    [] f = "packet" -> DecodePacket(cells)
    [] f = "correction" -> DecodeInputs(cells)
    [] f = "datagram" -> DecodeDatagram(cells)
    [] f = "record" -> DecodeRecord(cells, message.sequence, message.previous)
    [] f = "bundle" -> DecodeBundle(cells)

MessagesOf(f) ==
  CASE f \in {"payload", "correction"} -> CommandLists
    [] f = "packet" ->
         [session : {1}, sequence : {Base + 1}, sent : {2},
          commands : CommandLists]
    [] f = "datagram" ->
         [kind : {1}, epoch : {1}, sequence : {Base + 2}, channel : {2},
          frame : {3}, commands : CommandLists]
    [] f = "record" -> Records
    [] f = "bundle" -> Bundles

Formats == {"payload", "packet", "correction", "datagram", "record", "bundle"}

Init ==
  /\ damage = 0
  /\ \E f \in Formats : \E m \in MessagesOf(f) :
       format = f /\ message = m /\ bytes = Encode(f, m)

\* The channel or the disk: a byte changes, the end is lost, bytes follow.
Damage(cells) ==
  /\ damage < MaxDamage
  /\ damage' = damage + 1
  /\ bytes' = cells
  /\ UNCHANGED <<format, message>>

Alter == \E i \in DOMAIN bytes, b \in 0..(Base - 1) :
           Damage([bytes EXCEPT ![i] = <<b>>])

Truncate == bytes # <<>> /\ Damage(Front(bytes))

Extend == \E b \in 0..(Base - 1) : Damage(Append(bytes, <<b>>))

Next == Alter \/ Truncate \/ Extend

Spec == Init /\ [][Next]_vars

-----------------------------------------------------------------------------
(* Properties *)

\* Cells as the numbers they read as
Bytes(cells) == [i \in DOMAIN cells |-> Byte(cells[i])]

\* What the decoder of a format takes, of what its encoder may be given:
\* neither encoder looks at the commands.
Readable ==
  CASE format = "payload" ->
         \A i \in DOMAIN message : CommandRejection(message[i]) = "None"
    [] format = "packet" ->
         \A i \in DOMAIN message.commands :
           CommandRejection(message.commands[i]) = "None"
    [] format = "correction" -> \A i \in DOMAIN message : message[i].entity # 0
    [] format = "datagram" ->
         \A i \in DOMAIN message.commands : message.commands[i].entity # 0
    [] format \in {"record", "bundle"} -> TRUE

\* What a decoder makes of a message, whatever happened to it on the way:
\* - bytes that are accepted are the encoding of what was decoded, so no two
\*   byte strings mean the same and nothing in them is ignored;
\* - a packet, a datagram or a record that is accepted is the one that was
\*   written, field by field: every byte is under its tag or its digest
\*   (network_security.cpp:400, distributed_reference.cpp:255,
\*   temporal_contract.cpp:262-268);
\* - a message that nothing happened to is read back as it was written.
\* An input payload, a correction and a bundle carry no digest of their own;
\* the packet, the datagram and the encryption provider answer for them.
DecodedIsWritten ==
  LET decoded == Decode(format, bytes) IN
  /\ decoded.reason = "None" =>
       /\ Bytes(Encode(format, decoded.value)) = Bytes(bytes)
       /\ format \in {"packet", "datagram", "record"} => decoded.value = message
  /\ damage = 0 /\ Readable => decoded = Accepted(message)

=============================================================================
