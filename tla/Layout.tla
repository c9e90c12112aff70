------------------------------- MODULE Layout -------------------------------
(***************************************************************************)
(* The bytes of a .wperf file (src/format/event.rs, header.rs and the      *)
(* helpers of writer.rs): how an event, the header, a section entry and    *)
(* the metadata payload become bytes and come back.  Widths and offsets    *)
(* are the code's; a byte has Base values, so the numbers stay small, and  *)
(* a literal (magic, metadata key) is a short sequence of bytes.           *)
(***************************************************************************)
EXTENDS Integers, Sequences

CONSTANTS
  Base,     \* values of a byte (256)
  Missing   \* Option::None of a metadata value

ASSUME LayoutAssumption == Base \in Nat /\ Base > 7 /\ Missing \notin Nat
-----------------------------------------------------------------------------
Byte == 0 .. Base - 1

\* The number of values of an integer of this many bytes, and those values
Limit(width) ==
  LET limit[i \in 0 .. width] == IF i = 0 THEN 1 ELSE Base * limit[i - 1]
  IN  limit[width]
Unsigned(width) == 0 .. Limit(width) - 1

\* uN::to_le_bytes and uN::from_le_bytes
to_le_bytes(v, width) ==
  LET rest[i \in 0 .. width] == IF i = 0 THEN v ELSE rest[i - 1] \div Base
  IN  [i \in 1 .. width |-> rest[i - 1] % Base]
from_le_bytes(b) ==
  LET from[i \in 1 .. Len(b) + 1] ==
        IF i > Len(b) THEN 0 ELSE b[i] + Base * from[i + 1]
  IN  from[1]

\* buf[from..to]
Slice(buf, from, to) == SubSeq(buf, from + 1, to)
Number(buf, from, to) == from_le_bytes(Slice(buf, from, to))
-----------------------------------------------------------------------------
(***************************************************************************)
(* WperfEvent                                                              *)
(***************************************************************************)
EVENT_SIZE == 40

WperfEvent ==
  [timestamp_ns : Unsigned(8), pid : Unsigned(4), tid : Unsigned(4),
   prev_tid : Unsigned(4), next_tid : Unsigned(4), prev_pid : Unsigned(4),
   next_pid : Unsigned(4), cpu : Unsigned(2), event_type : Byte,
   prev_state : Byte, flags : Unsigned(4)]

to_bytes(e) ==
  to_le_bytes(e.timestamp_ns, 8)
    \o to_le_bytes(e.pid, 4)      \o to_le_bytes(e.tid, 4)
    \o to_le_bytes(e.prev_tid, 4) \o to_le_bytes(e.next_tid, 4)
    \o to_le_bytes(e.prev_pid, 4) \o to_le_bytes(e.next_pid, 4)
    \o to_le_bytes(e.cpu, 2) \o <<e.event_type, e.prev_state>>
    \o to_le_bytes(e.flags, 4)

from_bytes(buf) ==
  [timestamp_ns |-> Number(buf, 0, 8),
   pid          |-> Number(buf, 8, 12),
   tid          |-> Number(buf, 12, 16),
   prev_tid     |-> Number(buf, 16, 20),
   next_tid     |-> Number(buf, 20, 24),
   prev_pid     |-> Number(buf, 24, 28),
   next_pid     |-> Number(buf, 28, 32),
   cpu          |-> Number(buf, 32, 34),
   event_type   |-> buf[35],
   prev_state   |-> buf[36],
   flags        |-> Number(buf, 36, 40)]
-----------------------------------------------------------------------------
(***************************************************************************)
(* WprfHeader                                                              *)
(***************************************************************************)
HEADER_SIZE == 64
MAGIC   == <<7, 5, 3, 6>>
VERSION == 1
ENDIAN_LE == 1

\* WprfHeader::new; the architecture is the one wperf was built for.
header_new(arch) ==
  [version |-> VERSION, endianness |-> ENDIAN_LE, host_arch |-> arch,
   data_section_end_offset |-> HEADER_SIZE, section_table_offset |-> 0,
   feature_bitmap |-> [i \in 1 .. 32 |-> 0]]

header_to_bytes(h) ==
  MAGIC \o <<h.version, h.endianness, h.host_arch, 0>>
    \o to_le_bytes(h.data_section_end_offset, 8)
    \o to_le_bytes(h.section_table_offset, 8)
    \o h.feature_bitmap
    \o [i \in 1 .. 8 |-> 0]

BadHeader(buf) == Slice(buf, 0, 4) # MAGIC \/ buf[5] # VERSION

header_from_bytes(buf) ==
  [version |-> buf[5], endianness |-> buf[6], host_arch |-> buf[7],
   data_section_end_offset |-> Number(buf, 8, 16),
   section_table_offset    |-> Number(buf, 16, 24),
   feature_bitmap          |-> Slice(buf, 24, 56)]
-----------------------------------------------------------------------------
(***************************************************************************)
(* TLV record, section entry, metadata                                     *)
(***************************************************************************)
REC_TYPE_SCHED_EVENT == 1
TLV_HEADER_SIZE      == 5
SECTION_ID_METADATA  == 3
SECTION_ENTRY_SIZE   == 20

tlv_record(payload) ==
  <<REC_TYPE_SCHED_EVENT>> \o to_le_bytes(EVENT_SIZE, 4) \o payload

section_entry(id, offset, size) ==
  to_le_bytes(id, 4) \o to_le_bytes(offset, 8) \o to_le_bytes(size, 8)

read_section_entry(buf) ==
  [id |-> Number(buf, 0, 4), offset |-> Number(buf, 4, 12),
   size |-> Number(buf, 12, 20)]

read_tlv_header(buf) == [rec_type |-> buf[1], length |-> Number(buf, 1, 5)]

EVENT_COUNT == <<4, 2, 3>>  \* b"EVENT_COUNT"
DROP_COUNT  == <<5, 6>>     \* b"DROP_COUNT"

write_meta_entry(key, value) ==
  to_le_bytes(Len(key), 2) \o key \o to_le_bytes(Len(value), 2) \o value

build_metadata(event_count, drop_count) ==
  write_meta_entry(EVENT_COUNT, to_le_bytes(event_count, 8))
    \o write_meta_entry(DROP_COUNT, to_le_bytes(drop_count, 8))

NoMetadata == [event_count |-> Missing, drop_count |-> Missing]

\* parse_metadata: entries until one does not fit; of two with one key the
\* later one counts, and a value that is no u64 is passed over.
parse_metadata(data) ==
  LET from_entry[pos \in 0 .. Len(data)] ==
        LET at_val  == pos + 2 + Number(data, pos, pos + 2)
            val_len == Number(data, at_val, at_val + 2)
            end     == at_val + 2 + val_len
            value(key, later) ==
              IF later # Missing THEN later
              ELSE IF Slice(data, pos + 2, at_val) = key /\ val_len = 8
                   THEN Number(data, at_val + 2, end) ELSE Missing
        IN  IF pos + 4 > Len(data) THEN NoMetadata
            ELSE IF at_val + 2 > Len(data) THEN NoMetadata
            ELSE IF end > Len(data) THEN NoMetadata
            ELSE [event_count |-> value(EVENT_COUNT, from_entry[end].event_count),
                  drop_count  |-> value(DROP_COUNT, from_entry[end].drop_count)]
  IN  from_entry[0]
=============================================================================
