----------------------------- MODULE WprfReader -----------------------------
(***************************************************************************)
(* WperfReader (src/format/reader.rs): what it makes of a file d, which is *)
(* a sequence of bytes laid out as in Layout.                              *)
(***************************************************************************)
EXTENDS Layout, FiniteSetsExt

\* 16 MiB: a length whose high byte is not zero is too large.
MAX_PAYLOAD_SIZE == Limit(3)

\* In place of an event, or of the metadata
ReaderError == [error |-> TRUE]

\* open fails on a file that is too short for a header, or begins otherwise.
Opens(d) == Len(d) >= HEADER_SIZE /\ ~BadHeader(Slice(d, 0, HEADER_SIZE))

\* Mutants: the bookmark is trusted; it is ignored.
DataEndUnclamped(d) == header_from_bytes(d).data_section_end_offset
DataEndOfFile(d) == Len(d)

\* Mutant: the bookmark of a file without a footer counts only at its end.
DataEndIfLast(d) ==
  LET h == header_from_bytes(d)
      bookmark == h.data_section_end_offset
  IN  IF bookmark > Len(d) THEN Len(d)
      ELSE IF h.section_table_offset = 0 /\ bookmark < Len(d) THEN HEADER_SIZE
      ELSE bookmark

\* open: the bookmark is clamped to the length of the file.
DataEnd(d) ==
  LET bookmark == header_from_bytes(d).data_section_end_offset
  IN  IF bookmark <= Len(d) THEN bookmark ELSE Len(d)

\* Mutant: only the header of a record of another type is passed over.
SkippedHeader(payload_at, length) == payload_at

\* seek(SeekFrom::Current(length))
Skipped(payload_at, length) == payload_at + length

\* read_all_events: next_event until it returns None.  A record whose payload
\* does not fit before data_end is a torn one, a record of another type is
\* passed over; reading past the end of the file is an error.
read_all_events(d) ==
  LET data_end == DataEnd(d)
      next_event[at \in Nat] ==
        LET payload_at  == at + TLV_HEADER_SIZE
            tlv         == read_tlv_header(Slice(d, at, payload_at))
            payload_end == payload_at + tlv.length
        IN  CASE payload_at > data_end -> << >>
              [] payload_at <= data_end /\ payload_at > Len(d) -> <<ReaderError>>
              [] OTHER ->
                   IF tlv.length > MAX_PAYLOAD_SIZE THEN <<ReaderError>>
                   ELSE IF payload_end > data_end THEN << >>
                   ELSE IF tlv.rec_type # REC_TYPE_SCHED_EVENT
                        THEN next_event[Skipped(payload_at, tlv.length)]
                   ELSE IF tlv.length # EVENT_SIZE \/ payload_end > Len(d)
                        THEN <<ReaderError>>
                   ELSE <<from_bytes(Slice(d, payload_at, payload_end))>>
                          \o next_event[payload_end]
  IN  next_event[HEADER_SIZE]

\* read_metadata: nothing without a footer, or when the file ends before an
\* entry for the metadata; an error when the payload it names is not there.
read_metadata(d) ==
  LET table    == header_from_bytes(d).section_table_offset
      at(k)    == table + k * SECTION_ENTRY_SIZE
      entry(k) == read_section_entry(Slice(d, at(k), at(k + 1)))
      found    == {k \in 0 .. Len(d) : /\ at(k + 1) <= Len(d)
                                       /\ entry(k).id = SECTION_ID_METADATA}
      payload[e \in [id : Nat, offset : Nat, size : Nat]] ==
        IF e.size > MAX_PAYLOAD_SIZE \/ e.offset + e.size > Len(d) THEN ReaderError
        ELSE parse_metadata(Slice(d, e.offset, e.offset + e.size))
  IN  IF table = 0 \/ found = {} THEN NoMetadata ELSE payload[entry(Min(found))]
=============================================================================
