------------------------------ MODULE WprfFile ------------------------------
(***************************************************************************)
(* The .wperf file (src/format/writer.rs) written through a BufWriter:     *)
(* which bytes reach the file in which order, and what a reader makes of   *)
(* the file at any moment (WprfReader).  A process killed by SIGKILL       *)
(* leaves exactly the file of that moment, so a property of every          *)
(* reachable file is a property of every crash.                            *)
(*                                                                         *)
(* The file is a sequence of bytes, laid out as in Layout.  A flush moves  *)
(* one page per step, so a record may be torn anywhere, while the header,  *)
(* which lies in one page, is written as a whole.                          *)
(***************************************************************************)
EXTENDS WprfReader

CONSTANTS
  BookmarkEvery,  \* events between two bookmarks (8192 in write_event)
  BufCap,         \* capacity of the BufWriter, in bytes (1 MiB)
  PageBytes,      \* bytes of a page of the file
  Trace,          \* bound: the events the recorder may give to the writer
  Drops,          \* the values the argument of finish may have
  None            \* no header; no argument of finish yet

\* The length of the longest file: offsets are u64.
FileLimit ==
  HEADER_SIZE + Len(Trace) * (TLV_HEADER_SIZE + EVENT_SIZE)
    + Len(build_metadata(0, 0)) + SECTION_ENTRY_SIZE

ASSUME WprfFileAssumption ==
  /\ BookmarkEvery \in Nat \ {0}
  /\ PageBytes \in Nat /\ PageBytes >= HEADER_SIZE
  /\ BufCap \in Nat /\ BufCap > TLV_HEADER_SIZE + EVENT_SIZE
  /\ Trace \in Seq(WperfEvent)
  /\ Drops \subseteq Unsigned(8)
  /\ FileLimit \in Unsigned(8)

VARIABLES
  buf,          \* BufWriter: bytes accepted and not written to the file
  pos,          \* the file position: where the first byte of buf goes
  disk,         \* the bytes of the file
  header,       \* WperfWriter.header
  event_count,  \* WperfWriter.event_count
  drops,        \* the argument of finish
  stage,        \* where the writer is
  old_headers   \* history: every header the file ever had

fileVars == <<buf, pos, disk, header, event_count, drops, stage, old_headers>>
-----------------------------------------------------------------------------
Record(i) == tlv_record(to_bytes(Trace[i]))

Flushing ==
  {"append", "bookmark", "bookmark_written", "finish", "metadata",
   "section_table", "header"}

\* WperfWriter::new: the header is in the buffer, not in the file.
FileInit ==
  /\ header = header_new(0)
  /\ buf = header_to_bytes(header)
  /\ pos = 0
  /\ disk = << >>
  /\ event_count = 0
  /\ drops = None
  /\ stage = "ready"
  /\ old_headers = {}
-----------------------------------------------------------------------------
\* The file after bytes are written at offset at
Overwritten(at, bytes) ==
  SubSeq(disk, 1, at) \o bytes \o SubSeq(disk, at + Len(bytes) + 1, Len(disk))

\* BufWriter::flush_buf, page by page
FlushPage ==
  LET room == PageBytes - (pos % PageBytes)
      n    == IF Len(buf) < room THEN Len(buf) ELSE room
  IN  /\ buf # << >>
      /\ disk' = Overwritten(pos, SubSeq(buf, 1, n))
      /\ buf' = SubSeq(buf, n + 1, Len(buf))
      /\ pos' = pos + n
      /\ old_headers' = old_headers \cup {Slice(disk', 0, HEADER_SIZE)}

Flush ==
  /\ stage \in Flushing
  /\ FlushPage
  /\ UNCHANGED <<header, event_count, drops, stage>>

\* The record is in the buffer; every BookmarkEvery events update_data_offset
\* runs, which begins with stream_position, and that flushes the buffer.
Accepted ==
  /\ event_count' = event_count + 1
  /\ stage' = IF (event_count + 1) % BookmarkEvery = 0 THEN "bookmark"
           ELSE "ready"
  /\ UNCHANGED <<pos, disk, header, drops, old_headers>>

\* write_event and write_event_raw, which differ in who encodes the event.
\* BufWriter flushes first when the record does not fit.
write_event ==
  /\ stage = "ready"
  /\ event_count < Len(Trace)
  /\ IF Len(buf) + TLV_HEADER_SIZE + EVENT_SIZE > BufCap
     THEN /\ stage' = "append"
          /\ UNCHANGED <<buf, pos, disk, header, event_count, drops,
                         old_headers>>
     ELSE /\ buf' = buf \o Record(event_count + 1)
          /\ Accepted

write_event_after_flush ==
  /\ stage = "append"
  /\ buf = << >>
  /\ buf' = Record(event_count + 1)
  /\ Accepted

\* update_data_offset: everything is in the file; seek to the field, write it ...
update_data_offset ==
  /\ stage = "bookmark"
  /\ buf = << >>
  /\ header' = [header EXCEPT !.data_section_end_offset = pos]
  /\ pos' = 8
  /\ buf' = to_le_bytes(pos, 8)
  /\ stage' = "bookmark_written"
  /\ UNCHANGED <<disk, event_count, drops, old_headers>>

\* ... and seek back, which flushes it.
update_data_offset_returns ==
  /\ stage = "bookmark_written"
  /\ buf = << >>
  /\ pos' = header.data_section_end_offset
  /\ stage' = "ready"
  /\ UNCHANGED <<buf, disk, header, event_count, drops, old_headers>>

\* finish: stream_position flushes the records ...
finish ==
  /\ stage = "ready"
  /\ drops' \in Drops
  /\ stage' = "finish"
  /\ UNCHANGED <<buf, pos, disk, header, event_count, old_headers>>

\* ... the metadata payload is written, and flushed by the next
\* stream_position ...
finish_metadata ==
  /\ stage = "finish"
  /\ buf = << >>
  /\ header' = [header EXCEPT !.data_section_end_offset = pos]
  /\ buf' = build_metadata(event_count, drops)
  /\ stage' = "metadata"
  /\ UNCHANGED <<pos, disk, event_count, drops, old_headers>>

\* Mutant: the table gives the metadata the size of the whole file.
finish_section_table_missizes ==
  /\ stage = "metadata"
  /\ buf = << >>
  /\ header' = [header EXCEPT !.section_table_offset = pos]
  /\ buf' = section_entry(SECTION_ID_METADATA, header.data_section_end_offset,
                          pos)
  /\ stage' = "section_table"
  /\ UNCHANGED <<pos, disk, event_count, drops, old_headers>>

\* ... then the section table, which names the metadata ...
finish_section_table ==
  /\ stage = "metadata"
  /\ buf = << >>
  /\ header' = [header EXCEPT !.section_table_offset = pos]
  /\ buf' = section_entry(SECTION_ID_METADATA, header.data_section_end_offset,
                          pos - header.data_section_end_offset)
  /\ stage' = "section_table"
  /\ UNCHANGED <<pos, disk, event_count, drops, old_headers>>

\* ... and last the header is rewritten as a whole, with bit 0 of the feature
\* bitmap set.
finish_header ==
  LET final == [header EXCEPT !.feature_bitmap[1] = 1]
  IN  /\ stage = "section_table"
      /\ buf = << >>
      /\ header' = final
      /\ pos' = 0
      /\ buf' = header_to_bytes(final)
      /\ stage' = "header"
      /\ UNCHANGED <<disk, event_count, drops, old_headers>>

finish_returns ==
  /\ stage = "header"
  /\ buf = << >>
  /\ pos' = header.section_table_offset + SECTION_ENTRY_SIZE
  /\ stage' = "finished"
  /\ UNCHANGED <<buf, disk, header, event_count, drops, old_headers>>

\* A write fails (the disk is full): `?` returns the error to record_impl,
\* which gives up.
WriteFails ==
  /\ stage \in Flushing
  /\ buf # << >>
  /\ stage' = "failed"
  /\ UNCHANGED <<buf, pos, disk, header, event_count, drops, old_headers>>

\* Dropping the BufWriter tries once more to flush what it still holds.
DropFlushes ==
  /\ stage = "failed"
  /\ FlushPage
  /\ UNCHANGED <<header, event_count, drops, stage>>

FileNext ==
  \/ write_event \/ write_event_after_flush
  \/ update_data_offset \/ update_data_offset_returns
  \/ finish \/ finish_metadata \/ finish_section_table \/ finish_header
  \/ finish_returns
  \/ Flush \/ WriteFails \/ DropFlushes

FileSpec == FileInit /\ [][FileNext]_fileVars
-----------------------------------------------------------------------------
(***************************************************************************)
(* Properties                                                              *)
(***************************************************************************)
Events(n) == SubSeq(Trace, 1, n)

Recovered(d) == IF Opens(d) THEN read_all_events(d) ELSE << >>

\* The header in the file names a section table.
Sealed == Opens(disk) /\ header_from_bytes(disk).section_table_offset # 0

\* After a kill at any moment, also in the middle of a flush, of a bookmark or
\* of finish, a reader gets the first events that were written, in order and
\* with all their fields, at least all up to the last bookmark: never a torn
\* record, never the footer read as an event, never an event twice.
KillRecoversPrefix ==
  LET got == Recovered(disk)
  IN  /\ got = Events(Len(got))
      /\ Len(got) <= event_count
      /\ Len(got) >= (event_count \div BookmarkEvery - 1) * BookmarkEvery

\* What a power failure may leave: any header the file ever had, and a file that
\* ends anywhere.
AfterPowerLoss ==
  {h \o Slice(disk, HEADER_SIZE, n) : h \in old_headers, n \in 0 .. Len(disk)}

\* After a power failure a reader still gets a prefix of the events, because
\* open clamps the bookmark to the length of the file.
PowerLossRecoversPrefix ==
  \A d \in AfterPowerLoss :
    LET got == Recovered(d)
    IN  got = Events(Len(got)) /\ Len(got) <= event_count

\* A reader that finds metadata finds as many events as it says, and the drop
\* count given to finish, after a kill and after a power failure alike; and it
\* finds metadata once the header names the section table.
MetadataIsTrue ==
  /\ \A d \in AfterPowerLoss \cup {disk} :
       Opens(d) =>
         LET meta == read_metadata(d)
         IN  meta \notin {NoMetadata, ReaderError} =>
               /\ meta = [event_count |-> Len(read_all_events(d)),
                          drop_count |-> drops]
               /\ meta.event_count = event_count
  /\ Sealed => read_metadata(disk) \notin {NoMetadata, ReaderError}

\* The file implements the log: a reader sees more events over time, never
\* fewer and never others, and the footer appears together with the last ones.
Log == INSTANCE EventLog WITH
  NoCount <- Missing,
  MaxEvents <- Len(Trace),
  accepted <- event_count,
  recoverable <- Len(Recovered(disk)),
  sealed <- IF Sealed THEN event_count ELSE Missing
LogSpec == Log!Spec

\* Documented: the bookmark "enables recovery of all complete events even when
\* the footer is lost".  The reader stops at the bookmark, so the complete
\* records behind it are in the file and are not recovered.
AllCompleteEventsRecovered ==
  (Opens(disk) /\ stage \notin {"metadata", "section_table", "header", "finished"})
    => Len(Recovered(disk)) =
         (Len(disk) - HEADER_SIZE) \div (TLV_HEADER_SIZE + EVENT_SIZE)
=============================================================================
