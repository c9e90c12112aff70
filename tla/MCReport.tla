------------------------------ MODULE MCReport ------------------------------
(***************************************************************************)
(* Report for TLC: a trace whose events share a timestamp, and the files   *)
(* it may come in: whole, with records of a later version, cut anywhere,   *)
(* malformed, or absent.                                                   *)
(***************************************************************************)
EXTENDS Report

MCEvent(ts, cpu, flags) ==
  [timestamp_ns |-> ts, pid |-> 9, tid |-> 10, prev_tid |-> 10, next_tid |-> 11,
   prev_pid |-> 9, next_pid |-> 9, cpu |-> cpu, event_type |-> 1,
   prev_state |-> 1, flags |-> flags]

MCTrace == <<MCEvent(20, 1, 0), MCEvent(12, 1, 3), MCEvent(12, 1, 1),
             MCEvent(12, 1, 3)>>

Record(type, length, payload) == <<type>> \o to_le_bytes(length, 4) \o payload
EventRecord(e) == Record(REC_TYPE_SCHED_EVENT, EVENT_SIZE, to_bytes(e))
ForeignRecord == Record(2, 6, <<1, 0, 5, 0, 0, 0>>)
ShortRecord == Record(REC_TYPE_SCHED_EVENT, 6, <<1, 0, 5, 0, 0, 0>>)
HugeRecord == Record(2, 2 * Base ^ 3, <<1>>)

\* A file with the records and a footer that gives the metadata this size
File(records, size, left) ==
  LET data == FlattenSeq(records)
      end  == HEADER_SIZE + Len(data)
      meta == build_metadata(Len(MCTrace), 5)
      head == [header_new(1) EXCEPT !.data_section_end_offset = end,
                                    !.section_table_offset = end + Len(meta)]
  IN  [trace |-> MCTrace, drops |-> 5, left |-> left,
       bytes |-> header_to_bytes(head) \o data \o meta
                   \o section_entry(SECTION_ID_METADATA, end, Len(meta) + size)]

Records == [i \in DOMAIN MCTrace |-> EventRecord(MCTrace[i])]
MCGood == File(Records, 0, "whole")

\* A file of which the first n bytes are left
Cut(file, n) == [file EXCEPT !.left = "cut", !.bytes = SubSeq(@, 1, n)]

\* The file before finish, with a bookmark that names the first n records
Unfinished(n) ==
  LET head == [header_new(1) EXCEPT
                 !.data_section_end_offset =
                    HEADER_SIZE + n * (TLV_HEADER_SIZE + EVENT_SIZE)]
  IN  [MCGood EXCEPT !.left = "cut",
                     !.bytes = header_to_bytes(head) \o FlattenSeq(Records)]

MCFiles ==
  \* whole, in part of a later version
  {MCGood} \cup {File(InsertAt(Records, i, ForeignRecord), 0, "whole") :
                   i \in {1, 3, 5}}
  \* cut in the header, behind it, in the header and in the payload of a record,
  \* between two records, behind the last one, in the metadata, behind it, and
  \* in the section table
  \cup {Cut(MCGood, n) :
          n \in {0, 40, 64, 67, 64 + 60, 64 + 90, 64 + 180, 64 + 190,
                 64 + 209, 64 + 220}}
  \cup {Unfinished(0), Unfinished(3), Cut(Unfinished(3), 64 + 70)}
  \* not a file of this version, or with a record or a section that cannot be
  \cup {[MCGood EXCEPT !.left = "absent"], File(Records, 99, "malformed"),
        [MCGood EXCEPT !.bytes = Tail(@), !.left = "malformed"],
        [MCGood EXCEPT !.bytes[5] = 2, !.left = "malformed"]}
  \cup {File(InsertAt(Records, i, bad), 0, "malformed") :
          i \in {1, 3}, bad \in {ShortRecord, HugeRecord}}

MCEdge(src, dst, raw, attr) ==
  [src |-> src, dst |-> dst, raw_wait_ms |-> raw, attributed_delay_ms |-> attr]

\* Several edges between the same two threads, one of them the disk
MCGraphs ==
  {<< >>,
   <<MCEdge(10, -5, 4, 4), MCEdge(10, -5, 6, 1), MCEdge(10, -5, 2, 1)>>}
=============================================================================
