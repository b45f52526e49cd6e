----------------------------- MODULE LogManager -----------------------------
(***************************************************************************)
(* src/src/wal/log_manager.{h,cpp}: the log as a file of fixed-size pages  *)
(* (src/src/storage/disk/disk_manager.cpp), of which the last is kept in a *)
(* buffer and rewritten with every record.  Append may be cut short by a   *)
(* crash after either of its page writes.  Page ids and LSNs count from 0, *)
(* so page p is file[p + 1].                                               *)
(***************************************************************************)
EXTENDS Integers, Sequences, SequencesExt

CONSTANTS
  Record,
  PerPage,     \* kMaxRecordsPerPage
  MaxRecords,  \* bound: records in the log
  MaxCrashes   \* bound: crashes

ASSUME ConstantsAssumption ==
  PerPage \in Nat \ {0} /\ MaxRecords \in Nat /\ MaxCrashes \in Nat

VARIABLES
  file,      \* the pages written, each the records its count covers
  buf,       \* current_page_buf_, likewise
  current,   \* current_page_id_
  next_lsn,  \* next_lsn_
  pending,   \* the record of the Append in progress, after it turned the page
  crashes

vars == <<file, buf, current, next_lsn, pending, crashes>>

Init ==
  /\ file = <<>> /\ buf = <<>> /\ current = 0 /\ next_lsn = 0
  /\ pending = <<>> /\ crashes = 0

\* DiskManager::WritePage, of a page of the file or the one behind it.
WritePage(p, content) ==
  file' = [i \in 1 .. IF p < Len(file) THEN Len(file) ELSE p + 1 |->
             IF i = p + 1 THEN content ELSE IF i <= Len(file) THEN file[i] ELSE <<>>]

\* The record goes into the buffer and the page is written.
Store(r) ==
  /\ buf' = Append(buf, r)
  /\ WritePage(current, buf')
  /\ next_lsn' = next_lsn + 1
  /\ pending' = <<>>

AppendRecord(r) ==
  /\ pending = <<>> /\ next_lsn < MaxRecords
  /\ Len(buf) < PerPage
  /\ Store(r)
  /\ UNCHANGED <<current, crashes>>

\* The page is full: it is written once more and a new one is begun.
AppendTurn(r) ==
  /\ pending = <<>> /\ next_lsn < MaxRecords
  /\ Len(buf) >= PerPage
  /\ WritePage(current, buf)
  /\ current' = current + 1 /\ buf' = <<>>
  /\ pending' = <<r>>
  /\ UNCHANGED <<next_lsn, crashes>>

AppendTurned ==
  /\ pending # <<>>
  /\ Store(pending[1])
  /\ UNCHANGED <<current, crashes>>

\* Mutation of Reopen: the records of the last page are not counted.
Reopen_WholePages ==
  /\ crashes < MaxCrashes /\ crashes' = crashes + 1
  /\ pending' = <<>> /\ file' = file
  /\ IF file = <<>>
     THEN current' = 0 /\ buf' = <<>> /\ next_lsn' = 0
     ELSE /\ current' = Len(file) - 1
          /\ buf' = file[Len(file)]
          /\ next_lsn' = current' * PerPage

\* A new process opens the file: the last page becomes the current one.
Reopen ==
  /\ crashes < MaxCrashes /\ crashes' = crashes + 1
  /\ pending' = <<>> /\ file' = file
  /\ IF file = <<>>
     THEN current' = 0 /\ buf' = <<>> /\ next_lsn' = 0
     ELSE /\ current' = Len(file) - 1
          /\ buf' = file[Len(file)]
          /\ next_lsn' = current' * PerPage + Len(buf')

\* Nobody appends.
Idle == pending = <<>> /\ UNCHANGED vars

Next ==
  \/ \E r \in Record : AppendRecord(r) \/ AppendTurn(r)
  \/ AppendTurned \/ Reopen \/ Idle

Spec == Init /\ [][Next]_vars

----------------------------------------------------------------------------
(* Reading: the current page from the buffer, the others from the file;     *)
(* a page the file does not have reads as empty.                            *)

PageAt(p) ==
  IF p = current THEN buf ELSE IF p < Len(file) THEN file[p + 1] ELSE <<>>

ReadRecord(lsn) == PageAt(lsn \div PerPage)[(lsn % PerPage) + 1]

\* Mutation of ReadFrom: the last page is left out when it is only begun.
ReadFrom_WholePages(start) ==
  LET from(p) == IF p = start \div PerPage THEN (start % PerPage) + 1 ELSE 1
      rest(p) == SubSeq(PageAt(p), from(p), Len(PageAt(p)))
      first == start \div PerPage
  IN IF start >= next_lsn THEN <<>>
     ELSE FlattenSeq([i \in 1 .. next_lsn \div PerPage - first |->
                        rest(first + i - 1)])

\* The two nested loops of ReadFrom: page after page from the one start is on.
ReadFrom(start) ==
  LET from(p) == IF p = start \div PerPage THEN (start % PerPage) + 1 ELSE 1
      rest(p) == SubSeq(PageAt(p), from(p), Len(PageAt(p)))
      first == start \div PerPage
  IN IF start >= next_lsn THEN <<>>
     ELSE FlattenSeq([i \in 1 .. (next_lsn - 1) \div PerPage - first + 1 |->
                        rest(first + i - 1)])

----------------------------------------------------------------------------
(* Properties. *)

\* The types of the log manager's state.
TypeOK ==
  /\ file \in Seq(Seq(Record)) /\ buf \in Seq(Record)
  /\ Len(buf) <= PerPage /\ \A i \in DOMAIN file : Len(file[i]) <= PerPage
  /\ current \in Nat /\ next_lsn \in Nat /\ pending \in Seq(Record)

Written == FlattenSeq(file)

\* LSNs are never given twice and never skipped, across page turns and crashes:
\* the next LSN is the number of records in the file, the record of every LSN
\* is found by division, "no separate index needed", and ReadFrom returns every
\* record from an LSN on, wherever the pages break and whatever is still in the
\* buffer.
ReadsFindRecords ==
  /\ next_lsn = Len(Written)
  /\ \A lsn \in 0 .. next_lsn - 1 : ReadRecord(lsn) = Written[lsn + 1]
  /\ \A lsn \in 0 .. next_lsn : ReadFrom(lsn) = SubSeq(Written, lsn + 1, next_lsn)

\* The log its users see: what ReadRecord answers for each LSN given.
ReadBack == [i \in 1 .. next_lsn |-> ReadRecord(i - 1)]

Abstract == INSTANCE AppendOnlyLog WITH log <- ReadBack

\* The buffered, paged file is the append-only sequence WALEngine and LSMEngine
\* use: no step changes, drops or reorders what is read at an LSN, whether it
\* comes from the buffer or the file, a page turn and a crash in Append included.
ImplementsAppendOnlyLog == Abstract!LogSpec
=============================================================================
