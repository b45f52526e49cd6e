---------------------------- MODULE AppendOnlyLog ----------------------------
(***************************************************************************)
(* What src/src/wal/log_manager.h promises its users: "An append-only ...  *)
(* write-ahead log" whose records are numbered from 0 by their LSN.  This  *)
(* is the log WALEngine and LSMEngine assume.                              *)
(***************************************************************************)
EXTENDS Integers, Sequences

CONSTANT Record

VARIABLES
  log,      \* the records appended
  next_lsn  \* the LSN of the next one

LogInit == log = <<>> /\ next_lsn = 0

\* Append: the record gets the next LSN.
LogAppend ==
  /\ \E r \in Record : log' = Append(log, r)
  /\ next_lsn' = next_lsn + 1

LogSpec == LogInit /\ [][LogAppend]_<<log, next_lsn>>
=============================================================================
