----------------------------- MODULE WALProofs -----------------------------
(***************************************************************************)
(* Proofs about WALEngine, for any keys, values, pages, numbers of         *)
(* transactions and crashes: what has to be in the log before Commit or a  *)
(* checkpoint may go on is never lost, power failures included; and how an *)
(* abort and recovery take a transaction back, each of its updates once,   *)
(* however often recovery is interrupted.                                  *)
(***************************************************************************)
EXTENDS WALEngine, WellFoundedInduction, TLAPS

----------------------------------------------------------------------------
(* The inductive invariant.                                                 *)

\* The fsynced part of the log holds every COMMIT that was acknowledged.
SyncInv ==
  /\ \E S : log \in Seq(S)
  /\ synced \in 0 .. Len(log) /\ acked \in 0 .. synced

\* The first n records hold a complete checkpoint bracket that begins at b.
BracketIn(b, n) ==
  \E e \in b + 1 .. n :
    /\ b \in 1 .. n
    /\ Types(b) = "CHECKPOINT_BEGIN" /\ Types(e) = "CHECKPOINT_END"
    /\ \A i \in b + 1 .. e - 1 : Types(i) = "ACTIVE_TXN"

\* The pointers in the file and on the device name a bracket the log has on the
\* device; so does the pointer about to be written; and a bracket being written
\* has nothing but its ACTIVE_TXN records behind it.
BracketInv ==
  /\ meta # 0 => BracketIn(meta, synced)
  /\ stable.meta # 0 => BracketIn(stable.meta, synced)
  /\ pc = "meta" => BracketIn(local.lsn, synced)
  /\ pc = "bracket" =>
       /\ local.lsn \in 1 .. Len(log) /\ Types(local.lsn) = "CHECKPOINT_BEGIN"
       /\ \A i \in local.lsn + 1 .. Len(log) : Types(i) = "ACTIVE_TXN"

IInv == SyncInv /\ BracketInv

----------------------------------------------------------------------------
(* The log.                                                                 *)

LEMMA Logged ==
  ASSUME NEW r, SyncInv, Log(r)
  PROVE  /\ Len(log) \in Nat /\ Len(log') = Len(log) + 1 /\ log'[Len(log) + 1] = r
         /\ \A i \in 1 .. Len(log) : log'[i] = log[i]
         /\ \E S : log' \in Seq(S)
<1>1. PICK S : log \in Seq(S)
  BY Zenon DEF SyncInv
<1>2. log \in Seq(S \cup {r})
  BY <1>1
<1>3. log' = Append(log, r) /\ r \in S \cup {r}
  BY Zenon DEF Log
<1>4. log' \in Seq(S \cup {r})
  BY <1>2, <1>3
<1> QED
  BY <1>2, <1>3, <1>4

\* A bracket in a prefix of the log is there as long as the prefix is.
LEMMA BracketKept ==
  ASSUME NEW b, NEW m \in Nat, NEW n \in Nat, m <= n,
         \A i \in 1 .. m : log'[i] = log[i], BracketIn(b, m)
  PROVE  \E e \in b + 1 .. n :
           /\ b \in 1 .. n
           /\ log'[b].type = "CHECKPOINT_BEGIN" /\ log'[e].type = "CHECKPOINT_END"
           /\ \A i \in b + 1 .. e - 1 : log'[i].type = "ACTIVE_TXN"
<1>1. PICK e \in b + 1 .. m :
        /\ b \in 1 .. m
        /\ Types(b) = "CHECKPOINT_BEGIN" /\ Types(e) = "CHECKPOINT_END"
        /\ \A i \in b + 1 .. e - 1 : Types(i) = "ACTIVE_TXN"
  BY Zenon DEF BracketIn
<1>2. e \in b + 1 .. n /\ b \in 1 .. n /\ e \in 1 .. m
  BY <1>1
<1>3. \A i \in b + 1 .. e - 1 : i \in 1 .. m
  BY <1>1
<1> QED
  BY Zenon, <1>1, <1>2, <1>3 DEF Types

----------------------------------------------------------------------------
(* What a step has to keep: the fsynced records, the acknowledged ones      *)
(* among them, and pointers that only take the values they may.             *)

KeepsSynced ==
  /\ \E S : log' \in Seq(S)
  /\ synced' \in synced .. Len(log') /\ acked' \in 0 .. synced'
  /\ \A i \in 1 .. synced : log'[i] = log[i]

KeepsPointers ==
  /\ meta' \in {meta, stable.meta} \/ (pc = "meta" /\ meta' = local.lsn)
  /\ stable'.meta \in {stable.meta, meta, meta'}

LEMMA PointersKept ==
  ASSUME IInv, KeepsSynced, KeepsPointers
  PROVE  /\ SyncInv'
         /\ meta' # 0 => BracketIn(meta, synced)'
         /\ stable'.meta # 0 => BracketIn(stable.meta, synced)'
<1>1. synced \in Nat /\ synced' \in Nat /\ synced <= synced' /\ Len(log') \in Nat
  BY DEF IInv, SyncInv, KeepsSynced
<1>2. SyncInv'
  BY <1>1 DEF SyncInv, KeepsSynced
<1>3. ASSUME NEW b, BracketIn(b, synced)
      PROVE  \E e \in b + 1 .. synced' :
               /\ b \in 1 .. synced'
               /\ log'[b].type = "CHECKPOINT_BEGIN" /\ log'[e].type = "CHECKPOINT_END"
               /\ \A i \in b + 1 .. e - 1 : log'[i].type = "ACTIVE_TXN"
  BY Zenon, <1>1, <1>3, BracketKept DEF KeepsSynced
<1>4. meta' # 0 => BracketIn(meta', synced)
  BY DEF IInv, BracketInv, KeepsPointers
<1>5. stable'.meta # 0 => BracketIn(stable'.meta, synced)
  BY Zenon, <1>4 DEF IInv, BracketInv, KeepsPointers
<1>6. meta' # 0 => BracketIn(meta, synced)'
  BY Zenon, <1>3, <1>4 DEF BracketIn, Types
<1>7. stable'.meta # 0 => BracketIn(stable.meta, synced)'
  BY Zenon, <1>3, <1>5 DEF BracketIn, Types
<1> QED
  BY Zenon, <1>2, <1>6, <1>7

\* Steps outside the bracket of a checkpoint.
LEMMA Elsewhere ==
  ASSUME IInv, KeepsSynced, KeepsPointers, pc' \notin {"bracket", "meta"}
  PROVE  IInv'
  BY Zenon, PointersKept DEF IInv, BracketInv

\* Steps that only append to the log.
LEMMA Appends ==
  ASSUME IInv, NEW r, Log(r), UNCHANGED <<synced, acked>>
  PROVE  KeepsSynced
<1>1. synced \in Nat /\ synced <= Len(log) /\ acked \in 0 .. synced
  BY Logged DEF IInv, SyncInv
<1>2. /\ Len(log) \in Nat /\ Len(log') = Len(log) + 1
      /\ \A i \in 1 .. Len(log) : log'[i] = log[i]
      /\ \E S : log' \in Seq(S)
  BY Zenon, Logged DEF IInv
<1> QED
  BY <1>1, <1>2 DEF KeepsSynced

\* Steps that leave the log alone and may fsync it.
LEMMA Syncs ==
  ASSUME IInv, log' = log, synced' \in {synced, Len(log)}, acked' \in {acked, synced'}
  PROVE  KeepsSynced
<1>1. Len(log) \in Nat
  BY DEF IInv, SyncInv
<1> QED
  BY <1>1 DEF IInv, SyncInv, KeepsSynced

LEMMA InitInv == Init => IInv
  BY DEF Init, IInv, SyncInv, BracketInv

LEMMA ClientInv ==
  ASSUME IInv, Client
  PROVE  KeepsSynced /\ IInv'
<1>1. ASSUME Begin PROVE KeepsSynced /\ IInv'
  BY Zenon, <1>1, Appends, Elsewhere DEF Begin, MayLog, files, aux, KeepsPointers
<1>2. ASSUME NEW t \in Open, NEW k \in Key, NEW v \in Cell, Change(t, k, v) PROVE KeepsSynced /\ IInv'
  BY Zenon, <1>2, Appends, Elsewhere DEF Change, MayLog, files, aux, KeepsPointers
<1>3. ASSUME NEW t \in Open, Commit(t) PROVE KeepsSynced /\ IInv'
  BY Zenon, <1>3, Appends, Elsewhere DEF Commit, files, aux, KeepsPointers
<1>4. ASSUME NEW t \in Open, Abort(t) PROVE KeepsSynced /\ IInv'
  BY Zenon, <1>4, Appends, Elsewhere DEF Abort, files, aux, KeepsPointers
<1> QED
  BY Zenon, <1>1, <1>2, <1>3, <1>4 DEF Client

LEMMA CallInv ==
  ASSUME IInv, CommitFlush \/ AbortApply \/ AbortLog \/ AbortFlush
  PROVE  KeepsSynced /\ IInv'
<1>1. CASE CommitFlush
  BY Zenon, <1>1, Syncs, Elsewhere DEF CommitFlush, EndTxn, files, KeepsPointers
<1>2. CASE AbortApply
  BY Zenon, <1>2, Syncs, Elsewhere DEF AbortApply, files, aux, KeepsPointers
<1>3. CASE AbortLog
  BY Zenon, <1>3, Appends, Elsewhere DEF AbortLog, files, aux, KeepsPointers
<1>4. CASE AbortFlush
  BY Zenon, <1>4, Syncs, Elsewhere DEF AbortFlush, EndTxn, files, aux, KeepsPointers
<1> QED
  BY Zenon, <1>1, <1>2, <1>3, <1>4

\* The bracket grows record by record, and is whole and fsynced before the
\* pointer is written.
LEMMA CheckpointInv ==
  ASSUME IInv,
         \/ \E p \in Pages : CheckpointPage(p)
         \/ CheckpointBegin \/ (\E t \in Open : CheckpointActive(t)) \/ CheckpointEnd
         \/ CheckpointMeta
  PROVE  KeepsSynced /\ IInv'
<1>1. ASSUME NEW p \in Pages, CheckpointPage(p) PROVE KeepsSynced /\ IInv'
  <2>1. stable'.meta = stable.meta
    BY <1>1 DEF CheckpointPage, WritePage
  <2> QED
    BY Zenon, <1>1, <2>1, Syncs, Elsewhere DEF CheckpointPage, aux, KeepsPointers
<1>2. CASE CheckpointBegin
  <2>1. /\ Log(Bracket("CHECKPOINT_BEGIN")) /\ local'.lsn = Lsn /\ pc' = "bracket"
        /\ UNCHANGED <<synced, acked, meta, stable>>
    BY Zenon, <1>2 DEF CheckpointBegin, NoLocal, files, aux
  <2>2. /\ Len(log) \in Nat /\ Len(log') = Len(log) + 1
        /\ log'[Len(log) + 1] = Bracket("CHECKPOINT_BEGIN")
    BY Zenon, <2>1, Logged DEF IInv
  <2>3. KeepsSynced /\ KeepsPointers
    BY Zenon, <2>1, Appends DEF KeepsPointers
  <2>4. /\ (local.lsn \in 1 .. Len(log))' /\ (Types(local.lsn) = "CHECKPOINT_BEGIN")'
        /\ \A i \in local'.lsn + 1 .. Len(log') : log'[i].type = "ACTIVE_TXN"
    BY <2>1, <2>2 DEF Lsn, Types, Bracket
  <2> QED
    BY Zenon, <2>1, <2>3, <2>4, PointersKept DEF IInv, BracketInv, Types
<1>3. ASSUME NEW t \in Open, CheckpointActive(t) PROVE KeepsSynced /\ IInv'
  <2>1. /\ Log(ActiveTxn(t, active[t].last_lsn)) /\ local'.lsn = local.lsn
        /\ pc = "bracket" /\ pc' = "bracket" /\ UNCHANGED <<synced, acked, meta, stable>>
    BY <1>3 DEF CheckpointActive, files, aux
  <2>2. /\ Len(log) \in Nat /\ Len(log') = Len(log) + 1
        /\ log'[Len(log) + 1] = ActiveTxn(t, active[t].last_lsn)
        /\ \A i \in 1 .. Len(log) : log'[i] = log[i]
    BY Zenon, <2>1, Logged DEF IInv
  <2>3. KeepsSynced /\ KeepsPointers
    BY Zenon, <2>1, Appends DEF KeepsPointers
  <2>4. /\ local.lsn \in 1 .. Len(log) /\ Types(local.lsn) = "CHECKPOINT_BEGIN"
        /\ \A i \in local.lsn + 1 .. Len(log) : Types(i) = "ACTIVE_TXN"
    BY Zenon, <2>1 DEF IInv, BracketInv
  <2>5. /\ (local.lsn \in 1 .. Len(log))' /\ (Types(local.lsn) = "CHECKPOINT_BEGIN")'
        /\ \A i \in local'.lsn + 1 .. Len(log') : log'[i].type = "ACTIVE_TXN"
    BY <2>1, <2>2, <2>4 DEF Types, ActiveTxn
  <2> QED
    BY Zenon, <2>1, <2>3, <2>5, PointersKept DEF IInv, BracketInv, Types
<1>4. CASE CheckpointEnd
  <2>1. /\ Log(Bracket("CHECKPOINT_END")) /\ local' = local /\ synced' = Lsn
        /\ pc = "bracket" /\ pc' = "meta" /\ UNCHANGED <<acked, meta, stable>>
    BY Zenon, <1>4 DEF CheckpointEnd, files, aux
  <2>2. /\ Len(log) \in Nat /\ Len(log') = Len(log) + 1
        /\ log'[Len(log) + 1] = Bracket("CHECKPOINT_END")
        /\ \A i \in 1 .. Len(log) : log'[i] = log[i]
        /\ \E S : log' \in Seq(S)
    BY Zenon, <2>1, Logged DEF IInv
  <2>3. KeepsSynced /\ KeepsPointers
    BY <2>1, <2>2 DEF KeepsSynced, KeepsPointers, IInv, SyncInv, Lsn
  <2>4. /\ local.lsn \in 1 .. Len(log) /\ Types(local.lsn) = "CHECKPOINT_BEGIN"
        /\ \A i \in local.lsn + 1 .. Len(log) : Types(i) = "ACTIVE_TXN"
    BY Zenon, <2>1 DEF IInv, BracketInv
  <2>5. BracketIn(local.lsn, synced)'
    <3> DEFINE e == Len(log) + 1
    <3>1. e \in local'.lsn + 1 .. synced' /\ local'.lsn \in 1 .. synced'
      BY <2>1, <2>2, <2>4 DEF Lsn
    <3>2. log'[local'.lsn].type = "CHECKPOINT_BEGIN" /\ log'[e].type = "CHECKPOINT_END"
      BY <2>1, <2>2, <2>4 DEF Types, Bracket
    <3>3. \A i \in local'.lsn + 1 .. e - 1 : log'[i].type = "ACTIVE_TXN"
      BY <2>1, <2>2, <2>4 DEF Types
    <3> HIDE DEF e
    <3> QED
      BY Zenon, <3>1, <3>2, <3>3 DEF BracketIn, Types
  <2> QED
    BY Zenon, <2>1, <2>3, <2>5, PointersKept DEF IInv, BracketInv
<1>5. CASE CheckpointMeta
  <2>1. stable'.meta \in {stable.meta, meta}
    BY <1>5 DEF CheckpointMeta
  <2> QED
    BY Zenon, <1>5, <2>1, Syncs, Elsewhere DEF CheckpointMeta, aux, KeepsPointers
<1> QED
  BY Zenon, <1>1, <1>2, <1>3, <1>4, <1>5

LEMMA RecoveryInv ==
  ASSUME IInv, RecoverOnStartup \/ Redo \/ NextLoser \/ Undo \/ UndoLog
  PROVE  KeepsSynced /\ IInv'
<1>1. CASE RecoverOnStartup
  BY Zenon, <1>1, Syncs, Elsewhere DEF RecoverOnStartup, files, aux, KeepsPointers
<1>2. CASE Redo
  BY Zenon, <1>2, Syncs, Elsewhere DEF Redo, files, aux, KeepsPointers
<1>3. CASE NextLoser
  BY Zenon, <1>3, Syncs, Elsewhere DEF NextLoser, files, aux, KeepsPointers
<1>4. CASE Undo
  BY Zenon, <1>4, Syncs, Elsewhere DEF Undo, files, aux, KeepsPointers
<1>5. CASE UndoLog
  BY Zenon, <1>5, Appends, Elsewhere DEF UndoLog, files, aux, KeepsPointers
<1> QED
  BY Zenon, <1>1, <1>2, <1>3, <1>4, <1>5

\* A power failure cuts the log no shorter than its fsynced part.
LEMMA EnvironmentInv ==
  ASSUME IInv, Environment
  PROVE  KeepsSynced /\ IInv'
<1>1. CASE Crash
  BY Zenon, <1>1, Syncs, Elsewhere DEF Crash, Restarted, files, KeepsPointers
<1>2. CASE LosePower
  <2>1. pc' = "start" /\ KeepsPointers /\ acked' = acked
    BY Zenon, <1>2 DEF LosePower, Restarted, KeepsPointers
  <2>2. PICK n \in synced .. Len(log) : log' = SubSeq(log, 1, n) /\ synced' = n
    BY Zenon, <1>2 DEF LosePower
  <2>3. PICK S : log \in Seq(S)
    BY Zenon DEF IInv, SyncInv
  <2>4. n \in 0 .. Len(log) /\ synced \in 0 .. n /\ acked \in 0 .. synced
    BY <2>3 DEF IInv, SyncInv
  <2>5. log' \in Seq(S) /\ Len(log') = n /\ \A i \in 1 .. n : log'[i] = log[i]
    BY <2>2, <2>3, <2>4
  <2>6. KeepsSynced
    <3>1. \E T : log' \in Seq(T)
      BY Zenon, <2>5
    <3>2. n \in Nat /\ synced \in Nat /\ synced' \in synced .. Len(log')
      BY <2>2, <2>3, <2>4, <2>5
    <3>3. acked' \in 0 .. synced' /\ \A i \in 1 .. synced : log'[i] = log[i]
      BY <2>1, <2>2, <2>4, <2>5, <3>2
    <3> QED
      BY Zenon, <3>1, <3>2, <3>3 DEF KeepsSynced
  <2> QED
    BY Zenon, <2>1, <2>6, Elsewhere
<1>3. ASSUME NEW p \in Pages, Evict(p) PROVE KeepsSynced /\ IInv'
  <2>1. UNCHANGED <<log, synced, meta, pc, local, acked>> /\ stable'.meta = stable.meta
    BY <1>3 DEF Evict, WritePage, aux
  <2>2. IInv'
    BY Zenon, <2>1 DEF IInv, SyncInv, BracketInv, BracketIn, Types
  <2> QED
    BY Zenon, <2>1, <2>2, Syncs
<1> QED
  BY Zenon, <1>1, <1>2, <1>3 DEF Environment

LEMMA NextInv == IInv /\ [Next]_vars => KeepsSynced /\ IInv'
<1> SUFFICES ASSUME IInv, [Next]_vars PROVE KeepsSynced /\ IInv'
  BY Zenon
<1>1. CASE UNCHANGED vars
  <2>1. UNCHANGED <<log, synced, meta, stable, pc, local, acked>>
    BY Zenon, <1>1 DEF vars
  <2>2. IInv'
    BY Zenon, <2>1 DEF IInv, SyncInv, BracketInv, BracketIn, Types
  <2> QED
    BY Zenon, <2>1, <2>2, Syncs
<1> QED
  BY Zenon, <1>1, ClientInv, CallInv, CheckpointInv, RecoveryInv, EnvironmentInv
     DEF Next, Engine, Idle

LEMMA LogInv == Spec => []IInv
  BY InitInv, NextInv, PTL DEF Spec

----------------------------------------------------------------------------
(* The properties.                                                          *)

LEMMA WholeBracket == IInv => CheckpointComplete
<1> SUFFICES ASSUME IInv, meta # 0 PROVE HasCheckpoint
  BY Zenon DEF CheckpointComplete
<1>1. PICK e \in meta + 1 .. synced :
        /\ meta \in 1 .. synced
        /\ Types(meta) = "CHECKPOINT_BEGIN" /\ Types(e) = "CHECKPOINT_END"
        /\ \A i \in meta + 1 .. e - 1 : Types(i) = "ACTIVE_TXN"
  BY Zenon DEF IInv, BracketInv, BracketIn
<1>2. Len(log) \in Nat /\ synced \in 0 .. Len(log)
  BY DEF IInv, SyncInv
<1>3. BracketEnd(meta) = e
  <2> DEFINE Ends(x) == /\ x = Len(log) + 1 \/ Types(x) # "ACTIVE_TXN"
                        /\ \A i \in meta + 1 .. x - 1 : Types(i) = "ACTIVE_TXN"
  <2>1. e \in meta + 1 .. Len(log) + 1 /\ Ends(e)
    BY <1>1, <1>2
  <2>2. ASSUME NEW x \in meta + 1 .. Len(log) + 1, Ends(x) PROVE x = e
    <3>1. CASE x < e
      <4>1. x \in meta + 1 .. e - 1 /\ x # Len(log) + 1
        BY <1>1, <1>2, <3>1
      <4> QED
        BY Zenon, <1>1, <2>2, <4>1
    <3>2. CASE e < x
      <4>1. e \in meta + 1 .. x - 1
        BY <1>1, <1>2, <3>2
      <4> QED
        BY Zenon, <1>1, <2>2, <4>1
    <3> QED
      BY <1>1, <1>2, <3>1, <3>2
  <2>3. BracketEnd(meta) = CHOOSE x \in meta + 1 .. Len(log) + 1 : Ends(x)
    BY Zenon DEF BracketEnd
  <2> HIDE DEF Ends
  <2> QED
    BY Zenon, <2>1, <2>2, <2>3
<1> QED
  BY <1>1, <1>2, <1>3 DEF HasCheckpoint

\* DoCheckpoint fsyncs the bracket before it writes the pointer: recovery always
\* finds a whole bracket at the checkpoint the meta page names.
THEOREM BracketsWhole == Spec => []CheckpointComplete
  BY LogInv, WholeBracket, PTL

\* Commit fsyncs the log before it returns: no crash and no power failure takes
\* the COMMIT of a transaction its client was told of.
THEOREM CommitsKept == Spec => AckedCommitKept
<1>1. ASSUME IInv, [Next]_vars, acked # 0
      PROVE  acked <= Len(log') /\ log'[acked] = log[acked]
  <2>1. KeepsSynced /\ acked \in 1 .. synced /\ synced \in Nat
    BY <1>1, NextInv DEF IInv, SyncInv
  <2>2. Len(log') \in Nat
    BY <2>1 DEF KeepsSynced
  <2> QED
    BY <2>1, <2>2 DEF KeepsSynced
<1>2. IInv /\ [Next]_vars
        => [acked # 0 => acked <= Len(log') /\ log'[acked] = log[acked]]_vars
  BY Zenon, <1>1
<1> QED
  BY <1>2, LogInv, PTL DEF Spec, AckedCommitKept

----------------------------------------------------------------------------
(* What the log says of its transactions.  l is a log: the operators are    *)
(* applied to the log before and after a step.                              *)

Steps == {"BEGIN", "UPDATE", "CLR"}
Is(l, i, T, t) == l[i].type \in T /\ l[i].txn = t
None(l, from, to, T, t) == \A i \in from .. to : ~Is(l, i, T, t)

\* Update u is neither committed nor compensated: its transaction has not begun
\* anew, has no COMMIT, and no CLR of it goes on from before u.
Live(l, u) ==
  /\ u \in 1 .. Len(l) /\ l[u].type = "UPDATE"
  /\ None(l, u + 1, Len(l), {"BEGIN", "COMMIT"}, l[u].txn)
  /\ \A c \in u + 1 .. Len(l) : Is(l, c, {"CLR"}, l[u].txn) => l[c].undo_next >= u

\* prev_lsn names the record of the transaction before an UPDATE; undo_next_lsn
\* names what is left to undo, and never goes up again; ACTIVE_TXN names a
\* record of the transaction.
Points(l, i, j) == j \in 1 .. i - 1 /\ Is(l, j, {"BEGIN", "UPDATE"}, l[i].txn)

UpdateLinks(l, i) ==
  /\ Points(l, i, l[i].prev)
  /\ None(l, l[i].prev + 1, i - 1, {"BEGIN", "UPDATE", "CLR", "COMMIT"}, l[i].txn)

ClrLinks(l, i) ==
  /\ Points(l, i, l[i].undo_next)
  /\ None(l, l[i].undo_next + 1, i - 1, {"BEGIN", "COMMIT"}, l[i].txn)
  /\ \A c \in l[i].undo_next + 1 .. i - 1 :
       Is(l, c, {"CLR"}, l[i].txn) => l[c].undo_next >= l[i].undo_next

Linked(l, i) ==
  /\ l[i].type \in Steps => l[i].txn \in Id
  /\ l[i].type \in {"UPDATE", "CLR"} => l[i].key \in Key
  /\ l[i].type = "UPDATE" => UpdateLinks(l, i)
  /\ l[i].type = "CLR" => ClrLinks(l, i)
  /\ l[i].type = "ACTIVE_TXN" => Points(l, i, l[i].last)

Links(l) == \A i \in 1 .. Len(l) : Linked(l, i)

Once(l) ==
  \A i, j \in 1 .. Len(l) :
    /\ l[i].type = "CLR" /\ l[j].type = "CLR"
    /\ l[i].txn = l[j].txn /\ l[i].undo_next = l[j].undo_next
    => i = j

\* i is the last record of transaction t that counts, and t has no COMMIT.
Latest(l, t, i) ==
  /\ i \in 1 .. Len(l) /\ Is(l, i, Steps, t)
  /\ None(l, i + 1, Len(l), {"BEGIN", "UPDATE", "CLR", "COMMIT"}, t)

\* Log m is log l with records added; with the one record r added.
Extends(l, m) ==
  /\ Len(l) \in Nat /\ Len(m) \in Nat /\ Len(l) <= Len(m)
  /\ \A i \in 1 .. Len(l) : m[i] = l[i]
Adds(l, m, r) == Extends(l, m) /\ Len(m) = Len(l) + 1 /\ m[Len(m)] = r

\* What was added says nothing of transaction t.
Foreign(l, m, t) ==
  /\ Extends(l, m)
  /\ None(m, Len(l) + 1, Len(m), {"BEGIN", "UPDATE", "CLR", "COMMIT"}, t)

----------------------------------------------------------------------------
(* A longer log.                                                            *)

LEMMA NoneExtends ==
  ASSUME NEW l, NEW m, Extends(l, m), NEW a \in Nat \ {0}, NEW b \in Nat, b <= Len(l), NEW T, NEW t
  PROVE  None(m, a, b, T, t) <=> None(l, a, b, T, t)
<1>1. \A i \in a .. b : i \in 1 .. Len(l)
  BY DEF Extends
<1>2. \A i \in a .. b : m[i] = l[i]
  BY Zenon, <1>1 DEF Extends
<1> QED
  BY Zenon, <1>2 DEF None, Is

LEMMA LiveShrinks ==
  ASSUME NEW l, NEW m, Extends(l, m), NEW u \in 1 .. Len(l), Live(m, u)
  PROVE  Live(l, u)
<1>1. /\ l[u] = m[u] /\ \A i \in u + 1 .. Len(l) : i \in u + 1 .. Len(m) /\ m[i] = l[i]
  BY DEF Extends
<1> QED
  BY Zenon, <1>1 DEF Live, None, Is

\* A live update of t stays live while nothing is said of t.
LEMMA LiveForeign ==
  ASSUME NEW l, NEW m, NEW t, Foreign(l, m, t), NEW u \in 1 .. Len(l), l[u].txn = t
  PROVE  Live(m, u) <=> Live(l, u)
<1>1. Extends(l, m)
  BY Zenon DEF Foreign
<1>2. ASSUME Live(l, u) PROVE Live(m, u)
  <2>1. Len(l) \in Nat /\ Len(m) \in Nat /\ Len(l) <= Len(m) /\ m[u] = l[u] /\ u \in Nat
    BY <1>1 DEF Extends
  <2>2. ASSUME NEW c \in u + 1 .. Len(m)
        PROVE  ~Is(m, c, {"BEGIN", "COMMIT"}, t) /\ (Is(m, c, {"CLR"}, t) => m[c].undo_next >= u)
    <3>1. CASE c \in u + 1 .. Len(l)
      <4>1. m[c] = l[c]
        BY <1>1, <2>1, <3>1 DEF Extends
      <4> QED
        BY Zenon, <1>2, <3>1, <4>1 DEF Live, None, Is
    <3>2. CASE c \in Len(l) + 1 .. Len(m)
      <4>1. ~Is(m, c, {"BEGIN", "UPDATE", "CLR", "COMMIT"}, t)
        BY <3>2, Zenon DEF Foreign, None
      <4> QED
        BY <4>1, Zenon DEF Is
    <3> QED
      BY <2>1, <3>1, <3>2
  <2>3. u \in 1 .. Len(m) /\ m[u].type = "UPDATE" /\ m[u].txn = t
    BY <1>2, <2>1 DEF Live
  <2> QED
    BY <2>2, <2>3, Zenon DEF Live, None
<1> QED
  BY Zenon, <1>1, <1>2, LiveShrinks

\* Nor is there a new live update of t.
LEMMA NewForeign ==
  ASSUME NEW l, NEW m, NEW t, Foreign(l, m, t), NEW u, Live(m, u), m[u].txn = t
  PROVE  u \in 1 .. Len(l)
<1>1. CASE u \in Len(l) + 1 .. Len(m)
  BY Zenon, <1>1 DEF Foreign, None, Is, Live
<1> QED
  BY <1>1 DEF Foreign, Extends, Live

LEMMA LatestForeign ==
  ASSUME NEW l, NEW m, NEW t, Foreign(l, m, t), NEW i, Latest(l, t, i)
  PROVE  Latest(m, t, i)
<1>1. Extends(l, m) /\ i \in 1 .. Len(l) /\ i \in 1 .. Len(m) /\ m[i] = l[i]
  BY DEF Foreign, Extends, Latest
<1>2. ASSUME NEW c \in i + 1 .. Len(m)
      PROVE  ~Is(m, c, {"BEGIN", "UPDATE", "CLR", "COMMIT"}, t)
  <2>1. CASE c \in i + 1 .. Len(l)
    <3>1. m[c] = l[c]
      BY <1>1, <2>1 DEF Extends
    <3> QED
      BY Zenon, <2>1, <3>1 DEF Latest, None, Is
  <2>2. CASE c \in Len(l) + 1 .. Len(m)
    BY Zenon, <2>2 DEF Foreign, None
  <2> QED
    BY <1>1, <2>1, <2>2 DEF Extends
<1> QED
  BY Zenon, <1>1, <1>2 DEF Latest, None, Is
----------------------------------------------------------------------------
(* The links of a record that is added.                                     *)

LEMMA LinkedExtends ==
  ASSUME NEW l, NEW m, Extends(l, m), NEW i \in 1 .. Len(l), Linked(l, i)
  PROVE  Linked(m, i)
<1>1. /\ Len(l) \in Nat /\ i \in Nat /\ m[i] = l[i]
      /\ \A j \in 1 .. i - 1 : m[j] = l[j]
  BY DEF Extends
<1>2. \A j : Points(l, i, j) => Points(m, i, j)
  BY Zenon, <1>1 DEF Points, Is
<1>3. ASSUME UpdateLinks(l, i) PROVE UpdateLinks(m, i)
  <2>1. l[i].prev \in 1 .. i - 1
    BY Zenon, <1>3 DEF UpdateLinks, Points
  <2>2. \A j \in l[i].prev + 1 .. i - 1 : m[j] = l[j]
    BY <1>1, <2>1
  <2> QED
    BY Zenon, <1>1, <1>2, <1>3, <2>2 DEF UpdateLinks, None, Is
<1>4. ASSUME ClrLinks(l, i) PROVE ClrLinks(m, i)
  <2>1. l[i].undo_next \in 1 .. i - 1
    BY Zenon, <1>4 DEF ClrLinks, Points
  <2>2. \A j \in l[i].undo_next + 1 .. i - 1 : m[j] = l[j]
    BY <1>1, <2>1
  <2> QED
    BY Zenon, <1>1, <1>2, <1>4, <2>2 DEF ClrLinks, None, Is
<1> QED
  BY <1>1, <1>2, <1>3, <1>4, Zenon DEF Linked

LEMMA LinksAdds ==
  ASSUME NEW l, NEW m, NEW r, Adds(l, m, r), Links(l), Linked(m, Len(m))
  PROVE  Links(m)
<1>1. Extends(l, m) /\ \A i \in 1 .. Len(m) : i \in 1 .. Len(l) \/ i = Len(m)
  BY DEF Adds, Extends
<1> QED
  BY <1>1, LinkedExtends, Zenon DEF Links

LEMMA OnceAdds ==
  ASSUME NEW l, NEW m, NEW r, Adds(l, m, r), Once(l), r.type # "CLR"
  PROVE  Once(m)
<1>1. \A i \in 1 .. Len(m) : (i \in 1 .. Len(l) /\ m[i] = l[i]) \/ m[i] = r
  BY DEF Adds, Extends
<1> QED
  BY Zenon, <1>1 DEF Once

\* An UPDATE that names the last record of its transaction.
LEMMA UpdateLinked ==
  ASSUME NEW l, NEW m, NEW t \in Id, NEW p, NEW k \in Key, NEW old, NEW new,
         Adds(l, m, Update(t, p, k, old, new)), Latest(l, t, p),
         l[p].type \in {"BEGIN", "UPDATE"}
  PROVE  Linked(m, Len(m))
<1> DEFINE r == Update(t, p, k, old, new)
<1>1. /\ r.type = "UPDATE" /\ r.txn = t /\ r.prev = p /\ r.key = k
  BY Zenon DEF Update
<1>2. /\ Extends(l, m) /\ Len(m) = Len(l) + 1 /\ m[Len(m)] = r
  BY Zenon DEF Adds
<1> HIDE DEF r
<1>3. /\ Len(l) \in Nat /\ p \in 1 .. Len(l) /\ m[p] = l[p] /\ Len(m) - 1 = Len(l)
      /\ p + 1 \in Nat \ {0}
  BY <1>2 DEF Extends, Latest
<1>4. Points(m, Len(m), p)
  BY Zenon, <1>1, <1>2, <1>3 DEF Points, Latest, Is
<1>5. None(m, p + 1, Len(m) - 1, {"BEGIN", "UPDATE", "CLR", "COMMIT"}, t)
  BY <1>2, <1>3, NoneExtends DEF Latest
<1> QED
  BY Zenon, <1>1, <1>2, <1>4, <1>5 DEF Linked, UpdateLinks

\* A CLR that goes on from before a live update.
LEMMA ClrLinked ==
  ASSUME NEW l, NEW m, Links(l), NEW p, Live(l, p), NEW new,
         Adds(l, m, Clr(l[p].txn, l[p].key, new, l[p].prev))
  PROVE  Linked(m, Len(m))
<1> DEFINE t == l[p].txn
           q == l[p].prev
           r == Clr(t, l[p].key, new, q)
<1>1. /\ r.type = "CLR" /\ r.txn = t /\ r.undo_next = q /\ r.key = l[p].key
  BY Zenon DEF Clr
<1>2. /\ Extends(l, m) /\ Len(m) = Len(l) + 1 /\ m[Len(m)] = r
  BY Zenon DEF Adds
<1>3. Linked(l, p) /\ p \in 1 .. Len(l) /\ l[p].type = "UPDATE"
  BY Zenon DEF Links, Live
<1>4. t \in Id /\ l[p].key \in Key /\ UpdateLinks(l, p)
  BY Zenon, <1>3 DEF Linked, Steps
<1>5. /\ q \in 1 .. p - 1 /\ Is(l, q, {"BEGIN", "UPDATE"}, t)
      /\ None(l, q + 1, p - 1, {"BEGIN", "UPDATE", "CLR", "COMMIT"}, t)
  BY Zenon, <1>4 DEF UpdateLinks, Points
<1> HIDE DEF r
<1>6. /\ None(l, p + 1, Len(l), {"BEGIN", "COMMIT"}, t)
      /\ \A c \in p + 1 .. Len(l) : Is(l, c, {"CLR"}, t) => l[c].undo_next >= p
  BY Zenon DEF Live
<1> HIDE DEF t, q
<1>7. /\ Len(l) \in Nat /\ p \in Nat /\ q \in Nat /\ q < p /\ Len(m) - 1 = Len(l)
      /\ q \in 1 .. Len(l) /\ m[q] = l[q]
  BY <1>2, <1>3, <1>5 DEF Extends
<1>8. Points(m, Len(m), q)
  BY Zenon, <1>1, <1>2, <1>5, <1>7 DEF Points, Is
<1>9. ASSUME NEW c \in q + 1 .. Len(m) - 1
      PROVE  /\ m[c] = l[c]
             /\ ~Is(l, c, {"BEGIN", "COMMIT"}, t)
             /\ Is(l, c, {"CLR"}, t) => l[c].undo_next >= p
  <2>1. m[c] = l[c]
    BY <1>2, <1>7 DEF Extends
  <2>2. c \in q + 1 .. p - 1 \/ c = p \/ c \in p + 1 .. Len(l)
    BY <1>7
  <2>3. CASE c \in q + 1 .. p - 1
    BY <1>5, <2>1, <2>3, Zenon DEF None, Is
  <2>4. CASE c = p
    BY Zenon, <1>3, <2>1, <2>4 DEF Is
  <2>5. CASE c \in p + 1 .. Len(l)
    BY <1>6, <2>1, <2>5, Zenon DEF None
  <2> QED
    BY Zenon, <2>2, <2>3, <2>4, <2>5
<1>10. \A c \in q + 1 .. Len(m) - 1 : Is(l, c, {"CLR"}, t) => l[c].undo_next >= q
  <2> SUFFICES ASSUME NEW c \in q + 1 .. Len(m) - 1, Is(l, c, {"CLR"}, t)
               PROVE  l[c].undo_next >= q
    BY Zenon
  <2>1. l[c].undo_next >= p /\ c \in 1 .. Len(l) /\ l[c].type = "CLR"
    BY <1>7, <1>9 DEF Is
  <2>2. l[c].undo_next \in 1 .. c - 1
    BY Zenon, <2>1 DEF Links, Linked, ClrLinks, Points
  <2> QED
    BY <1>7, <2>1, <2>2
<1>11. ClrLinks(m, Len(m))
  BY Zenon, <1>1, <1>2, <1>8, <1>9, <1>10 DEF ClrLinks, None, Is
<1> QED
  BY Zenon, <1>1, <1>2, <1>4, <1>11 DEF Linked

\* A live update has no CLR: one that undoes it goes on from before it.
LEMMA LiveUncompensated ==
  ASSUME NEW l, Links(l), NEW p, Live(l, p), NEW c \in 1 .. Len(l), Is(l, c, {"CLR"}, l[p].txn)
  PROVE  l[c].undo_next # l[p].prev
<1>1. p \in 1 .. Len(l) /\ l[p].type = "UPDATE"
  BY Zenon DEF Live
<1>2. /\ l[p].prev \in 1 .. p - 1
      /\ None(l, l[p].prev + 1, p - 1, {"BEGIN", "UPDATE", "CLR", "COMMIT"}, l[p].txn)
  BY Zenon, <1>1 DEF Links, Linked, UpdateLinks, Points
<1>3. l[c].undo_next \in 1 .. c - 1
  BY Zenon DEF Links, Linked, ClrLinks, Points, Is
<1>4. SUFFICES ASSUME l[c].undo_next = l[p].prev PROVE FALSE
  BY Zenon
<1>5. CASE c \in p + 1 .. Len(l)
  <2>1. l[c].undo_next >= p
    BY Zenon, <1>5 DEF Live
  <2> QED
    BY <1>1, <1>2, <1>4, <2>1
<1>6. CASE c \in l[p].prev + 1 .. p - 1
  BY <1>2, <1>6, Zenon DEF None, Is
<1>7. c # p
  BY Zenon, <1>1 DEF Is
<1> QED
  BY <1>1, <1>2, <1>3, <1>4, <1>5, <1>6, <1>7

LEMMA OnceClr ==
  ASSUME NEW l, NEW m, Links(l), Once(l), NEW p, Live(l, p), NEW k, NEW new,
         Adds(l, m, Clr(l[p].txn, k, new, l[p].prev))
  PROVE  Once(m)
<1> DEFINE r == Clr(l[p].txn, k, new, l[p].prev)
<1>1. r.type = "CLR" /\ r.txn = l[p].txn /\ r.undo_next = l[p].prev
  BY Zenon DEF Clr
<1>2. \A i \in 1 .. Len(m) : (i \in 1 .. Len(l) /\ m[i] = l[i]) \/ (i = Len(m) /\ m[i] = r)
  BY DEF Adds, Extends
<1> HIDE DEF r
<1>3. \A i \in 1 .. Len(l) :
        l[i].type = "CLR" /\ l[i].txn = r.txn => l[i].undo_next # r.undo_next
  BY Zenon, <1>1, LiveUncompensated DEF Is
<1> QED
  BY <1>2, <1>3, Zenon DEF Once

\* The CLR of the last live update of a transaction ends that update alone.
LEMMA LiveAfterClr ==
  ASSUME NEW l, NEW m, Links(l), NEW p, Live(l, p), NEW k, NEW new,
         \A w \in 1 .. Len(l) : Live(l, w) /\ l[w].txn = l[p].txn => w <= p,
         Adds(l, m, Clr(l[p].txn, k, new, l[p].prev)),
         NEW u
  PROVE  Live(m, u) <=> Live(l, u) /\ u # p
<1> DEFINE t == l[p].txn
           q == l[p].prev
           r == Clr(t, k, new, q)
<1>1. r.type = "CLR" /\ r.txn = t /\ r.undo_next = q
  BY Zenon DEF Clr
<1>2. Extends(l, m) /\ Len(m) = Len(l) + 1 /\ m[Len(m)] = r
  BY Zenon DEF Adds
<1>3. p \in 1 .. Len(l) /\ l[p].type = "UPDATE" /\ Len(l) \in Nat
  BY Zenon, <1>2 DEF Live, Extends
<1>4. q \in 1 .. p - 1 /\ None(l, q + 1, p - 1, {"BEGIN", "UPDATE", "CLR", "COMMIT"}, t)
  BY Zenon, <1>3 DEF Links, Linked, UpdateLinks, Points
<1> HIDE DEF r, q
<1>5. ASSUME Live(m, u) PROVE Live(l, u) /\ u # p
  <2>1. u \in 1 .. Len(m) /\ m[u].type = "UPDATE"
    BY Zenon, <1>5 DEF Live
  <2>2. u \in 1 .. Len(l)
    BY <1>1, <1>2, <1>3, <2>1
  <2>3. Live(l, u)
    BY Zenon, <1>2, <1>5, <2>2, LiveShrinks
  <2>4. u # p
    <3> SUFFICES ASSUME u = p PROVE FALSE
      BY Zenon
    <3>1. m[p] = l[p] /\ Len(m) \in p + 1 .. Len(m)
      BY <1>2, <1>3 DEF Extends
    <3>2. q >= p
      BY Zenon, <1>1, <1>2, <1>5, <3>1 DEF Live, Is
    <3> QED
      BY <1>3, <1>4, <3>2
  <2> QED
    BY Zenon, <2>3, <2>4
<1>6. ASSUME Live(l, u), u # p PROVE Live(m, u)
  <2>1. u \in 1 .. Len(l) /\ l[u].type = "UPDATE"
    BY Zenon, <1>6 DEF Live
  <2>2. m[u] = l[u] /\ u \in 1 .. Len(m)
    BY <1>2, <2>1 DEF Extends
  <2>3. l[u].txn = t => q >= u
    <3> SUFFICES ASSUME l[u].txn = t PROVE q >= u
      BY Zenon
    <3>1. u <= p
      BY Zenon, <1>6, <2>1
    <3>2. u \notin q + 1 .. p - 1
      BY <1>4, <2>1, Zenon DEF None, Is
    <3> QED
      BY <1>3, <1>4, <1>6, <2>1, <3>1, <3>2
  <2>4. ASSUME NEW c \in u + 1 .. Len(m)
        PROVE  /\ ~Is(m, c, {"BEGIN", "COMMIT"}, l[u].txn)
               /\ Is(m, c, {"CLR"}, l[u].txn) => m[c].undo_next >= u
    <3>1. CASE c = Len(m)
      BY Zenon, <1>1, <1>2, <2>3, <3>1 DEF Is
    <3>2. CASE c \in u + 1 .. Len(l)
      <4>1. m[c] = l[c]
        BY <1>2, <2>1, <3>2 DEF Extends
      <4> QED
        BY Zenon, <1>6, <3>2, <4>1 DEF Live, None, Is
    <3> QED
      BY <1>2, <1>3, <2>1, <3>1, <3>2
  <2> QED
    BY <2>1, <2>2, <2>4, Zenon DEF Live, None
<1> QED
  BY Zenon, <1>5, <1>6

\* Where the undo of a transaction goes on.
Cursor(l, i) == IF l[i].type = "CLR" THEN l[i].undo_next ELSE i

LEMMA CursorIsLive ==
  ASSUME NEW l, Len(l) \in Nat, Links(l), NEW t, NEW i, Latest(l, t, i)
  PROVE  LET q == Cursor(l, i) IN
         /\ q \in 1 .. Len(l) /\ Is(l, q, {"BEGIN", "UPDATE"}, t)
         /\ l[q].type = "UPDATE" => Live(l, q)
         /\ \A u : Live(l, u) /\ l[u].txn = t => u <= q /\ l[q].type = "UPDATE"
<1> DEFINE q == Cursor(l, i)
<1>1. /\ i \in 1 .. Len(l) /\ Is(l, i, Steps, t)
      /\ None(l, i + 1, Len(l), {"BEGIN", "UPDATE", "CLR", "COMMIT"}, t)
  BY Zenon DEF Latest
<1>2. l[i].type = "CLR" => ClrLinks(l, i) /\ q = l[i].undo_next
  BY Zenon, <1>1 DEF Links, Linked, Cursor
<1>3. l[i].type # "CLR" => q = i /\ l[i].type \in {"BEGIN", "UPDATE"}
  BY Zenon, <1>1 DEF Cursor, Is, Steps
<1> HIDE DEF q
<1>4. q \in 1 .. i /\ Is(l, q, {"BEGIN", "UPDATE"}, t)
  BY <1>1, <1>2, <1>3 DEF ClrLinks, Points, Is
<1>5. ASSUME NEW c \in q + 1 .. Len(l)
      PROVE  /\ ~Is(l, c, {"BEGIN", "COMMIT"}, t)
             /\ Is(l, c, {"CLR"}, t) => l[c].undo_next >= q
  <2>1. CASE c \in i + 1 .. Len(l)
    BY <1>1, <2>1, Zenon DEF None, Is
  <2>2. CASE c = i
    <3>1. l[i].type = "CLR" /\ q = l[i].undo_next
      BY <1>1, <1>2, <1>3, <2>2
    <3> QED
      BY <1>1, <1>4, <2>2, <3>1 DEF Is
  <2>3. CASE c \in q + 1 .. i - 1
    <3>1. ClrLinks(l, i) /\ q = l[i].undo_next /\ l[i].txn = t
      BY <1>1, <1>2, <1>3, <2>3 DEF Is
    <3> QED
      BY <2>3, <3>1, Zenon DEF ClrLinks, None
  <2> QED
    BY <1>1, <1>4, <2>1, <2>2, <2>3
<1>6. l[q].type = "UPDATE" => Live(l, q)
  BY <1>1, <1>4, <1>5 DEF Live, None, Is
<1>7. ASSUME NEW u, Live(l, u), l[u].txn = t PROVE u <= q /\ l[q].type = "UPDATE"
  <2>1. u \in 1 .. Len(l) /\ l[u].type = "UPDATE"
    BY Zenon, <1>7 DEF Live
  <2>2. u \notin i + 1 .. Len(l)
    BY <1>1, <1>7, <2>1, Zenon DEF None, Is
  <2>3. u <= i
    BY <1>1, <2>1, <2>2
  <2>4. u <= q
    <3>1. CASE l[i].type = "CLR"
      <4>1. i \in u + 1 .. Len(l)
        BY <1>1, <2>1, <2>3, <3>1
      <4>2. l[i].undo_next >= u
        BY Zenon, <1>1, <1>7, <3>1, <4>1 DEF Live, Is
      <4> QED
        BY Zenon, <1>1, <1>2, <1>4, <2>1, <3>1, <4>2
    <3> QED
      BY Zenon, <1>3, <2>3, <3>1
  <2>5. l[q].type # "BEGIN"
    <3> SUFFICES ASSUME l[q].type = "BEGIN" PROVE FALSE
      BY Zenon
    <3>1. q \in u + 1 .. Len(l)
      BY <1>1, <1>4, <2>1, <2>4
    <3> QED
      BY Zenon, <1>4, <1>7, <3>1 DEF Live, None, Is
  <2> QED
    BY Zenon, <1>4, <2>4, <2>5 DEF Is
<1>8. q \in 1 .. Len(l)
  BY <1>1, <1>4
<1> QED
  BY Zenon, <1>4, <1>6, <1>7, <1>8 DEF q
----------------------------------------------------------------------------
(* An undo list and the records it stands for.                              *)

IsSeq(s) == \E S : s \in Seq(S)

\* The record of entry i, given the record of the last one; 0 stands for the
\* BEGIN of the transaction.
At(es, last, i) == IF i = Len(es) THEN last ELSE es[i + 1].undo_next

Entry(l, u) == [key |-> l[u].key, old |-> l[u].old, undo_next |-> l[u].prev]

Chain(l, t, last, es) ==
  /\ IsSeq(es)
  /\ \A i \in 0 .. Len(es) : At(es, last, i) \in 1 .. Len(l)
  /\ \A i, j \in 0 .. Len(es) : i < j => At(es, last, i) < At(es, last, j)
  /\ Is(l, At(es, last, 0), {"BEGIN"}, t)
  /\ \A i \in 1 .. Len(es) :
       /\ Is(l, At(es, last, i), {"UPDATE"}, t)
       /\ es[i] = Entry(l, At(es, last, i))

\* The list holds exactly the live updates of the transaction.
Undoes(l, t, last, es) ==
  /\ \A i \in 1 .. Len(es) : Live(l, At(es, last, i))
  /\ \A u : Live(l, u) /\ l[u].txn = t => \E i \in 1 .. Len(es) : u = At(es, last, i)

\* No update of t's last BEGIN is compensated or committed.
Whole(l, t) ==
  \A u \in 1 .. Len(l) :
    Is(l, u, {"UPDATE"}, t) /\ None(l, u + 1, Len(l), {"BEGIN"}, t) => Live(l, u)

LEMMA ChainExtends ==
  ASSUME NEW l, NEW m, Extends(l, m), NEW t, NEW last, NEW es, Chain(l, t, last, es)
  PROVE  Chain(m, t, last, es)
<1> DEFINE at(i) == At(es, last, i)
<1>1. /\ IsSeq(es) /\ Is(l, at(0), {"BEGIN"}, t)
      /\ \A i \in 0 .. Len(es) : at(i) \in 1 .. Len(l)
      /\ \A i, j \in 0 .. Len(es) : i < j => at(i) < at(j)
      /\ \A i \in 1 .. Len(es) : Is(l, at(i), {"UPDATE"}, t) /\ es[i] = Entry(l, at(i))
  BY Zenon DEF Chain
<1>2. Len(es) \in Nat
  BY <1>1 DEF IsSeq
<1> HIDE DEF at
<1>3. \A i \in 0 .. Len(es) : at(i) \in 1 .. Len(m) /\ m[at(i)] = l[at(i)]
  BY <1>1 DEF Extends
<1>4. 0 \in 0 .. Len(es) /\ \A i \in 1 .. Len(es) : i \in 0 .. Len(es)
  BY <1>2
<1> QED
  BY Zenon, <1>1, <1>3, <1>4 DEF Chain, at, Is, Entry

LEMMA ChainLast ==
  ASSUME NEW l, NEW t, NEW last, NEW es, Chain(l, t, last, es)
  PROVE  last \in 1 .. Len(l) /\ Is(l, last, {"BEGIN", "UPDATE"}, t) /\ Len(es) \in Nat
<1>1. Len(es) \in Nat
  BY DEF Chain, IsSeq
<1>2. At(es, last, Len(es)) = last /\ Len(es) \in 0 .. Len(es)
  BY <1>1 DEF At
<1>3. Len(es) = 0 \/ Len(es) \in 1 .. Len(es)
  BY <1>1
<1> QED
  BY Zenon, <1>1, <1>2, <1>3 DEF Chain, Is

LEMMA UndoesForeign ==
  ASSUME NEW l, NEW m, NEW t, Foreign(l, m, t), NEW last, NEW es,
         Chain(l, t, last, es), Undoes(l, t, last, es)
  PROVE  Undoes(m, t, last, es)
<1>1. Extends(l, m)
  BY Zenon DEF Foreign
<1>2. ASSUME NEW i \in 1 .. Len(es) PROVE Live(m, At(es, last, i))
  <2>1. Live(l, At(es, last, i)) /\ Is(l, At(es, last, i), {"UPDATE"}, t)
    BY Zenon DEF Chain, Undoes
  <2> QED
    BY <2>1, LiveForeign DEF Live, Is
<1>3. ASSUME NEW u, Live(m, u), m[u].txn = t PROVE \E i \in 1 .. Len(es) : u = At(es, last, i)
  <2>1. u \in 1 .. Len(l)
    BY Zenon, <1>3, NewForeign
  <2>2. Live(l, u) /\ l[u].txn = t
    BY Zenon, <1>1, <1>3, <2>1, LiveShrinks DEF Extends
  <2> QED
    BY Zenon, <2>2 DEF Undoes
<1> QED
  BY Zenon, <1>2, <1>3 DEF Undoes

LEMMA WholeForeign ==
  ASSUME NEW l, NEW m, NEW t, Foreign(l, m, t), Whole(l, t)
  PROVE  Whole(m, t)
<1> SUFFICES ASSUME NEW u \in 1 .. Len(m), Is(m, u, {"UPDATE"}, t),
                    None(m, u + 1, Len(m), {"BEGIN"}, t)
             PROVE  Live(m, u)
  BY Zenon DEF Whole
<1>1. Extends(l, m)
  BY Zenon DEF Foreign
<1>2. u \in 1 .. Len(l)
  <2>1. u \notin Len(l) + 1 .. Len(m)
    BY Zenon DEF Foreign, None, Is
  <2> QED
    BY <1>1, <2>1 DEF Extends
<1>3. l[u] = m[u] /\ \A i \in u + 1 .. Len(l) : i \in u + 1 .. Len(m) /\ l[i] = m[i]
  BY <1>1, <1>2 DEF Extends
<1>4. Is(l, u, {"UPDATE"}, t) /\ None(l, u + 1, Len(l), {"BEGIN"}, t)
  BY Zenon, <1>3 DEF None, Is
<1>5. Live(l, u)
  BY Zenon, <1>2, <1>4 DEF Whole
<1> QED
  BY Zenon, <1>2, <1>4, <1>5, LiveForeign DEF Is

\* The update that an entry is undone with is the last live one; without it the
\* list stands for what is left.
LEMMA LastIsGreatest ==
  ASSUME NEW l, NEW t, NEW last, NEW es, Chain(l, t, last, es), Undoes(l, t, last, es),
         es # <<>>
  PROVE  /\ Live(l, last) /\ l[last].txn = t /\ es[Len(es)] = Entry(l, last)
         /\ \A w : Live(l, w) /\ l[w].txn = t => w <= last
<1>1. IsSeq(es)
  BY Zenon DEF Chain
<1>2. Len(es) \in 1 .. Len(es) /\ Len(es) \in Nat
  BY <1>1 DEF IsSeq
<1>3. At(es, last, Len(es)) = last
  BY Zenon DEF At
<1>4. Live(l, last) /\ l[last].txn = t /\ es[Len(es)] = Entry(l, last)
  BY Zenon, <1>2, <1>3 DEF Chain, Undoes, Is
<1>5. ASSUME NEW w, Live(l, w), l[w].txn = t PROVE w <= last
  <2>1. PICK i \in 1 .. Len(es) : w = At(es, last, i)
    BY Zenon, <1>5 DEF Undoes
  <2>2. i = Len(es) \/ i < Len(es)
    BY <1>2
  <2>3. i \in 0 .. Len(es) /\ Len(es) \in 0 .. Len(es)
    BY <1>2
  <2>4. last \in 1 .. Len(l) /\ w \in 1 .. Len(l)
    BY Zenon, <1>3, <1>5, <2>3 DEF Chain, Live
  <2>5. i < Len(es) => w < last
    BY Zenon, <1>3, <2>1, <2>3 DEF Chain
  <2> QED
    BY <1>3, <2>1, <2>2, <2>4, <2>5
<1> QED
  BY Zenon, <1>4, <1>5

LEMMA ChainShorter ==
  ASSUME NEW l, NEW t, NEW last, NEW es, Chain(l, t, last, es), es # <<>>
  PROVE  LET fs == SubSeq(es, 1, Len(es) - 1) IN
         /\ Len(fs) = Len(es) - 1
         /\ \A i \in 0 .. Len(fs) : At(fs, l[last].prev, i) = At(es, last, i)
         /\ Chain(l, t, l[last].prev, fs)
<1> DEFINE n == Len(es)
           fs == SubSeq(es, 1, n - 1)
           p == l[last].prev
<1>1. PICK S : es \in Seq(S)
  BY Zenon DEF Chain, IsSeq
<1>2. n \in Nat \ {0} /\ n \in 1 .. n
  BY <1>1
<1>3. fs \in Seq(S) /\ Len(fs) = n - 1 /\ \A i \in 1 .. n - 1 : fs[i] = es[i]
  <2>1. n - 1 \in Nat /\ n - 1 <= Len(es) /\ 1 .. n - 1 \subseteq 1 .. Len(es)
    BY <1>2
  <2> HIDE DEF n
  <2> QED
    BY <1>1, <2>1
<1>4. At(es, last, n) = last
  BY Zenon DEF At
<1>5. es[n] = Entry(l, last)
  BY Zenon, <1>2, <1>4 DEF Chain
<1>6. es[n].undo_next = p
  BY <1>5 DEF Entry
<1> HIDE DEF fs, n, p
<1>7. ASSUME NEW i \in 0 .. Len(fs) PROVE At(fs, p, i) = At(es, last, i)
  <2>1. CASE i = n - 1
    <3>1. i # n /\ i + 1 = n
      BY <1>2, <2>1
    <3>2. At(es, last, i) = es[n].undo_next
      BY Zenon, <3>1 DEF At, n
    <3> QED
      BY Zenon, <1>3, <1>6, <2>1, <3>2 DEF At
  <2>2. CASE i # n - 1
    <3>1. i # n /\ i + 1 \in 1 .. n - 1
      BY <1>2, <1>3, <2>2
    <3> QED
      BY Zenon, <1>3, <2>2, <3>1 DEF At, n
  <2> QED
    BY Zenon, <2>1, <2>2
<1>8. \A i \in 0 .. Len(fs) : i \in 0 .. n
  BY <1>2, <1>3
<1>9. Chain(l, t, p, fs)
  <2>1. IsSeq(fs)
    BY Zenon, <1>3 DEF IsSeq
  <2>2. \A i \in 0 .. Len(fs) : At(fs, p, i) \in 1 .. Len(l)
    BY Zenon, <1>7, <1>8 DEF Chain, n
  <2>3. \A i, j \in 0 .. Len(fs) : i < j => At(fs, p, i) < At(fs, p, j)
    BY Zenon, <1>7, <1>8 DEF Chain, n
  <2>4. 0 \in 0 .. Len(fs) /\ \A i \in 1 .. Len(fs) : i \in 1 .. n /\ i \in 1 .. n - 1 /\ i \in 0 .. Len(fs)
    BY <1>2, <1>3
  <2>5. Is(l, At(fs, p, 0), {"BEGIN"}, t)
    BY Zenon, <1>7, <2>4 DEF Chain
  <2>6. ASSUME NEW i \in 1 .. Len(fs)
        PROVE  Is(l, At(fs, p, i), {"UPDATE"}, t) /\ fs[i] = Entry(l, At(fs, p, i))
    BY Zenon, <1>3, <1>7, <2>4 DEF Chain, n
  <2> QED
    BY Zenon, <2>1, <2>2, <2>3, <2>5, <2>6 DEF Chain
<1> QED
  BY Zenon, <1>3, <1>7, <1>9 DEF fs, n, p

LEMMA UndoesShorter ==
  ASSUME NEW l, NEW m, Links(l), NEW t, NEW last, NEW es, NEW k, NEW new,
         Chain(l, t, last, es), Undoes(l, t, last, es), es # <<>>,
         Adds(l, m, Clr(t, k, new, l[last].prev))
  PROVE  LET fs == SubSeq(es, 1, Len(es) - 1) IN
         Chain(m, t, l[last].prev, fs) /\ Undoes(m, t, l[last].prev, fs)
<1> DEFINE fs == SubSeq(es, 1, Len(es) - 1)
           p == l[last].prev
<1>1. /\ Live(l, last) /\ l[last].txn = t
      /\ \A w : Live(l, w) /\ l[w].txn = t => w <= last
  BY Zenon, LastIsGreatest
<1>2. \A u : Live(m, u) <=> Live(l, u) /\ u # last
  BY Zenon, <1>1, LiveAfterClr
<1>3. /\ Len(fs) = Len(es) - 1
      /\ \A i \in 0 .. Len(fs) : At(fs, p, i) = At(es, last, i)
      /\ Chain(l, t, p, fs)
  BY Zenon, ChainShorter
<1> HIDE DEF fs, p
<1>4. Extends(l, m)
  BY Zenon DEF Adds
<1>5. Chain(m, t, p, fs)
  BY Zenon, <1>3, <1>4, ChainExtends
<1>6. Len(es) \in Nat /\ At(es, last, Len(es)) = last
  BY Zenon, ChainLast DEF At
<1>7. ASSUME NEW i \in 1 .. Len(fs) PROVE Live(m, At(fs, p, i))
  <2>1. i \in 0 .. Len(fs) /\ i \in 1 .. Len(es) /\ i < Len(es) /\ i \in 0 .. Len(es)
        /\ Len(es) \in 0 .. Len(es)
    BY <1>3, <1>6
  <2>2. At(es, last, i) < last /\ At(es, last, i) \in 1 .. Len(l) /\ last \in 1 .. Len(l)
    BY Zenon, <1>6, <2>1 DEF Chain
  <2>3. At(es, last, i) # last
    BY <2>2
  <2> QED
    BY Zenon, <1>2, <1>3, <2>1, <2>3 DEF Undoes
<1>8. ASSUME NEW u, Live(m, u), m[u].txn = t PROVE \E i \in 1 .. Len(fs) : u = At(fs, p, i)
  <2>1. Live(l, u) /\ u # last
    BY Zenon, <1>2, <1>8
  <2>2. l[u].txn = t
    BY Zenon, <1>4, <1>8, <2>1 DEF Extends, Live
  <2>3. PICK i \in 1 .. Len(es) : u = At(es, last, i)
    BY Zenon, <2>1, <2>2 DEF Undoes
  <2>4. i # Len(es)
    BY Zenon, <1>6, <2>1, <2>3
  <2>5. i \in 1 .. Len(fs) /\ i \in 0 .. Len(fs)
    BY <1>3, <1>6, <2>4
  <2> QED
    BY Zenon, <1>3, <2>3, <2>5
<1> QED
  BY Zenon, <1>5, <1>7, <1>8 DEF Undoes, fs, p
----------------------------------------------------------------------------
(* The records that are added.                                              *)

LEMMA ForeignSame ==
  ASSUME NEW l, Len(l) \in Nat
  PROVE  Extends(l, l) /\ \A t : Foreign(l, l, t)
BY DEF Foreign, Extends, None

LEMMA ForeignAdds ==
  ASSUME NEW l, NEW m, NEW r, Adds(l, m, r), NEW t,
         r.type \notin {"BEGIN", "UPDATE", "CLR", "COMMIT"} \/ r.txn # t
  PROVE  Foreign(l, m, t)
<1>1. Extends(l, m) /\ \A i \in Len(l) + 1 .. Len(m) : m[i] = r
  BY DEF Adds, Extends
<1> QED
  BY Zenon, <1>1 DEF Foreign, None, Is

\* Only BEGIN, COMMIT and CLR end a live update, only UPDATE adds one.
LEMMA LiveAdds ==
  ASSUME NEW l, NEW m, NEW r, Adds(l, m, r), r.type \notin {"BEGIN", "COMMIT", "CLR"}, NEW u
  PROVE  Live(m, u) <=> Live(l, u) \/ (u = Len(m) /\ r.type = "UPDATE")
<1>1. /\ Extends(l, m) /\ Len(l) \in Nat /\ Len(m) = Len(l) + 1 /\ m[Len(m)] = r
      /\ \A i \in 1 .. Len(l) : m[i] = l[i]
  BY Zenon DEF Adds, Extends
<1>2. ASSUME Live(m, u) PROVE Live(l, u) \/ (u = Len(m) /\ r.type = "UPDATE")
  <2>1. u \in 1 .. Len(m) /\ m[u].type = "UPDATE"
    BY Zenon, <1>2 DEF Live
  <2>2. CASE u \in 1 .. Len(l)
    BY Zenon, <1>1, <1>2, <2>2, LiveShrinks
  <2>3. CASE u = Len(m)
    BY Zenon, <1>1, <2>1, <2>3
  <2> QED
    BY <1>1, <2>1, <2>2, <2>3
<1>3. ASSUME u = Len(m), r.type = "UPDATE" PROVE Live(m, u)
  BY <1>1, <1>3 DEF Live, None
<1>4. ASSUME Live(l, u) PROVE Live(m, u)
  <2>1. u \in 1 .. Len(l) /\ l[u].type = "UPDATE" /\ u \in 1 .. Len(m) /\ m[u] = l[u]
    BY <1>1, <1>4 DEF Live
  <2>2. ASSUME NEW c \in u + 1 .. Len(m)
        PROVE  /\ ~Is(m, c, {"BEGIN", "COMMIT"}, l[u].txn)
               /\ Is(m, c, {"CLR"}, l[u].txn) => m[c].undo_next >= u
    <3>1. CASE c = Len(m)
      BY Zenon, <1>1, <3>1 DEF Is
    <3>2. CASE c \in u + 1 .. Len(l)
      <4>1. m[c] = l[c]
        BY <1>1, <2>1, <3>2
      <4> QED
        BY Zenon, <1>4, <3>2, <4>1 DEF Live, None, Is
    <3> QED
      BY <1>1, <2>1, <3>1, <3>2
  <2> QED
    BY <2>1, <2>2, Zenon DEF Live, None
<1> QED
  BY Zenon, <1>2, <1>3, <1>4

\* BEGIN and COMMIT of t end the live updates of t.
LEMMA LiveEnds ==
  ASSUME NEW l, NEW m, NEW r, Adds(l, m, r), r.type \in {"BEGIN", "COMMIT"}, NEW u, Live(m, u)
  PROVE  Live(l, u) /\ m[u] = l[u] /\ l[u].txn # r.txn
<1>1. /\ Extends(l, m) /\ Len(l) \in Nat /\ Len(m) = Len(l) + 1 /\ m[Len(m)] = r
      /\ \A i \in 1 .. Len(l) : m[i] = l[i]
  BY Zenon DEF Adds, Extends
<1>2. u \in 1 .. Len(m) /\ m[u].type = "UPDATE"
  BY Zenon DEF Live
<1>3. u \in 1 .. Len(l)
  BY <1>1, <1>2
<1>4. Live(l, u) /\ m[u] = l[u]
  BY Zenon, <1>1, <1>3, LiveShrinks
<1>5. Len(m) \in u + 1 .. Len(m)
  BY <1>1, <1>3
<1>6. ~Is(m, Len(m), {"BEGIN", "COMMIT"}, m[u].txn)
  BY Zenon, <1>5 DEF Live, None
<1> QED
  BY Zenon, <1>1, <1>4, <1>6 DEF Is

\* The first record of a transaction.
LEMMA BegunTxn ==
  ASSUME NEW l, NEW m, NEW t, Adds(l, m, Begun(t))
  PROVE  /\ Latest(m, t, Len(m)) /\ Chain(m, t, Len(m), <<>>)
         /\ Undoes(m, t, Len(m), <<>>) /\ Whole(m, t)
<1> DEFINE r == Begun(t)
<1>1. r.type = "BEGIN" /\ r.txn = t
  BY Zenon DEF Begun
<1>2. Len(l) \in Nat /\ Len(m) = Len(l) + 1 /\ m[Len(m)] = r
  BY Zenon DEF Adds, Extends
<1> HIDE DEF r
<1>3. Latest(m, t, Len(m))
  BY <1>1, <1>2 DEF Latest, Is, None, Steps
<1>4. Chain(m, t, Len(m), <<>>)
  <2>1. IsSeq(<<>>) /\ Len(<<>>) = 0
    BY DEF IsSeq
  <2> QED
    BY <1>1, <1>2, <2>1 DEF Chain, At, Is
<1>5. \A u : Live(m, u) => m[u].txn # t
  BY <1>1, LiveEnds DEF r
<1>6. \A u \in 1 .. Len(m) : Is(m, u, {"UPDATE"}, t) => ~None(m, u + 1, Len(m), {"BEGIN"}, t)
  <2> SUFFICES ASSUME NEW u \in 1 .. Len(m), Is(m, u, {"UPDATE"}, t)
               PROVE  ~None(m, u + 1, Len(m), {"BEGIN"}, t)
    BY Zenon
  <2>1. u # Len(m)
    BY Zenon, <1>1, <1>2 DEF Is
  <2>2. Len(m) \in u + 1 .. Len(m) /\ Is(m, Len(m), {"BEGIN"}, t)
    BY <1>1, <1>2, <2>1 DEF Is
  <2> QED
    BY Zenon, <2>2 DEF None
<1> QED
  BY <1>3, <1>4, <1>5, <1>6 DEF Undoes, Whole

\* One more update of a transaction.
LEMMA ChangedTxn ==
  ASSUME NEW l, NEW m, NEW t, NEW last, NEW es, NEW k, NEW old, NEW new,
         Adds(l, m, Update(t, last, k, old, new)),
         Chain(l, t, last, es), Undoes(l, t, last, es), Whole(l, t)
  PROVE  LET fs == Append(es, [key |-> k, old |-> old, undo_next |-> last]) IN
         /\ Latest(m, t, Len(m)) /\ Chain(m, t, Len(m), fs)
         /\ Undoes(m, t, Len(m), fs) /\ Whole(m, t)
<1> DEFINE r == Update(t, last, k, old, new)
           n == Len(es)
           z == Len(m)
           e == [key |-> k, old |-> old, undo_next |-> last]
           fs == Append(es, e)
<1>1. r.type = "UPDATE" /\ r.txn = t /\ r.key = k /\ r.old = old /\ r.prev = last
  BY Zenon DEF Update
<1>2. Extends(l, m) /\ Len(l) \in Nat /\ z = Len(l) + 1 /\ m[z] = r
  BY Zenon DEF Adds, Extends
<1>3. PICK S : es \in Seq(S)
  BY Zenon DEF Chain, IsSeq
<1>4. n \in Nat /\ IsSeq(fs) /\ Len(fs) = n + 1 /\ fs[n + 1] = e /\ \A i \in 1 .. n : fs[i] = es[i]
  <2>1. es \in Seq(S \cup {e}) /\ e \in S \cup {e}
    BY <1>3
  <2> HIDE DEF e
  <2> QED
    BY <2>1 DEF IsSeq
<1>5. e = Entry(m, z) /\ e.undo_next = last
  BY Zenon, <1>1, <1>2 DEF Entry
<1>6. Latest(m, t, z)
  BY <1>1, <1>2 DEF Latest, Is, None, Steps
<1> HIDE DEF r, n, z, e, fs
<1>7. \A u : Live(m, u) <=> Live(l, u) \/ u = z
  BY Zenon, <1>1, LiveAdds DEF r, z
<1>8. Chain(m, t, last, es)
  BY Zenon, <1>2, ChainExtends
<1>9. ASSUME NEW i \in 0 .. n PROVE At(fs, z, i) = At(es, last, i)
  <2>1. CASE i = n
    BY SMTT(30), <1>4, <1>5, <2>1 DEF At, n
  <2>2. CASE i # n
    <3>1. i + 1 \in 1 .. n /\ i # n + 1
      BY <1>4, <2>2
    <3> QED
      BY Zenon, <1>4, <2>2, <3>1 DEF At, n
  <2> QED
    BY Zenon, <2>1, <2>2
<1>10. At(fs, z, n + 1) = z
  BY Zenon, <1>4 DEF At
<1>11. \A i \in 0 .. n : At(es, last, i) \in 1 .. Len(l)
  BY Zenon DEF Chain, n
<1>12. \A i \in 0 .. n : At(fs, z, i) \in 1 .. z /\ At(fs, z, i) < z
  BY <1>2, <1>9, <1>11
<1>13. \A i \in 0 .. n + 1 : i \in 0 .. n \/ i = n + 1
  BY <1>4
<1>14. Chain(m, t, z, fs)
  <2>1. \A i \in 0 .. Len(fs) : At(fs, z, i) \in 1 .. Len(m)
    <3>1. z \in 1 .. z
      BY <1>2
    <3> QED
      BY Zenon, <1>4, <1>10, <1>12, <1>13, <3>1 DEF z
  <2>2. ASSUME NEW i \in 0 .. Len(fs), NEW j \in 0 .. Len(fs), i < j
        PROVE  At(fs, z, i) < At(fs, z, j)
    <3>1. i \in 0 .. n
      BY <1>4, <2>2
    <3>2. CASE j = n + 1
      BY Zenon, <1>10, <1>12, <3>1, <3>2
    <3>3. CASE j \in 0 .. n
      BY Zenon, <1>9, <2>2, <3>1, <3>3 DEF Chain, n
    <3> QED
      BY Zenon, <1>4, <1>13, <3>2, <3>3
  <2>3. Is(m, At(fs, z, 0), {"BEGIN"}, t)
    <3>1. 0 \in 0 .. n
      BY <1>4
    <3> QED
      BY Zenon, <1>8, <1>9, <3>1 DEF Chain
  <2>4. ASSUME NEW i \in 1 .. Len(fs)
        PROVE  Is(m, At(fs, z, i), {"UPDATE"}, t) /\ fs[i] = Entry(m, At(fs, z, i))
    <3>1. CASE i = n + 1
      BY Zenon, <1>1, <1>2, <1>4, <1>5, <1>10, <3>1 DEF Is
    <3>2. CASE i \in 1 .. n
      <4>1. i \in 0 .. n
        BY SMTT(30), <1>4, <3>2
      <4> QED
        BY Zenon, <1>4, <1>8, <1>9, <3>2, <4>1 DEF Chain, n
    <3> QED
      BY SMTT(30), <1>4, <3>1, <3>2
  <2> QED
    BY Zenon, <1>4, <2>1, <2>2, <2>3, <2>4 DEF Chain
<1>15. Undoes(m, t, z, fs)
  <2>1. ASSUME NEW i \in 1 .. Len(fs) PROVE Live(m, At(fs, z, i))
    <3>1. CASE i = n + 1
      BY Zenon, <1>7, <1>10, <3>1
    <3>2. CASE i \in 1 .. n
      <4>1. i \in 0 .. n
        BY <1>4, <3>2
      <4> QED
        BY Zenon, <1>7, <1>9, <3>2, <4>1 DEF Undoes, n
    <3> QED
      BY SMTT(30), <1>4, <3>1, <3>2
  <2>2. ASSUME NEW u, Live(m, u), m[u].txn = t PROVE \E i \in 1 .. Len(fs) : u = At(fs, z, i)
    <3>1. CASE u = z
      <4>1. n + 1 \in 1 .. Len(fs)
        BY <1>4
      <4> QED
        BY Zenon, <1>10, <3>1, <4>1
    <3>2. CASE Live(l, u)
      <4>1. l[u].txn = t
        BY Zenon, <1>2, <2>2, <3>2 DEF Live, Extends
      <4>2. PICK i \in 1 .. n : u = At(es, last, i)
        BY Zenon, <3>2, <4>1 DEF Undoes, n
      <4>3. i \in 0 .. n /\ i \in 1 .. Len(fs)
        BY <1>4
      <4> QED
        BY Zenon, <1>9, <4>2, <4>3
    <3> QED
      BY Zenon, <1>7, <2>2, <3>1, <3>2
  <2> QED
    BY Zenon, <2>1, <2>2 DEF Undoes
<1>16. Whole(m, t)
  <2> SUFFICES ASSUME NEW u \in 1 .. Len(m), Is(m, u, {"UPDATE"}, t),
                      None(m, u + 1, Len(m), {"BEGIN"}, t)
               PROVE  Live(m, u)
    BY Zenon DEF Whole
  <2>1. CASE u = z
    BY Zenon, <1>7, <2>1
  <2>2. CASE u \in 1 .. Len(l)
    <3>1. l[u] = m[u] /\ \A i \in u + 1 .. Len(l) : i \in u + 1 .. Len(m) /\ l[i] = m[i]
      BY <1>2, <2>2 DEF Extends
    <3>2. Is(l, u, {"UPDATE"}, t) /\ None(l, u + 1, Len(l), {"BEGIN"}, t)
      BY Zenon, <3>1 DEF None, Is
    <3> QED
      BY Zenon, <1>7, <2>2, <3>2 DEF Whole
  <2> QED
    BY <1>2, <2>1, <2>2 DEF z
<1> QED
  BY Zenon, <1>6, <1>14, <1>15, <1>16 DEF fs, z, e
----------------------------------------------------------------------------
(* The inductive invariant of undo.                                         *)

Running == {"idle", "commit", "abort", "abort_clr", "flush", "bracket", "meta"}
Recovery == {"start", "redo", "losers", "undo", "undo_clr"}

\* The transaction whose COMMIT is logged, and the one that is being undone.
Done == IF pc = "commit" THEN {local.txn} ELSE {}
Aborting == IF pc \in {"abort", "abort_clr"} THEN {local.txn} ELSE {}

LogOK == Links(log) /\ Once(log)

LocalShape ==
  local = [txn |-> local.txn, lsn |-> local.lsn, entries |-> local.entries,
           pages |-> local.pages, txns |-> local.txns]

\* An open transaction is in the log as its undo_log says.
TxnOK(l, t, a) ==
  /\ Latest(l, t, a.last_lsn) /\ Undoes(l, t, a.last_lsn, a.undo_log) /\ Whole(l, t)

OpenInv ==
  /\ pc \in Running \cup Recovery /\ LocalShape
  /\ next_id \in 0 .. MaxTxns /\ Open \subseteq 0 .. next_id - 1
  /\ pc \in Recovery => Open = {}
  /\ \A t \in Open : Chain(log, t, active[t].last_lsn, active[t].undo_log)
  /\ \A t \in Open \ Done : TxnOK(log, t, active[t])

\* A transaction that is aborting has the rest of its list to undo.
AbortInv ==
  /\ pc \in {"abort", "abort_clr"} =>
       /\ local.txn \in (0 .. next_id - 1) \ Open
       /\ \E last : Chain(log, local.txn, last, local.entries)
                    /\ Undoes(log, local.txn, last, local.entries)
  /\ pc = "abort_clr" => local.entries # <<>>

\* While the engine runs, a live update has a transaction to end it.
LiveInv ==
  pc \in Running => \A u : Live(log, u) => log[u].txn \in (Open \ Done) \cup Aborting

\* In recovery, a live update belongs to a loser; a loser has no COMMIT; the one
\* being undone has come as far as its last CLR says.
LoserInv ==
  /\ pc \in Recovery \ {"start"} =>
       /\ \A e \in local.txns : e \in Id \X Nat /\ Latest(log, e[1], e[2])
       /\ \A u : Live(log, u) =>
            \/ \E e \in local.txns : e[1] = log[u].txn
            \/ pc \in {"undo", "undo_clr"} /\ log[u].txn = local.txn
  /\ pc \in {"undo", "undo_clr"} =>
       /\ local.txn \in Id /\ \A e \in local.txns : e[1] # local.txn
       /\ \E i : Latest(log, local.txn, i) /\ local.lsn \in {i, Cursor(log, i)}
  /\ pc = "undo_clr" => Types(local.lsn) = "UPDATE"

\* A live update from before a checkpoint has its transaction in the bracket.
Covered(l, u, b) ==
  \E i \in b + 1 .. Len(l) :
    /\ \A j \in b + 1 .. i : l[j].type = "ACTIVE_TXN"
    /\ l[i].txn = l[u].txn

AllCovered(l, b) == \A u \in 1 .. b - 1 : Live(l, u) => Covered(l, u, b)

CoverInv ==
  /\ meta # 0 => AllCovered(log, meta)
  /\ pc = "bracket" =>
       /\ local.txns \subseteq Open
       /\ \A u \in 1 .. local.lsn - 1 :
            Live(log, u) => log[u].txn \in local.txns \/ Covered(log, u, local.lsn)
  /\ pc = "meta" => AllCovered(log, local.lsn)

UndoInv == LogOK /\ OpenInv /\ AbortInv /\ LiveInv /\ LoserInv /\ CoverInv

----------------------------------------------------------------------------
(* What every step keeps.                                                   *)

LEMMA LogAdds ==
  ASSUME IInv, NEW r, Log(r)
  PROVE  Adds(log, log', r) /\ Extends(log, log') /\ Len(log) \in Nat /\ Len(log') = Len(log) + 1
<1>1. /\ Len(log) \in Nat /\ Len(log') = Len(log) + 1 /\ log'[Len(log) + 1] = r
      /\ \A i \in 1 .. Len(log) : log'[i] = log[i]
  BY Zenon, Logged DEF IInv
<1> QED
  BY <1>1 DEF Adds, Extends

LEMMA LogSame ==
  ASSUME IInv, log' = log
  PROVE  Extends(log, log') /\ (\A t : Foreign(log, log', t)) /\ Len(log) \in Nat
<1>1. Len(log) \in Nat
  BY DEF IInv, SyncInv
<1> QED
  BY Zenon, <1>1, ForeignSame

\* The checkpoints lie within the log.
LEMMA MetaInLog ==
  ASSUME IInv
  PROVE  /\ Len(log) \in Nat
         /\ meta # 0 => meta \in 1 .. Len(log)
         /\ pc \in {"bracket", "meta"} => local.lsn \in 1 .. Len(log)
<1>1. Len(log) \in Nat /\ synced \in 0 .. Len(log)
  BY DEF IInv, SyncInv
<1>2. \A b : BracketIn(b, synced) => b \in 1 .. Len(log)
  BY <1>1 DEF BracketIn
<1> QED
  BY Zenon, <1>1, <1>2 DEF IInv, BracketInv

LEMMA CoverExtends ==
  ASSUME NEW l, NEW m, Extends(l, m), NEW b \in 1 .. Len(l), AllCovered(l, b)
  PROVE  AllCovered(m, b)
<1> SUFFICES ASSUME NEW u \in 1 .. b - 1, Live(m, u) PROVE Covered(m, u, b)
  BY Zenon DEF AllCovered
<1>1. u \in 1 .. Len(l) /\ Len(l) \in Nat /\ Len(m) \in Nat /\ Len(l) <= Len(m)
  BY DEF Extends
<1>2. Live(l, u) /\ m[u] = l[u]
  BY Zenon, <1>1, LiveShrinks DEF Extends
<1>3. PICK i \in b + 1 .. Len(l) :
        (\A j \in b + 1 .. i : l[j].type = "ACTIVE_TXN") /\ l[i].txn = l[u].txn
  BY Zenon, <1>2 DEF AllCovered, Covered
<1>4. i \in b + 1 .. Len(m) /\ m[i] = l[i] /\ \A j \in b + 1 .. i : m[j] = l[j]
  BY <1>1, <1>3 DEF Extends
<1> QED
  BY Zenon, <1>2, <1>3, <1>4 DEF Covered

LEMMA MetaCovered ==
  ASSUME IInv, CoverInv, Extends(log, log'), meta' = meta
  PROVE  meta' # 0 => AllCovered(log', meta')
BY Zenon, MetaInLog, CoverExtends DEF CoverInv

\* A transaction that is open before and after, of which nothing is said.
LEMMA TxnForeign ==
  ASSUME OpenInv, NEW t \in Open, Foreign(log, log', t), NEW a, a = active[t]
  PROVE  /\ Chain(log', t, a.last_lsn, a.undo_log)
         /\ t \notin Done => TxnOK(log', t, a)
<1>1. Extends(log, log') /\ Chain(log, t, a.last_lsn, a.undo_log)
  BY Zenon DEF Foreign, OpenInv
<1>2. t \notin Done => TxnOK(log, t, a)
  BY Zenon DEF OpenInv
<1> QED
  BY Zenon, <1>1, <1>2, ChainExtends, LatestForeign, UndoesForeign, WholeForeign DEF TxnOK

\* A record that is not about a transaction's steps, or no record at all.
Plain == (\A t : Foreign(log, log', t)) /\ Extends(log, log') /\ LogOK'

LEMMA PlainSame ==
  ASSUME IInv, UndoInv, log' = log
  PROVE  Plain
BY Zenon, LogSame DEF Plain, UndoInv, LogOK

LEMMA PlainAdds ==
  ASSUME IInv, UndoInv, NEW r, Log(r),
         r.type \in {"ABORT", "CHECKPOINT_BEGIN", "CHECKPOINT_END"}
  PROVE  Plain
<1>1. Adds(log, log', r) /\ Extends(log, log')
  BY Zenon, LogAdds
<1>2. \A t : Foreign(log, log', t)
  BY Zenon, <1>1, ForeignAdds
<1>3. Linked(log', Len(log'))
  BY Zenon, <1>1 DEF Linked, Adds, Steps
<1> QED
  BY Zenon, <1>1, <1>2, <1>3, LinksAdds, OnceAdds DEF Plain, UndoInv, LogOK

\* After a plain step the live updates are those there were.
LEMMA PlainLive ==
  ASSUME Plain, NEW u
  PROVE  Live(log', u) <=> Live(log, u) /\ log'[u] = log[u]
<1>1. Extends(log, log')
  BY Zenon DEF Plain
<1>2. ASSUME Live(log', u) PROVE Live(log, u) /\ log'[u] = log[u]
  <2>1. u \in 1 .. Len(log)
    BY Zenon, <1>2, NewForeign DEF Plain
  <2> QED
    BY Zenon, <1>1, <1>2, <2>1, LiveShrinks DEF Extends
<1>3. ASSUME Live(log, u) PROVE Live(log', u)
  BY Zenon, <1>3, LiveForeign DEF Plain, Live
<1> QED
  BY Zenon, <1>2, <1>3
----------------------------------------------------------------------------
(* UndoInv is kept: calls that log nothing about a transaction's steps.     *)

LEMMA CoverElsewhere ==
  ASSUME IInv, UndoInv, Extends(log, log'), meta' = meta, pc' \notin {"bracket", "meta"}
  PROVE  CoverInv'
BY Zenon, MetaCovered DEF CoverInv, UndoInv

LEMMA PlainRuns ==
  ASSUME UndoInv, Plain, pc' \in Running, LocalShape', next_id' = next_id,
         \A t \in Open' : t \in Open /\ active'[t] = active[t],
         Open' \ Done' \subseteq Open \ Done, AbortInv', LiveInv', CoverInv'
  PROVE  UndoInv'
<1>1. OpenInv'
  <2>1. /\ pc' \in Running \cup Recovery /\ LocalShape' /\ next_id' \in 0 .. MaxTxns
        /\ Open' \subseteq 0 .. next_id' - 1 /\ pc' \notin Recovery
    BY Zenon DEF UndoInv, OpenInv, Running, Recovery
  <2>2. ASSUME NEW t \in Open'
        PROVE  /\ Chain(log', t, active'[t].last_lsn, active'[t].undo_log)
               /\ t \notin Done' => TxnOK(log', t, active'[t])
    <3>1. t \in Open /\ active'[t] = active[t] /\ (t \notin Done' => t \notin Done)
      BY Zenon, <2>2
    <3>2. /\ Chain(log', t, active[t].last_lsn, active[t].undo_log)
          /\ t \notin Done => TxnOK(log', t, active[t])
      BY Zenon, <3>1, TxnForeign DEF Plain, UndoInv
    <3> QED
      BY Zenon, <3>1, <3>2
  <2> QED
    BY Zenon, <2>1, <2>2 DEF OpenInv
<1>2. LoserInv'
  BY Zenon DEF LoserInv, Running, Recovery
<1> QED
  BY Zenon, <1>1, <1>2 DEF UndoInv, Plain

LEMMA PlainLiveInv ==
  ASSUME UndoInv, Plain, pc \in Running,
         \A t \in (Open \ Done) \cup Aborting :
           t \in (Open' \ Done') \cup Aborting' \/ \A u : Live(log, u) => log[u].txn # t
  PROVE  LiveInv'
<1> SUFFICES ASSUME NEW u, Live(log', u)
             PROVE  log'[u].txn \in (Open' \ Done') \cup Aborting'
  BY Zenon DEF LiveInv
<1>1. Live(log, u) /\ log'[u] = log[u]
  BY Zenon, PlainLive
<1>2. log[u].txn \in (Open \ Done) \cup Aborting
  BY Zenon, <1>1 DEF UndoInv, LiveInv
<1> QED
  BY Zenon, <1>1, <1>2

\* What EndTxn leaves.
LEMMA EndTxnShape ==
  ASSUME EndTxn
  PROVE  /\ pc' \in {"flush", "idle"} /\ LocalShape' /\ Done' = {} /\ Aborting' = {} /\ AbortInv'
<1>1. pc' \in {"flush", "idle"} /\ LocalShape'
  BY DEF EndTxn, LocalShape, NoLocal
<1> QED
  BY Zenon, <1>1 DEF Done, Aborting, AbortInv

LEMMA CommitFlushUndo ==
  ASSUME IInv, UndoInv, CommitFlush
  PROVE  UndoInv'
<1>1. /\ pc = "commit" /\ log' = log /\ meta' = meta /\ next_id' = next_id /\ EndTxn
      /\ active' = Without(local.txn)
  BY Zenon DEF CommitFlush, files
<1>2. /\ pc' \in {"flush", "idle"} /\ LocalShape' /\ Done' = {} /\ Aborting' = {} /\ AbortInv'
  BY Zenon, <1>1, EndTxnShape
<1>3. Plain
  BY Zenon, <1>1, PlainSame
<1>4. Open' = Open \ Done /\ \A t \in Open' : active'[t] = active[t]
  BY Zenon, <1>1 DEF Without, Open, Done
<1>5. Aborting = {} /\ pc \in Running
  BY Zenon, <1>1 DEF Aborting, Running
<1>6. LiveInv'
  BY Zenon, <1>2, <1>3, <1>4, <1>5, PlainLiveInv
<1>7. CoverInv'
  BY Zenon, <1>1, <1>2, <1>3, CoverElsewhere DEF Plain
<1> QED
  BY Zenon, <1>1, <1>2, <1>3, <1>4, <1>6, <1>7, PlainRuns DEF Running

LEMMA AbortUndo ==
  ASSUME IInv, UndoInv, NEW t \in Open, Abort(t)
  PROVE  UndoInv'
<1> DEFINE r == Ended("ABORT", t, active[t].last_lsn)
<1>1. /\ pc = "idle" /\ pc' = "abort" /\ Log(r) /\ meta' = meta /\ next_id' = next_id
      /\ active' = Without(t) /\ local' = [NoLocal EXCEPT !.txn = t, !.entries = active[t].undo_log]
  BY Zenon DEF Abort, MayLog, files
<1>2. r.type = "ABORT"
  BY Zenon DEF Ended
<1>3. Plain
  BY Zenon, <1>1, <1>2, PlainAdds
<1>4. Open' = Open \ {t} /\ \A x \in Open' : active'[x] = active[x]
  BY Zenon, <1>1 DEF Without, Open
<1>5. Done = {} /\ Done' = {} /\ Aborting = {} /\ Aborting' = {local'.txn} /\ pc \in Running
      /\ pc' \in Running
  BY Zenon, <1>1 DEF Done, Aborting, Running
<1>6. LocalShape' /\ local'.txn = t /\ local'.entries = active[t].undo_log
  BY Zenon, <1>1 DEF LocalShape, NoLocal
<1>7. AbortInv'
  <2>1. t \in 0 .. next_id - 1
    BY Zenon DEF UndoInv, OpenInv
  <2>2. /\ Chain(log, t, active[t].last_lsn, active[t].undo_log)
        /\ Undoes(log, t, active[t].last_lsn, active[t].undo_log)
    BY Zenon, <1>5 DEF UndoInv, OpenInv, TxnOK
  <2>3. PICK last : last = active[t].last_lsn
    BY Zenon
  <2>4. /\ Chain(log', t, last, active[t].undo_log)
        /\ Undoes(log', t, last, active[t].undo_log)
    BY Zenon, <1>3, <2>2, <2>3, ChainExtends, UndoesForeign DEF Plain
  <2> QED
    BY <1>1, <1>4, <1>6, <2>1, <2>4 DEF AbortInv
<1>8. LiveInv'
  BY Zenon, <1>3, <1>4, <1>5, <1>6, PlainLiveInv
<1>9. CoverInv'
  BY Zenon, <1>1, <1>3, CoverElsewhere DEF Plain
<1> QED
  BY Zenon, <1>1, <1>3, <1>4, <1>5, <1>6, <1>7, <1>8, <1>9, PlainRuns

LEMMA AbortApplyUndo ==
  ASSUME IInv, UndoInv, AbortApply
  PROVE  UndoInv'
<1>1. /\ pc = "abort" /\ pc' = "abort_clr" /\ log' = log /\ meta' = meta /\ next_id' = next_id
      /\ active' = active /\ local' = local /\ local.entries # <<>>
  BY Zenon DEF AbortApply, files
<1>2. Plain
  BY Zenon, <1>1, PlainSame
<1>3. /\ Open' = Open /\ Done = {} /\ Done' = {} /\ Aborting' = Aborting /\ pc \in Running
      /\ pc' \in Running /\ LocalShape'
  BY Zenon, <1>1 DEF Open, Done, Aborting, Running, UndoInv, OpenInv, LocalShape
<1>4. AbortInv'
  BY Zenon, <1>1, <1>3 DEF UndoInv, AbortInv
<1>5. LiveInv'
  BY Zenon, <1>2, <1>3, PlainLiveInv
<1>6. CoverInv'
  BY Zenon, <1>1, <1>2, CoverElsewhere DEF Plain
<1> QED
  BY Zenon, <1>1, <1>2, <1>3, <1>4, <1>5, <1>6, PlainRuns

LEMMA AbortFlushUndo ==
  ASSUME IInv, UndoInv, AbortFlush
  PROVE  UndoInv'
<1>1. /\ pc = "abort" /\ log' = log /\ meta' = meta /\ next_id' = next_id /\ EndTxn
      /\ active' = active /\ local.entries = <<>>
  BY Zenon DEF AbortFlush, files
<1>2. /\ pc' \in {"flush", "idle"} /\ LocalShape' /\ Done' = {} /\ Aborting' = {} /\ AbortInv'
  BY Zenon, <1>1, EndTxnShape
<1>3. Plain
  BY Zenon, <1>1, PlainSame
<1>4. Open' = Open /\ Done = {} /\ Aborting = {local.txn} /\ pc \in Running
  BY Zenon, <1>1 DEF Open, Done, Aborting, Running
<1>5. \A u : Live(log, u) => log[u].txn # local.txn
  <2>1. PICK last : Undoes(log, local.txn, last, local.entries)
    BY Zenon, <1>1 DEF UndoInv, AbortInv
  <2>2. 1 .. Len(local.entries) = {}
    BY <1>1
  <2> QED
    BY Zenon, <2>1, <2>2 DEF Undoes
<1>6. LiveInv'
  BY Zenon, <1>2, <1>3, <1>4, <1>5, PlainLiveInv
<1>7. CoverInv'
  BY Zenon, <1>1, <1>2, <1>3, CoverElsewhere DEF Plain
<1> QED
  BY Zenon, <1>1, <1>2, <1>3, <1>4, <1>6, <1>7, PlainRuns DEF Running

\* Pages written by a checkpoint or an eviction.
LEMMA PageUndo ==
  ASSUME IInv, UndoInv, NEW p, CheckpointPage(p) \/ Evict(p)
  PROVE  UndoInv'
<1>1. /\ log' = log /\ meta' = meta /\ next_id' = next_id /\ pc' = pc /\ active' = active
      /\ local' = local \/ (pc = "flush" /\ local' = [local EXCEPT !.pages = @ \ {p}])
  BY Zenon DEF CheckpointPage, Evict, WritePage
<1>2. /\ LocalShape' /\ local'.txn = local.txn /\ local'.lsn = local.lsn
      /\ local'.entries = local.entries /\ local'.txns = local.txns
  BY Zenon, <1>1 DEF UndoInv, OpenInv, LocalShape
<1>3. Open' = Open /\ Done' = Done /\ Aborting' = Aborting
  BY Zenon, <1>1, <1>2 DEF Open, Done, Aborting
<1>4. LogOK' /\ OpenInv'
  BY <1>1, <1>2, <1>3, Zenon DEF UndoInv, LogOK, OpenInv
<1>5. AbortInv' /\ LiveInv'
  BY <1>1, <1>2, <1>3, Zenon DEF UndoInv, AbortInv, LiveInv
<1>6. LoserInv'
  BY <1>1, <1>2, Zenon DEF UndoInv, LoserInv, Types
<1>7. CoverInv'
  BY <1>1, <1>2, <1>3, Zenon DEF UndoInv, CoverInv
<1> QED
  BY Zenon, <1>4, <1>5, <1>6, <1>7 DEF UndoInv
----------------------------------------------------------------------------
(* The bracket of a checkpoint.                                             *)

LEMMA CheckpointBeginUndo ==
  ASSUME IInv, UndoInv, CheckpointBegin
  PROVE  UndoInv'
<1> DEFINE r == Bracket("CHECKPOINT_BEGIN")
<1>1. /\ pc = "flush" /\ pc' = "bracket" /\ Log(r) /\ meta' = meta /\ next_id' = next_id
      /\ active' = active /\ local' = [NoLocal EXCEPT !.lsn = Lsn, !.txns = Open]
  BY Zenon DEF CheckpointBegin, files
<1>2. r.type = "CHECKPOINT_BEGIN"
  BY Zenon DEF Bracket
<1>3. Plain
  BY Zenon, <1>1, <1>2, PlainAdds
<1>4. /\ Open' = Open /\ Done = {} /\ Done' = {} /\ Aborting = {} /\ Aborting' = {}
      /\ pc \in Running /\ pc' \in Running
  BY Zenon, <1>1 DEF Open, Done, Aborting, Running
<1>5. LocalShape' /\ local'.lsn = Lsn /\ local'.txns = Open
  BY Zenon, <1>1 DEF LocalShape, NoLocal
<1>6. AbortInv'
  BY Zenon, <1>1 DEF AbortInv
<1>7. LiveInv'
  BY Zenon, <1>3, <1>4, PlainLiveInv
<1>8. CoverInv'
  <2>1. meta' # 0 => AllCovered(log', meta')
    BY Zenon, <1>1, <1>3, MetaCovered DEF Plain, UndoInv
  <2>2. \A u : Live(log', u) => log'[u].txn \in local'.txns
    BY Zenon, <1>1, <1>4, <1>5, <1>7 DEF LiveInv, Running
  <2> QED
    BY Zenon, <1>1, <1>4, <1>5, <2>1, <2>2 DEF CoverInv
<1> QED
  BY Zenon, <1>1, <1>3, <1>4, <1>5, <1>6, <1>7, <1>8, PlainRuns

LEMMA CheckpointActiveUndo ==
  ASSUME IInv, UndoInv, NEW t \in Open, CheckpointActive(t)
  PROVE  UndoInv'
<1> DEFINE r == ActiveTxn(t, active[t].last_lsn)
<1>1. /\ pc = "bracket" /\ pc' = "bracket" /\ Log(r) /\ meta' = meta /\ next_id' = next_id
      /\ active' = active /\ local' = [local EXCEPT !.txns = @ \ {t}]
  BY Zenon DEF CheckpointActive, files
<1>2. r.type = "ACTIVE_TXN" /\ r.txn = t /\ r.last = active[t].last_lsn
  BY Zenon DEF ActiveTxn
<1> HIDE DEF r
<1>3. /\ Adds(log, log', r) /\ Extends(log, log') /\ Len(log) \in Nat
      /\ Len(log') = Len(log) + 1
  BY Zenon, <1>1, LogAdds
<1>4. \A x : Foreign(log, log', x)
  BY Zenon, <1>2, <1>3, ForeignAdds
<1>5. LogOK'
  <2>1. /\ active[t].last_lsn \in 1 .. Len(log)
        /\ Is(log, active[t].last_lsn, {"BEGIN", "UPDATE"}, t)
    BY Zenon, ChainLast DEF UndoInv, OpenInv
  <2>2. Points(log', Len(log'), r.last)
    BY <1>2, <1>3, <2>1 DEF Points, Is, Adds, Extends
  <2>3. Linked(log', Len(log'))
    BY Zenon, <1>2, <1>3, <2>2 DEF Linked, Adds, Steps
  <2> QED
    BY Zenon, <1>2, <1>3, <2>3, LinksAdds, OnceAdds DEF UndoInv, LogOK
<1>6. Plain
  BY Zenon, <1>3, <1>4, <1>5 DEF Plain
<1>7. /\ Open' = Open /\ Done = {} /\ Done' = {} /\ Aborting = {} /\ Aborting' = {}
      /\ pc \in Running /\ pc' \in Running
  BY Zenon, <1>1 DEF Open, Done, Aborting, Running
<1>8. LocalShape' /\ local'.lsn = local.lsn /\ local'.txns = local.txns \ {t}
  BY Zenon, <1>1 DEF LocalShape, UndoInv, OpenInv
<1>9. AbortInv'
  BY Zenon, <1>1 DEF AbortInv
<1>10. LiveInv'
  BY Zenon, <1>6, <1>7, PlainLiveInv
<1>11. CoverInv'
  <2>1. meta' # 0 => AllCovered(log', meta')
    BY Zenon, <1>1, <1>3, MetaCovered DEF UndoInv
  <2>2. /\ local.lsn \in 1 .. Len(log)
        /\ \A j \in local.lsn + 1 .. Len(log) : log[j].type = "ACTIVE_TXN"
    BY Zenon, <1>1 DEF IInv, BracketInv, Types
  <2>3. \A j \in local.lsn + 1 .. Len(log') : log'[j].type = "ACTIVE_TXN"
    BY <1>2, <1>3, <2>2 DEF Adds, Extends
  <2>4. ASSUME NEW u \in 1 .. local.lsn - 1, Live(log', u)
        PROVE  log'[u].txn \in local.txns \ {t} \/ Covered(log', u, local.lsn)
    <3>1. Live(log, u) /\ log'[u] = log[u]
      BY Zenon, <1>6, <2>4, PlainLive
    <3>2. CASE log[u].txn = t
      <4>1. Len(log') \in local.lsn + 1 .. Len(log') /\ log'[Len(log')].txn = t
        BY <1>2, <1>3, <2>2 DEF Adds
      <4> QED
        BY Zenon, <2>3, <3>1, <3>2, <4>1 DEF Covered
    <3>3. CASE log[u].txn # t
      <4>1. CASE Covered(log, u, local.lsn)
        <5>1. PICK i \in local.lsn + 1 .. Len(log) :
                (\A j \in local.lsn + 1 .. i : log[j].type = "ACTIVE_TXN") /\ log[i].txn = log[u].txn
          BY Zenon, <4>1 DEF Covered
        <5>2. /\ i \in local.lsn + 1 .. Len(log') /\ log'[i] = log[i]
              /\ \A j \in local.lsn + 1 .. i : j \in local.lsn + 1 .. Len(log')
          BY <1>3, <2>2, <5>1 DEF Extends
        <5> QED
          BY Zenon, <2>3, <3>1, <5>1, <5>2 DEF Covered
      <4> QED
        BY Zenon, <1>1, <3>1, <3>3, <4>1 DEF UndoInv, CoverInv
    <3> QED
      BY Zenon, <3>2, <3>3
  <2>5. local'.txns \subseteq Open'
    BY Zenon, <1>1, <1>7, <1>8 DEF UndoInv, CoverInv
  <2> QED
    BY Zenon, <1>1, <1>8, <2>1, <2>4, <2>5 DEF CoverInv
<1> QED
  BY Zenon, <1>1, <1>6, <1>7, <1>8, <1>9, <1>10, <1>11, PlainRuns

LEMMA CheckpointEndUndo ==
  ASSUME IInv, UndoInv, CheckpointEnd
  PROVE  UndoInv'
<1> DEFINE r == Bracket("CHECKPOINT_END")
<1>1. /\ pc = "bracket" /\ pc' = "meta" /\ Log(r) /\ meta' = meta /\ next_id' = next_id
      /\ active' = active /\ local' = local /\ local.txns = {}
  BY Zenon DEF CheckpointEnd, files
<1>2. r.type = "CHECKPOINT_END"
  BY Zenon DEF Bracket
<1>3. Plain
  BY Zenon, <1>1, <1>2, PlainAdds
<1>4. /\ Open' = Open /\ Done = {} /\ Done' = {} /\ Aborting = {} /\ Aborting' = {}
      /\ pc \in Running /\ pc' \in Running /\ LocalShape'
  BY Zenon, <1>1 DEF Open, Done, Aborting, Running, LocalShape, UndoInv, OpenInv
<1>5. AbortInv'
  BY Zenon, <1>1 DEF AbortInv
<1>6. LiveInv'
  BY Zenon, <1>3, <1>4, PlainLiveInv
<1>7. CoverInv'
  <2>1. meta' # 0 => AllCovered(log', meta')
    BY Zenon, <1>1, <1>3, MetaCovered DEF Plain, UndoInv
  <2>2. AllCovered(log, local.lsn) /\ local.lsn \in 1 .. Len(log)
    BY Zenon, <1>1, MetaInLog DEF UndoInv, CoverInv, AllCovered
  <2>3. AllCovered(log', local.lsn)
    BY Zenon, <1>3, <2>2, CoverExtends DEF Plain
  <2> QED
    BY Zenon, <1>1, <2>1, <2>3 DEF CoverInv
<1> QED
  BY Zenon, <1>1, <1>3, <1>4, <1>5, <1>6, <1>7, PlainRuns

LEMMA CheckpointMetaUndo ==
  ASSUME IInv, UndoInv, CheckpointMeta
  PROVE  UndoInv'
<1>1. /\ pc = "meta" /\ pc' = "idle" /\ log' = log /\ meta' = local.lsn /\ next_id' = next_id
      /\ active' = active /\ local' = NoLocal
  BY Zenon DEF CheckpointMeta
<1>2. Plain
  BY Zenon, <1>1, PlainSame
<1>3. /\ Open' = Open /\ Done = {} /\ Done' = {} /\ Aborting = {} /\ Aborting' = {}
      /\ pc \in Running /\ pc' \in Running /\ LocalShape'
  BY Zenon, <1>1 DEF Open, Done, Aborting, Running, LocalShape, NoLocal
<1>4. AbortInv'
  BY Zenon, <1>1 DEF AbortInv
<1>5. LiveInv'
  BY Zenon, <1>2, <1>3, PlainLiveInv
<1>6. CoverInv'
  BY Zenon, <1>1 DEF UndoInv, CoverInv
<1> QED
  BY Zenon, <1>1, <1>2, <1>3, <1>4, <1>5, <1>6, PlainRuns

----------------------------------------------------------------------------
(* UndoInv is kept: the steps of transactions.                              *)

\* A step that logs record r of transaction t, in an engine that runs on.
LEMMA TxnRuns ==
  ASSUME IInv, UndoInv, NEW t, NEW r, Log(r), r.txn = t, LogOK', meta' = meta,
         pc' \in Running \ {"bracket", "meta"}, LocalShape', next_id' \in 0 .. MaxTxns,
         \A x \in Open' : x \in Open \/ x = t,
         \A x \in Open' \ {t} : x < next_id' /\ active'[x] = active[x] /\ (x \in Done => x \in Done'),
         t \in Open' =>
           /\ t \in 0 .. next_id' - 1
           /\ Chain(log', t, active'[t].last_lsn, active'[t].undo_log)
           /\ t \notin Done' => TxnOK(log', t, active'[t]),
         AbortInv', LiveInv'
  PROVE  UndoInv'
<1>1. Adds(log, log', r) /\ Extends(log, log')
  BY Zenon, LogAdds
<1>2. OpenInv'
  <2>1. /\ pc' \in Running \cup Recovery /\ pc' \notin Recovery
    BY Zenon DEF Running, Recovery
  <2>2. \A x \in Open : x \in Nat
    BY DEF UndoInv, OpenInv
  <2>3. Open' \subseteq 0 .. next_id' - 1
    BY <2>2
  <2>4. ASSUME NEW x \in Open'
        PROVE  /\ Chain(log', x, active'[x].last_lsn, active'[x].undo_log)
               /\ x \notin Done' => TxnOK(log', x, active'[x])
    <3>1. CASE x = t
      BY Zenon, <2>4, <3>1
    <3>2. CASE x # t
      <4>1. x \in Open /\ active'[x] = active[x] /\ (x \in Done => x \in Done')
        BY Zenon, <2>4, <3>2
      <4>2. Foreign(log, log', x)
        BY Zenon, <1>1, <3>2, ForeignAdds
      <4>3. /\ Chain(log', x, active[x].last_lsn, active[x].undo_log)
            /\ x \notin Done => TxnOK(log', x, active[x])
        BY Zenon, <4>1, <4>2, TxnForeign DEF UndoInv
      <4> QED
        BY Zenon, <4>1, <4>3
    <3> QED
      BY Zenon, <3>1, <3>2
  <2> QED
    BY Zenon, <2>1, <2>3, <2>4 DEF OpenInv
<1>3. LoserInv'
  BY Zenon DEF LoserInv, Running, Recovery
<1>4. CoverInv'
  BY Zenon, <1>1, CoverElsewhere
<1> QED
  BY Zenon, <1>2, <1>3, <1>4 DEF UndoInv

LEMMA BeginUndo ==
  ASSUME IInv, UndoInv, Begin
  PROVE  UndoInv'
<1> DEFINE t == next_id
           r == Begun(t)
<1>1. /\ pc = "idle" /\ pc' = "idle" /\ Log(r) /\ meta' = meta /\ next_id' = t + 1
      /\ t < MaxTxns /\ local' = local
      /\ active' = [x \in Open \cup {t} |->
                      IF x = t THEN [last_lsn |-> Lsn, undo_log |-> <<>>] ELSE active[x]]
  BY Zenon DEF Begin, MayLog, files
<1>2. r.type = "BEGIN" /\ r.txn = t
  BY Zenon DEF Begun
<1>3. t \in Nat /\ MaxTxns \in Nat /\ t \in Id /\ Open \subseteq 0 .. t - 1
  BY <1>1, ConstantsAssumption DEF UndoInv, OpenInv, Id
<1>4. /\ Open' = Open \cup {t} /\ active'[t] = [last_lsn |-> Lsn, undo_log |-> <<>>]
      /\ \A x \in Open' \ {t} : active'[x] = active[x]
  BY Zenon, <1>1 DEF Open
<1>5. active'[t].last_lsn = Lsn /\ active'[t].undo_log = <<>>
  BY <1>4
<1>6. Adds(log, log', r) /\ Extends(log, log') /\ Lsn = Len(log') /\ Len(log') \in Nat
  BY <1>1, LogAdds DEF Lsn
<1>7. LogOK'
  <2>1. Linked(log', Len(log'))
    BY Zenon, <1>2, <1>3, <1>6 DEF Linked, Adds
  <2> QED
    BY Zenon, <1>2, <1>6, <2>1, LinksAdds, OnceAdds DEF UndoInv, LogOK
<1>8. /\ Chain(log', t, Lsn, <<>>) /\ Latest(log', t, Lsn) /\ Undoes(log', t, Lsn, <<>>)
      /\ Whole(log', t)
  BY Zenon, <1>6, BegunTxn
<1>9. Done = {} /\ Done' = {} /\ Aborting = {} /\ Aborting' = {} /\ AbortInv' /\ LocalShape'
  BY Zenon, <1>1 DEF Done, Aborting, AbortInv, UndoInv, OpenInv, LocalShape
<1> HIDE DEF r
<1>10. LiveInv'
  <2> SUFFICES ASSUME NEW u, Live(log', u) PROVE log'[u].txn \in Open'
    BY Zenon, <1>9 DEF LiveInv
  <2>1. Live(log, u) /\ log'[u] = log[u]
    BY <1>2, <1>6, LiveEnds
  <2>2. log[u].txn \in Open
    BY Zenon, <1>1, <1>9, <2>1 DEF UndoInv, LiveInv, Running
  <2> QED
    BY Zenon, <1>4, <2>1, <2>2
<1>11. /\ next_id' \in 0 .. MaxTxns /\ t \in 0 .. next_id' - 1
       /\ \A x \in Open : x < next_id' /\ x # t
  BY <1>1, <1>3
<1>12. TxnOK(log', t, active'[t]) /\ Chain(log', t, active'[t].last_lsn, active'[t].undo_log)
  BY Zenon, <1>5, <1>8 DEF TxnOK
<1>13. /\ pc' \in Running \ {"bracket", "meta"} /\ \A x \in Open' : x \in Open \/ x = t
       /\ \A x \in Open' \ {t} : x < next_id' /\ active'[x] = active[x] /\ (x \in Done => x \in Done')
  BY Zenon, <1>1, <1>4, <1>9, <1>11 DEF Running
<1> HIDE DEF t
<1> QED
  BY Zenon, <1>1, <1>2, <1>7, <1>9, <1>10, <1>11, <1>12, <1>13, TxnRuns

LEMMA ChangeUndo ==
  ASSUME IInv, UndoInv, NEW t \in Open, NEW k \in Key, NEW v, Change(t, k, v)
  PROVE  UndoInv'
<1> DEFINE a == active[t]
           e == [key |-> k, old |-> tree[k], undo_next |-> a.last_lsn]
           r == Update(t, a.last_lsn, k, tree[k], v)
           es == Append(a.undo_log, e)
<1>1. /\ pc = "idle" /\ pc' = "idle" /\ Log(r) /\ meta' = meta /\ next_id' = next_id
      /\ local' = local
      /\ active' = [active EXCEPT ![t] = [last_lsn |-> Lsn, undo_log |-> es]]
  BY Zenon DEF Change, MayLog, files
<1>2. r.type = "UPDATE" /\ r.txn = t
  BY Zenon DEF Update
<1>3. Done = {} /\ Done' = {} /\ Aborting = {} /\ Aborting' = {} /\ AbortInv' /\ LocalShape'
  BY Zenon, <1>1 DEF Done, Aborting, AbortInv, UndoInv, OpenInv, LocalShape
<1>4. /\ next_id \in 0 .. MaxTxns /\ Open \subseteq 0 .. next_id - 1
      /\ Chain(log, t, a.last_lsn, a.undo_log) /\ TxnOK(log, t, a)
  BY Zenon, <1>3 DEF UndoInv, OpenInv
<1>5. t \in Id
  BY <1>4, ConstantsAssumption DEF Id
<1>6. Adds(log, log', r) /\ Extends(log, log') /\ Lsn = Len(log') /\ Len(log') \in Nat
  BY <1>1, LogAdds DEF Lsn
<1>7. /\ Latest(log', t, Lsn) /\ Chain(log', t, Lsn, es) /\ Undoes(log', t, Lsn, es)
      /\ Whole(log', t)
  BY Zenon, <1>4, <1>6, ChangedTxn DEF TxnOK
<1>8. LogOK'
  <2>1. Is(log, a.last_lsn, {"BEGIN", "UPDATE"}, t)
    BY Zenon, <1>4, ChainLast
  <2>2. Linked(log', Len(log'))
    BY Zenon, <1>4, <1>5, <1>6, <2>1, UpdateLinked DEF TxnOK, Is
  <2> QED
    BY Zenon, <1>2, <1>6, <2>2, LinksAdds, OnceAdds DEF UndoInv, LogOK
<1> HIDE DEF r, es
<1>9. /\ Open' = Open /\ active'[t] = [last_lsn |-> Lsn, undo_log |-> es]
      /\ \A x \in Open' \ {t} : active'[x] = active[x]
  BY Zenon, <1>1 DEF Open
<1>10. active'[t].last_lsn = Lsn /\ active'[t].undo_log = es
  BY <1>9
<1>11. TxnOK(log', t, active'[t]) /\ Chain(log', t, active'[t].last_lsn, active'[t].undo_log)
  BY Zenon, <1>7, <1>10 DEF TxnOK
<1>12. LiveInv'
  <2> SUFFICES ASSUME NEW u, Live(log', u) PROVE log'[u].txn \in Open
    BY Zenon, <1>3, <1>9 DEF LiveInv
  <2>1. Live(log, u) \/ u = Len(log')
    BY Zenon, <1>2, <1>6, LiveAdds
  <2>2. CASE u = Len(log')
    BY Zenon, <1>2, <1>6, <2>2 DEF Adds
  <2>3. CASE Live(log, u)
    <3>1. log'[u] = log[u]
      BY Zenon, <1>6, <2>3 DEF Live, Extends
    <3> QED
      BY Zenon, <1>1, <1>3, <2>3, <3>1 DEF UndoInv, LiveInv, Running
  <2> QED
    BY Zenon, <2>1, <2>2, <2>3
<1>13. /\ pc' \in Running \ {"bracket", "meta"} /\ \A x \in Open' : x \in Open \/ x = t
       /\ \A x \in Open' \ {t} : x < next_id' /\ active'[x] = active[x] /\ (x \in Done => x \in Done')
       /\ next_id' \in 0 .. MaxTxns /\ t \in 0 .. next_id' - 1
  BY <1>1, <1>3, <1>4, <1>9 DEF Running
<1> QED
  BY Zenon, <1>1, <1>2, <1>3, <1>8, <1>11, <1>12, <1>13, TxnRuns

LEMMA CommitUndo ==
  ASSUME IInv, UndoInv, NEW t \in Open, Commit(t)
  PROVE  UndoInv'
<1> DEFINE r == Ended("COMMIT", t, active[t].last_lsn)
<1>1. /\ pc = "idle" /\ pc' = "commit" /\ Log(r) /\ meta' = meta /\ next_id' = next_id
      /\ active' = active /\ local' = [NoLocal EXCEPT !.txn = t]
  BY Zenon DEF Commit, MayLog, files
<1>2. r.type = "COMMIT" /\ r.txn = t
  BY Zenon DEF Ended
<1> HIDE DEF r
<1>3. LocalShape' /\ local'.txn = t
  BY Zenon, <1>1 DEF LocalShape, NoLocal
<1>4. Done = {} /\ Done' = {t} /\ Aborting = {} /\ Aborting' = {} /\ AbortInv' /\ Open' = Open
  BY Zenon, <1>1, <1>3 DEF Done, Aborting, AbortInv, Open
<1>5. /\ next_id \in 0 .. MaxTxns /\ Open \subseteq 0 .. next_id - 1
      /\ Chain(log, t, active[t].last_lsn, active[t].undo_log)
  BY Zenon DEF UndoInv, OpenInv
<1>6. Adds(log, log', r) /\ Extends(log, log')
  BY Zenon, <1>1, LogAdds
<1>7. LogOK'
  <2>1. Linked(log', Len(log'))
    BY Zenon, <1>2, <1>6 DEF Linked, Adds, Steps
  <2> QED
    BY Zenon, <1>2, <1>6, <2>1, LinksAdds, OnceAdds DEF UndoInv, LogOK
<1>8. Chain(log', t, active'[t].last_lsn, active'[t].undo_log)
  BY Zenon, <1>1, <1>5, <1>6, ChainExtends
<1>9. LiveInv'
  <2> SUFFICES ASSUME NEW u, Live(log', u) PROVE log'[u].txn \in Open \ {t}
    BY Zenon, <1>4 DEF LiveInv
  <2>1. Live(log, u) /\ log'[u] = log[u] /\ log[u].txn # t
    BY <1>2, <1>6, LiveEnds
  <2> QED
    BY Zenon, <1>1, <1>4, <2>1 DEF UndoInv, LiveInv, Running
<1>10. /\ pc' \in Running \ {"bracket", "meta"} /\ \A x \in Open' : x \in Open \/ x = t
       /\ \A x \in Open' \ {t} : x < next_id' /\ active'[x] = active[x] /\ (x \in Done => x \in Done')
       /\ next_id' \in 0 .. MaxTxns /\ t \in 0 .. next_id' - 1
  BY <1>1, <1>4, <1>5 DEF Running
<1> QED
  BY Zenon, <1>1, <1>2, <1>3, <1>4, <1>7, <1>8, <1>9, <1>10, TxnRuns

LEMMA AbortLogUndo ==
  ASSUME IInv, UndoInv, AbortLog
  PROVE  UndoInv'
<1> DEFINE t == local.txn
           es == local.entries
           fs == SubSeq(es, 1, Len(es) - 1)
           r == Clr(t, LastEntry.key, LastEntry.old, LastEntry.undo_next)
<1>1. /\ pc = "abort_clr" /\ pc' = "abort" /\ Log(r) /\ meta' = meta /\ next_id' = next_id
      /\ active' = active /\ local' = [local EXCEPT !.entries = fs]
  BY Zenon DEF AbortLog, files
<1>2. PICK last : Chain(log, t, last, es) /\ Undoes(log, t, last, es)
  BY Zenon, <1>1 DEF UndoInv, AbortInv
<1>3. es # <<>> /\ t \in (0 .. next_id - 1) \ Open
  BY Zenon, <1>1 DEF UndoInv, AbortInv
<1>4. Live(log, last) /\ log[last].txn = t /\ es[Len(es)] = Entry(log, last)
  BY <1>2, <1>3, LastIsGreatest
<1>5. /\ LastEntry.key = log[last].key /\ LastEntry.old = log[last].old
      /\ LastEntry.undo_next = log[last].prev
  BY <1>4 DEF LastEntry, Entry
<1>6. r = Clr(log[last].txn, log[last].key, log[last].old, log[last].prev)
  BY Zenon, <1>4, <1>5
<1>7. r.type = "CLR" /\ r.txn = t
  BY Zenon DEF Clr
<1> HIDE DEF r
<1>8. Adds(log, log', r) /\ Extends(log, log')
  BY Zenon, <1>1, LogAdds
<1>9. LogOK'
  <2>1. Linked(log', Len(log')) /\ Once(log')
    BY Zenon, <1>4, <1>6, <1>8, ClrLinked, OnceClr DEF UndoInv, LogOK
  <2> QED
    BY Zenon, <1>8, <2>1, LinksAdds DEF UndoInv, LogOK
<1>10. Chain(log', t, log[last].prev, fs) /\ Undoes(log', t, log[last].prev, fs)
  BY Zenon, <1>2, <1>3, <1>4, <1>6, <1>8, UndoesShorter DEF UndoInv, LogOK
<1> HIDE DEF fs
<1>11. LocalShape' /\ local'.txn = t /\ local'.entries = fs
  BY Zenon, <1>1 DEF LocalShape, UndoInv, OpenInv
<1>12. Done = {} /\ Done' = {} /\ Aborting = {t} /\ Aborting' = {t} /\ Open' = Open
  BY Zenon, <1>1, <1>11 DEF Done, Aborting, Open
<1>13. AbortInv'
  <2>1. PICK q : q = log[last].prev
    BY Zenon
  <2>2. Chain(log', t, q, fs) /\ Undoes(log', t, q, fs)
    BY Zenon, <1>10, <2>1
  <2> QED
    BY Zenon, <1>1, <1>3, <1>11, <1>12, <2>2 DEF AbortInv
<1>14. LiveInv'
  <2> SUFFICES ASSUME NEW u, Live(log', u) PROVE log'[u].txn \in Open \cup {t}
    BY Zenon, <1>12 DEF LiveInv
  <2>1. u \in 1 .. Len(log)
    <3>1. u \in 1 .. Len(log') /\ log'[u].type = "UPDATE"
      BY Zenon DEF Live
    <3> QED
      BY <1>7, <1>8, <3>1 DEF Adds, Extends
  <2>2. Live(log, u) /\ log'[u] = log[u]
    BY Zenon, <1>8, <2>1, LiveShrinks DEF Extends
  <2> QED
    BY Zenon, <1>1, <1>12, <2>2 DEF UndoInv, LiveInv, Running
<1>15. /\ pc' \in Running \ {"bracket", "meta"} /\ \A x \in Open' : x \in Open \/ x = t
       /\ \A x \in Open' \ {t} : x < next_id' /\ active'[x] = active[x] /\ (x \in Done => x \in Done')
       /\ next_id' \in 0 .. MaxTxns /\ t \notin Open'
  BY <1>1, <1>3, <1>12 DEF Running, UndoInv, OpenInv
<1> HIDE DEF t
<1> QED
  BY Zenon, <1>1, <1>7, <1>9, <1>11, <1>13, <1>14, <1>15, TxnRuns
----------------------------------------------------------------------------
(* UndoInv is kept: recovery.                                               *)

LEMMA Least ==
  ASSUME NEW T \in SUBSET Nat, T # {}
  PROVE  \E x \in T : \A y \in T : x <= y
<1>1. PICK x \in T : \A y \in T : ~ (<<y, x>> \in OpToRel(<, Nat))
  BY Zenon, NatLessThanWellFounded, WFMin
<1>2. \A y \in T : ~ (y < x)
  BY Zenon, <1>1 DEF OpToRel
<1> QED
  BY <1>2

LEMMA Greatest ==
  ASSUME NEW n \in Nat, NEW T \in SUBSET (1 .. n), T # {}
  PROVE  \E x \in T : \A y \in T : y <= x
<1> DEFINE D == {n - x : x \in T}
<1>1. D \in SUBSET Nat /\ D # {}
  <2>1. \A x \in T : x \in 1 .. n
    BY Zenon
  <2>2. \A x \in 1 .. n : n - x \in Nat
    OBVIOUS
  <2> QED
    BY Zenon, <2>1, <2>2
<1>2. PICK d \in D : \A y \in D : d <= y
  BY Zenon, <1>1, Least
<1>3. PICK x \in T : d = n - x
  BY Zenon
<1>4. ASSUME NEW y \in T PROVE y <= x
  <2>1. n - y \in D
    BY Zenon
  <2>2. n - x <= n - y
    BY Zenon, <1>2, <1>3, <2>1
  <2>3. x \in 1 .. n /\ y \in 1 .. n
    BY Zenon
  <2> QED
    BY <2>2, <2>3
<1> QED
  BY Zenon, <1>4

\* Where recovery finds the bracket it starts from, and where redo begins.
LEMMA BracketFound ==
  ASSUME IInv, meta # 0
  PROVE  /\ HasCheckpoint
         /\ BracketEnd(meta) \in meta + 1 .. Len(log) /\ meta \in 1 .. Len(log)
         /\ Types(BracketEnd(meta)) = "CHECKPOINT_END"
         /\ \A i \in meta + 1 .. BracketEnd(meta) - 1 : Types(i) = "ACTIVE_TXN"
<1>1. HasCheckpoint
  BY Zenon, WholeBracket DEF CheckpointComplete
<1>2. /\ meta \in 1 .. Len(log) /\ BracketEnd(meta) <= Len(log)
      /\ Types(BracketEnd(meta)) = "CHECKPOINT_END" /\ Len(log) \in Nat
  BY <1>1 DEF HasCheckpoint, IInv, SyncInv
<1>3. PICK e \in meta + 1 .. synced :
        /\ Types(e) = "CHECKPOINT_END"
        /\ \A i \in meta + 1 .. e - 1 : Types(i) = "ACTIVE_TXN"
  BY Zenon DEF IInv, BracketInv, BracketIn
<1>4. synced \in 0 .. Len(log)
  BY Zenon DEF IInv, SyncInv
<1> DEFINE Ends(x) == /\ x = Len(log) + 1 \/ Types(x) # "ACTIVE_TXN"
                      /\ \A i \in meta + 1 .. x - 1 : Types(i) = "ACTIVE_TXN"
<1>5. e \in meta + 1 .. Len(log) + 1 /\ Ends(e)
  BY <1>2, <1>3, <1>4
<1>6. BracketEnd(meta) = CHOOSE x \in meta + 1 .. Len(log) + 1 : Ends(x)
  BY Zenon DEF BracketEnd
<1>7. BracketEnd(meta) \in meta + 1 .. Len(log) + 1 /\ Ends(BracketEnd(meta))
  <2> HIDE DEF Ends
  <2> QED
    BY Zenon, <1>5, <1>6
<1> QED
  BY <1>1, <1>2, <1>7

LEMMA RedoFrom ==
  ASSUME IInv, LogOK
  PROVE  /\ RedoStart \in Nat \ {0} /\ (log # <<>> => RedoStart <= Len(log))
         /\ meta = 0 => RedoStart = 1 /\ CheckpointTxns = {}
         /\ meta # 0 => RedoStart <= meta
         /\ \A x \in CheckpointTxns :
              /\ x[2] \in RedoStart .. Len(log) /\ Is(log, x[2], {"BEGIN", "UPDATE"}, x[1])
         /\ meta # 0 => \A i \in meta + 1 .. BracketEnd(meta) - 1 :
                          <<log[i].txn, log[i].last>> \in CheckpointTxns
<1>1. Len(log) \in Nat /\ (log # <<>> => Len(log) # 0)
  <2>1. PICK S : log \in Seq(S)
    BY Zenon DEF IInv, SyncInv
  <2> QED
    BY <2>1
<1>2. CASE meta = 0
  <2>1. ~HasCheckpoint
    BY <1>2 DEF HasCheckpoint
  <2>2. RedoStart = 1 /\ CheckpointTxns = {}
    BY Zenon, <2>1 DEF RedoStart, CheckpointTxns
  <2> QED
    BY <1>1, <1>2, <2>2
<1>3. CASE meta # 0
  <2> DEFINE e == BracketEnd(meta)
             B == meta + 1 .. e - 1
             C == {<<log[i].txn, log[i].last>> : i \in B}
             T == {meta} \cup {x[2] : x \in C}
  <2>1. /\ HasCheckpoint /\ e \in meta + 1 .. Len(log) /\ meta \in 1 .. Len(log)
        /\ \A i \in B : Types(i) = "ACTIVE_TXN"
    BY Zenon, <1>3, BracketFound
  <2>2. CheckpointTxns = C /\ RedoStart = Min(T)
    BY Zenon, <2>1 DEF CheckpointTxns, RedoStart
  <2> HIDE DEF e
  <2>3. ASSUME NEW i \in B
        PROVE  log[i].last \in 1 .. Len(log) /\ Is(log, log[i].last, {"BEGIN", "UPDATE"}, log[i].txn)
    <3>1. i \in 1 .. Len(log) /\ log[i].type = "ACTIVE_TXN"
      BY <1>1, <2>1 DEF Types
    <3>2. Points(log, i, log[i].last)
      BY Zenon, <3>1 DEF LogOK, Links, Linked
    <3> QED
      BY <1>1, <3>1, <3>2 DEF Points
  <2>4. \A x \in C : x[2] \in 1 .. Len(log) /\ Is(log, x[2], {"BEGIN", "UPDATE"}, x[1])
    BY <2>3
  <2> HIDE DEF C
  <2>5. T \in SUBSET (1 .. Len(log)) /\ meta \in T
    BY Zenon, <2>1, <2>4
  <2>6. T \in SUBSET Nat /\ T # {}
    BY <1>1, <2>5
  <2> HIDE DEF T
  <2>7. PICK x \in T : \A y \in T : x <= y
    BY Zenon, <2>6, Least
  <2>8. Min(T) \in T /\ \A y \in T : Min(T) <= y
    BY Zenon, <2>7 DEF Min
  <2>9. RedoStart \in 1 .. Len(log) /\ \A y \in T : RedoStart <= y
    BY Zenon, <2>2, <2>5, <2>8
  <2>10. RedoStart <= meta /\ \A y \in C : RedoStart <= y[2]
    BY Zenon, <2>5, <2>9 DEF T
  <2>11. \A y \in C : y[2] \in RedoStart .. Len(log)
    BY <1>1, <2>4, <2>9, <2>10
  <2>12. \A i \in B : <<log[i].txn, log[i].last>> \in C
    BY Zenon DEF C
  <2> QED
    BY <1>1, <1>3, <2>2, <2>4, <2>9, <2>10, <2>11, <2>12 DEF e
<1> QED
  BY Zenon, <1>2, <1>3

\* The last record of a transaction with a live update.
LEMMA LiveHasLatest ==
  ASSUME NEW l, Len(l) \in Nat, NEW u, Live(l, u)
  PROVE  \E i \in u .. Len(l) : Latest(l, l[u].txn, i)
<1> DEFINE t == l[u].txn
           T == {i \in u .. Len(l) : Is(l, i, Steps, t)}
<1>1. u \in 1 .. Len(l) /\ l[u].type = "UPDATE"
  BY Zenon DEF Live
<1>2. u \in T /\ T \in SUBSET (1 .. Len(l))
  BY <1>1 DEF Is, Steps
<1> HIDE DEF T
<1>3. PICK i \in T : \A y \in T : y <= i
  BY Zenon, <1>2, Greatest
<1>4. i \in u .. Len(l) /\ Is(l, i, Steps, t)
  BY Zenon, <1>3 DEF T
<1>5. ASSUME NEW c \in i + 1 .. Len(l) PROVE ~Is(l, c, {"BEGIN", "UPDATE", "CLR", "COMMIT"}, t)
  <2>1. c \in u .. Len(l) /\ c \in u + 1 .. Len(l) /\ ~(c <= i)
    BY <1>1, <1>4
  <2>2. c \notin T
    BY Zenon, <1>3, <2>1
  <2>3. ~Is(l, c, Steps, t)
    BY Zenon, <2>1, <2>2 DEF T
  <2>4. ~Is(l, c, {"BEGIN", "COMMIT"}, t)
    BY Zenon, <2>1 DEF Live, None
  <2> QED
    BY Zenon, <2>3, <2>4 DEF Is, Steps
<1>6. i \in 1 .. Len(l)
  BY <1>1, <1>4
<1> QED
  BY Zenon, <1>4, <1>5, <1>6 DEF Latest, None

\* ANALYSIS finds the transactions with a live update, and none with a COMMIT.
LEMMA LosersFound ==
  ASSUME IInv, UndoInv, NEW R, R = RedoStart, NEW C, C = CheckpointTxns
  PROVE  /\ \A e \in Losers(R, C) : e \in Id \X Nat /\ Latest(log, e[1], e[2])
         /\ \A u : Live(log, u) => \E e \in Losers(R, C) : e[1] = log[u].txn
<1>1. Len(log) \in Nat /\ LogOK
  BY DEF IInv, SyncInv, UndoInv
<1>2. /\ R \in Nat \ {0}
      /\ meta = 0 => R = 1
      /\ meta # 0 => R <= meta
      /\ \A x \in C : x[2] \in R .. Len(log) /\ Is(log, x[2], {"BEGIN", "UPDATE"}, x[1])
  BY Zenon, <1>1, RedoFrom
<1> DEFINE S(t) == Seen(t, R) \cup {s[2] : s \in {x \in C : x[1] = t}}
<1>3. \A t : S(t) = {i \in R .. Len(log) : Is(log, i, Steps, t)}
  BY Zenon, <1>2 DEF Seen, Types, Is, Steps
<1>4. \A e : e \in Losers(R, C) <=>
        /\ e \in Id \X (1 .. Len(log))
        /\ e[2] \in S(e[1]) /\ \A i \in S(e[1]) : i <= e[2]
        /\ \A c \in Commits(e[1], R) : c < e[2]
  BY Zenon DEF Losers
<1> HIDE DEF S
<1>5. ASSUME NEW e \in Losers(R, C) PROVE e \in Id \X Nat /\ Latest(log, e[1], e[2])
  <2>1. /\ e \in Id \X (1 .. Len(log))
        /\ e[2] \in S(e[1]) /\ \A i \in S(e[1]) : i <= e[2]
        /\ \A c \in Commits(e[1], R) : c < e[2]
    BY Zenon, <1>4
  <2>2. e \in Id \X Nat /\ e[2] \in 1 .. Len(log)
    BY <2>1
  <2>3. e[2] \in R .. Len(log) /\ Is(log, e[2], Steps, e[1])
    BY Zenon, <1>3, <2>1
  <2>4. ASSUME NEW c \in e[2] + 1 .. Len(log)
        PROVE  ~Is(log, c, {"BEGIN", "UPDATE", "CLR", "COMMIT"}, e[1])
    <3>1. c \in R .. Len(log) /\ ~(c <= e[2]) /\ ~(c < e[2])
      BY <1>1, <1>2, <2>2, <2>3
    <3>2. ~Is(log, c, Steps, e[1])
      BY Zenon, <1>3, <2>1, <3>1
    <3>3. c \notin Commits(e[1], R)
      BY Zenon, <2>1, <3>1
    <3>4. ~Is(log, c, {"COMMIT"}, e[1])
      BY Zenon, <3>1, <3>3 DEF Commits, Types, Is
    <3> QED
      BY Zenon, <3>2, <3>4 DEF Is, Steps
  <2> QED
    BY Zenon, <2>2, <2>3, <2>4 DEF Latest, None
<1>6. ASSUME NEW u, Live(log, u) PROVE \E e \in Losers(R, C) : e[1] = log[u].txn
  <2> DEFINE t == log[u].txn
  <2>1. u \in 1 .. Len(log) /\ log[u].type = "UPDATE"
    BY Zenon, <1>6 DEF Live
  <2>2. t \in Id
    BY Zenon, <1>1, <2>1 DEF LogOK, Links, Linked, Steps
  <2>3. PICK i \in u .. Len(log) : Latest(log, t, i)
    BY Zenon, <1>1, <1>6, LiveHasLatest
  <2>4. /\ i \in 1 .. Len(log) /\ Is(log, i, Steps, t)
        /\ None(log, i + 1, Len(log), {"BEGIN", "UPDATE", "CLR", "COMMIT"}, t)
    BY Zenon, <2>3 DEF Latest
  <2>5. \A c \in 1 .. Len(log) :
          Is(log, c, {"BEGIN", "UPDATE", "CLR", "COMMIT"}, t) => c <= i
    <3> SUFFICES ASSUME NEW c \in 1 .. Len(log), ~(c <= i)
                 PROVE  ~Is(log, c, {"BEGIN", "UPDATE", "CLR", "COMMIT"}, t)
      BY Zenon
    <3>1. c \in i + 1 .. Len(log)
      BY <1>1, <2>4
    <3> QED
      BY Zenon, <2>4, <3>1 DEF None
  <2>6. R <= i
    <3>1. CASE meta = 0 \/ meta <= u
      <4>1. meta # 0 => meta \in 1 .. Len(log)
        BY Zenon, MetaInLog
      <4> QED
        BY <1>1, <1>2, <2>1, <2>3, <3>1, <4>1
    <3>2. CASE meta # 0 /\ ~(meta <= u)
      <4>1. /\ BracketEnd(meta) \in meta + 1 .. Len(log) /\ meta \in 1 .. Len(log)
            /\ log[BracketEnd(meta)].type = "CHECKPOINT_END"
        BY Zenon, <3>2, BracketFound DEF Types
      <4>2. u \in 1 .. meta - 1 /\ AllCovered(log, meta)
        BY <2>1, <3>2, <4>1 DEF UndoInv, CoverInv
      <4>3. PICK b \in meta + 1 .. Len(log) :
              (\A j \in meta + 1 .. b : log[j].type = "ACTIVE_TXN") /\ log[b].txn = t
        BY Zenon, <1>6, <4>2 DEF AllCovered, Covered
      <4>4. b \in meta + 1 .. BracketEnd(meta) - 1
        <5>1. BracketEnd(meta) \notin meta + 1 .. b
          BY Zenon, <4>1, <4>3
        <5> QED
          BY <1>1, <4>1, <5>1
      <4>5. <<t, log[b].last>> \in C
        BY Zenon, <1>1, <3>2, <4>3, <4>4, RedoFrom
      <4>6. log[b].last \in R .. Len(log) /\ Is(log, log[b].last, {"BEGIN", "UPDATE"}, t)
        BY Zenon, <1>2, <4>5
      <4>7. log[b].last <= i
        BY <1>2, <2>5, <4>6 DEF Is
      <4> QED
        BY <1>1, <1>2, <2>4, <4>6, <4>7
    <3> QED
      BY Zenon, <3>1, <3>2
  <2>7. i \in R .. Len(log)
    BY <1>1, <1>2, <2>4, <2>6
  <2>8. i \in S(t) /\ \A c \in S(t) : c <= i
    <3>1. \A c \in R .. Len(log) : c \in 1 .. Len(log)
      BY <1>1, <1>2
    <3> QED
      BY Zenon, <1>3, <2>4, <2>5, <2>7, <3>1 DEF Is, Steps
  <2>9. \A c \in Commits(t, R) : c < i
    <3> SUFFICES ASSUME NEW c \in Commits(t, R) PROVE c < i
      BY Zenon
    <3>1. c \in R .. Len(log) /\ Is(log, c, {"COMMIT"}, t)
      BY Zenon DEF Commits, Types, Is
    <3>2. c \in 1 .. Len(log) /\ c <= i
      BY <1>1, <1>2, <2>5, <3>1 DEF Is
    <3>3. c # i
      BY Zenon, <2>4, <3>1 DEF Is, Steps
    <3> QED
      BY <2>4, <3>2, <3>3
  <2>10. <<t, i>> \in Losers(R, C)
    <3> DEFINE e == <<t, i>>
    <3>1. e[1] = t /\ e[2] = i /\ e \in Id \X (1 .. Len(log))
      BY Zenon, <2>2, <2>4
    <3> HIDE DEF e
    <3> QED
      BY Zenon, <1>4, <2>8, <2>9, <3>1 DEF e
  <2> QED
    BY Zenon, <2>10
<1> QED
  BY Zenon, <1>5, <1>6
----------------------------------------------------------------------------
(* UndoInv is kept: crashes and the passes of recovery.                     *)

\* A step that leaves the engine in recovery.
LEMMA Recovers ==
  ASSUME IInv, UndoInv, LogOK', Extends(log, log'), meta' = meta, pc' \in Recovery, LocalShape',
         Open' = {}, next_id' \in 0 .. MaxTxns, LoserInv'
  PROVE  UndoInv'
<1>1. pc' \notin Running /\ pc' \in Running \cup Recovery
  BY Zenon DEF Running, Recovery
<1>2. OpenInv'
  BY Zenon, <1>1 DEF OpenInv
<1>3. AbortInv' /\ LiveInv'
  BY Zenon, <1>1 DEF AbortInv, LiveInv, Running
<1>4. CoverInv'
  BY Zenon, <1>1, CoverElsewhere DEF Running
<1> QED
  BY Zenon, <1>2, <1>3, <1>4 DEF UndoInv

\* Recovery is over when nothing is live.
LEMMA RecoveryEnds ==
  ASSUME IInv, UndoInv, pc \in Recovery, pc' = "idle", local' = NoLocal,
         UNCHANGED <<log, meta, active, next_id>>, \A u : ~Live(log, u)
  PROVE  UndoInv'
<1>1. Plain
  BY Zenon, PlainSame
<1>2. Open = {} /\ Open' = {}
  BY Zenon DEF Open, UndoInv, OpenInv
<1>3. pc' \in Running /\ LocalShape' /\ AbortInv' /\ LiveInv'
  BY Zenon DEF Running, LocalShape, NoLocal, AbortInv, LiveInv
<1>4. CoverInv'
  BY Zenon, <1>1, CoverElsewhere DEF Plain
<1> QED
  BY Zenon, <1>1, <1>2, <1>3, <1>4, PlainRuns

LEMMA CrashUndo ==
  ASSUME IInv, UndoInv, Crash
  PROVE  UndoInv'
<1>1. /\ log' = log /\ meta' = meta /\ pc' = "start" /\ active' = <<>> /\ next_id' = 0
      /\ local' = NoLocal
  BY Zenon DEF Crash, Restarted, files
<1>2. Plain
  BY Zenon, <1>1, PlainSame
<1>3. Open' = {} /\ next_id' \in 0 .. MaxTxns /\ LocalShape' /\ LoserInv' /\ pc' \in Recovery
  BY <1>1, ConstantsAssumption DEF Open, LocalShape, NoLocal, LoserInv, Recovery
<1> QED
  BY Zenon, <1>1, <1>2, <1>3, Recovers DEF Plain

LEMMA RecoverOnStartupUndo ==
  ASSUME IInv, UndoInv, RecoverOnStartup
  PROVE  UndoInv'
<1>1. pc = "start" /\ UNCHANGED <<log, meta, active, next_id>>
  BY Zenon DEF RecoverOnStartup, files
<1>2. CASE log = <<>>
  <2>1. \A u : ~Live(log, u)
    BY <1>2 DEF Live
  <2>2. pc' = "idle" /\ local' = NoLocal
    BY Zenon, <1>2 DEF RecoverOnStartup
  <2> QED
    BY Zenon, <1>1, <2>1, <2>2, RecoveryEnds DEF Recovery
<1>3. CASE log # <<>>
  <2>1. PICK R : R = RedoStart
    BY Zenon
  <2>2. PICK C : C = CheckpointTxns
    BY Zenon
  <2>3. pc' = "redo" /\ local' = [NoLocal EXCEPT !.lsn = R, !.txns = Losers(R, C)]
    BY Zenon, <1>3, <2>1, <2>2 DEF RecoverOnStartup
  <2>4. LocalShape' /\ local'.txns = Losers(R, C)
    BY Zenon, <2>3 DEF LocalShape, NoLocal
  <2>5. /\ \A e \in Losers(R, C) : e \in Id \X Nat /\ Latest(log, e[1], e[2])
        /\ \A u : Live(log, u) => \E e \in Losers(R, C) : e[1] = log[u].txn
    BY Zenon, <2>1, <2>2, LosersFound
  <2>6. LoserInv'
    BY Zenon, <1>1, <2>3, <2>4, <2>5 DEF LoserInv
  <2>7. Plain /\ Open' = {} /\ next_id' \in 0 .. MaxTxns /\ pc' \in Recovery
    BY Zenon, <1>1, <2>3, PlainSame DEF Open, UndoInv, OpenInv, Recovery
  <2> QED
    BY Zenon, <1>1, <2>4, <2>6, <2>7, Recovers DEF Plain
<1> QED
  BY Zenon, <1>2, <1>3

LEMMA RedoUndo ==
  ASSUME IInv, UndoInv, Redo
  PROVE  UndoInv'
<1>1. /\ pc = "redo" /\ pc' \in {"redo", "losers"} /\ UNCHANGED <<log, meta, active, next_id>>
      /\ \E n : local' = [local EXCEPT !.lsn = n]
  BY Zenon DEF Redo, files
<1>2. LocalShape' /\ local'.txns = local.txns
  BY Zenon, <1>1 DEF UndoInv, OpenInv, LocalShape
<1>3. LoserInv'
  BY Zenon, <1>1, <1>2 DEF UndoInv, LoserInv, Recovery
<1>4. Plain /\ Open' = {} /\ next_id' \in 0 .. MaxTxns /\ pc' \in Recovery
  BY Zenon, <1>1, PlainSame DEF Open, UndoInv, OpenInv, Recovery
<1> QED
  BY Zenon, <1>1, <1>2, <1>3, <1>4, Recovers DEF Plain

LEMMA NextLoserUndo ==
  ASSUME IInv, UndoInv, NextLoser
  PROVE  UndoInv'
<1>1. pc = "losers" /\ UNCHANGED <<log, meta, active, next_id>>
  BY Zenon DEF NextLoser, files
<1>2. /\ \A e \in local.txns : e \in Id \X Nat /\ Latest(log, e[1], e[2])
      /\ \A u : Live(log, u) => \E e \in local.txns : e[1] = log[u].txn
  BY Zenon, <1>1 DEF UndoInv, LoserInv, Recovery
<1>3. CASE local.txns = {} /\ pc' = "idle" /\ local' = NoLocal
  BY Zenon, <1>1, <1>2, <1>3, RecoveryEnds DEF Recovery
<1>4. ASSUME NEW e \in local.txns, pc' = "undo",
             local' = [local EXCEPT !.txn = e[1], !.lsn = e[2], !.txns = @ \ {e}]
      PROVE  UndoInv'
  <2>1. LocalShape' /\ local'.txn = e[1] /\ local'.lsn = e[2] /\ local'.txns = local.txns \ {e}
    BY Zenon, <1>4 DEF UndoInv, OpenInv, LocalShape
  <2>2. ASSUME NEW f \in local.txns, f[1] = e[1] PROVE f = e
    <3>1. /\ e[2] \in 1 .. Len(log) /\ f[2] \in 1 .. Len(log)
          /\ Is(log, e[2], Steps, e[1]) /\ Is(log, f[2], Steps, e[1])
          /\ None(log, e[2] + 1, Len(log), {"BEGIN", "UPDATE", "CLR", "COMMIT"}, e[1])
          /\ None(log, f[2] + 1, Len(log), {"BEGIN", "UPDATE", "CLR", "COMMIT"}, e[1])
      BY Zenon, <1>2, <2>2 DEF Latest
    <3>2. e[2] \notin f[2] + 1 .. Len(log) /\ f[2] \notin e[2] + 1 .. Len(log)
      BY Zenon, <3>1 DEF None, Is, Steps
    <3>3. e[2] = f[2]
      BY <3>1, <3>2
    <3> QED
      BY <1>2, <2>2, <3>3
  <2>3. e[1] \in Id /\ Latest(log, e[1], e[2])
    BY Zenon, <1>2
  <2>4. \A f \in local.txns \ {e} : f[1] # e[1]
    BY Zenon, <2>2
  <2>5. \A u : Live(log, u) => (\E f \in local.txns \ {e} : f[1] = log[u].txn) \/ log[u].txn = e[1]
    BY Zenon, <1>2
  <2>6. LoserInv'
    BY Zenon, <1>1, <1>2, <1>4, <2>1, <2>3, <2>4, <2>5 DEF LoserInv
  <2>7. Plain /\ Open' = {} /\ next_id' \in 0 .. MaxTxns /\ pc' \in Recovery
    BY Zenon, <1>1, <1>4, PlainSame DEF Open, UndoInv, OpenInv, Recovery
  <2> QED
    BY Zenon, <1>1, <2>1, <2>6, <2>7, Recovers DEF Plain
<1> QED
  BY Zenon, <1>3, <1>4 DEF NextLoser

\* The update or BEGIN that the undo of a loser has come to.
LEMMA LoserCursor ==
  ASSUME IInv, UndoInv, pc \in {"undo", "undo_clr"}, NEW t, t = local.txn, NEW n, n = local.lsn
  PROVE  /\ n \in 1 .. Len(log) /\ Is(log, n, Steps, t)
         /\ log[n].type = "CLR" => Latest(log, t, n)
         /\ log[n].type = "UPDATE" =>
              Live(log, n) /\ log[n].txn = t /\ \A u : Live(log, u) /\ log[u].txn = t => u <= n
         /\ log[n].type = "BEGIN" => \A u : Live(log, u) => log[u].txn # t
<1>1. PICK i : Latest(log, t, i) /\ n \in {i, Cursor(log, i)}
  BY Zenon DEF UndoInv, LoserInv
<1>2. Len(log) \in Nat /\ Links(log)
  BY DEF IInv, SyncInv, UndoInv, LogOK
<1> DEFINE q == Cursor(log, i)
<1>3. /\ q \in 1 .. Len(log) /\ Is(log, q, {"BEGIN", "UPDATE"}, t)
      /\ log[q].type = "UPDATE" => Live(log, q)
      /\ \A u : Live(log, u) /\ log[u].txn = t => u <= q /\ log[q].type = "UPDATE"
  BY Zenon, <1>1, <1>2, CursorIsLive
<1>4. log[i].type # "CLR" => q = i
  BY Zenon DEF Cursor
<1>5. i \in 1 .. Len(log) /\ Is(log, i, Steps, t)
  BY Zenon, <1>1 DEF Latest
<1> HIDE DEF q
<1>6. log[n].type # "CLR" => n = q
  BY Zenon, <1>1, <1>4 DEF q
<1>7. log[n].type = "CLR" => n = i
  BY Zenon, <1>1, <1>3 DEF q, Is
<1> QED
  BY Zenon, <1>1, <1>3, <1>5, <1>6, <1>7 DEF Is, Steps

LEMMA UndoStepUndo ==
  ASSUME IInv, UndoInv, Undo
  PROVE  UndoInv'
<1>1. pc = "undo" /\ UNCHANGED <<log, meta, active, next_id>>
  BY Zenon DEF Undo, files
<1>2. PICK t : t = local.txn
  BY Zenon
<1>3. PICK n : n = local.lsn
  BY Zenon
<1>4. /\ n \in 1 .. Len(log) /\ Is(log, n, Steps, t)
      /\ log[n].type = "CLR" => Latest(log, t, n)
      /\ log[n].type = "BEGIN" => \A u : Live(log, u) => log[u].txn # t
  BY Zenon, <1>1, <1>2, <1>3, LoserCursor
<1>5. /\ \A e \in local.txns : e \in Id \X Nat /\ Latest(log, e[1], e[2]) /\ e[1] # t
      /\ \A u : Live(log, u) => (\E e \in local.txns : e[1] = log[u].txn) \/ log[u].txn = t
      /\ t \in Id
      /\ \E i : Latest(log, t, i) /\ n \in {i, Cursor(log, i)}
  BY Zenon, <1>1, <1>2, <1>3 DEF UndoInv, LoserInv, Recovery
<1>6. Plain /\ Open' = {} /\ next_id' \in 0 .. MaxTxns
  BY Zenon, <1>1, PlainSame DEF Open, UndoInv, OpenInv, Recovery
<1>7. n # 0
  BY <1>4
<1>8. CASE log[n].type = "BEGIN"
  <2>1. pc' = "losers" /\ local' = local
    BY Zenon, <1>3, <1>8 DEF Undo, Types
  <2>2. LoserInv'
    BY Zenon, <1>1, <1>4, <1>5, <1>8, <2>1 DEF LoserInv
  <2>3. LocalShape' /\ pc' \in Recovery
    BY Zenon, <2>1 DEF UndoInv, OpenInv, LocalShape, Recovery
  <2> QED
    BY Zenon, <1>1, <1>6, <2>2, <2>3, Recovers DEF Plain
<1>9. CASE log[n].type = "CLR"
  <2>1. pc' = "undo" /\ local' = [local EXCEPT !.lsn = log[n].undo_next]
    BY Zenon, <1>3, <1>7, <1>9 DEF Undo, Types
  <2>2. /\ LocalShape' /\ pc' \in Recovery /\ local'.lsn = log[n].undo_next
        /\ local'.txn = t /\ local'.txns = local.txns
    BY Zenon, <1>2, <2>1 DEF UndoInv, OpenInv, LocalShape, Recovery
  <2>3. Latest(log', t, n) /\ local'.lsn \in {n, Cursor(log', n)}
    BY Zenon, <1>1, <1>4, <1>9, <2>2 DEF Cursor
  <2>4. LoserInv'
    BY Zenon, <1>1, <1>5, <2>1, <2>2, <2>3 DEF LoserInv
  <2> QED
    BY Zenon, <1>1, <1>6, <2>2, <2>4, Recovers DEF Plain
<1>10. CASE log[n].type = "UPDATE"
  <2>1. pc' = "undo_clr" /\ local' = local
    BY Zenon, <1>3, <1>7, <1>10 DEF Undo, Types
  <2>2. LoserInv'
    BY Zenon, <1>1, <1>2, <1>3, <1>5, <1>10, <2>1 DEF LoserInv, Types
  <2>3. LocalShape' /\ pc' \in Recovery
    BY Zenon, <2>1 DEF UndoInv, OpenInv, LocalShape, Recovery
  <2> QED
    BY Zenon, <1>1, <1>6, <2>2, <2>3, Recovers DEF Plain
<1> QED
  BY Zenon, <1>4, <1>8, <1>9, <1>10 DEF Is, Steps

\* The CLR that recovery logs for the last live update of a loser.
LEMMA UndoLogged ==
  ASSUME IInv, UndoInv, UndoLog, NEW t, t = local.txn, NEW n, n = local.lsn
  PROVE  /\ Live(log, n) /\ log[n].txn = t
         /\ \A u : Live(log, u) /\ log[u].txn = t => u <= n
         /\ Adds(log, log', Clr(t, log[n].key, log[n].old, log[n].prev))
<1>1. pc = "undo_clr" /\ Log(Clr(t, log[n].key, log[n].old, log[n].prev))
  BY Zenon DEF UndoLog
<1>2. log[n].type = "UPDATE"
  BY Zenon, <1>1 DEF UndoInv, LoserInv, Types
<1> QED
  BY Zenon, <1>1, <1>2, LoserCursor, LogAdds

LEMMA UndoLogUndo ==
  ASSUME IInv, UndoInv, UndoLog
  PROVE  UndoInv'
<1>1. PICK t : t = local.txn
  BY Zenon
<1>2. PICK n : n = local.lsn
  BY Zenon
<1> DEFINE r == Clr(t, log[n].key, log[n].old, log[n].prev)
<1>3. /\ pc = "undo_clr" /\ pc' = "undo" /\ UNCHANGED <<meta, active, next_id>>
      /\ local' = [local EXCEPT !.lsn = log[n].prev]
  BY Zenon, <1>2 DEF UndoLog, files
<1>4. /\ Live(log, n) /\ log[n].txn = t
      /\ \A u : Live(log, u) /\ log[u].txn = t => u <= n
      /\ Adds(log, log', r)
  BY Zenon, <1>1, <1>2, UndoLogged
<1>5. r.type = "CLR" /\ r.txn = t /\ r.undo_next = log[n].prev
  BY Zenon DEF Clr
<1>6. \A u : Live(log', u) <=> Live(log, u) /\ u # n
  <2>1. /\ Links(log) /\ Adds(log, log', Clr(log[n].txn, log[n].key, log[n].old, log[n].prev))
        /\ \A u \in 1 .. Len(log) : Live(log, u) /\ log[u].txn = log[n].txn => u <= n
    BY Zenon, <1>4 DEF UndoInv, LogOK
  <2>2. PICK l, m : l = log /\ m = log'
    BY Zenon
  <2>3. PICK k, v : k = log[n].key /\ v = log[n].old
    BY Zenon
  <2>4. /\ Links(l) /\ Adds(l, m, Clr(l[n].txn, k, v, l[n].prev)) /\ Live(l, n)
        /\ \A u \in 1 .. Len(l) : Live(l, u) /\ l[u].txn = l[n].txn => u <= n
    BY Zenon, <1>4, <2>1, <2>2, <2>3
  <2>5. \A u : Live(m, u) <=> Live(l, u) /\ u # n
    BY Zenon, <2>4, LiveAfterClr
  <2> QED
    BY Zenon, <2>2, <2>5
<1>7. LogOK'
  <2>1. Linked(log', Len(log')) /\ Once(log')
    BY Zenon, <1>4, ClrLinked, OnceClr DEF UndoInv, LogOK
  <2> HIDE DEF r
  <2> QED
    BY Zenon, <1>4, <2>1, LinksAdds DEF UndoInv, LogOK
<1> HIDE DEF r
<1>8. /\ Extends(log, log') /\ Len(log) \in Nat /\ Len(log') = Len(log) + 1
      /\ log'[Len(log')] = r
  BY Zenon, <1>4 DEF Adds, Extends
<1>9. /\ \A e \in local.txns : e \in Id \X Nat /\ Latest(log, e[1], e[2]) /\ e[1] # t
      /\ \A u : Live(log, u) => (\E e \in local.txns : e[1] = log[u].txn) \/ log[u].txn = t
      /\ t \in Id
  BY Zenon, <1>1, <1>3 DEF UndoInv, LoserInv, Recovery
<1>10. /\ LocalShape' /\ pc' \in Recovery /\ local'.lsn = log[n].prev
       /\ local'.txn = t /\ local'.txns = local.txns
  BY Zenon, <1>1, <1>3 DEF UndoInv, OpenInv, LocalShape, Recovery
<1>11. ASSUME NEW e \in local.txns PROVE Latest(log', e[1], e[2])
  <2>1. Foreign(log, log', e[1])
    BY Zenon, <1>4, <1>5, <1>9, ForeignAdds
  <2> QED
    BY Zenon, <1>9, <2>1, LatestForeign
<1>12. ASSUME NEW u, Live(log', u)
       PROVE  (\E e \in local.txns : e[1] = log'[u].txn) \/ log'[u].txn = t
  <2>1. Live(log, u) /\ u \in 1 .. Len(log)
    BY Zenon, <1>6, <1>12 DEF Live
  <2>2. log'[u] = log[u]
    BY Zenon, <1>8, <2>1 DEF Extends
  <2> QED
    BY Zenon, <1>9, <2>1, <2>2
<1>13. Latest(log', t, Len(log')) /\ local'.lsn \in {Len(log'), Cursor(log', Len(log'))}
  BY <1>5, <1>8, <1>10 DEF Latest, Cursor, Is, Steps, None
<1>14. LoserInv'
  BY Zenon, <1>3, <1>9, <1>10, <1>11, <1>12, <1>13 DEF LoserInv
<1>15. Open' = {} /\ next_id' \in 0 .. MaxTxns
  BY Zenon, <1>3 DEF Open, UndoInv, OpenInv, Recovery
<1> QED
  BY Zenon, <1>3, <1>7, <1>8, <1>10, <1>14, <1>15, Recovers

----------------------------------------------------------------------------
(* The invariant holds.  The log is never cut: a power failure is not part  *)
(* of what is proved here.                                                  *)

LEMMA InitUndo == Init => UndoInv
<1> SUFFICES ASSUME Init PROVE UndoInv
  BY Zenon
<1>1. /\ log = <<>> /\ pc = "idle" /\ local = NoLocal /\ active = <<>> /\ next_id = 0 /\ meta = 0
  BY Zenon DEF Init
<1>2. 1 .. Len(log) = {} /\ Open = {} /\ MaxTxns \in Nat
  BY <1>1, ConstantsAssumption DEF Open
<1>3. LogOK /\ \A u : ~Live(log, u)
  BY Zenon, <1>2 DEF LogOK, Links, Once, Live
<1>4. OpenInv
  BY <1>1, <1>2 DEF OpenInv, LocalShape, NoLocal, Running, Recovery
<1>5. AbortInv /\ LiveInv /\ LoserInv /\ CoverInv
  BY Zenon, <1>1, <1>3 DEF AbortInv, LiveInv, LoserInv, CoverInv, Recovery
<1> QED
  BY Zenon, <1>3, <1>4, <1>5 DEF UndoInv

LEMMA NextUndo ==
  ASSUME ~PowerLoss, IInv, UndoInv, [Next]_vars
  PROVE  UndoInv'
<1>1. CASE Client
  BY Zenon, <1>1, BeginUndo, ChangeUndo, CommitUndo, AbortUndo DEF Client
<1>2. CASE Engine
  BY Zenon, <1>2, CommitFlushUndo, AbortApplyUndo, AbortLogUndo, AbortFlushUndo, PageUndo,
     CheckpointBeginUndo, CheckpointActiveUndo, CheckpointEndUndo, CheckpointMetaUndo,
     RecoverOnStartupUndo, RedoUndo, NextLoserUndo, UndoStepUndo, UndoLogUndo DEF Engine
<1>3. CASE Environment
  <2>1. ~LosePower
    BY Zenon DEF LosePower
  <2> QED
    BY Zenon, <1>3, <2>1, CrashUndo, PageUndo DEF Environment
<1>4. CASE UNCHANGED vars
  <2>1. UNCHANGED <<log, meta, active, next_id, pc, local>>
    BY Zenon, <1>4 DEF vars
  <2>2. Open' = Open /\ Done' = Done /\ Aborting' = Aborting
    BY Zenon, <2>1 DEF Open, Done, Aborting
  <2>3. LogOK' /\ OpenInv' /\ AbortInv' /\ LiveInv'
    BY Zenon, <2>1, <2>2 DEF UndoInv, LogOK, OpenInv, LocalShape, AbortInv, LiveInv
  <2>4. LoserInv' /\ CoverInv'
    BY Zenon, <2>1, <2>2 DEF UndoInv, LoserInv, Types, CoverInv
  <2> QED
    BY Zenon, <2>3, <2>4 DEF UndoInv
<1> QED
  BY Zenon, <1>1, <1>2, <1>3, <1>4 DEF Next, Idle

LEMMA UndoAlways ==
  ASSUME ~PowerLoss
  PROVE  Spec => []UndoInv
<1>1. IInv /\ UndoInv /\ [Next]_vars => UndoInv'
  BY Zenon, NextUndo
<1> QED
  BY <1>1, InitUndo, LogInv, PTL DEF Spec

\* "an undo interrupted by another crash can resume without redoing or re-undoing
\* work": whatever interrupts Abort or UndoTransactionFromLog, and however often
\* recovery runs, an UPDATE gets at most one CLR.
THEOREM UndoneOnce ==
  ASSUME ~PowerLoss
  PROVE  Spec => []CompensatedOnce
<1>1. IInv /\ UndoInv => CompensatedOnce
  <2> SUFFICES ASSUME IInv, UndoInv PROVE CompensatedOnce
    BY Zenon
  <2>1. DOMAIN log = 1 .. Len(log)
    BY DEF IInv, SyncInv
  <2> QED
    BY Zenon, <2>1 DEF UndoInv, LogOK, Once, CompensatedOnce, Types
<1> QED
  BY <1>1, UndoAlways, LogInv, PTL

----------------------------------------------------------------------------
(* The undo list and the chain in the log.                                  *)

\* A function on 0 .. n that follows the prev_lsn chain of log l.
Follows(l, f, n) ==
  f = [i \in 0 .. n |-> IF i = 0 \/ l[i].type # "UPDATE" THEN <<>>
                        ELSE Append(f[l[i].prev], Entry(l, i))]

LEMMA FollowsOn ==
  ASSUME NEW l, Links(l), NEW n \in Nat, n + 1 <= Len(l), NEW f, Follows(l, f, n)
  PROVE  \E g : Follows(l, g, n + 1)
<1> DEFINE Val(h, i) == IF i = 0 \/ l[i].type # "UPDATE" THEN <<>>
                          ELSE Append(h[l[i].prev], Entry(l, i))
           g == [i \in 0 .. n + 1 |-> IF i = n + 1 THEN Val(f, i) ELSE f[i]]
<1>1. f = [i \in 0 .. n |-> Val(f, i)]
  BY Zenon DEF Follows
<1>2. \A i \in 0 .. n : g[i] = f[i]
  OBVIOUS
<1>3. g[n + 1] = Val(f, n + 1)
  OBVIOUS
<1>4. ASSUME NEW i \in 0 .. n + 1 PROVE Val(f, i) = Val(g, i)
  <2>1. CASE i = 0 \/ l[i].type # "UPDATE"
    BY Zenon, <2>1
  <2>2. CASE i # 0 /\ l[i].type = "UPDATE"
    <3>1. i \in 1 .. Len(l)
      BY <2>2
    <3>2. l[i].prev \in 1 .. i - 1
      BY Zenon, <2>2, <3>1 DEF Links, Linked, UpdateLinks, Points
    <3>3. l[i].prev \in 0 .. n
      BY <3>2
    <3> HIDE DEF g
    <3> QED
      BY Zenon, <1>2, <2>2, <3>3
  <2> QED
    BY Zenon, <2>1, <2>2
<1>5. ASSUME NEW i \in 0 .. n + 1 PROVE g[i] = Val(g, i)
  <2>1. CASE i = n + 1
    BY Zenon, <1>3, <1>4, <2>1
  <2>2. CASE i # n + 1
    <3>1. i \in 0 .. n
      BY <2>2
    <3>2. f[i] = Val(f, i)
      <4> HIDE DEF Val
      <4> QED
        BY Zenon, <1>1, <3>1
    <3> QED
      BY Zenon, <1>2, <1>4, <3>1, <3>2
  <2> QED
    BY Zenon, <2>1, <2>2
<1>6. g = [i \in 0 .. n + 1 |-> g[i]]
  BY Zenon
<1> HIDE DEF g, Val
<1>7. g = [i \in 0 .. n + 1 |-> Val(g, i)]
  BY Zenon, <1>5, <1>6
<1> QED
  BY Zenon, <1>7 DEF Follows, Val

LEMMA FollowsExists ==
  ASSUME NEW l, Links(l), Len(l) \in Nat
  PROVE  \E f : Follows(l, f, Len(l))
<1> DEFINE T == {n \in 0 .. Len(l) : ~ \E f : Follows(l, f, n)}
<1> SUFFICES ASSUME T # {} PROVE FALSE
  OBVIOUS
<1>1. T \in SUBSET Nat
  OBVIOUS
<1>2. PICK n \in T : \A y \in T : n <= y
  <2> HIDE DEF T
  <2> QED
    BY Zenon, <1>1, Least
<1>3. n \in 0 .. Len(l) /\ ~ \E f : Follows(l, f, n)
  BY Zenon
<1>4. CASE n = 0
  <2> DEFINE f == [i \in 0 .. 0 |-> <<>>]
  <2>1. Follows(l, f, 0)
    BY SMTT(30) DEF Follows
  <2> QED
    BY Zenon, <1>3, <1>4, <2>1
<1>5. CASE n # 0
  <2>1. n - 1 \in 0 .. Len(l) /\ ~(n <= n - 1) /\ n - 1 \in Nat /\ n - 1 + 1 = n /\ n <= Len(l)
    BY <1>3, <1>5
  <2>2. PICK f : Follows(l, f, n - 1)
    BY Zenon, <1>2, <2>1
  <2>3. \E g : Follows(l, g, n - 1 + 1)
    BY Zenon, <2>1, <2>2, FollowsOn
  <2> QED
    BY Zenon, <1>3, <2>1, <2>3
<1> QED
  BY Zenon, <1>4, <1>5

\* The chain from the last record of an undo list is that list.
LEMMA ChainFollowed ==
  ASSUME NEW l, Len(l) \in Nat, NEW f, Follows(l, f, Len(l)), NEW t, NEW last, NEW es,
         Chain(l, t, last, es)
  PROVE  f[last] = es
<1>1. PICK S : es \in Seq(S)
  BY Zenon DEF Chain, IsSeq
<1>2. Len(es) \in Nat
  BY <1>1
<1> DEFINE at(i) == At(es, last, i)
           T == {n \in 0 .. Len(es) : f[at(n)] # SubSeq(es, 1, n)}
<1>3. /\ \A i \in 0 .. Len(es) : at(i) \in 1 .. Len(l)
      /\ l[at(0)].type = "BEGIN"
      /\ \A i \in 1 .. Len(es) : l[at(i)].type = "UPDATE" /\ es[i] = Entry(l, at(i))
  BY Zenon DEF Chain, Is
<1>4. \A i \in 1 .. Len(es) : at(i - 1) = es[i].undo_next
  BY <1>2 DEF At
<1>5. at(Len(es)) = last
  BY Zenon DEF At
<1>6. \A i \in 0 .. Len(l) : f[i] = IF i = 0 \/ l[i].type # "UPDATE" THEN <<>>
                                    ELSE Append(f[l[i].prev], Entry(l, i))
  BY Zenon DEF Follows
<1> HIDE DEF at
<1>7. T = {}
  <2> SUFFICES ASSUME T # {} PROVE FALSE
    BY Zenon
  <2>1. T \in SUBSET Nat
    BY <1>2
  <2>2. PICK n \in T : \A y \in T : n <= y
    <3> HIDE DEF T
    <3> QED
      BY Zenon, <2>1, Least
  <2>3. n \in 0 .. Len(es) /\ f[at(n)] # SubSeq(es, 1, n)
    BY Zenon
  <2>4. CASE n = 0
    <3>1. at(0) \in 0 .. Len(l) /\ f[at(0)] = <<>>
      BY SMTT(30), <1>2, <1>3, <1>6
    <3>2. SubSeq(es, 1, 0) = <<>>
      BY <1>1
    <3> QED
      BY Zenon, <2>3, <2>4, <3>1, <3>2
  <2>5. CASE n # 0
    <3>1. n \in 1 .. Len(es) /\ n - 1 \in 0 .. Len(es) /\ ~(n <= n - 1)
      BY <1>2, <2>3, <2>5
    <3>2. f[at(n - 1)] = SubSeq(es, 1, n - 1)
      BY Zenon, <2>2, <3>1
    <3>3. es[n] = Entry(l, at(n)) /\ at(n) \in 1 .. Len(l) /\ l[at(n)].type = "UPDATE"
      BY Zenon, <1>3, <2>3, <3>1
    <3>4. at(n - 1) = l[at(n)].prev
      BY SMTT(30), <1>4, <3>1, <3>3 DEF Entry
    <3>5. f[at(n)] = Append(SubSeq(es, 1, n - 1), es[n])
      <4>1. at(n) \in 0 .. Len(l) /\ at(n) # 0
        BY SMTT(30), <3>3
      <4>2. f[at(n)] = Append(f[l[at(n)].prev], Entry(l, at(n)))
        BY Zenon, <1>6, <3>3, <4>1
      <4> QED
        BY Zenon, <3>2, <3>3, <3>4, <4>2
    <3>6. Append(SubSeq(es, 1, n - 1), es[n]) = SubSeq(es, 1, n)
      BY <1>1, <3>1
    <3> QED
      BY Zenon, <2>3, <3>5, <3>6
  <2> QED
    BY Zenon, <2>4, <2>5
<1>8. f[last] = SubSeq(es, 1, Len(es))
  <2>1. Len(es) \in 0 .. Len(es)
    BY <1>2
  <2> QED
    BY Zenon, <1>5, <1>7, <2>1
<1>9. SubSeq(es, 1, Len(es)) = es
  BY <1>1
<1> QED
  BY Zenon, <1>8, <1>9

\* Abort undoes from the undo_log of ActiveTxn, recovery from the prev_lsn chain of
\* the log: for an open transaction both name the same updates in the same order.
THEOREM UndoListIsChain ==
  ASSUME ~PowerLoss
  PROVE  Spec => []UndoLogIsChain
<1>1. IInv /\ UndoInv => UndoLogIsChain
  <2> SUFFICES ASSUME IInv, UndoInv PROVE UndoLogIsChain
    BY Zenon
  <2>1. Len(log) \in Nat /\ Links(log)
    BY DEF IInv, SyncInv, UndoInv, LogOK
  <2> DEFINE chain == CHOOSE f : Follows(log, f, Len(log))
  <2>2. Follows(log, chain, Len(log))
    BY Zenon, <2>1, FollowsExists
  <2> HIDE DEF chain
  <2>3. \A t \in Open : active[t].undo_log = chain[active[t].last_lsn]
    BY <2>1, <2>2, ChainFollowed DEF UndoInv, OpenInv
  <2> QED
    BY Zenon, <2>3 DEF UndoLogIsChain, chain, Follows, Entry, Types
<1> QED
  BY <1>1, UndoAlways, LogInv, PTL
=============================================================================
