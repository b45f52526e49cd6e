----------------------------- MODULE LSMEngine -----------------------------
(***************************************************************************)
(* The LSM tree of src/src/lsm/lsm_tree_engine.{h,cpp} with its            *)
(* write-ahead log enabled: Put, Delete and Get by several threads, the    *)
(* flush of a full memtable, size-tiered compaction by the background      *)
(* thread or by a stalled writer, the manifest, closing, crashing and      *)
(* restart with replay of the log generations.                             *)
(*                                                                         *)
(* A step is a section under mutex_, or a change of the files.  Memtables, *)
(* SSTables and merged tables are maps from the keys they have an entry    *)
(* for to a value or a tombstone; a table file without its header page     *)
(* reads as the empty map.  Tier t of the code is tiers[t + 1].            *)
(***************************************************************************)
EXTENDS Integers, Sequences, FiniteSets, FiniteSetsExt, Functions

CONSTANTS
  Client, Key, Value,
  Background,       \* the compaction thread
  Tombstone,        \* the entry Delete writes
  Absent,           \* Get returned false
  Calls,            \* which of Put, Delete and Get the clients call
  FlushThreshold,   \* flush_threshold_bytes_, in writes
  TierThreshold,    \* tier_threshold_
  StallSize,        \* kWriteStallTierSize
  TierCapacity,     \* kMaxSSTablesPerManifestTier
  MaxTiers,         \* kMaxManifestTiers
  CrashPoints,      \* the situations a crash may come in
  MaxWrites,        \* bound: Puts and Deletes
  MaxRestarts       \* bound: crashes and reopenings

ASSUME ConstantsAssumption ==
  /\ Background \notin Client
  /\ Tombstone \notin Value /\ Absent \notin Value
  /\ Calls \subseteq {"Put", "Delete", "Get"}
  /\ FlushThreshold \in Nat \ {0} /\ TierThreshold \in Nat \ {0}
  /\ StallSize \in Nat \ {0} /\ TierCapacity \in Nat \ {0} /\ MaxTiers \in Nat
  /\ CrashPoints \subseteq {"quiet", "built", "unlogged", "recovery", "dead"}
  /\ MaxWrites \in Nat /\ MaxRestarts \in Nat

VARIABLES
  wals,       \* the log generation files: generation -> records
  files,      \* the SSTable files: id -> what Open would read
  manifest,   \* page 0 of the database file: next_sstable_id and the tiers
  mems,       \* the memtables in use, by the generation that logs them
  gen,        \* the active memtable's generation: next_wal_generation_ - 1
  next_id,    \* next_sstable_id_
  tiers,      \* tiers_, tables by id
  obsolete,   \* tables marked obsolete that a reader still holds
  job,        \* the compaction in progress (compaction_running_), if any
  pc, loc,    \* where each client is, and its locals
  engine,     \* "up", "closing", "dead", or a stage of the constructor
  replay,     \* RecoverMemWALOnStartup's locals
  last,       \* history: the last write of each key
  seen,       \* history: the values the key of a Get had since its call
  got,        \* history: what the last Get of each client returned
  writes, restarts

disk == <<wals, files, manifest>>
memory == <<mems, gen, next_id, tiers, obsolete>>
history == <<last, seen, got, writes>>
vars == <<disk, memory, job, pc, loc, engine, replay, history, restarts>>

Entry == Value \cup {Tombstone}
Result == Value \cup {Absent}

Set(f, x, v) == [y \in DOMAIN f \cup {x} |-> IF y = x THEN v ELSE f[y]]
Drop(f, S) == [y \in DOMAIN f \ S |-> f[y]]

Empty == <<>>
NoJob == [by |-> Absent]
NoLocal == [op |-> "", key |-> Absent, gen |-> 0, tables |-> <<>>,
            id |-> 0, fresh |-> FALSE]
NoReplay == [records |-> <<>>, old |-> {}]

Init ==
  /\ wals = Set(Empty, 0, <<>>) /\ files = Empty
  /\ manifest = [next_id |-> 0, tiers |-> <<>>]
  /\ mems = Set(Empty, 0, Empty) /\ gen = 0 /\ next_id = 0 /\ tiers = <<>>
  /\ obsolete = {} /\ job = NoJob
  /\ pc = [c \in Client |-> "idle"] /\ loc = [c \in Client |-> NoLocal]
  /\ engine = "up" /\ replay = NoReplay
  /\ last = [k \in Key |-> Absent] /\ seen = [c \in Client |-> {}]
  /\ got = [c \in Client |-> {}] /\ writes = 0 /\ restarts = 0

----------------------------------------------------------------------------
(* Lookup and merge: the newest entry wins. *)

Contents(ids) == [i \in DOMAIN ids |-> files[ids[i]]]

\* The entries of several maps, given newest first (LSMMergeIterator).
Merge(maps) ==
  LET first(k) == CHOOSE i \in DOMAIN maps :
                    /\ k \in DOMAIN maps[i]
                    /\ \A j \in 1 .. i - 1 : k \notin DOMAIN maps[j]
  IN [k \in UNION {DOMAIN maps[i] : i \in DOMAIN maps} |-> maps[first(k)][k]]

Lookup(maps, k) ==
  LET m == Merge(maps)
  IN IF k \in DOMAIN m /\ m[k] # Tombstone THEN m[k] ELSE Absent

\* The concatenation of several sequences, and a sequence without the members of
\* a set: FlattenSeq and SelectSeq as recursions that can be reasoned about.
Flatten(seqs) ==
  LET upto[i \in 0 .. Len(seqs)] == IF i = 0 THEN <<>> ELSE upto[i - 1] \o seqs[i]
  IN upto[Len(seqs)]
Without(seq, S) ==
  Flatten([i \in DOMAIN seq |-> IF seq[i] \in S THEN <<>> ELSE <<seq[i]>>])

Tables == Flatten(tiers)

----------------------------------------------------------------------------
(* Calls. *)

Return(c) == pc' = [pc EXCEPT ![c] = "idle"] /\ loc' = [loc EXCEPT ![c] = NoLocal]
Goto(c, l) == pc' = [pc EXCEPT ![c] = l] /\ UNCHANGED loc

Up(c, l) == engine \in {"up", "closing"} /\ pc[c] = l

\* shared_ptr: a memtable lives while it is active, read or being flushed.
Holds(c) == pc'[c] \in {"lookup", "build", "header"}
KeepMemtables(ms) ==
  mems' = Drop(ms, DOMAIN ms \ ({gen'} \cup {loc'[c].gen : c \in {d \in Client : Holds(d)}}))

\* Mutation of Get: the tiers are searched oldest first.
Get_OldestFirst(c, op, k) ==
  /\ engine = "up" /\ pc[c] = "idle" /\ op \in Calls
  /\ op = "Delete" => writes < MaxWrites
  /\ pc' = [pc EXCEPT ![c] = "lookup"]
  /\ loc' = [loc EXCEPT ![c] = [NoLocal EXCEPT !.op = op, !.key = k, !.gen = gen,
                       !.tables = [i \in DOMAIN Tables |-> Tables[Len(Tables) + 1 - i]]]]
  /\ seen' = [seen EXCEPT ![c] = {last[k]}]
  /\ got' = [got EXCEPT ![c] = {}]
  /\ UNCHANGED <<disk, memory, job, engine, replay, last, writes, restarts>>

\* Get, and the Get that Delete starts with: the memtable and the tiers are
\* copied under the lock and searched without it.
Get(c, op, k) ==
  /\ engine = "up" /\ pc[c] = "idle" /\ op \in Calls
  /\ op = "Delete" => writes < MaxWrites
  /\ pc' = [pc EXCEPT ![c] = "lookup"]
  /\ loc' = [loc EXCEPT ![c] = [NoLocal EXCEPT !.op = op, !.key = k, !.gen = gen,
                                               !.tables = Tables]]
  /\ seen' = [seen EXCEPT ![c] = {last[k]}]
  /\ got' = [got EXCEPT ![c] = {}]
  /\ UNCHANGED <<disk, memory, job, engine, replay, last, writes, restarts>>

\* Mutation of ReleaseTables: the files go although a reader holds the tables.
ReleaseTables_Now(obs) == files' = Drop(files, obs) /\ obsolete' = {}

\* ~SSTable removes the file of an obsolete table once nobody holds it.
ReleaseTables(obs) ==
  LET held == UNION {Range(loc'[c].tables) : c \in {d \in Client : pc'[d] = "lookup"}}
  IN files' = Drop(files, obs \ held) /\ obsolete' = obs \cap held

\* The active memtable may have changed since; the tables cannot.
GetLookup(c) ==
  /\ Up(c, "lookup")
  /\ IF loc[c].op = "Get"
     THEN /\ Return(c)
          /\ got' = [got EXCEPT ![c] =
               {Lookup(<<mems[loc[c].gen]>> \o Contents(loc[c].tables), loc[c].key)}]
     ELSE /\ pc' = [pc EXCEPT ![c] = "tombstone"] /\ got' = got
          /\ loc' = [loc EXCEPT ![c] = [NoLocal EXCEPT !.key = loc[c].key]]
  /\ UNCHANGED <<wals, manifest, gen, next_id, tiers, job, engine, replay, last,
                 seen, writes, restarts>>
  /\ KeepMemtables(mems) /\ ReleaseTables(obsolete)

\* The locked section of Put and Delete: log, apply, and see if a flush is due.
Write(c, k, e) ==
  LET now == IF e = Tombstone THEN Absent ELSE e IN
  /\ wals' = [wals EXCEPT ![gen] = Append(@, [key |-> k, entry |-> e])]
  /\ mems' = [mems EXCEPT ![gen] = Set(@, k, e)]
  /\ IF Len(wals'[gen]) >= FlushThreshold THEN Goto(c, "swap") ELSE Return(c)
  /\ last' = [last EXCEPT ![k] = now]
  /\ seen' = [d \in Client |-> IF pc[d] = "lookup" /\ loc[d].key = k
                               THEN seen[d] \cup {now} ELSE seen[d]]
  /\ writes' = writes + 1
  /\ UNCHANGED <<files, manifest, gen, next_id, tiers, obsolete, job, engine,
                 replay, got, restarts>>

Put(c, k, v) ==
  /\ engine = "up" /\ pc[c] = "idle" /\ "Put" \in Calls /\ writes < MaxWrites
  /\ Write(c, k, v)

Delete(c) ==
  /\ Up(c, "tombstone")
  /\ Write(c, loc[c].key, Tombstone)

----------------------------------------------------------------------------
(* FlushActiveMemtable. *)

\* Mutation of FlushSwap: the log is emptied at the swap, before the table exists.
FlushSwap_Truncates(c) ==
  /\ Up(c, "swap")
  /\ gen' = gen + 1
  /\ wals' = Set(Drop(wals, {gen}), gen', <<>>)
  /\ pc' = [pc EXCEPT ![c] = IF mems[gen] = Empty THEN "empty" ELSE "build"]
  /\ loc' = [loc EXCEPT ![c] = [NoLocal EXCEPT !.gen = gen]]
  /\ KeepMemtables(Set(mems, gen', Empty))
  /\ UNCHANGED <<files, manifest, next_id, tiers, obsolete, job, engine, replay,
                 history, restarts>>

\* A new memtable with a log generation of its own, under the lock.
FlushSwap(c) ==
  /\ Up(c, "swap")
  /\ gen' = gen + 1
  /\ wals' = Set(wals, gen', <<>>)
  /\ pc' = [pc EXCEPT ![c] = IF mems[gen] = Empty THEN "empty" ELSE "build"]
  /\ loc' = [loc EXCEPT ![c] = [NoLocal EXCEPT !.gen = gen]]
  /\ KeepMemtables(Set(mems, gen', Empty))
  /\ UNCHANGED <<files, manifest, next_id, tiers, obsolete, job, engine, replay,
                 history, restarts>>

\* Another thread flushed in between: only the log file has to go.
FlushEmpty(c) ==
  /\ Up(c, "empty")
  /\ wals' = Drop(wals, {loc[c].gen})
  /\ Return(c)
  /\ UNCHANGED <<files, manifest, memory, job, engine, replay, history, restarts>>

\* SSTable::Build never truncates: a file an earlier process left under the same
\* id keeps its page 0, and the new pages go behind it unread.
CreateTable(id) == files' = IF id \in DOMAIN files THEN files ELSE Set(files, id, Empty)
WriteHeader(id, fresh, entries) ==
  files' = IF fresh THEN Set(files, id, entries) ELSE files

FlushBuild(c) ==
  /\ Up(c, "build")
  /\ CreateTable(next_id) /\ next_id' = next_id + 1
  /\ pc' = [pc EXCEPT ![c] = "header"]
  /\ loc' = [loc EXCEPT ![c].id = next_id, ![c].fresh = next_id \notin DOMAIN files]
  /\ UNCHANGED <<wals, manifest, mems, gen, tiers, obsolete, job, engine, replay,
                 history, restarts>>

FlushHeader(c) ==
  /\ Up(c, "header")
  /\ WriteHeader(loc[c].id, loc[c].fresh, mems[loc[c].gen])
  /\ Goto(c, "unlink")
  /\ UNCHANGED <<wals, manifest, gen, next_id, tiers, obsolete, job, engine, replay,
                 history, restarts>>
  /\ KeepMemtables(mems)

\* The log generation goes before the manifest knows of the table.
FlushUnlink(c) ==
  /\ Up(c, "unlink")
  /\ wals' = Drop(wals, {loc[c].gen})
  /\ Goto(c, "install")
  /\ UNCHANGED <<files, manifest, memory, job, engine, replay, history, restarts>>

\* PersistManifestLocked throws when the tiers do not fit on the page.
Fits(ts) ==
  Len(ts) <= MaxTiers /\ \A t \in DOMAIN ts : Len(ts[t]) <= TierCapacity
PersistManifest ==
  manifest' = IF Fits(tiers') THEN [next_id |-> next_id, tiers |-> tiers']
              ELSE manifest

Padded(ts, n) == [t \in 1 .. IF Len(ts) < n THEN n ELSE Len(ts) |->
                    IF t \in DOMAIN ts THEN ts[t] ELSE <<>>]

\* A throw leaves Put with the table in memory and not in the manifest.
FlushInstall(c) ==
  /\ Up(c, "install")
  /\ tiers' = [Padded(tiers, 1) EXCEPT ![1] = <<loc[c].id>> \o @]
  /\ PersistManifest
  /\ IF Fits(tiers') /\ Len(tiers'[1]) >= StallSize THEN Goto(c, "help") ELSE Return(c)
  /\ UNCHANGED <<wals, files, mems, gen, next_id, obsolete, job, engine, replay,
                 history, restarts>>

----------------------------------------------------------------------------
(* CompactOneTierIfNeeded, by the background thread or a stalled writer.    *)

NeedsCompaction == {t \in DOMAIN tiers : Len(tiers[t]) >= TierThreshold}

\* Mutation of StartJob: every tier counts as the bottommost.
StartJob_Bottommost(p) ==
  LET t == CHOOSE t \in NeedsCompaction : \A u \in NeedsCompaction : t <= u
  IN job' = [by |-> p, stage |-> "merge", tier |-> t, tables |-> tiers[t],
             bottommost |-> TRUE, out |-> Empty, id |-> 0, fresh |-> FALSE]

StartJob(p) ==
  LET t == CHOOSE t \in NeedsCompaction : \A u \in NeedsCompaction : t <= u
  IN job' = [by |-> p, stage |-> "merge", tier |-> t, tables |-> tiers[t],
             bottommost |-> \A u \in DOMAIN tiers : u > t => tiers[u] = <<>>,
             out |-> Empty, id |-> 0, fresh |-> FALSE]

\* Mutation of Compact: the thread wakes up one table too late.
Compact_Late ==
  /\ engine = "up" /\ job = NoJob
  /\ \E t \in DOMAIN tiers : Len(tiers[t]) > TierThreshold
  /\ StartJob(Background)
  /\ UNCHANGED <<disk, memory, pc, loc, engine, replay, history, restarts>>

\* CompactionLoop: wakes up when a tier is full, until the engine is closing.
Compact ==
  /\ engine = "up" /\ job = NoJob /\ NeedsCompaction # {}
  /\ StartJob(Background)
  /\ UNCHANGED <<disk, memory, pc, loc, engine, replay, history, restarts>>

\* Mutation of Help: the writer waits until it has compacted a tier itself.
Help_Waits(c) ==
  /\ Up(c, "help")
  /\ job = NoJob /\ NeedsCompaction # {}
  /\ StartJob(c) /\ Goto(c, "compact")
  /\ UNCHANGED <<disk, memory, engine, replay, history, restarts>>

Help(c) ==
  /\ Up(c, "help")
  /\ IF job = NoJob /\ NeedsCompaction # {}
     THEN StartJob(c) /\ Goto(c, "compact")
     ELSE Return(c) /\ UNCHANGED job
  /\ UNCHANGED <<disk, memory, engine, replay, history, restarts>>

Stage(s) == engine \in {"up", "closing"} /\ job # NoJob /\ job.stage = s

\* What the tables of the job hold; the bottommost merge drops the tombstones.
Merged ==
  LET m == Merge(Contents(job.tables))
  IN IF job.bottommost THEN Drop(m, {k \in DOMAIN m : m[k] = Tombstone}) ELSE m

CompactMerge ==
  /\ Stage("merge")
  /\ IF Merged = Empty
     THEN job' = [job EXCEPT !.stage = "install"] /\ UNCHANGED <<files, next_id>>
     ELSE /\ CreateTable(next_id) /\ next_id' = next_id + 1
          /\ job' = [job EXCEPT !.stage = "header", !.out = Merged, !.id = next_id,
                                !.fresh = next_id \notin DOMAIN files]
  /\ UNCHANGED <<wals, manifest, mems, gen, tiers, obsolete, pc, loc, engine,
                 replay, history, restarts>>

CompactHeader ==
  /\ Stage("header")
  /\ WriteHeader(job.id, job.fresh, job.out)
  /\ job' = [job EXCEPT !.stage = "install"]
  /\ UNCHANGED <<wals, manifest, memory, pc, loc, engine, replay, history, restarts>>

\* The merged table goes to the next tier; the tables it replaces leave theirs,
\* the ones flushed in the meantime stay.
Compacted ==
  LET ts == Padded(tiers, job.tier + 1)
      new == IF job.out = Empty THEN <<>> ELSE <<job.id>>
  IN [ts EXCEPT ![job.tier] = Without(@, Range(job.tables)), ![job.tier + 1] = new \o @]

\* Mutation of CompactInstall: the manifest is left for the next flush to write.
CompactInstall_Unpersisted ==
  /\ Stage("install")
  /\ tiers' = Compacted
  /\ IF job.by = Background THEN UNCHANGED <<pc, loc>> ELSE Return(job.by)
  /\ ReleaseTables(obsolete \cup Range(job.tables))
  /\ job' = NoJob
  /\ UNCHANGED <<wals, manifest, mems, gen, next_id, engine, replay, history,
                 restarts>>

\* The tables are marked obsolete before the manifest is written: a writer's
\* throw still removes their files.  The background thread's ends the process.
CompactInstall ==
  /\ Stage("install")
  /\ tiers' = Compacted
  /\ PersistManifest
  /\ IF job.by = Background THEN UNCHANGED <<pc, loc>> ELSE Return(job.by)
  /\ IF job.by = Background /\ ~Fits(tiers')
     THEN engine' = "dead" /\ UNCHANGED <<files, obsolete>>
     ELSE engine' = engine /\ ReleaseTables(obsolete \cup Range(job.tables))
  /\ job' = NoJob
  /\ UNCHANGED <<wals, mems, gen, next_id, replay, history, restarts>>

----------------------------------------------------------------------------
(* Closing, crashing, and the constructor. *)

AllIdle == \A c \in Client : pc[c] = "idle"

\* ~LSMTreeEngine: the thread has been joined, the last memtable is flushed.
Close(c) ==
  /\ engine = "up" /\ AllIdle /\ job = NoJob /\ restarts < MaxRestarts
  /\ engine' = "closing"
  /\ IF mems[gen] = Empty THEN UNCHANGED <<pc, loc>> ELSE Goto(c, "swap")
  /\ UNCHANGED <<disk, memory, job, replay, history, restarts>>

\* A new process: only the files are left.
Restarted ==
  /\ restarts < MaxRestarts /\ restarts' = restarts + 1
  /\ engine' = "start" /\ replay' = NoReplay /\ job' = NoJob
  /\ pc' = [c \in Client |-> "idle"] /\ loc' = [c \in Client |-> NoLocal]
  /\ mems' = Empty /\ gen' = 0 /\ next_id' = 0 /\ tiers' = <<>> /\ obsolete' = {}
  /\ seen' = [c \in Client |-> {}] /\ got' = [c \in Client |-> {}]
  /\ UNCHANGED <<disk, last, writes>>

Reopen == engine = "closing" /\ AllIdle /\ job = NoJob /\ Restarted

\* unlogged: a flush has removed its log generation and not yet persisted the
\* manifest.  built: a table file exists that the manifest does not know.
Situation ==
  CASE engine = "dead" -> "dead"
    [] engine \in {"start", "replay", "remove"} -> "recovery"
    [] \E c \in Client : pc[c] = "install" -> "unlogged"
    [] \/ \E c \in Client : pc[c] \in {"header", "unlink"}
       \/ job # NoJob /\ job.out # Empty -> "built"
    [] OTHER -> "quiet"

Crash == Situation \in CrashPoints /\ Restarted

\* LoadManifestOrInitialize, then the new log generation.  Opening a table file
\* that is missing creates it empty.
LoadManifest ==
  /\ engine = "start"
  /\ tiers' = manifest.tiers /\ next_id' = manifest.next_id
  /\ files' = [i \in DOMAIN files \cup Range(Flatten(tiers')) |->
                 IF i \in DOMAIN files THEN files[i] ELSE Empty]
  /\ gen' = IF DOMAIN wals = {} THEN 0 ELSE Max(DOMAIN wals) + 1
  /\ replay' = [records |-> Flatten([g \in 1 .. gen' |->
                               IF g - 1 \in DOMAIN wals THEN wals[g - 1] ELSE <<>>]),
                old |-> DOMAIN wals]
  /\ wals' = Set(wals, gen', <<>>) /\ mems' = Set(Empty, gen', Empty)
  /\ engine' = "replay"
  /\ UNCHANGED <<manifest, obsolete, job, pc, loc, history, restarts>>

\* Each record of the old generations, oldest first, is applied and re-logged.
Replay ==
  /\ engine = "replay"
  /\ IF replay.records = <<>>
     THEN engine' = "remove" /\ UNCHANGED <<wals, mems, replay>>
     ELSE LET r == Head(replay.records) IN
          /\ mems' = [mems EXCEPT ![gen] = Set(@, r.key, r.entry)]
          /\ wals' = [wals EXCEPT ![gen] = Append(@, r)]
          /\ replay' = [replay EXCEPT !.records = Tail(@)]
          /\ engine' = engine
  /\ UNCHANGED <<files, manifest, gen, next_id, tiers, obsolete, job, pc, loc,
                 history, restarts>>

RemoveOld ==
  /\ engine = "remove"
  /\ IF replay.old = {}
     THEN engine' = "up" /\ UNCHANGED <<wals, replay>>
     ELSE LET g == CHOOSE g \in replay.old : \A h \in replay.old : g <= h IN
          /\ wals' = Drop(wals, {g})
          /\ replay' = [replay EXCEPT !.old = @ \ {g}]
          /\ engine' = engine
  /\ UNCHANGED <<files, manifest, memory, job, pc, loc, history, restarts>>

----------------------------------------------------------------------------
Call(c) ==
  \/ \E k \in Key : Get(c, "Get", k) \/ Get(c, "Delete", k)
  \/ \E k \in Key, v \in Value : Put(c, k, v)

Continue(c) ==
  \/ GetLookup(c) \/ Delete(c)
  \/ FlushSwap(c) \/ FlushEmpty(c) \/ FlushBuild(c) \/ FlushHeader(c)
  \/ FlushUnlink(c) \/ FlushInstall(c) \/ Help(c)

Compaction == Compact \/ CompactMerge \/ CompactHeader \/ CompactInstall

Constructor == LoadManifest \/ Replay \/ RemoveOld

\* Nothing is called and nothing is left to do.
Rest == AllIdle /\ UNCHANGED vars

Next ==
  \/ \E c \in Client : Call(c) \/ Continue(c) \/ Close(c)
  \/ Compaction \/ Constructor \/ Reopen \/ Crash \/ Rest

Spec == Init /\ [][Next]_vars

\* A call that has started runs on, and so do the compaction thread, which
\* waits for at most 100 ms at a time, and the constructor.
FairSpec ==
  /\ Spec
  /\ \A c \in Client : WF_vars(Continue(c))
  /\ WF_vars(Compaction) /\ WF_vars(Constructor)

----------------------------------------------------------------------------
(* Properties. *)

\* What a Get made now would return.
View(k) == Lookup(<<mems[gen]>> \o Contents(Tables), k)

Flushing == \E c \in Client : pc[c] \in {"build", "header", "unlink", "install"}

\* Once no flush is under way, every key reads as its last Put or Delete left
\* it, through flushes, compactions, reopening and crashes: "every Put/Delete is
\* logged (and fsynced) before being applied, so a crash before the next flush
\* doesn't lose recent writes" (lsm_tree_engine.h:30).
WritesKept ==
  engine \in {"up", "closing"} /\ ~Flushing => \A k \in Key : View(k) = last[k]

\* A Get returns a value its key had at some time during the call, although the
\* tables it searches may have been compacted away meanwhile.
GetIsCurrent == \A c \in Client : got[c] \subseteq seen[c]

\* Every table the manifest names has a file holding what it is to show: a crash
\* at any point of a compaction finds the tables of before or of after.
ManifestTablesExist ==
  \A i \in Range(Flatten(manifest.tiers)) : i \in DOMAIN files /\ files[i] # Empty

\* Compaction never changes what the tables show: it drops a tombstone only when
\* nothing older is left below, and keeps what was flushed while it ran.
CompactionKeepsView ==
  [][job # NoJob /\ job' = NoJob /\ engine' # "start"
       => \A k \in Key : View(k)' = View(k)]_vars

\* The files removed as obsolete are never among those a Get is still reading.
ReadersKeepTables ==
  \A c \in Client : pc[c] = "lookup" => Range(loc[c].tables) \subseteq DOMAIN files

\* The backpressure works: no tier outgrows its place in the manifest, so no
\* flush or compaction throws.
ManifestFits == Fits(tiers)

\* Every call returns, a writer that has to compact included.
CallsReturn == \A c \in Client : pc[c] # "idle" ~> pc[c] = "idle"

\* The compaction thread keeps up: time and again no tier has reached its
\* threshold, unless the engine is closed.
CompactionSettles == []<>(engine # "up" \/ NeedsCompaction = {})
=============================================================================
