------------------------------ MODULE MemTable ------------------------------
(***************************************************************************)
(* The active memtable of an LSM tree and the reads that merge it with the *)
(* tables: the skip list of src/src/lsm/skip_list.h, pointer write by      *)
(* pointer write; LSMTreeEngine::Put and Delete, which log each write in   *)
(* the paged log (LogManager) before they insert it; the replay of that    *)
(* log after a crash; Get; and Scan with the LSMMergeIterator over the     *)
(* memtable's cursor and the tables' (SSTable).  Writers hold mutex_, so   *)
(* one writer stands for all; readers take mutex_ only to copy the         *)
(* pointers, so the reader's steps fall between the writer's.  The table   *)
(* list does not change here: flush and compaction are LSMEngine's.        *)
(***************************************************************************)
EXTENDS LogManager, SSTable, FiniteSets, TLC

CONSTANTS
  MaxKey,        \* keys are 1 .. MaxKey
  MaxHeight,     \* max_height_
  NoValue,       \* the empty string, a tombstone's value
  Garbage,       \* what a reader finds in a string that is being assigned
  Locked,        \* the assumption below
  TableKey,      \* the keys TablesFindEntries builds tables of
  TableContents  \* the entries of the tables, newest table first

VARIABLES
  forward,         \* the nodes' forward pointers; a node is named by its key
  node,            \* and their LSMValues
  current_height,  \* current_height_
  w,               \* the writer: Put or Delete in progress
  todo,            \* records recovery has still to replay
  r,               \* the reader: Get or Scan in progress
  seen             \* history: the answers its keys have had since it began

list == <<forward, node, current_height>>
log_vars == <<file, buf, current, next_lsn, pending, crashes>>
mem_vars == <<log_vars, list, w, todo, r, seen>>

Key == 1 .. MaxKey
HeadNode == 0
Nil == MaxKey + 1   \* nullptr, past every key

\* The tables of the snapshot, newest first.
tables == [i \in DOMAIN TableContents |-> Open(Build(TableContents[i]))]

Tombstone == [value |-> NoValue, deleted |-> TRUE]
LSMValueOf(rec) ==
  IF rec.op = "PUT" THEN [value |-> rec.value, deleted |-> FALSE] ELSE Tombstone

NoWrite == [pc |-> "idle"]
NoRead == [pc |-> "idle"]

EmptyList ==
  /\ forward' = (HeadNode :> [l \in 1 .. MaxHeight |-> Nil])
  /\ node' = <<>> /\ current_height' = 1

MemInit ==
  /\ Init
  /\ forward = (HeadNode :> [l \in 1 .. MaxHeight |-> Nil])
  /\ node = <<>> /\ current_height = 1
  /\ w = NoWrite /\ todo = <<>> /\ r = NoRead /\ seen = <<>>

----------------------------------------------------------------------------
(* What a key holds: the specification the reads are held against.          *)

\* The last node before key on a level, walking from n.
WalkFrom(n, level, key) ==
  LET last[m \in DOMAIN forward] ==
        IF forward[m][level] < key THEN last[forward[m][level]] ELSE m
  IN last[n]

Linked(key) == key \in DOMAIN node /\ forward[WalkFrom(HeadNode, 1, key)][1] = key

Answer(found) ==
  IF found = <<>> \/ found[1].deleted THEN <<>> ELSE <<found[1].value>>

\* The newest table's entry for a key, of the entries the tables were built from.
InTables ==
  [key \in Key |->
     LET all == FlattenSeq(TableContents)
         newest == SelectInSeq(all, LAMBDA e : e[1] = key)
     IN IF newest = 0 THEN <<>> ELSE <<all[newest][2]>>]

\* A key's answer; before and after, while its value is being overwritten.
Held(key) ==
  IF w.pc \in {"assign", "deleted"} /\ w.key = key
  THEN {Answer(<<w.old>>), Answer(<<w.new>>)}
  ELSE {Answer(IF Linked(key) THEN <<node[key]>> ELSE InTables[key])}

Watch == seen' = [k \in DOMAIN seen |-> seen[k] \cup Held(k)']

\* memtable.h says that "the engine that owns one serializes access via its own
\* lock".  Under that assumption no reader looks into the list while an Insert
\* changes it, and no Insert begins to inside a reader's call; an open iterator
\* is no call.  The code does not lock so: Locked is FALSE for what it does.
ListFree == Locked => w.pc \notin {"assign", "deleted", "link"}
NoReader == Locked => r.pc \notin {"compare", "walk", "candidate", "flag", "next"}

----------------------------------------------------------------------------
(* The writer.                                                              *)

\* RecoverMemWALOnStartup returns before the engine serves a call.
Serving == todo = <<>>

\* The record is appended and flushed first, under mutex_.
Write(rec) ==
  /\ Serving /\ w.pc = "idle"
  /\ \/ AppendRecord(rec) /\ w' = [pc |-> "insert", key |-> rec.key, new |-> LSMValueOf(rec)]
     \/ AppendTurn(rec) /\ w' = [pc |-> "append", key |-> rec.key, new |-> LSMValueOf(rec)]
  /\ UNCHANGED <<list, todo, r, seen>>

\* Delete writes its tombstone whether its own Get found the key or not.
Put(rec) == rec.op = "PUT" /\ Write(rec)
Delete(rec) == rec.op = "DELETE" /\ Write(rec)

WriteTurned ==
  /\ w.pc = "append" /\ AppendTurned
  /\ w' = [w EXCEPT !.pc = "insert"]
  /\ UNCHANGED <<list, todo, r, seen>>

\* Mutation of Before: the upper levels' descent is forgotten.
Before_FromHead(key) ==
  [l \in 1 .. MaxHeight |-> IF l = 1 THEN WalkFrom(HeadNode, 1, key) ELSE HeadNode]

\* Insert's update array: the descent from current_height_ on, head_ above it.
Before(key) ==
  LET update[l \in 1 .. MaxHeight] ==
        IF l > current_height THEN HeadNode
        ELSE WalkFrom(IF l = MaxHeight THEN HeadNode ELSE update[l + 1], l, key)
  IN update

Candidate(key) == forward[Before(key)[1]][1]

\* The key is there: the string of its LSMValue is being assigned,
Overwrite ==
  /\ w.pc = "insert" /\ NoReader /\ Candidate(w.key) = w.key
  /\ node' = [node EXCEPT ![w.key].value = Garbage]
  /\ w' = [pc |-> "assign", key |-> w.key, new |-> w.new, old |-> node[w.key]]
  /\ UNCHANGED <<log_vars, forward, current_height, todo, r>>
  /\ Watch

\* is assigned,
AssignValue ==
  /\ w.pc = "assign"
  /\ node' = [node EXCEPT ![w.key].value = w.new.value]
  /\ w' = [w EXCEPT !.pc = "deleted"]
  /\ UNCHANGED <<log_vars, forward, current_height, todo, r, seen>>

\* Insert returns: mutex_ is unlocked, or recovery takes the next record.
Inserted == w' = NoWrite /\ todo' = IF todo = <<>> THEN <<>> ELSE Tail(todo)

\* and then the flag.
AssignDeleted ==
  /\ w.pc = "deleted"
  /\ node' = [node EXCEPT ![w.key].deleted = w.new.deleted]
  /\ Inserted
  /\ UNCHANGED <<log_vars, forward, current_height, r>>
  /\ Watch

\* The key is new: RandomLevel, current_height_ raised, the node made.
NewNode ==
  /\ w.pc = "insert" /\ NoReader /\ Candidate(w.key) # w.key
  /\ \E level \in 1 .. MaxHeight :
       /\ current_height' = Max({level, current_height})
       /\ forward' = forward @@ (w.key :> [l \in 1 .. level |-> Nil])
  /\ node' = node @@ (w.key :> w.new)
  /\ w' = [pc |-> "link", key |-> w.key, update |-> Before(w.key), i |-> 1]
  /\ UNCHANGED <<log_vars, todo, r, seen>>

\* and linked, from the bottom level up.
Link ==
  /\ w.pc = "link"
  /\ LET prev == w.update[w.i] IN
     forward' = [forward EXCEPT ![w.key][w.i] = forward[prev][w.i], ![prev][w.i] = w.key]
  /\ IF w.i = Len(forward[w.key]) THEN Inserted
     ELSE w' = [w EXCEPT !.i = @ + 1] /\ UNCHANGED todo
  /\ UNCHANGED <<log_vars, node, current_height, r>>
  /\ Watch

\* The process dies and is started again: it reads the log it left.  (A crash
\* inside recovery is LSMEngine's subject.)
Crash ==
  /\ Serving /\ Reopen
  /\ EmptyList /\ w' = NoWrite /\ r' = NoRead /\ seen' = <<>>
  /\ todo' = ReadFrom(0)'

\* A record goes to the memtable, and to a new log of the same records.
Replay ==
  /\ todo # <<>> /\ w.pc = "idle"
  /\ w' = [pc |-> "insert", key |-> todo[1].key, new |-> LSMValueOf(todo[1])]
  /\ UNCHANGED <<log_vars, list, todo, r, seen>>

----------------------------------------------------------------------------
(* The reader: Find and LowerBound, pointer read by pointer read.           *)

\* Get and Scan copy active_memtable_ and tiers_ and start at the head.
Start(op, key) ==
  /\ Serving /\ r.pc = "idle" /\ ListFree
  /\ r' = [pc |-> "compare", op |-> op, key |-> key, cur |-> HeadNode,
           level |-> current_height, ptr |-> Nil]
  /\ seen' = [k \in IF op = "Get" THEN {key} ELSE key .. MaxKey |-> Held(k)]
  /\ UNCHANGED <<log_vars, list, w, todo>>

Get(key) == Start("Get", key)
Scan(key) == Start("Scan", key)

Reader(next) ==
  ListFree /\ r' = next /\ UNCHANGED <<log_vars, list, w, todo, seen>>

\* The loop condition reads the pointer;
Compare ==
  /\ r.pc = "compare"
  /\ LET ptr == forward[r.cur][r.level] IN
     Reader(IF ptr < r.key THEN [r EXCEPT !.pc = "walk", !.ptr = ptr]
            ELSE IF r.level > 1 THEN [r EXCEPT !.level = @ - 1]
            ELSE [r EXCEPT !.pc = "candidate", !.ptr = ptr])

\* what comes after reads it again, unless the compiler kept it.
Loaded(level) == {r.ptr, forward[r.cur][level]}

Walk ==
  /\ r.pc = "walk"
  /\ \E ptr \in Loaded(r.level) : Reader([r EXCEPT !.pc = "compare", !.cur = ptr])

\* Find's candidate is the key's node: its value is copied,
CopyValue ==
  /\ r.pc = "candidate" /\ r.op = "Get"
  /\ r.key \in Loaded(1)
  /\ Reader([pc |-> "flag", op |-> "Get", key |-> r.key, value |-> node[r.key].value])

Returned(found) == [pc |-> "returned", op |-> "Get", key |-> r.key, answer |-> Answer(found)]

\* string first, flag second.
CopyDeleted ==
  /\ r.pc = "flag"
  /\ Reader(Returned(<<[value |-> r.value, deleted |-> node[r.key].deleted]>>))

\* It is not: the tables are asked, the newest first.
AskTables ==
  /\ r.pc = "candidate" /\ r.op = "Get"
  /\ \E ptr \in Loaded(1) : ptr # r.key
  /\ LET hit == SelectInSeq(tables, LAMBDA t : TableGet(t, r.key) # <<>>) IN
     Reader(Returned(IF hit = 0 THEN <<>> ELSE TableGet(tables[hit], r.key)))

\* LowerBound's candidate is the memtable's cursor; every table gets one too.
OpenCursors ==
  /\ r.pc = "candidate" /\ r.op = "Scan"
  /\ \E ptr \in Loaded(1) :
       Reader([pc |-> "next", op |-> "Scan", key |-> r.key, mem |-> ptr,
               its |-> [p \in DOMAIN tables |-> NewIterator(tables[p], r.key)],
               out |-> <<>>])

\* LSMMergeIterator's heap: every valid cursor's key, with its priority.
Heap ==
  {<<r.mem, 0>> : m \in {r.mem} \ {Nil}}
    \cup {<<Entry(tables[p], r.its[p])[1], p>> :
            p \in {q \in DOMAIN tables : r.its[q] # Exhausted}}

Top == CHOOSE a \in Heap : \A b \in Heap : a[1] < b[1] \/ (a[1] = b[1] /\ a[2] <= b[2])

\* Mutation of Moving: only the cursor that won.
Moving_Winner(p) == p = Top[2]

\* Advance moves the winner and every cursor on the same key.
Moving(p) == <<Top[1], p>> \in Heap

Advanced ==
  [r EXCEPT !.mem = IF Moving(0) THEN forward[@][1] ELSE @,
            !.its = [p \in DOMAIN @ |->
                       IF Moving(p) THEN IteratorNext(tables[p], @[p]) ELSE @[p]]]

\* The iterator's constructor and Next: LSMScanIterator skips tombstones.
Advance ==
  /\ r.pc \in {"next", "at"} /\ Heap # {}
  /\ LET e == IF Top[2] = 0 THEN node[r.mem] ELSE Entry(tables[Top[2]], r.its[Top[2]])[2]
     IN Reader(IF e.deleted THEN [Advanced EXCEPT !.pc = "next"]
               ELSE [Advanced EXCEPT !.pc = "at", !.out = Append(@, <<Top[1], e.value>>)])

End ==
  /\ r.pc \in {"next", "at"} /\ Heap = {}
  /\ Reader([r EXCEPT !.pc = "returned"])

\* The caller has its answer, or drops the iterator.
Close ==
  /\ r.pc \in {"at", "returned"}
  /\ r' = NoRead /\ seen' = <<>>
  /\ UNCHANGED <<log_vars, list, w, todo>>

MemNext ==
  \/ \E rec \in Record : Put(rec) \/ Delete(rec)
  \/ WriteTurned \/ Overwrite \/ AssignValue \/ AssignDeleted \/ NewNode \/ Link
  \/ Crash \/ Replay
  \/ \E key \in Key : Get(key) \/ Scan(key)
  \/ Compare \/ Walk \/ CopyValue \/ CopyDeleted \/ AskTables \/ OpenCursors
  \/ Advance \/ End \/ Close

MemSpec == MemInit /\ [][MemNext]_mem_vars

----------------------------------------------------------------------------
(* Properties. *)

OnLevel(l) == {n \in DOMAIN node : l <= Len(forward[n]) /\
                 forward[WalkFrom(HeadNode, l, n)][l] = n}

\* The skip list holds what the log says: between two writes, after a replay
\* too, the memtable has exactly the logged keys, each with its newest record,
\* every level is in key order and holds only keys of the level below, none is
\* above current_height_, and the descent from the top finds each.
MemtableIsLog ==
  (w.pc = "idle" /\ todo = <<>>) =>
    /\ DOMAIN node = {Written[i].key : i \in DOMAIN Written}
    /\ \A k \in DOMAIN node :
         /\ node[k] = LSMValueOf(Written[SelectLastInSeq(Written, LAMBDA x : x.key = k)])
         /\ Candidate(k) = k /\ Linked(k)
         /\ \A l \in 1 .. Len(forward[k]) :
              k \in OnLevel(l) /\ forward[k][l] > k /\ l <= current_height

\* A read beside writes: Get returns an answer its key had between call and
\* return; an iterator goes up from its start key, shows each key with an
\* answer it had since Scan was called, and at its end has left out only keys
\* that were absent at some time since, however the memtable grew under it,
\* whatever tombstones and older versions the tables hold.
ReadsShowHeld ==
  /\ (r.pc = "returned" /\ r.op = "Get") => r.answer \in seen[r.key]
  /\ r.pc = "at" \/ (r.pc = "returned" /\ r.op = "Scan") =>
       /\ \A i \in DOMAIN r.out :
            /\ r.out[i][1] >= (IF i = 1 THEN r.key ELSE r.out[i - 1][1] + 1)
            /\ <<r.out[i][2]>> \in seen[r.out[i][1]]
       /\ \A k \in DOMAIN seen :
            \/ <<>> \in seen[k]
            \/ \E i \in DOMAIN r.out : r.out[i][1] = k
            \/ r.pc = "at" /\ k > Last(r.out)[1]

\* The entries of a table over some keys, every other one a tombstone.
EntriesOver(keys) ==
  LET ordered == SetToSortSeq(keys, <)
  IN [i \in DOMAIN ordered |->
        <<ordered[i], [value |-> ordered[i], deleted |-> i % 2 = 0]>>]

\* What Build writes is what Open reads: a lookup finds every entry of a table
\* and nothing else, so the Bloom filter hides no key, and an iterator from any
\* start key visits the entries from there on in order, across its pages.  For
\* every set of keys; looked at once, in the state the engine starts in.
TablesFindEntries ==
  (next_lsn = 0 /\ crashes = 0 /\ w = NoWrite /\ r = NoRead) =>
  \A keys \in SUBSET TableKey :
    LET entries == EntriesOver(keys)
        t == Open(Build(entries))
        at(page_pos, index) ==
          [page_id |-> page_pos + 1, page_pos |-> page_pos, index |-> index]
        visit[it \in {Exhausted} \cup {at(p, i) : p \in 0 .. Cardinality(keys),
                                                  i \in 1 .. PerDataPage}] ==
          IF it = Exhausted THEN <<>> ELSE <<Entry(t, it)>> \o visit[IteratorNext(t, it)]
    IN \A k \in TableKey :
         /\ visit[NewIterator(t, k)] = SelectSeq(entries, LAMBDA e : e[1] >= k)
         /\ TableGet(t, k) =
              LET i == SelectInSeq(entries, LAMBDA e : e[1] = k)
              IN IF i = 0 THEN <<>> ELSE <<entries[i][2]>>
=============================================================================
