----------------------------- MODULE BPlusTree -----------------------------
(***************************************************************************)
(* src/src/index: the B+-tree, page by page.  A call holds the tree's      *)
(* latch from start to end; the actions are the steps of the call that     *)
(* runs, one for each level it reaches on the way up, and `pc` says which  *)
(* comes next.  A step that asks for a page may find every frame pinned    *)
(* and throw where it stands: PoolSpec adds that.                          *)
(*                                                                         *)
(* A node is a record: `down` holds the values of a leaf or the children   *)
(* of an internal node, `keys` the key of each value, or the separators    *)
(* between the children (the key of entry 0, which the code never reads,   *)
(* is left out).                                                           *)
(***************************************************************************)
EXTENDS Integers, Sequences, FiniteSets, TLC, SequencesExt, FiniteSetsExt, Functions

CONSTANTS
  Key,          \* a finite set of integers
  Value,
  Absent,       \* no value
  LeafMax,      \* leaf_max_size_
  InternalMax   \* internal_max_size_

\* The sizes that the constructor of BPlusTree accepts.
ASSUME ConstantsAssumption ==
  /\ Key \subseteq Nat /\ IsFiniteSet(Key)
  /\ LeafMax \in Nat /\ LeafMax >= 3
  /\ InternalMax \in Nat /\ InternalMax >= 3
  /\ Absent \notin Value

VARIABLES
  nodes,  \* the tree pages in use
  root,   \* root_page_id_
  meta,   \* the root page id in the engine's metadata page
  pc,     \* the next step of the call that holds the latch
  at      \* the node it works on: <<node>>, or <<left, middle_key, right>>

vars == <<nodes, root, meta, pc, at>>

NoPage == 0  \* INVALID_PAGE_ID: page 0 is the metadata page, never a node

Init ==
  /\ nodes = <<>>
  /\ root = NoPage /\ meta = NoPage
  /\ pc = "idle" /\ at = <<>>
-----------------------------------------------------------------------------
(* The nodes. *)

Size(n) == Len(n.down)

MaxSize(n) == IF n.leaf THEN LeafMax ELSE InternalMax

GetMinSize(n) == (MaxSize(n) + 1) \div 2

\* NewPage.  Page ids are not reused by the code; here the smallest id that
\* is free is taken, which renames pages no node refers to.
FreshPage == Min((1 .. Cardinality(DOMAIN nodes) + 1) \ DOMAIN nodes)

\* LeafPage::KeyIndex: the position of the first key that is not below k.
KeyIndex(n, k) == 1 + Cardinality({i \in DOMAIN n.keys : n.keys[i] < k})

\* LeafPage::Insert.
LeafInsert(n, k, v) ==
  LET i == KeyIndex(n, k) IN
  IF k \in Range(n.keys) THEN [n EXCEPT !.down[i] = v]
  ELSE [n EXCEPT !.keys = InsertAt(@, i, k), !.down = InsertAt(@, i, v)]

\* LeafPage::Remove, of a key that is there.
LeafRemove(n, k) ==
  LET i == KeyIndex(n, k) IN
  [n EXCEPT !.keys = RemoveAt(@, i), !.down = RemoveAt(@, i)]

\* LeafPage::Lookup.
LeafLookup(n, k) == IF k \in Range(n.keys) THEN n.down[KeyIndex(n, k)] ELSE Absent

\* InternalPage::Lookup: the child whose range holds k.
ChildFor(n, k) == n.down[1 + Cardinality({i \in DOMAIN n.keys : n.keys[i] <= k})]

\* InternalPage::ValueIndex.
ValueIndex(n, p) == CHOOSE i \in DOMAIN n.down : n.down[i] = p

\* FindLeafPageGuard, from the page `from`.
FindLeaf(from, k) ==
  LET leaf[p \in DOMAIN nodes] ==
        IF nodes[p].leaf THEN p ELSE leaf[ChildFor(nodes[p], k)]
  IN  leaf[from]

\* GetValue, in a tree with the root r.
GetValue(r, k) == IF r = NoPage THEN Absent ELSE LeafLookup(nodes[FindLeaf(r, k)], k)

Entries(n) == [i \in DOMAIN n.keys |-> <<n.keys[i], n.down[i]>>]

\* Begin(key), then operator++ to the end: the entries the iterator shows.
ScanFrom(k) ==
  LET rest[p \in DOMAIN nodes \cup {NoPage}] ==
        IF p = NoPage THEN <<>> ELSE Entries(nodes[p]) \o rest[nodes[p].next]
      leaf == nodes[FindLeaf(root, k)]
  IN  IF root = NoPage THEN <<>>
      ELSE SubSeq(Entries(leaf), KeyIndex(leaf, k), Size(leaf)) \o rest[leaf.next]

\* InternalPage::UpdateChildParent, for each of `children`.
Adopt(f, children, p) ==
  [q \in DOMAIN f |-> IF q \in children THEN [f[q] EXCEPT !.parent = p] ELSE f[q]]

Children(n) == IF n.leaf THEN {} ELSE Range(n.down)

DeletePage(f, p) == Restrict(f, DOMAIN f \ {p})
-----------------------------------------------------------------------------
(* BPlusTreeEngine::Put: Insert, the splits it makes, InsertIntoParent. *)

Goto(step, args) == pc' = step /\ at' = args

\* A call is done with the tree; the engine stores the root page id.
Return == Goto("persist", <<>>)

\* The first entry makes a leaf that is the root.
InsertFirst(k, v) ==
  /\ pc = "idle" /\ root = NoPage
  /\ root' = FreshPage
  /\ nodes' = (FreshPage :> [leaf |-> TRUE, parent |-> NoPage, keys |-> <<k>>,
                             down |-> <<v>>, next |-> NoPage]) @@ nodes
  /\ Return
  /\ UNCHANGED meta

Insert(k, v) ==
  /\ pc = "idle" /\ root # NoPage
  /\ LET p == FindLeaf(root, k) IN
     /\ nodes' = [nodes EXCEPT ![p] = LeafInsert(@, k, v)]
     /\ IF Size(nodes'[p]) > LeafMax THEN Goto("split", <<p>>) ELSE Return
  /\ UNCHANGED <<root, meta>>

\* MoveHalfTo: the first half stays, the rest goes to the new page, which
\* comes next in the chain of leaves.
SplitPoint(n) == Size(n) \div 2

\* Mutation of LeftHalf: the new leaf is not linked in.
LeftHalf_NoLink(n, new) ==
  [n EXCEPT !.keys = SubSeq(@, 1, SplitPoint(n) - IF n.leaf THEN 0 ELSE 1),
            !.down = SubSeq(@, 1, SplitPoint(n))]

LeftHalf(n, new) ==
  [n EXCEPT !.keys = SubSeq(@, 1, SplitPoint(n) - IF n.leaf THEN 0 ELSE 1),
            !.down = SubSeq(@, 1, SplitPoint(n)),
            !.next = IF n.leaf THEN new ELSE @]

\* Mutation of RightHalf: the entry at the split point falls between.
RightHalf_Drops(n) ==
  [n EXCEPT !.keys = SubSeq(@, SplitPoint(n) + 2, Len(@)),
            !.down = SubSeq(@, SplitPoint(n) + 2, Len(@))]

RightHalf(n) ==
  [n EXCEPT !.keys = SubSeq(@, SplitPoint(n) + 1, Len(@)),
            !.down = SubSeq(@, SplitPoint(n) + 1, Len(@))]

\* The key that goes up: a copy of a leaf's first key on the right, or the
\* separator at the split point of an internal node.
MiddleKey(n) == IF n.leaf THEN RightHalf(n).keys[1] ELSE n.keys[SplitPoint(n)]

\* Mutation of Split: the moved children keep their parent.
Split_NoAdopt ==
  /\ pc = "split"
  /\ LET n == nodes[at[1]]
         new == FreshPage
     IN  /\ nodes' = (new :> RightHalf(n)) @@ [nodes EXCEPT ![at[1]] = LeftHalf(n, new)]
         /\ Goto("parent", <<at[1], MiddleKey(n), new>>)
  /\ UNCHANGED <<root, meta>>

\* The split of an overfull node, from Insert and from InsertIntoParent.
Split ==
  /\ pc = "split"
  /\ LET n == nodes[at[1]]
         new == FreshPage
         both == (new :> RightHalf(n)) @@ [nodes EXCEPT ![at[1]] = LeftHalf(n, new)]
     IN  /\ nodes' = Adopt(both, Children(RightHalf(n)), new)
         /\ Goto("parent", <<at[1], MiddleKey(n), new>>)
  /\ UNCHANGED <<root, meta>>

\* InsertIntoParent, of the root: the tree grows by a level.
GrowRoot ==
  /\ pc = "parent" /\ nodes[at[1]].parent = NoPage
  /\ LET new == FreshPage
         top == [leaf |-> FALSE, parent |-> NoPage, keys |-> <<at[2]>>,
                 down |-> <<at[1], at[3]>>, next |-> NoPage]
     IN  /\ nodes' = Adopt((new :> top) @@ nodes, {at[1], at[3]}, new)
         /\ root' = new
  /\ Return
  /\ UNCHANGED meta

\* InsertIntoParent, with InsertNodeAfter.
InsertIntoParent ==
  /\ pc = "parent" /\ nodes[at[1]].parent # NoPage
  /\ LET p == nodes[at[1]].parent
         i == ValueIndex(nodes[p], at[1])
     IN  /\ nodes' = [nodes EXCEPT ![p].keys = InsertAt(@, i, at[2]),
                                   ![p].down = InsertAt(@, i + 1, at[3])]
         /\ IF Size(nodes'[p]) > InternalMax THEN Goto("split", <<p>>) ELSE Return
  /\ UNCHANGED <<root, meta>>

\* NewPage returns nullptr and the call throws, past the engine's
\* PersistRootPageIdIfChanged.
PoolExhausted ==
  /\ \/ pc = "split"
     \/ pc = "parent" /\ nodes[at[1]].parent = NoPage
  /\ Goto("idle", <<>>)
  /\ UNCHANGED <<nodes, root, meta>>
-----------------------------------------------------------------------------
(* BPlusTreeEngine::Delete: Remove and HandleUnderflow, level by level. *)

\* BPlusTree::Remove.  Of a key that is not there it changes nothing.
RemoveKey(k) ==
  /\ pc = "idle" /\ root # NoPage
  /\ LET p == FindLeaf(root, k) IN
     /\ k \in Range(nodes[p].keys)
     /\ nodes' = [nodes EXCEPT ![p] = LeafRemove(@, k)]
     /\ Goto("underflow", <<p>>)
  /\ UNCHANGED <<root, meta>>

\* HandleRootUnderflow.
HandleRootUnderflow ==
  /\ pc = "underflow" /\ nodes[at[1]].parent = NoPage
  /\ LET p == at[1]
         n == nodes[p]
     IN  CASE n.leaf /\ Size(n) = 0 ->
                nodes' = DeletePage(nodes, p) /\ root' = NoPage
           [] ~n.leaf /\ Size(n) = 1 ->
                nodes' = Adopt(DeletePage(nodes, p), {n.down[1]}, NoPage) /\ root' = n.down[1]
           [] OTHER -> UNCHANGED <<nodes, root>>
  /\ Return
  /\ UNCHANGED meta

\* What HandleUnderflow looks at: the node, its parent and its place there.
Parent == nodes[nodes[at[1]].parent]
Place == ValueIndex(Parent, at[1])
HasLeft == Place > 1
HasRight == Place < Size(Parent)
CanLend(p) == Size(nodes[p]) > GetMinSize(nodes[p])
LeftLends == HasLeft /\ CanLend(Parent.down[Place - 1])
RightLends == HasRight /\ CanLend(Parent.down[Place + 1])

Underflows ==
  /\ pc = "underflow" /\ nodes[at[1]].parent # NoPage
  /\ Size(nodes[at[1]]) < GetMinSize(nodes[at[1]])

FullEnough ==
  /\ pc = "underflow" /\ nodes[at[1]].parent # NoPage
  /\ ~Underflows
  /\ Return
  /\ UNCHANGED <<nodes, root, meta>>

\* Mutation of BorrowLeft: the parent keeps its separator.
BorrowLeft_SameKey ==
  /\ Underflows /\ LeftLends
  /\ LET p == at[1]
         n == nodes[p]
         l == Parent.down[Place - 1]
         sep == Parent.keys[Place - 1]
         moved == Last(nodes[l].down)
         up == Last(nodes[l].keys)
         lent == [nodes EXCEPT
           ![l].keys = Front(@), ![l].down = Front(@),
           ![p].keys = <<IF n.leaf THEN up ELSE sep>> \o @, ![p].down = <<moved>> \o @]
     IN  nodes' = IF n.leaf THEN lent ELSE Adopt(lent, {moved}, p)
  /\ Return
  /\ UNCHANGED <<root, meta>>

\* MoveLastToFrontOf: the left sibling's last entry comes over; between
\* internal nodes the keys rotate through the parent.
BorrowLeft ==
  /\ Underflows /\ LeftLends
  /\ LET p == at[1]
         n == nodes[p]
         l == Parent.down[Place - 1]
         sep == Parent.keys[Place - 1]
         moved == Last(nodes[l].down)
         up == Last(nodes[l].keys)
         lent == [nodes EXCEPT
           ![l].keys = Front(@), ![l].down = Front(@),
           ![p].keys = <<IF n.leaf THEN up ELSE sep>> \o @, ![p].down = <<moved>> \o @,
           ![n.parent].keys[Place - 1] = up]
     IN  nodes' = IF n.leaf THEN lent ELSE Adopt(lent, {moved}, p)
  /\ Return
  /\ UNCHANGED <<root, meta>>

\* MoveFirstToEndOf, from the right sibling.
BorrowRight ==
  /\ Underflows /\ ~LeftLends /\ RightLends
  /\ LET p == at[1]
         n == nodes[p]
         r == Parent.down[Place + 1]
         sep == Parent.keys[Place]
         moved == Head(nodes[r].down)
         first == Head(nodes[r].keys)
         lent == [nodes EXCEPT
           ![r].keys = Tail(@), ![r].down = Tail(@),
           ![p].keys = Append(@, IF n.leaf THEN first ELSE sep), ![p].down = Append(@, moved),
           ![n.parent].keys[Place] = IF n.leaf THEN nodes[r].keys[2] ELSE first]
     IN  nodes' = IF n.leaf THEN lent ELSE Adopt(lent, {moved}, p)
  /\ Return
  /\ UNCHANGED <<root, meta>>

\* MoveAllTo, of the child i + 1 into its left neighbour, the child i: their
\* separator leaves the parent, and comes down between internal nodes.
Absorb(l, r, i) ==
  LET par == nodes[l].parent
      merged == [nodes EXCEPT
        ![l].keys = @ \o (IF nodes[l].leaf THEN <<>> ELSE <<nodes[par].keys[i]>>) \o nodes[r].keys,
        ![l].down = @ \o nodes[r].down, ![l].next = nodes[r].next,
        ![par].keys = RemoveAt(@, i), ![par].down = RemoveAt(@, i + 1)]
  IN  DeletePage(Adopt(merged, Children(nodes[r]), l), r)

\* The parent lost a child: HandleUnderflow goes on there.
MergeLeft ==
  /\ Underflows /\ ~LeftLends /\ ~RightLends /\ HasLeft
  /\ nodes' = Absorb(Parent.down[Place - 1], at[1], Place - 1)
  /\ Goto("underflow", <<nodes[at[1]].parent>>)
  /\ UNCHANGED <<root, meta>>

MergeRight ==
  /\ Underflows /\ ~LeftLends /\ ~RightLends /\ ~HasLeft
  /\ nodes' = Absorb(at[1], Parent.down[Place + 1], Place)
  /\ Goto("underflow", <<nodes[at[1]].parent>>)
  /\ UNCHANGED <<root, meta>>
-----------------------------------------------------------------------------
\* The end of the engine's Put and Delete.
PersistRootPageIdIfChanged ==
  /\ pc = "persist"
  /\ meta' = root
  /\ Goto("idle", <<>>)
  /\ UNCHANGED <<nodes, root>>

Put == \E k \in Key, v \in Value : InsertFirst(k, v) \/ Insert(k, v)

Delete == \E k \in Key : RemoveKey(k)

Ascend == Split \/ GrowRoot \/ InsertIntoParent

HandleUnderflow ==
  \/ HandleRootUnderflow \/ FullEnough
  \/ BorrowLeft \/ BorrowRight \/ MergeLeft \/ MergeRight

Next == Put \/ Delete \/ Ascend \/ HandleUnderflow \/ PersistRootPageIdIfChanged

Spec == Init /\ [][Next]_vars

\* The same with a pool whose frames may all be pinned.
PoolSpec == Init /\ [][Next \/ PoolExhausted]_vars
-----------------------------------------------------------------------------
(* Properties. *)

\* What the leaves hold, wherever they hang.
Contents ==
  UNION {Range(Entries(nodes[p])) : p \in {q \in DOMAIN nodes : nodes[q].leaf}}

\* Whatever the history of splits, loans and merges, a Get that descends
\* from the root finds each key in the leaves and no other, and so does one
\* after a reopen, which descends from the root the metadata page names.
LookupFindsContents ==
  pc = "idle" =>
    \A r \in {root, meta} :
      /\ r \in DOMAIN nodes \cup {NoPage}
      /\ Contents = {<<k, GetValue(r, k)>> : k \in {j \in Key : GetValue(r, j) # Absent}}

\* A scan from any key walks the chain of leaves through all the keys from
\* there on, once each and in order (StorageEngine::Scan).
ScanIsOrdered ==
  pc = "idle" =>
    LET held == Contents
    IN  \A k \in Key :
          LET scan == ScanFrom(k) IN
          /\ Range(scan) = {e \in held : e[1] >= k}
          /\ \A i \in 2 .. Len(scan) : scan[i - 1][1] < scan[i][1]

\* No node outgrows its page, not even inside a call: the constructor takes
\* sizes one below the capacity (b_plus_tree.h:26-29).  Between calls every page
\* but the root has the parent it names as its only parent, so none is lost or
\* hangs in two places and the next split or merge follows the right pointers;
\* every node but the root is at least half full (GetMinSize), none is overfull,
\* and an internal root has two children at least.
TreeWellFormed ==
  \A p \in DOMAIN nodes :
    LET n == nodes[p] IN
    /\ Size(n) <= MaxSize(n) + 1
    /\ pc = "idle" =>
         /\ {q \in DOMAIN nodes : p \in Children(nodes[q])} =
              IF p = root THEN {} ELSE {n.parent}
         /\ Size(n) <= MaxSize(n)
         /\ Size(n) >= IF p # root THEN GetMinSize(n) ELSE IF n.leaf THEN 1 ELSE 2

KVS == INSTANCE KeyValueStore WITH store <- Contents, busy <- (pc # "idle")

\* The tree is the map of storage_engine.h: only Put and Delete, in the one
\* step that changes their leaf, change what the leaves hold; a split, a
\* loan or a merge never drops or alters an entry on the way.
ImplementsKeyValueStore == KVS!Spec
=============================================================================
