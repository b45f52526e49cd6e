----------------------------- MODULE PoolProofs -----------------------------
(***************************************************************************)
(* Proofs about BufferPool, for any numbers of threads, frames, pages and  *)
(* pins, and any replacement policy, and about LRUKPool, for any K.        *)
(***************************************************************************)
EXTENDS LRUKPool, FiniteSetTheorems, WellFoundedInduction, TLAPS

----------------------------------------------------------------------------
(* The inductive invariant.                                                *)

\* page_table_ and the frames say the same of which page is where.
TableInv ==
  /\ \A p \in DOMAIN page_table : pages[page_table[p]].page = p
  /\ \A f \in Frame :
       pages[f].page # NoPage => /\ pages[f].page \in DOMAIN page_table
                                 /\ page_table[pages[f].page] = f

\* A frame without a page is free, unpinned and clean; the replacer tracks the others, and may
\* evict those without a pin.
FrameInv ==
  \A f \in Frame :
    /\ f \in free_list <=> pages[f].page = NoPage
    /\ f \in free_list => pages[f].pin = 0 /\ ~pages[f].dirty
    /\ f \in DOMAIN evictable <=> pages[f].page # NoPage
    /\ f \in DOMAIN evictable => (evictable[f] <=> pages[f].pin = 0)

\* Pages in the pool are in use, pages in use were allocated, and the file has
\* nothing where the next pages will be.
UseInv ==
  /\ DOMAIN page_table \subseteq DOMAIN bytes
  /\ \A p \in DOMAIN bytes : p < next_page
  /\ \A p \in PageId : p >= next_page => disk[p] = Zero

\* The pins on a page, one by one.
Holds(p) == {h \in Thread \X Nat : 1 <= h[2] /\ h[2] <= pins[h[1]][p]}

PinCount(p) == IF p \in DOMAIN page_table THEN pages[page_table[p]].pin ELSE 0

\* A frame's pin count is the number of pins its threads hold, and only a
\* thread with a pin has a change to report.
PinInv ==
  /\ \A p \in PageId : IsFiniteSet(Holds(p)) /\ Cardinality(Holds(p)) = PinCount(p)
  /\ \A t \in Thread : \A p \in changed[t] : pins[t][p] > 0

IInv == TypeOK /\ TableInv /\ FrameInv /\ UseInv /\ PinInv /\ NoWriteLost

----------------------------------------------------------------------------
(* Updates of functions and of pins.                                       *)

\* One more pin on a page is one more element of its holds.
LEMMA PinAdds ==
  ASSUME TypeOK, NEW t \in Thread, NEW q \in PageId,
         pins' = [pins EXCEPT ![t][q] = @ + 1],
         NEW p \in PageId, IsFiniteSet(Holds(p))
  PROVE  /\ IsFiniteSet(Holds(p)')
         /\ Cardinality(Holds(p)') = Cardinality(Holds(p)) + IF p = q THEN 1 ELSE 0
<1>1. pins[t][q] \in Nat
  BY Zenon DEF TypeOK
<1>2. CASE p # q
  <2>1. \A u \in Thread : pins'[u][p] = pins[u][p]
    BY Zenon, <1>2 DEF TypeOK
  <2>2. Holds(p)' = Holds(p)
    BY Zenon, <2>1 DEF Holds
  <2>3. Cardinality(Holds(p)) \in Nat
    BY Zenon, FS_CardinalityType
  <2> QED
    BY <1>2, <2>2, <2>3
<1>3. CASE p = q
  <2> DEFINE new == <<t, pins[t][q] + 1>>
  <2>1. \A u \in Thread : pins'[u][p] = IF u = t THEN pins[u][p] + 1 ELSE pins[u][p]
    BY Zenon, <1>3 DEF TypeOK
  <2>2. \A u \in Thread : pins[u][p] \in Nat
    BY Zenon DEF TypeOK
  <2>3. Holds(p)' = Holds(p) \cup {new}
    BY <1>1, <1>3, <2>1, <2>2 DEF Holds
  <2>4. new \notin Holds(p)
    BY <1>1, <1>3 DEF Holds
  <2>5. Cardinality(Holds(p)') = Cardinality(Holds(p)) + 1 /\ IsFiniteSet(Holds(p)')
    BY SMTT(30), <2>3, <2>4, FS_AddElement
  <2> QED
    BY Zenon, <1>3, <2>5
<1> QED
  BY Zenon, <1>2, <1>3

\* One pin less is one element less.
LEMMA PinRemoves ==
  ASSUME TypeOK, NEW t \in Thread, NEW q \in PageId, pins[t][q] > 0,
         pins' = [pins EXCEPT ![t][q] = @ - 1],
         NEW p \in PageId, IsFiniteSet(Holds(p))
  PROVE  /\ IsFiniteSet(Holds(p)')
         /\ Cardinality(Holds(p)') = Cardinality(Holds(p)) - IF p = q THEN 1 ELSE 0
<1>1. pins[t][q] \in Nat
  BY Zenon DEF TypeOK
<1>2. CASE p # q
  <2>1. \A u \in Thread : pins'[u][p] = pins[u][p]
    BY Zenon, <1>2 DEF TypeOK
  <2>2. Holds(p)' = Holds(p)
    BY Zenon, <2>1 DEF Holds
  <2>3. Cardinality(Holds(p)) \in Nat
    BY Zenon, FS_CardinalityType
  <2> QED
    BY <1>2, <2>2, <2>3
<1>3. CASE p = q
  <2> DEFINE old == <<t, pins[t][q]>>
  <2>1. \A u \in Thread : pins'[u][p] = IF u = t THEN pins[u][p] - 1 ELSE pins[u][p]
    BY Zenon, <1>3 DEF TypeOK
  <2>2. \A u \in Thread : pins[u][p] \in Nat
    BY Zenon DEF TypeOK
  <2>3. Holds(p)' = Holds(p) \ {old}
    BY <1>1, <1>3, <2>1, <2>2 DEF Holds
  <2>4. old \in Holds(p)
    BY <1>1, <1>3 DEF Holds
  <2>5. Cardinality(Holds(p)') = Cardinality(Holds(p)) - 1 /\ IsFiniteSet(Holds(p)')
    BY ZenonT(60), <2>3, <2>4, FS_RemoveElement
  <2> QED
    BY Zenon, <1>3, <2>5
<1> QED
  BY Zenon, <1>2, <1>3

\* A page with no pin is held by nobody, and one that a thread holds has one.
LEMMA HeldIsPinned ==
  ASSUME IInv, NEW t \in Thread, NEW p \in PageId, pins[t][p] > 0
  PROVE  p \in DOMAIN page_table /\ pages[page_table[p]].pin > 0
<1>1. pins[t][p] \in Nat
  BY Zenon DEF IInv, TypeOK
<1>2. <<t, 1>> \in Holds(p)
  BY <1>1 DEF Holds
<1>3. Cardinality(Holds(p)) # 0
  BY Zenon, <1>2, FS_EmptySet DEF IInv, PinInv
<1>4. PinCount(p) # 0
  BY Zenon, <1>3 DEF IInv, PinInv
<1> QED
  BY <1>4 DEF PinCount, IInv, TypeOK, Slot

\* A frame without a pin holds a page no thread has changed.
LEMMA UnpinnedUnchanged ==
  ASSUME IInv, NEW p \in PageId, PinCount(p) = 0, NEW t \in Thread
  PROVE  pins[t][p] = 0 /\ p \notin changed[t]
<1>1. pins[t][p] \in Nat
  BY Zenon DEF IInv, TypeOK
<1>2. ~(pins[t][p] > 0)
  BY HeldIsPinned DEF PinCount, IInv, TypeOK, Slot
<1> QED
  BY <1>1, <1>2 DEF IInv, PinInv

----------------------------------------------------------------------------
(* The invariant holds at first, and no action breaks it.                  *)

LEMMA InitInv == Init => IInv
<1> SUFFICES ASSUME Init PROVE IInv
  BY Zenon
<1> USE DEF Init, Blank
<1>1. TypeOK
  BY ConstantsAssumption DEF TypeOK, Slot, Content, PageId
<1>2. TableInv /\ FrameInv
  BY Zenon DEF TableInv, FrameInv
<1>3. UseInv /\ NoWriteLost
  BY Zenon DEF UseInv, NoWriteLost
<1>4. PinInv
  <2>1. \A p \in PageId : Holds(p) = {}
    BY DEF Holds
  <2> QED
    BY ZenonT(60), <2>1, FS_EmptySet DEF PinInv, PinCount
<1> QED
  BY Zenon, <1>1, <1>2, <1>3, <1>4 DEF IInv

\* AcquireFrame and what NewPage and FetchPage do with the frame.
Installs(t, f, p, data) ==
  /\ p \notin DOMAIN page_table /\ Acquires(f)
  /\ disk' = WriteBack(f) /\ disk'[p] = data /\ Install(f, p, data) /\ Pin(t, p)
  /\ changed' = changed
  /\ next_page' \in 0 .. MaxPages /\ next_page' >= next_page /\ p < next_page'
  /\ DOMAIN bytes' = DOMAIN bytes \cup {p} /\ bytes'[p] = data
  /\ \A q \in DOMAIN bytes \ {p} : bytes'[q] = bytes[q]

LEMMA Installed ==
  ASSUME IInv, NEW t \in Thread, NEW f \in Frame, NEW p \in PageId, NEW data \in Content,
         Installs(t, f, p, data)
  PROVE  IInv'
<1> DEFINE old == pages[f].page
<1>0. /\ p \notin DOMAIN page_table /\ disk'[p] = data /\ changed' = changed
      /\ next_page' \in 0 .. MaxPages /\ next_page' >= next_page /\ p < next_page'
  BY Zenon DEF Installs
<1>1. /\ pages[f] \in Slot /\ NoPage \notin PageId
      /\ old # p
  BY <1>0, ConstantsAssumption DEF IInv, TypeOK, Slot, TableInv, PageId
<1>2. pages[f].pin = 0
  BY Zenon DEF IInv, FrameInv, Installs, Acquires, Evictable, Blank
<1>3. old = NoPage => ~pages[f].dirty
  BY Zenon DEF IInv, FrameInv, Blank
<1>4. /\ pages' = [pages EXCEPT ![f] = [page |-> p, pin |-> 1, dirty |-> FALSE, data |-> data]]
      /\ page_table' = Set(Drop(page_table, {old}), p, f)
      /\ free_list' = free_list \ {f}
      /\ evictable' = Set(evictable, f, FALSE)
      /\ pins' = [pins EXCEPT ![t][p] = @ + 1]
  BY Zenon DEF Installs, Install, Pin
<1>5. /\ DOMAIN page_table' = (DOMAIN page_table \ {old}) \cup {p}
      /\ page_table'[p] = f
      /\ \A q \in DOMAIN page_table \ {old} : page_table'[q] = page_table[q]
  BY Zenon, <1>0, <1>4 DEF Set, Drop
<1>6. /\ DOMAIN evictable' = DOMAIN evictable \cup {f} /\ evictable'[f] = FALSE
      /\ \A g \in DOMAIN evictable \ {f} : evictable'[g] = evictable[g]
  BY Zenon, <1>4 DEF Set
<1>7. /\ DOMAIN bytes' = DOMAIN bytes \cup {p} /\ bytes'[p] = data
      /\ \A q \in DOMAIN bytes \ {p} : bytes'[q] = bytes[q]
  BY Zenon DEF Installs
<1>8. \A q \in DOMAIN page_table \ {old} : page_table[q] # f
  BY Zenon DEF IInv, TableInv
<1>9. /\ pages'[f] = [page |-> p, pin |-> 1, dirty |-> FALSE, data |-> data]
      /\ \A g \in Frame : g # f => pages'[g] = pages[g]
  BY Zenon, <1>4 DEF IInv, TypeOK
<1>10. \A q \in DOMAIN page_table : page_table[q] \in Frame /\ q \in PageId
  BY Zenon DEF IInv, TypeOK
<1>11. /\ disk' \in [PageId -> Content]
       /\ \A q \in PageId : q # old => disk'[q] = disk[q]
       /\ old # NoPage => disk'[old] = IF pages[f].dirty THEN pages[f].data ELSE disk[old]
  BY SMTT(30), <1>1, <1>3 DEF IInv, Installs, WriteBack, TypeOK, Slot
<1>12. TypeOK'
  <2>1. pages' \in [Frame -> Slot]
    BY Zenon, <1>4 DEF IInv, TypeOK, Slot
  <2>2. pins' \in [Thread -> [PageId -> Nat]]
    BY <1>4 DEF IInv, TypeOK
  <2> QED
    BY ZenonT(60), <1>0, <1>4, <1>5, <1>6, <1>7, <1>11, <2>1, <2>2 DEF IInv, TypeOK
<1>13. TableInv'
  <2>1. \A q \in DOMAIN page_table' : pages'[page_table'[q]].page = q
    BY SMTT(30), <1>5, <1>8, <1>9, <1>10 DEF IInv, TableInv
  <2>2. ASSUME NEW g \in Frame, pages'[g].page # NoPage
        PROVE  pages'[g].page \in DOMAIN page_table' /\ page_table'[pages'[g].page] = g
    BY SMTT(30), <1>1, <1>5, <1>9, <1>10, <2>2 DEF IInv, TableInv
  <2> QED
    BY Zenon, <2>1, <2>2 DEF IInv, TableInv
<1>14. FrameInv'
  <2> SUFFICES ASSUME NEW g \in Frame
               PROVE  /\ g \in free_list' <=> pages'[g].page = NoPage
                      /\ g \in free_list' => pages'[g].pin = 0 /\ ~pages'[g].dirty
                      /\ g \in DOMAIN evictable' <=> pages'[g].page # NoPage
                      /\ g \in DOMAIN evictable' => (evictable'[g] <=> pages'[g].pin = 0)
    BY Zenon DEF IInv, FrameInv, Blank
  <2>1. CASE g = f
    <3>1. pages'[g].page # NoPage /\ pages'[g].pin # 0
      BY <1>1, <1>9, <2>1
    <3>2. g \notin free_list' /\ g \in DOMAIN evictable' /\ evictable'[g] = FALSE
      BY Zenon, <1>4, <1>6, <2>1
    <3> QED
      BY Zenon, <3>1, <3>2
  <2>2. CASE g # f
    BY ZenonT(60), <1>4, <1>6, <1>9, <2>2 DEF IInv, FrameInv
  <2> QED
    BY Zenon, <2>1, <2>2
<1>15. UseInv'
  <2>1. old # NoPage => old < next_page
    BY Zenon DEF IInv, TableInv, UseInv
  <2>2. DOMAIN page_table' \subseteq DOMAIN bytes'
    BY SMTT(30), <1>5, <1>7 DEF IInv, UseInv
  <2>3. \A q \in DOMAIN bytes' : q < next_page'
    BY <1>0, <1>7 DEF IInv, UseInv, TypeOK, PageId
  <2>4. ASSUME NEW q \in PageId, q >= next_page' PROVE disk'[q] = Zero
    <3>1. q >= next_page /\ q # old
      BY <1>0, <1>1, <2>1, <2>4 DEF IInv, TypeOK, PageId
    <3>2. disk'[q] = disk[q]
      BY Zenon, <1>11, <3>1
    <3>3. disk[q] = Zero
      BY Zenon, <3>1 DEF IInv, UseInv
    <3> QED
      BY Zenon, <3>2, <3>3
  <2> QED
    BY Zenon, <2>2, <2>3, <2>4 DEF IInv, UseInv
<1>16. PinInv'
  <2>1. ASSUME NEW q \in PageId
        PROVE  IsFiniteSet(Holds(q)') /\ Cardinality(Holds(q)') = PinCount(q)'
    <3>1. /\ IsFiniteSet(Holds(q)')
          /\ Cardinality(Holds(q)') = PinCount(q) + IF q = p THEN 1 ELSE 0
      BY ZenonT(60), <1>4, PinAdds DEF IInv, PinInv
    <3>2. PinCount(q)' = PinCount(q) + IF q = p THEN 1 ELSE 0
      <4>1. CASE q = p
        BY <1>0, <1>5, <1>9, <4>1 DEF PinCount
      <4>2. CASE q = old /\ old # NoPage
        BY SMTT(30), <1>1, <1>2, <1>5, <4>2 DEF IInv, PinCount, TableInv
      <4>3. CASE q # p /\ ~(q = old /\ old # NoPage)
        BY SMTT(30), <1>1, <1>5, <1>8, <1>12, <1>9, <1>10, <4>3 DEF IInv, PinCount, TypeOK, Slot
      <4> QED
        BY Zenon, <4>1, <4>2, <4>3
    <3> QED
      BY <3>1, <3>2
  <2>2. \A u \in Thread : \A q \in changed'[u] : pins'[u][q] > 0
    <3>1. pins \in [Thread -> [PageId -> Nat]] /\ changed \in [Thread -> SUBSET PageId]
      BY Zenon DEF IInv, TypeOK
    <3>2. \A u \in Thread : \A q \in changed[u] : pins[u][q] > 0
      BY Zenon DEF IInv, PinInv
    <3>3. \A u \in Thread : \A q \in PageId : pins'[u][q] >= pins[u][q]
      BY <1>4, <3>1
    <3>4. pins' \in [Thread -> [PageId -> Nat]]
      BY Zenon, <1>12 DEF TypeOK
    <3> QED
      BY <1>0, <3>1, <3>2, <3>3, <3>4
  <2> QED
    BY Zenon, <2>1, <2>2 DEF IInv, PinInv
<1>17. NoWriteLost'
  <2> SUFFICES ASSUME NEW q \in DOMAIN bytes'
               PROVE  IF q \in DOMAIN page_table'
                      THEN LET s == pages'[page_table'[q]] IN
                           /\ s.data = bytes'[q]
                           /\ ~s.dirty /\ (\A u \in Thread : q \notin changed'[u])
                                => disk'[q] = s.data
                      ELSE disk'[q] = bytes'[q]
    BY SMTT(30) DEF IInv, NoWriteLost
  <2>1. CASE q = p
    BY SMTT(30), <1>0, <1>5, <1>7, <1>9, <2>1
  <2>2. CASE q = old /\ q # p
    <3>1. q \in DOMAIN page_table /\ page_table[q] = f /\ q \in PageId /\ q \in DOMAIN bytes
      BY SMTT(30), <1>1, <1>7, <2>2 DEF IInv, TableInv, TypeOK
    <3>2. \A u \in Thread : q \notin changed[u]
      BY Zenon, <1>2, <3>1, UnpinnedUnchanged DEF PinCount
    <3>3. pages[f].data = bytes[q] /\ (~pages[f].dirty => disk[q] = pages[f].data)
      BY Zenon, <3>1, <3>2 DEF IInv, NoWriteLost
    <3>4. disk'[q] = bytes[q]
      BY SMTT(30), <1>1, <1>11, <2>2, <3>1, <3>3
    <3> QED
      BY SMTT(30), <1>5, <1>7, <2>2, <3>1, <3>4
  <2>3. CASE q # old /\ q # p
    <3>0. q \in DOMAIN bytes /\ q \in PageId
      BY SMTT(30), <1>7, <2>3 DEF IInv, TypeOK
    <3>1. bytes'[q] = bytes[q] /\ disk'[q] = disk[q]
      BY SMTT(30), <1>7, <1>11, <2>3, <3>0
    <3>2. CASE q \in DOMAIN page_table
      <4>1. q \in DOMAIN page_table' /\ page_table'[q] = page_table[q]
        BY Zenon, <1>5, <2>3, <3>2
      <4>2. pages'[page_table'[q]] = pages[page_table[q]]
        BY Zenon, <1>8, <1>9, <1>10, <2>3, <3>2, <4>1
      <4> QED
        BY Zenon, <1>0, <3>0, <3>1, <3>2, <4>1, <4>2 DEF IInv, NoWriteLost
    <3>3. CASE q \notin DOMAIN page_table
      BY SMTT(30), <1>5, <2>3, <3>0, <3>1, <3>3 DEF IInv, NoWriteLost
    <3> QED
      BY SMTT(30), <3>2, <3>3
  <2> QED
    BY Zenon, <2>1, <2>2, <2>3
<1> QED
  BY Zenon, <1>12, <1>13, <1>14, <1>15, <1>16, <1>17 DEF IInv

LEMMA NewPageInv ==
  ASSUME IInv, NEW t \in Thread, NEW f \in Frame, NewPage(t, f)
  PROVE  IInv'
<1>1. next_page \in PageId /\ next_page \notin DOMAIN page_table /\ next_page + 1 \in 0 .. MaxPages
  BY ConstantsAssumption DEF IInv, TypeOK, UseInv, NewPage, PageId
<1>2. disk'[next_page] = Zero
  <2>1. disk[next_page] = Zero
    BY <1>1 DEF IInv, UseInv, TypeOK
  <2>2. pages[f].page # next_page
    BY <1>1, ConstantsAssumption DEF IInv, TableInv, PageId
  <2> QED
    BY Zenon, <1>1, <2>1, <2>2 DEF NewPage, WriteBack, IInv, TypeOK
<1>3. next_page' >= next_page /\ next_page < next_page'
  BY DEF NewPage, IInv, TypeOK
<1>4. /\ DOMAIN bytes' = DOMAIN bytes \cup {next_page} /\ bytes'[next_page] = Zero
      /\ \A q \in DOMAIN bytes \ {next_page} : bytes'[q] = bytes[q]
  BY SMTT(30) DEF NewPage, Set
<1> QED
  BY SMTT(30), <1>1, <1>2, <1>3, <1>4, Installed DEF NewPage, Content, Installs

LEMMA FetchMissInv ==
  ASSUME IInv, NEW t \in Thread, NEW p \in PageId, NEW f \in Frame, FetchMiss(t, p, f)
  PROVE  IInv'
<1>1. p \in DOMAIN bytes /\ p \notin DOMAIN page_table
  BY SMTT(30) DEF FetchMiss
<1>2. disk'[p] = bytes[p]
  <2>1. pages[f].page # p
    BY <1>1, ConstantsAssumption DEF IInv, TableInv, PageId
  <2> QED
    BY Zenon, <1>1, <2>1 DEF FetchMiss, WriteBack, IInv, TypeOK, NoWriteLost
<1>3. bytes' = bytes
  BY Zenon DEF FetchMiss
<1>4. disk'[p] \in Content /\ p < next_page /\ next_page \in 0 .. MaxPages
  BY Zenon, <1>1, <1>2 DEF IInv, TypeOK, UseInv
<1>5. next_page' = next_page /\ changed' = changed
  BY Zenon DEF FetchMiss
<1>6. DOMAIN bytes' = DOMAIN bytes \cup {p} /\ next_page' >= next_page
  BY <1>1, <1>3, <1>4, <1>5
<1>7. Installs(t, f, p, disk'[p])
  BY Zenon, <1>1, <1>2, <1>3, <1>4, <1>5, <1>6 DEF FetchMiss, Installs
<1> QED
  BY Zenon, <1>4, <1>7, Installed

LEMMA FetchHitInv ==
  ASSUME IInv, NEW t \in Thread, NEW p \in PageId, FetchHit(t, p)
  PROVE  IInv'
<1> DEFINE f == page_table[p]
<1> USE DEF IInv
<1>1. p \in DOMAIN page_table /\ f \in Frame /\ pages[f].page = p /\ pages[f] \in Slot
  BY Zenon DEF FetchHit, TypeOK, TableInv
<1>2. /\ pages' = [pages EXCEPT ![f].pin = @ + 1]
      /\ evictable' = Set(evictable, f, FALSE)
      /\ pins' = [pins EXCEPT ![t][p] = @ + 1]
      /\ page_table' = page_table /\ free_list' = free_list /\ disk' = disk
      /\ next_page' = next_page /\ changed' = changed /\ bytes' = bytes
  BY Zenon DEF FetchHit, Pin
<1>3. /\ pages'[f] = [pages[f] EXCEPT !.pin = @ + 1]
      /\ \A g \in Frame : g # f => pages'[g] = pages[g]
  BY Zenon, <1>1, <1>2 DEF TypeOK
<1>4. /\ pages'[f].page = p /\ pages'[f].pin = pages[f].pin + 1
      /\ pages'[f].dirty = pages[f].dirty /\ pages'[f].data = pages[f].data
      /\ pages[f].pin \in Nat
  BY Zenon, <1>1, <1>3 DEF Slot
<1>5. /\ DOMAIN evictable' = DOMAIN evictable \cup {f} /\ evictable'[f] = FALSE
      /\ \A g \in DOMAIN evictable \ {f} : evictable'[g] = evictable[g]
  BY Zenon, <1>2 DEF Set
<1>6. p # NoPage
  BY ConstantsAssumption DEF PageId
<1>7. TypeOK'
  <2>1. pages' \in [Frame -> Slot]
    BY <1>1, <1>2 DEF TypeOK, Slot
  <2>2. pins' \in [Thread -> [PageId -> Nat]]
    BY <1>2 DEF TypeOK
  <2> QED
    BY Zenon, <1>1, <1>2, <1>5, <2>1, <2>2 DEF TypeOK
<1>8. TableInv'
  BY SMTT(30), <1>1, <1>2, <1>3, <1>4 DEF TableInv, TypeOK
<1>9. FrameInv'
  <2> SUFFICES ASSUME NEW g \in Frame
               PROVE  /\ g \in free_list' <=> pages'[g].page = NoPage
                      /\ g \in free_list' => pages'[g].pin = 0 /\ ~pages'[g].dirty
                      /\ g \in DOMAIN evictable' <=> pages'[g].page # NoPage
                      /\ g \in DOMAIN evictable' => (evictable'[g] <=> pages'[g].pin = 0)
    BY Zenon DEF FrameInv, Blank
  <2>1. CASE g = f
    <3>1. pages'[g].page # NoPage /\ pages'[g].pin # 0
      BY <1>4, <1>6, <2>1
    <3>2. g \notin free_list' /\ g \in DOMAIN evictable' /\ evictable'[g] = FALSE
      BY Zenon, <1>1, <1>2, <1>5, <1>6, <2>1 DEF FrameInv
    <3> QED
      BY Zenon, <3>1, <3>2
  <2>2. CASE g # f
    BY ZenonT(60), <1>2, <1>3, <1>5, <2>2 DEF FrameInv
  <2> QED
    BY Zenon, <2>1, <2>2
<1>10. UseInv'
  BY Zenon, <1>2 DEF UseInv
<1>11. PinInv'
  <2>1. ASSUME NEW q \in PageId
        PROVE  IsFiniteSet(Holds(q)') /\ Cardinality(Holds(q)') = PinCount(q)'
    <3>1. /\ IsFiniteSet(Holds(q)')
          /\ Cardinality(Holds(q)') = PinCount(q) + IF q = p THEN 1 ELSE 0
      BY ZenonT(60), <1>2, PinAdds DEF PinInv
    <3>2. PinCount(q)' = PinCount(q) + IF q = p THEN 1 ELSE 0
      <4>1. CASE q = p
        BY Zenon, <1>1, <1>2, <1>4, <4>1 DEF PinCount
      <4>2. CASE q # p
        BY <1>1, <1>2, <1>3, <4>2 DEF PinCount, TypeOK, TableInv, Slot
      <4> QED
        BY Zenon, <4>1, <4>2
    <3> QED
      BY <3>1, <3>2
  <2>2. \A u \in Thread : \A q \in changed'[u] : pins'[u][q] > 0
    BY <1>2 DEF PinInv, TypeOK
  <2> QED
    BY Zenon, <2>1, <2>2 DEF PinInv
<1>12. NoWriteLost'
  <2>1. \A g \in Frame : pages'[g].data = pages[g].data /\ pages'[g].dirty = pages[g].dirty
    BY Zenon, <1>3, <1>4
  <2> QED
    BY <1>2, <2>1 DEF NoWriteLost, TypeOK
<1> QED
  BY Zenon, <1>7, <1>8, <1>9, <1>10, <1>11, <1>12

LEMMA ChangeInv ==
  ASSUME IInv, NEW t \in Thread, NEW p \in PageId, NEW d \in Data, Change(t, p, d)
  PROVE  IInv'
<1> DEFINE f == page_table[p]
<1> USE DEF IInv
<1>1. /\ p \in DOMAIN page_table /\ f \in Frame /\ pages[f].page = p /\ pages[f] \in Slot
      /\ p \in DOMAIN bytes /\ pins[t][p] > 0
  BY Zenon DEF Change, TypeOK, TableInv, UseInv
<1>2. /\ pages' = [pages EXCEPT ![f].data = d]
      /\ changed' = [changed EXCEPT ![t] = @ \cup {p}]
      /\ bytes' = [bytes EXCEPT ![p] = d]
      /\ page_table' = page_table /\ free_list' = free_list /\ evictable' = evictable
      /\ disk' = disk /\ next_page' = next_page /\ pins' = pins
  BY Zenon DEF Change
<1>3. /\ pages'[f] = [pages[f] EXCEPT !.data = d]
      /\ \A g \in Frame : g # f => pages'[g] = pages[g]
  BY Zenon, <1>1, <1>2 DEF TypeOK
<1>4. /\ pages'[f].page = p /\ pages'[f].pin = pages[f].pin
      /\ pages'[f].dirty = pages[f].dirty /\ pages'[f].data = d
  BY Zenon, <1>1, <1>3 DEF Slot
<1>5. /\ DOMAIN bytes' = DOMAIN bytes /\ bytes'[p] = d
      /\ \A q \in DOMAIN bytes \ {p} : bytes'[q] = bytes[q]
  BY Zenon, <1>1, <1>2
<1>6. p # NoPage
  BY ConstantsAssumption DEF PageId
<1>7. TypeOK'
  <2>1. pages' \in [Frame -> Slot]
    BY SMTT(30), <1>1, <1>2 DEF TypeOK, Slot, Content
  <2>2. changed' \in [Thread -> SUBSET PageId]
    BY Zenon, <1>2 DEF TypeOK
  <2> QED
    BY Zenon, <1>2, <1>5, <2>1, <2>2 DEF TypeOK, Content
<1>8. TableInv'
  BY <1>1, <1>2, <1>3, <1>4 DEF TableInv, TypeOK
<1>9. FrameInv'
  <2>1. f \notin free_list
    BY Zenon, <1>1, <1>6 DEF FrameInv
  <2>2. \A g \in Frame : pages'[g].page = pages[g].page /\ pages'[g].pin = pages[g].pin
    BY ZenonT(60), <1>1, <1>3, <1>4
  <2> QED
    BY SMTT(30), <1>2, <1>3, <2>1, <2>2 DEF FrameInv, Blank
<1>10. UseInv'
  BY Zenon, <1>2, <1>5 DEF UseInv
<1>11. PinInv'
  <2>1. \A q \in PageId : Holds(q)' = Holds(q)
    BY Zenon, <1>2 DEF Holds
  <2>2. \A q \in PageId : PinCount(q)' = PinCount(q)
    BY Zenon, <1>2, <1>3, <1>4 DEF PinCount, TypeOK
  <2>3. \A u \in Thread : \A q \in changed'[u] : pins'[u][q] > 0
    BY Zenon, <1>1, <1>2 DEF PinInv, TypeOK
  <2> QED
    BY Zenon, <2>1, <2>2, <2>3 DEF PinInv
<1>12. NoWriteLost'
  <2> SUFFICES ASSUME NEW q \in DOMAIN bytes'
               PROVE  IF q \in DOMAIN page_table'
                      THEN LET s == pages'[page_table'[q]] IN
                           /\ s.data = bytes'[q]
                           /\ ~s.dirty /\ (\A u \in Thread : q \notin changed'[u])
                                => disk'[q] = s.data
                      ELSE disk'[q] = bytes'[q]
    BY Zenon DEF NoWriteLost
  <2>1. CASE q = p
    <3>1. p \in changed'[t]
      BY Zenon, <1>2 DEF TypeOK
    <3> QED
      BY SMTT(30), <1>1, <1>2, <1>4, <1>5, <2>1, <3>1
  <2>2. CASE q # p
    <3>1. q \in DOMAIN bytes /\ bytes'[q] = bytes[q]
      BY Zenon, <1>5, <2>2
    <3>2. (\A u \in Thread : q \notin changed'[u]) => \A u \in Thread : q \notin changed[u]
      BY SMTT(30), <1>2, <2>2 DEF TypeOK
    <3>3. q \in DOMAIN page_table => page_table[q] # f /\ page_table[q] \in Frame
      BY SMTT(30), <1>1, <2>2 DEF TableInv, TypeOK
    <3> QED
      BY <1>2, <1>3, <3>1, <3>2, <3>3 DEF NoWriteLost
  <2> QED
    BY SMTT(30), <2>1, <2>2
<1> QED
  BY Zenon, <1>7, <1>8, <1>9, <1>10, <1>11, <1>12

LEMMA UnpinPageInv ==
  ASSUME IInv, NEW t \in Thread, NEW p \in PageId, UnpinPage(t, p)
  PROVE  IInv'
<1> DEFINE f == page_table[p]
<1> USE DEF IInv
<1>1. /\ p \in DOMAIN page_table /\ f \in Frame /\ pages[f].page = p /\ pages[f] \in Slot
      /\ pins[t][p] > 0 /\ pages[f].pin > 0
  BY Zenon DEF UnpinPage, TypeOK, TableInv
<1>2. /\ pages' = [pages EXCEPT ![f].pin = @ - 1, ![f].dirty = @ \/ p \in changed[t]]
      /\ evictable' = IF pages[f].pin = 1 THEN Set(evictable, f, TRUE) ELSE evictable
      /\ pins' = [pins EXCEPT ![t][p] = @ - 1]
      /\ changed' = [changed EXCEPT ![t] = @ \ {p}]
      /\ page_table' = page_table /\ free_list' = free_list /\ disk' = disk
      /\ next_page' = next_page /\ bytes' = bytes
  BY Zenon DEF UnpinPage
<1>3. /\ pages'[f] = [pages[f] EXCEPT !.pin = @ - 1, !.dirty = @ \/ p \in changed[t]]
      /\ \A g \in Frame : g # f => pages'[g] = pages[g]
  BY Zenon, <1>1, <1>2 DEF TypeOK
<1>4. /\ pages'[f].page = p /\ pages'[f].pin = pages[f].pin - 1
      /\ pages'[f].dirty = (pages[f].dirty \/ p \in changed[t])
      /\ pages'[f].data = pages[f].data /\ pages[f].pin \in Nat
  BY Zenon, <1>1, <1>3 DEF Slot
<1>5. p # NoPage
  BY ConstantsAssumption DEF PageId
<1>6. f \in DOMAIN evictable /\ f \notin free_list
  BY Zenon, <1>1, <1>5 DEF FrameInv
<1>7. /\ DOMAIN evictable' = DOMAIN evictable
      /\ \A g \in DOMAIN evictable \ {f} : evictable'[g] = evictable[g]
  BY Zenon, <1>2, <1>6 DEF Set
<1>8. evictable'[f] = (pages'[f].pin = 0)
  <2>1. CASE pages[f].pin = 1
    <3>1. evictable'[f] = TRUE
      BY Zenon, <1>2, <2>1 DEF Set
    <3>2. pages'[f].pin = 0
      BY <1>4, <2>1
    <3> QED
      BY Zenon, <3>1, <3>2
  <2>2. CASE pages[f].pin # 1
    <3>1. evictable'[f] = evictable[f] /\ evictable[f] \in BOOLEAN
      BY Zenon, <1>2, <1>6, <2>2 DEF TypeOK
    <3>2. ~evictable[f]
      BY <1>1, <1>6 DEF FrameInv
    <3>3. pages'[f].pin # 0
      BY SMTT(30), <1>4, <2>2
    <3> QED
      BY Zenon, <3>1, <3>2, <3>3
  <2> QED
    BY Zenon, <2>1, <2>2
<1>9. TypeOK'
  <2>1. pages'[f] \in Slot
    <3>1. pages[f].pin - 1 \in Nat
      BY <1>1, <1>4
    <3>2. (pages[f].dirty \/ p \in changed[t]) \in BOOLEAN
      BY Zenon
    <3> QED
      BY Zenon, <1>1, <1>3, <3>1, <3>2 DEF Slot
  <2>2. pages' \in [Frame -> Slot]
    BY Zenon, <1>2, <1>3, <2>1 DEF TypeOK
  <2>3. pins' \in [Thread -> [PageId -> Nat]]
    BY <1>1, <1>2 DEF TypeOK
  <2>4. changed' \in [Thread -> SUBSET PageId]
    BY Zenon, <1>2 DEF TypeOK
  <2>5. \A g \in DOMAIN evictable' : evictable'[g] \in BOOLEAN
    BY Zenon, <1>7, <1>8 DEF TypeOK
  <2> QED
    BY Zenon, <1>2, <1>7, <2>2, <2>3, <2>4, <2>5 DEF TypeOK
<1>10. TableInv'
  <2>1. \A g \in Frame : pages'[g].page = pages[g].page
    BY Zenon, <1>1, <1>3, <1>4
  <2>2. \A q \in DOMAIN page_table : page_table[q] \in Frame
    BY Zenon DEF TypeOK
  <2> QED
    BY Zenon, <1>2, <2>1, <2>2 DEF TableInv
<1>11. FrameInv'
  <2> SUFFICES ASSUME NEW g \in Frame
               PROVE  /\ g \in free_list' <=> pages'[g].page = NoPage
                      /\ g \in free_list' => pages'[g].pin = 0 /\ ~pages'[g].dirty
                      /\ g \in DOMAIN evictable' <=> pages'[g].page # NoPage
                      /\ g \in DOMAIN evictable' => (evictable'[g] <=> pages'[g].pin = 0)
    BY Zenon DEF FrameInv, Blank
  <2>1. CASE g = f
    BY Zenon, <1>2, <1>4, <1>5, <1>6, <1>7, <1>8, <2>1
  <2>2. CASE g # f
    BY ZenonT(60), <1>2, <1>3, <1>7, <2>2 DEF FrameInv
  <2> QED
    BY Zenon, <2>1, <2>2
<1>12. UseInv'
  BY Zenon, <1>2 DEF UseInv
<1>13. PinInv'
  <2>1. ASSUME NEW q \in PageId
        PROVE  IsFiniteSet(Holds(q)') /\ Cardinality(Holds(q)') = PinCount(q)'
    <3>1. /\ IsFiniteSet(Holds(q)')
          /\ Cardinality(Holds(q)') = PinCount(q) - IF q = p THEN 1 ELSE 0
      BY ZenonT(60), <1>1, <1>2, PinRemoves DEF PinInv
    <3>2. PinCount(q)' = PinCount(q) - IF q = p THEN 1 ELSE 0
      <4>1. CASE q = p
        BY Zenon, <1>1, <1>2, <1>4, <4>1 DEF PinCount
      <4>2. CASE q # p
        BY <1>1, <1>2, <1>3, <4>2 DEF PinCount, TypeOK, TableInv, Slot
      <4> QED
        BY Zenon, <4>1, <4>2
    <3> QED
      BY <3>1, <3>2
  <2>2. \A u \in Thread : \A q \in changed'[u] : pins'[u][q] > 0
    BY Zenon, <1>2 DEF PinInv, TypeOK
  <2> QED
    BY Zenon, <2>1, <2>2 DEF PinInv
<1>14. NoWriteLost'
  <2> SUFFICES ASSUME NEW q \in DOMAIN bytes'
               PROVE  IF q \in DOMAIN page_table'
                      THEN LET s == pages'[page_table'[q]] IN
                           /\ s.data = bytes'[q]
                           /\ ~s.dirty /\ (\A u \in Thread : q \notin changed'[u])
                                => disk'[q] = s.data
                      ELSE disk'[q] = bytes'[q]
    BY Zenon DEF NoWriteLost
  <2>1. CASE q = p
    <3>1. ASSUME ~pages'[f].dirty, \A u \in Thread : p \notin changed'[u]
          PROVE  ~pages[f].dirty /\ \A u \in Thread : p \notin changed[u]
      <4>1. p \notin changed[t] /\ ~pages[f].dirty
        BY ZenonT(60), <1>4, <3>1
      <4>2. \A u \in Thread : u # t => changed'[u] = changed[u]
        BY Zenon, <1>2 DEF TypeOK
      <4> QED
        BY SMTT(30), <3>1, <4>1, <4>2
    <3>2. pages[f].data = bytes[p]
      BY Zenon, <1>1, <1>2, <2>1 DEF NoWriteLost
    <3>3. ASSUME ~pages'[f].dirty, \A u \in Thread : p \notin changed'[u]
          PROVE  disk[p] = pages[f].data
      BY Zenon, <1>1, <1>2, <2>1, <3>1, <3>3 DEF NoWriteLost
    <3> QED
      BY SMTT(30), <1>1, <1>2, <1>4, <2>1, <3>2, <3>3
  <2>2. CASE q # p
    <3>1. (\A u \in Thread : q \notin changed'[u]) => \A u \in Thread : q \notin changed[u]
      BY Zenon, <1>2, <2>2 DEF TypeOK
    <3>2. q \in DOMAIN page_table => page_table[q] # f /\ page_table[q] \in Frame
      BY Zenon, <1>1, <2>2 DEF TableInv, TypeOK
    <3> QED
      BY ZenonT(60), <1>2, <1>3, <3>1, <3>2 DEF NoWriteLost
  <2> QED
    BY Zenon, <2>1, <2>2
<1> QED
  BY Zenon, <1>9, <1>10, <1>11, <1>12, <1>13, <1>14

\* FlushPage and FlushAllPages: some pages are written, and their frames clean.
LEMMA Flushed ==
  ASSUME IInv, NEW S \in SUBSET Frame,
         pages' = [g \in Frame |-> IF g \in S THEN [pages[g] EXCEPT !.dirty = FALSE]
                                   ELSE pages[g]],
         disk' \in [PageId -> Content],
         \A q \in PageId \ DOMAIN page_table : disk'[q] = disk[q],
         \A q \in DOMAIN page_table :
           \/ disk'[q] = pages[page_table[q]].data
           \/ disk'[q] = disk[q] /\ (page_table[q] \in S => ~pages[page_table[q]].dirty),
         UNCHANGED <<page_table, free_list, evictable, next_page, pins, changed, bytes>>
  PROVE  IInv'
<1> USE DEF IInv
<1>1. \A g \in Frame : pages[g] \in Slot
  BY Zenon DEF TypeOK
<1>2. \A g \in Frame :
        /\ pages'[g].page = pages[g].page /\ pages'[g].pin = pages[g].pin
        /\ pages'[g].data = pages[g].data
        /\ pages'[g].dirty = IF g \in S THEN FALSE ELSE pages[g].dirty
  BY Zenon, <1>1 DEF Slot
<1>3. \A q \in DOMAIN page_table : page_table[q] \in Frame /\ q \in PageId
  BY Zenon DEF TypeOK
<1>4. TypeOK'
  <2>1. pages' \in [Frame -> Slot]
    BY Zenon, <1>1 DEF Slot
  <2> QED
    BY Zenon, <2>1 DEF TypeOK
<1>5. TableInv'
  BY <1>2, <1>3 DEF TableInv
<1>6. FrameInv'
  BY Zenon, <1>2 DEF FrameInv
<1>7. UseInv'
  <2>1. \A q \in PageId : q >= next_page => q \notin DOMAIN page_table
    BY DEF UseInv, TypeOK, PageId
  <2> QED
    BY Zenon, <2>1 DEF UseInv
<1>8. PinInv'
  <2>1. \A q \in PageId : Holds(q)' = Holds(q) /\ PinCount(q)' = PinCount(q)
    BY Zenon, <1>2, <1>3 DEF Holds, PinCount
  <2> QED
    BY Zenon, <2>1 DEF PinInv
<1>9. NoWriteLost'
  <2> SUFFICES ASSUME NEW q \in DOMAIN bytes
               PROVE  IF q \in DOMAIN page_table
                      THEN LET s == pages'[page_table[q]] IN
                           /\ s.data = bytes[q]
                           /\ ~s.dirty /\ (\A u \in Thread : q \notin changed[u])
                                => disk'[q] = s.data
                      ELSE disk'[q] = bytes[q]
    BY SMTT(30) DEF NoWriteLost
  <2>1. CASE q \in DOMAIN page_table
    BY Zenon, <1>2, <1>3, <2>1 DEF NoWriteLost
  <2>2. CASE q \notin DOMAIN page_table
    BY Zenon, <2>2 DEF NoWriteLost, TypeOK
  <2> QED
    BY Zenon, <2>1, <2>2
<1> QED
  BY Zenon, <1>4, <1>5, <1>6, <1>7, <1>8, <1>9

LEMMA FlushPageInv ==
  ASSUME IInv, NEW p \in PageId, FlushPage(p)
  PROVE  IInv'
<1> DEFINE f == page_table[p]
<1>1. p \in DOMAIN page_table /\ f \in Frame /\ pages[f] \in Slot
  BY Zenon DEF FlushPage, IInv, TypeOK
<1>2. pages' = [g \in Frame |-> IF g \in {f} THEN [pages[g] EXCEPT !.dirty = FALSE]
                                ELSE pages[g]]
  BY Zenon, <1>1 DEF FlushPage, IInv, TypeOK
<1>3. /\ disk' \in [PageId -> Content] /\ disk'[p] = pages[f].data
      /\ \A q \in PageId : q # p => disk'[q] = disk[q]
  BY Zenon, <1>1 DEF FlushPage, IInv, TypeOK, Slot
<1>4. \A q \in DOMAIN page_table : q # p => page_table[q] # f /\ q \in PageId
  BY Zenon, <1>1 DEF IInv, TableInv, TypeOK
<1>5. UNCHANGED <<page_table, free_list, evictable, next_page, pins, changed, bytes>>
  BY Zenon DEF FlushPage
<1>6. \A q \in DOMAIN page_table :
        \/ disk'[q] = pages[page_table[q]].data
        \/ disk'[q] = disk[q] /\ (page_table[q] \in {f} => ~pages[page_table[q]].dirty)
  BY Zenon, <1>3, <1>4
<1>7. \A q \in PageId \ DOMAIN page_table : disk'[q] = disk[q]
  BY Zenon, <1>1, <1>3
<1>8. {f} \in SUBSET Frame
  BY Zenon, <1>1
<1> QED
  BY Zenon, <1>2, <1>3, <1>5, <1>6, <1>7, <1>8, Flushed

LEMMA FlushAllPagesInv ==
  ASSUME IInv, FlushAllPages
  PROVE  IInv'
<1>1. pages' = [g \in Frame |-> IF g \in Frame THEN [pages[g] EXCEPT !.dirty = FALSE]
                                ELSE pages[g]]
  BY Zenon DEF FlushAllPages
<1>2. \A q \in DOMAIN page_table :
        /\ q \in PageId /\ page_table[q] \in Frame
        /\ pages[page_table[q]] \in Slot /\ pages[page_table[q]].page = q
  BY Zenon DEF IInv, TypeOK, TableInv
<1>3. \A q \in DOMAIN page_table :
        WriteBack(page_table[q])[q] = IF pages[page_table[q]].dirty
                                      THEN pages[page_table[q]].data ELSE disk[q]
  BY Zenon, <1>2 DEF WriteBack, IInv, TypeOK
<1>4. \A q \in PageId :
        disk'[q] = IF q \in DOMAIN page_table /\ pages[page_table[q]].dirty
                   THEN pages[page_table[q]].data ELSE disk[q]
  BY Zenon, <1>3 DEF FlushAllPages
<1>5. disk' \in [PageId -> Content]
  <2>1. \A q \in PageId : disk'[q] \in Content
    BY Zenon, <1>2, <1>4 DEF Slot, IInv, TypeOK
  <2> QED
    BY Zenon, <2>1 DEF FlushAllPages
<1>6. UNCHANGED <<page_table, free_list, evictable, next_page, pins, changed, bytes>>
  BY Zenon DEF FlushAllPages
<1>7. /\ \A q \in PageId \ DOMAIN page_table : disk'[q] = disk[q]
      /\ \A q \in DOMAIN page_table :
           \/ disk'[q] = pages[page_table[q]].data
           \/ disk'[q] = disk[q] /\ (page_table[q] \in Frame => ~pages[page_table[q]].dirty)
  BY Zenon, <1>2, <1>4
<1> QED
  BY Zenon, <1>1, <1>5, <1>6, <1>7, Flushed

LEMMA DeletePageInv ==
  ASSUME IInv, NEW p \in PageId, DeletePage(p)
  PROVE  IInv'
<1> USE DEF IInv
<1>1. /\ bytes' = Drop(bytes, {p}) /\ disk' = disk /\ next_page' = next_page
      /\ pins' = pins /\ changed' = changed
  BY Zenon DEF DeletePage
<1>2. /\ DOMAIN bytes' = DOMAIN bytes \ {p}
      /\ \A q \in DOMAIN bytes \ {p} : bytes'[q] = bytes[q]
  BY Zenon, <1>1 DEF Drop
<1>3. \A q \in PageId : Holds(q)' = Holds(q)
  BY Zenon, <1>1 DEF Holds
<1>4. CASE p \notin DOMAIN page_table
  <2>1. /\ pages' = pages /\ page_table' = page_table
        /\ free_list' = free_list /\ evictable' = evictable
    BY SMTT(30), <1>4 DEF DeletePage, pool
  <2>2. TypeOK' /\ TableInv' /\ FrameInv'
    BY Zenon, <1>1, <1>2, <2>1 DEF TypeOK, TableInv, FrameInv, Blank
  <2>3. UseInv' /\ NoWriteLost'
    BY ZenonT(60), <1>1, <1>2, <1>4, <2>1 DEF UseInv, NoWriteLost
  <2>4. PinInv'
    BY Zenon, <1>1, <1>3, <2>1 DEF PinInv, PinCount
  <2> QED
    BY Zenon, <2>2, <2>3, <2>4
<1>5. CASE p \in DOMAIN page_table
  <2> DEFINE f == page_table[p]
  <2>1. /\ pages[f].pin = 0
        /\ evictable' = Drop(evictable, {f}) /\ page_table' = Drop(page_table, {p})
        /\ pages' = [pages EXCEPT ![f] = Blank] /\ free_list' = free_list \cup {f}
    BY Zenon, <1>5 DEF DeletePage
  <2>2. f \in Frame /\ pages[f].page = p
    BY SMTT(30), <1>5 DEF TypeOK, TableInv
  <2>3. /\ pages'[f].page = NoPage /\ pages'[f].pin = 0 /\ ~pages'[f].dirty
        /\ \A g \in Frame : g # f => pages'[g] = pages[g]
    BY SMTT(30), <2>1, <2>2 DEF TypeOK, Blank
  <2>4. /\ DOMAIN page_table' = DOMAIN page_table \ {p}
        /\ \A q \in DOMAIN page_table \ {p} :
             /\ page_table'[q] = page_table[q] /\ page_table[q] # f
             /\ page_table[q] \in Frame /\ q \in PageId
    <3>1. /\ DOMAIN page_table' = DOMAIN page_table \ {p}
          /\ \A q \in DOMAIN page_table \ {p} : page_table'[q] = page_table[q]
      BY Zenon, <2>1 DEF Drop
    <3>2. \A q \in DOMAIN page_table \ {p} : page_table[q] # f
      BY Zenon, <2>2 DEF TableInv
    <3> QED
      BY Zenon, <3>1, <3>2 DEF TypeOK
  <2>5. /\ DOMAIN evictable' = DOMAIN evictable \ {f}
        /\ \A g \in DOMAIN evictable \ {f} : evictable'[g] = evictable[g]
    BY Zenon, <2>1 DEF Drop
  <2>6. TypeOK'
    <3>1. Blank \in Slot
      BY Zenon DEF Blank, Slot, Content
    <3>2. pages' \in [Frame -> Slot]
      BY ZenonT(60), <2>1, <3>1 DEF TypeOK
    <3> QED
      BY Zenon, <1>1, <1>2, <2>1, <2>2, <2>4, <2>5, <3>2 DEF TypeOK
  <2>7. TableInv'
    BY <2>2, <2>3, <2>4 DEF TableInv
  <2>8. FrameInv'
    <3> SUFFICES ASSUME NEW g \in Frame
                 PROVE  /\ g \in free_list' <=> pages'[g].page = NoPage
                        /\ g \in free_list' => pages'[g].pin = 0 /\ ~pages'[g].dirty
                        /\ g \in DOMAIN evictable' <=> pages'[g].page # NoPage
                        /\ g \in DOMAIN evictable' => (evictable'[g] <=> pages'[g].pin = 0)
      BY Zenon DEF FrameInv, Blank
    <3>1. CASE g = f
      BY SMTT(30), <2>1, <2>3, <2>5, <3>1
    <3>2. CASE g # f
      BY ZenonT(60), <2>1, <2>3, <2>5, <3>2 DEF FrameInv
    <3> QED
      BY Zenon, <3>1, <3>2
  <2>9. UseInv'
    BY Zenon, <1>1, <1>2, <2>4 DEF UseInv
  <2>10. PinInv'
    <3>1. \A q \in PageId : PinCount(q)' = PinCount(q)
      BY SMTT(30), <2>1, <2>3, <2>4 DEF PinCount
    <3> QED
      BY Zenon, <1>1, <1>3, <3>1 DEF PinInv
  <2>11. NoWriteLost'
    <3>1. \A q \in DOMAIN bytes' :
            /\ q \in DOMAIN bytes /\ bytes'[q] = bytes[q]
            /\ q \in DOMAIN page_table' <=> q \in DOMAIN page_table
            /\ q \in DOMAIN page_table' => pages'[page_table'[q]] = pages[page_table[q]]
      BY Zenon, <1>2, <2>3, <2>4
    <3> QED
      BY ZenonT(60), <1>1, <3>1 DEF NoWriteLost
  <2> QED
    BY Zenon, <2>6, <2>7, <2>8, <2>9, <2>10, <2>11
<1> QED
  BY Zenon, <1>4, <1>5

LEMMA NextInv == IInv /\ [Next]_vars => IInv'
<1> SUFFICES ASSUME IInv, [Next]_vars PROVE IInv'
  BY Zenon
<1>1. ASSUME NEW t \in Thread, NEW f \in Frame, NewPage(t, f) PROVE IInv'
  BY Zenon, <1>1, NewPageInv
<1>2. ASSUME NEW t \in Thread, NEW f \in Frame, NEW p \in PageId, FetchMiss(t, p, f)
      PROVE  IInv'
  BY Zenon, <1>2, FetchMissInv
<1>3. ASSUME NEW t \in Thread, NEW p \in PageId, FetchHit(t, p) PROVE IInv'
  BY Zenon, <1>3, FetchHitInv
<1>4. ASSUME NEW t \in Thread, NEW p \in PageId, UnpinPage(t, p) PROVE IInv'
  BY Zenon, <1>4, UnpinPageInv
<1>5. ASSUME NEW t \in Thread, NEW p \in PageId, NEW d \in Data, Change(t, p, d)
      PROVE  IInv'
  BY Zenon, <1>5, ChangeInv
<1>6. ASSUME NEW p \in PageId, FlushPage(p) PROVE IInv'
  BY Zenon, <1>6, FlushPageInv
<1>7. ASSUME NEW p \in PageId, DeletePage(p) PROVE IInv'
  BY Zenon, <1>7, DeletePageInv
<1>8. CASE FlushAllPages
  BY SMTT(30), <1>8, FlushAllPagesInv
<1>9. CASE UNCHANGED vars
  <2>1. UNCHANGED <<pages, page_table, free_list, evictable, disk, next_page, pins,
                    changed, bytes>>
    BY Zenon, <1>9 DEF vars, pool
  <2>2. \A q \in PageId : Holds(q)' = Holds(q) /\ PinCount(q)' = PinCount(q)
    BY Zenon, <2>1 DEF Holds, PinCount
  <2>3. TypeOK'
    BY Zenon, <2>1 DEF IInv, TypeOK
  <2>4. TableInv' /\ FrameInv'
    BY Zenon, <2>1 DEF IInv, TableInv, FrameInv
  <2>5. UseInv' /\ NoWriteLost'
    BY Zenon, <2>1 DEF IInv, UseInv, NoWriteLost
  <2>6. PinInv'
    BY Zenon, <2>1, <2>2 DEF IInv, PinInv
  <2> QED
    BY Zenon, <2>3, <2>4, <2>5, <2>6 DEF IInv
<1> QED
  BY Zenon, <1>1, <1>2, <1>3, <1>4, <1>5, <1>6, <1>7, <1>8, <1>9 DEF Next

LEMMA PoolInv == Spec => []IInv
<1>1. Init => IInv
  BY Zenon, InitInv
<1>2. IInv /\ [Next]_vars => IInv'
  BY Zenon, NextInv
<1> QED
  BY <1>1, <1>2, PTL DEF Spec

----------------------------------------------------------------------------
(* The properties.                                                         *)

\* Under any policy of eviction a thread that holds a pin finds its page in
\* its frame, as it was last written.
THEOREM PinnedStay == Spec => []PinnedPageStays
<1>1. ASSUME IInv PROVE PinnedPageStays
  <2> SUFFICES ASSUME NEW t \in Thread, NEW p \in PageId, pins[t][p] > 0
               PROVE  /\ p \in DOMAIN page_table
                      /\ pages[page_table[p]].page = p
                      /\ pages[page_table[p]].data = bytes[p]
    BY Zenon DEF PinnedPageStays
  <2>1. p \in DOMAIN page_table
    BY Zenon, <1>1, HeldIsPinned
  <2> QED
    BY Zenon, <1>1, <2>1 DEF IInv, TableInv, UseInv, NoWriteLost
<1> QED
  BY <1>1, PoolInv, PTL

\* Eviction, flushes and deletes, in any order and by any number of threads,
\* lose no write to a page that is in use.
THEOREM WritesStay == Spec => []NoWriteLost
<1>1. IInv => NoWriteLost
  BY Zenon DEF IInv
<1> QED
  BY <1>1, PoolInv, PTL

\* NewPage and FetchPage return nullptr only when every frame is pinned.
THEOREM FullMeansPinned == Spec => []NullMeansAllPinned
<1>1. ASSUME IInv PROVE NullMeansAllPinned
  <2> SUFFICES ASSUME \A f \in Frame : ~Acquires(f), NEW f \in Frame
               PROVE  pages[f].pin > 0
    BY Zenon DEF NullMeansAllPinned
  <2>1. free_list = {}
    BY Zenon, <1>1 DEF Acquires, IInv, TypeOK
  <2>2. f \in DOMAIN evictable /\ f \notin Evictable
    BY Zenon, <1>1, <2>1 DEF Acquires, IInv, FrameInv
  <2>3. ~evictable[f]
    BY Zenon, <2>2 DEF Evictable
  <2>4. pages[f].pin # 0
    BY Zenon, <1>1, <2>2, <2>3 DEF IInv, FrameInv
  <2> QED
    BY <1>1, <2>4 DEF IInv, TypeOK, Slot
<1> QED
  BY <1>1, PoolInv, PTL

----------------------------------------------------------------------------
\* Size() counts the evictable frames, and these are the frames that hold a
\* page nobody has pinned: the first part of VictimIsLRUK.
SizeIsExact ==
  /\ count = Cardinality(Evictable)
  /\ Evictable = {f \in Frame : pages[f].page # NoPage /\ pages[f].pin = 0}

SizeInv == IsFiniteSet(Evictable) /\ count = Cardinality(Evictable)

----------------------------------------------------------------------------
\* Every step of the pool with LRU-K is a step of the pool with some policy.
LEMMA LRUKStep == [ReplacerNext]_<<vars, replacer>> => [Next]_vars
BY Zenon DEF ReplacerNext, Next, New, Miss, Hit, Unpin, Delete, Elsewhere

LEMMA LRUKIsAPolicy == ReplacerSpec => Spec
<1>1. ReplacerInit => Init
  BY Zenon DEF ReplacerInit
<1> QED
  BY <1>1, LRUKStep, PTL DEF ReplacerSpec, Spec

----------------------------------------------------------------------------
(* What the calls of the replacer do to the set of evictable frames.        *)

LEMMA MadePinned ==
  ASSUME NEW f, evictable' = Set(evictable, f, FALSE)
  PROVE  Evictable' = Evictable \ {f} /\ evictable'[f] = FALSE
<1>1. DOMAIN evictable' = DOMAIN evictable \cup {f}
  BY Zenon DEF Set
<1>2. \A g \in DOMAIN evictable' : evictable'[g] = IF g = f THEN FALSE ELSE evictable[g]
  BY Zenon DEF Set
<1>3. evictable'[f] = FALSE
  BY <1>1, <1>2, Zenon
<1>4. \A g \in DOMAIN evictable : g # f => evictable'[g] = evictable[g]
  BY <1>1, <1>2, Zenon
<1> QED
  BY <1>1, <1>3, <1>4, Zenon DEF Evictable

LEMMA MadeEvictable ==
  ASSUME NEW f, evictable' = Set(evictable, f, TRUE)
  PROVE  Evictable' = Evictable \cup {f} /\ evictable'[f] = TRUE
<1>1. DOMAIN evictable' = DOMAIN evictable \cup {f}
  BY Zenon DEF Set
<1>2. \A g \in DOMAIN evictable' : evictable'[g] = IF g = f THEN TRUE ELSE evictable[g]
  BY Zenon DEF Set
<1>3. evictable'[f] = TRUE
  BY <1>1, <1>2, Zenon
<1>4. \A g \in DOMAIN evictable : g # f => evictable'[g] = evictable[g]
  BY <1>1, <1>2, Zenon
<1> QED
  BY <1>1, <1>3, <1>4, Zenon DEF Evictable

LEMMA Removed ==
  ASSUME NEW f, evictable' = Drop(evictable, {f})
  PROVE  Evictable' = Evictable \ {f}
<1>1. DOMAIN evictable' = DOMAIN evictable \ {f}
  BY Zenon DEF Drop
<1>2. \A g \in DOMAIN evictable' : evictable'[g] = evictable[g]
  BY Zenon DEF Drop
<1> QED
  BY <1>1, <1>2, Zenon DEF Evictable

\* A frame that leaves the evictable ones, or joins them, changes their number
\* by one.
LEMMA OneLess ==
  ASSUME SizeInv, NEW f, Evictable' = Evictable \ {f}, f \in Evictable, count' = count - 1
  PROVE  SizeInv'
BY Zenon, FS_RemoveElement, FS_CardinalityType DEF SizeInv

LEMMA OneMore ==
  ASSUME SizeInv, NEW f, Evictable' = Evictable \cup {f}, f \notin Evictable,
         count' = count + 1
  PROVE  SizeInv'
BY Zenon, FS_AddElement, FS_CardinalityType DEF SizeInv

LEMMA AsMany ==
  ASSUME SizeInv, Evictable' = Evictable, count' = count
  PROVE  SizeInv'
BY Zenon DEF SizeInv

----------------------------------------------------------------------------
(* SizeInv is kept by every action.                                         *)

\* NewPage and a miss: a free frame was not tracked, a victim was evictable.
LEMMA AcquiredSize ==
  ASSUME IInv, SizeInv, NEW f \in Frame, Acquires(f), Acquired(f),
         evictable' = Set(evictable, f, FALSE)
  PROVE  SizeInv'
<1>1. Evictable' = Evictable \ {f}
  BY Zenon, MadePinned
<1>2. CASE free_list = {}
  <2>1. f \in Evictable /\ count' = count - 1
    BY Zenon, <1>2 DEF Acquires, Acquired
  <2> QED
    BY Zenon, <1>1, <2>1, OneLess
<1>3. CASE free_list # {}
  <2>1. f \in free_list /\ count' = count
    BY Zenon, <1>3 DEF Acquires, Acquired
  <2>2. f \notin DOMAIN evictable
    BY Zenon, <2>1 DEF IInv, FrameInv
  <2>3. Evictable' = Evictable
    BY Zenon, <1>1, <2>2 DEF Evictable
  <2> QED
    BY Zenon, <2>1, <2>3, AsMany
<1> QED
  BY Zenon, <1>2, <1>3

LEMMA HitSize ==
  ASSUME IInv, SizeInv, NEW t \in Thread, NEW p \in PageId, Hit(t, p)
  PROVE  SizeInv'
<1> DEFINE f == page_table[p]
<1>1. evictable' = Set(evictable, f, FALSE) /\ Recount(f)
  BY Zenon DEF Hit, FetchHit
<1>2. Evictable' = Evictable \ {f} /\ evictable'[f] = FALSE
  BY Zenon, <1>1, MadePinned
<1>3. count \in Nat
  BY Zenon, FS_CardinalityType DEF SizeInv
<1>4. CASE f \in Evictable
  <2>1. count' = count - 1
    BY Zenon, <1>1, <1>2, <1>3, <1>4 DEF Recount
  <2> QED
    BY Zenon, <1>2, <1>4, <2>1, OneLess
<1>5. CASE f \notin Evictable
  <2>1. count' = count + 0
    BY <1>1, <1>2, <1>5, Zenon DEF Recount
  <2>2. Evictable' = Evictable
    BY Zenon, <1>2, <1>5
  <2> QED
    BY <1>3, <2>1, <2>2, AsMany
<1> QED
  BY Zenon, <1>4, <1>5

\* The last pin makes the frame evictable; it was not while it was pinned.
LEMMA UnpinSize ==
  ASSUME IInv, SizeInv, NEW t \in Thread, NEW p \in PageId, Unpin(t, p)
  PROVE  SizeInv'
<1> DEFINE f == page_table[p]
<1>1. /\ p \in DOMAIN page_table /\ pages[f].pin > 0 /\ Recount(f)
      /\ evictable' = IF pages[f].pin = 1 THEN Set(evictable, f, TRUE) ELSE evictable
  BY Zenon DEF Unpin, UnpinPage
<1>2. f \in Frame /\ pages[f].page = p /\ p \in Nat /\ pages[f].pin \in Nat
  BY <1>1 DEF IInv, TypeOK, TableInv, Slot, PageId
<1>3. f \in DOMAIN evictable /\ ~evictable[f]
  BY <1>1, <1>2, ConstantsAssumption DEF IInv, FrameInv
<1>4. f \notin Evictable
  BY Zenon, <1>3 DEF Evictable
<1>5. count \in Nat
  BY Zenon, FS_CardinalityType DEF SizeInv
<1>6. CASE pages[f].pin = 1
  <2>1. evictable' = Set(evictable, f, TRUE)
    BY Zenon, <1>1, <1>6
  <2>2. Evictable' = Evictable \cup {f} /\ evictable'[f] = TRUE
    BY Zenon, <2>1, MadeEvictable
  <2>3. count' = count + 1
    BY Zenon, <1>1, <1>4, <1>5, <2>2 DEF Recount
  <2> QED
    BY Zenon, <1>4, <2>2, <2>3, OneMore
<1>7. CASE pages[f].pin # 1
  <2>1. evictable' = evictable
    BY Zenon, <1>1, <1>7
  <2>2. Evictable' = Evictable
    BY Zenon, <2>1 DEF Evictable
  <2>3. count' = count + 0
    BY <1>1, <1>3, <1>4, <2>1, Zenon DEF Recount
  <2> QED
    BY <1>5, <2>2, <2>3, AsMany
<1> QED
  BY Zenon, <1>6, <1>7

\* A page that is deleted is unpinned, so that its frame was evictable.
LEMMA DeleteSize ==
  ASSUME IInv, SizeInv, NEW p \in PageId, Delete(p)
  PROVE  SizeInv'
<1> DEFINE f == page_table[p]
<1>1. CASE p \in DOMAIN page_table
  <2>1. pages[f].pin = 0 /\ evictable' = Drop(evictable, {f}) /\ count' = count - 1
    BY Zenon, <1>1 DEF Delete, DeletePage
  <2>2. f \in Frame /\ pages[f].page = p /\ p \in Nat
    BY <1>1 DEF IInv, TypeOK, TableInv, PageId
  <2>3. f \in DOMAIN evictable /\ evictable[f]
    BY Zenon, <2>1, <2>2, ConstantsAssumption DEF IInv, FrameInv
  <2>4. f \in Evictable
    BY Zenon, <2>3 DEF Evictable
  <2>5. Evictable' = Evictable \ {f}
    BY Zenon, <2>1, Removed
  <2> QED
    BY Zenon, <2>1, <2>4, <2>5, OneLess
<1>2. CASE p \notin DOMAIN page_table
  <2>1. evictable' = evictable /\ count' = count
    BY Zenon, <1>2 DEF Delete, DeletePage, pool
  <2>2. Evictable' = Evictable
    BY Zenon, <2>1 DEF Evictable
  <2> QED
    BY Zenon, <2>1, <2>2, AsMany
<1> QED
  BY Zenon, <1>1, <1>2

LEMMA SizeStep == IInv /\ SizeInv /\ [ReplacerNext]_<<vars, replacer>> => SizeInv'
<1> SUFFICES ASSUME IInv, SizeInv, [ReplacerNext]_<<vars, replacer>> PROVE SizeInv'
  BY Zenon
<1>1. ASSUME NEW t \in Thread, NEW f \in Frame, New(t, f) PROVE SizeInv'
  <2>1. Acquires(f) /\ Acquired(f) /\ evictable' = Set(evictable, f, FALSE)
    BY Zenon, <1>1 DEF New, NewPage, Install
  <2> QED
    BY Zenon, <2>1, AcquiredSize
<1>2. ASSUME NEW t \in Thread, NEW f \in Frame, NEW p \in PageId, Miss(t, p, f)
      PROVE  SizeInv'
  <2>1. Acquires(f) /\ Acquired(f) /\ evictable' = Set(evictable, f, FALSE)
    BY Zenon, <1>2 DEF Miss, FetchMiss, Install
  <2> QED
    BY Zenon, <2>1, AcquiredSize
<1>3. ASSUME evictable' = evictable, count' = count PROVE SizeInv'
  <2>1. Evictable' = Evictable
    BY Zenon, <1>3 DEF Evictable
  <2> QED
    BY Zenon, <1>3, <2>1, AsMany
<1>4. ASSUME Elsewhere, UNCHANGED replacer PROVE SizeInv'
  <2>1. evictable' = evictable /\ count' = count
    BY Zenon, <1>4 DEF Elsewhere, Change, FlushPage, FlushAllPages, replacer
  <2> QED
    BY Zenon, <1>3, <2>1
<1>5. ASSUME UNCHANGED <<vars, replacer>> PROVE SizeInv'
  <2>1. evictable' = evictable /\ count' = count
    BY Zenon, <1>5 DEF vars, pool, replacer
  <2> QED
    BY Zenon, <1>3, <2>1
<1> QED
  BY <1>1, <1>2, <1>4, <1>5, HitSize, UnpinSize, DeleteSize, Zenon DEF ReplacerNext

LEMMA SizeInit == ReplacerInit => SizeInv
<1> SUFFICES ASSUME ReplacerInit PROVE SizeInv
  BY Zenon
<1>1. Evictable = {} /\ count = 0
  BY Zenon DEF ReplacerInit, Init, Evictable
<1> QED
  BY Zenon, <1>1, FS_EmptySet DEF SizeInv

----------------------------------------------------------------------------
\* The pool with LRU-K: a pinned page stays in its frame with what was last
\* written to it, no write is lost by an eviction, a flush or a delete, and
\* nullptr is returned only if every frame is pinned.
THEOREM LRUKKeepsPages ==
  ReplacerSpec => [](PinnedPageStays /\ NoWriteLost /\ NullMeansAllPinned)
BY LRUKIsAPolicy, PinnedStay, WritesStay, FullMeansPinned, PTL

\* LRUKReplacer::Size() is the number of frames whose page nobody has pinned.
LEMMA LRUKSize == ReplacerSpec => []SizeIsExact
<1>1. ASSUME IInv, SizeInv PROVE SizeIsExact
  <2>1. \A f \in Frame : f \in Evictable <=> pages[f].page # NoPage /\ pages[f].pin = 0
    BY <1>1, Zenon DEF IInv, FrameInv, Evictable
  <2>2. Evictable \subseteq Frame
    BY Zenon, <1>1 DEF IInv, TypeOK, Evictable
  <2> QED
    BY Zenon, <1>1, <2>1, <2>2 DEF SizeInv, SizeIsExact
<1> QED
  BY <1>1, LRUKIsAPolicy, PoolInv, SizeInit, SizeStep, PTL DEF ReplacerSpec

----------------------------------------------------------------------------
(* The histories.                                                           *)

\* A frame the replacer tracks has been touched.
Touched(h) == h \in Seq(Nat) /\ h # <<>>

HistoryInv ==
  /\ DOMAIN history = DOMAIN evictable /\ IsFiniteSet(DOMAIN history) /\ clock \in Nat
  /\ \A f \in DOMAIN history : Touched(history[f])

LEMMA FirstTouch ==
  ASSUME NEW h, Touched(h)
  PROVE  Head(h) \in Nat
BY DEF Touched

LEMMA AccessTouches ==
  ASSUME clock \in Nat, NEW old, \A g \in DOMAIN old : Touched(old[g]), NEW f, RecordAccess(old, f)
  PROVE  /\ DOMAIN history' = DOMAIN old \cup {f} /\ clock' \in Nat
         /\ \A g \in DOMAIN history' : Touched(history'[g])
<1>1. PICK h : h = Append(IF f \in DOMAIN old THEN old[f] ELSE <<>>, clock)
  BY Zenon
<1>2. PICK v : v = IF Len(h) > K THEN Tail(h) ELSE h
  BY Zenon
<1>3. history' = Set(old, f, v) /\ clock' = clock + 1
  BY Zenon, <1>1, <1>2 DEF RecordAccess
<1>4. h \in Seq(Nat) /\ Len(h) >= 1
  <2>1. PICK g : g = IF f \in DOMAIN old THEN old[f] ELSE <<>>
    BY Zenon
  <2>2. g \in Seq(Nat)
    BY <2>1 DEF Touched
  <2>3. h = Append(g, clock)
    BY Zenon, <1>1, <2>1
  <2> QED
    BY <2>2, <2>3
<1>5. Touched(v)
  <2>1. v \in Seq(Nat) /\ Len(v) >= 1
    <3>1. CASE Len(h) > K
      <4>1. v = Tail(h) /\ Len(h) > 1
        BY <1>2, <1>4, <3>1, ReplacerAssumption
      <4> QED
        BY <1>4, <4>1
    <3>2. CASE ~(Len(h) > K)
      BY Zenon, <1>2, <1>4, <3>2
    <3> QED
      BY Zenon, <3>1, <3>2
  <2>2. v # <<>>
    BY <2>1
  <2> QED
    BY Zenon, <2>1, <2>2 DEF Touched
<1>6. DOMAIN history' = DOMAIN old \cup {f}
  BY Zenon, <1>3 DEF Set
<1>7. \A g \in DOMAIN history' : history'[g] = IF g = f THEN v ELSE old[g]
  BY Zenon, <1>3 DEF Set
<1>8. ASSUME NEW g \in DOMAIN history' PROVE Touched(history'[g])
  <2>1. CASE g = f
    BY Zenon, <1>5, <1>7, <2>1
  <2>2. CASE g # f
    BY Zenon, <1>6, <1>7, <2>2
  <2> QED
    BY Zenon, <2>1, <2>2
<1>9. clock' \in Nat
  BY <1>3
<1> QED
  BY Zenon, <1>6, <1>8, <1>9

LEMMA AcquiredHistory ==
  ASSUME HistoryInv, NEW f, Acquired(f), evictable' = Set(evictable, f, FALSE)
  PROVE  HistoryInv'
<1>1. PICK old : old = Drop(history, {f})
  BY Zenon
<1>2. DOMAIN old = DOMAIN history \ {f} /\ \A g \in DOMAIN old : old[g] = history[g]
  BY Zenon, <1>1 DEF Drop
<1>3. clock \in Nat /\ \A g \in DOMAIN old : Touched(old[g])
  BY Zenon, <1>2 DEF HistoryInv
<1>4. RecordAccess(old, f)
  BY Zenon, <1>1 DEF Acquired
<1>5. /\ DOMAIN history' = DOMAIN old \cup {f} /\ clock' \in Nat
      /\ \A g \in DOMAIN history' : Touched(history'[g])
  BY Zenon, <1>3, <1>4, AccessTouches
<1>6. DOMAIN evictable' = DOMAIN evictable \cup {f}
  BY Zenon DEF Set
<1>7. DOMAIN history' = DOMAIN history \cup {f}
  BY Zenon, <1>2, <1>5
<1>8. IsFiniteSet(DOMAIN history')
  BY Zenon, <1>7, FS_AddElement DEF HistoryInv
<1> QED
  BY Zenon, <1>5, <1>6, <1>7, <1>8 DEF HistoryInv

LEMMA HitHistory ==
  ASSUME HistoryInv, NEW t, NEW p, Hit(t, p)
  PROVE  HistoryInv'
<1>1. PICK f : f = page_table[p]
  BY Zenon
<1>2. evictable' = Set(evictable, f, FALSE) /\ RecordAccess(history, f)
  BY Zenon, <1>1 DEF Hit, FetchHit
<1>3. DOMAIN evictable' = DOMAIN evictable \cup {f}
  BY Zenon, <1>2 DEF Set
<1>4. /\ DOMAIN history' = DOMAIN history \cup {f} /\ clock' \in Nat
      /\ \A g \in DOMAIN history' : Touched(history'[g])
  BY Zenon, <1>2, AccessTouches DEF HistoryInv
<1>5. IsFiniteSet(DOMAIN history')
  BY Zenon, <1>4, FS_AddElement DEF HistoryInv
<1> QED
  BY Zenon, <1>3, <1>4, <1>5 DEF HistoryInv

LEMMA UnpinHistory ==
  ASSUME IInv, HistoryInv, NEW t, NEW p \in PageId, Unpin(t, p)
  PROVE  HistoryInv'
<1>1. PICK f : f = page_table[p]
  BY Zenon
<1>2. /\ p \in DOMAIN page_table /\ UNCHANGED <<history, clock>>
      /\ evictable' = Set(evictable, f, TRUE) \/ evictable' = evictable
  BY Zenon, <1>1 DEF Unpin, UnpinPage
<1>3. f \in Frame /\ pages[f].page = p /\ p \in Nat
  BY <1>1, <1>2 DEF IInv, TypeOK, TableInv, PageId
<1>4. f \in DOMAIN evictable
  BY Zenon, <1>3, ConstantsAssumption DEF IInv, FrameInv
<1>5. DOMAIN evictable' = DOMAIN evictable
  BY Zenon, <1>2, <1>4 DEF Set
<1> QED
  BY Zenon, <1>2, <1>5 DEF HistoryInv

LEMMA DeleteHistory ==
  ASSUME HistoryInv, NEW p, Delete(p)
  PROVE  HistoryInv'
<1>1. CASE p \in DOMAIN page_table
  <2>1. PICK f : f = page_table[p]
    BY Zenon
  <2>2. /\ evictable' = Drop(evictable, {f}) /\ history' = Drop(history, {f}) /\ clock' = clock
    BY Zenon, <1>1, <2>1 DEF Delete, DeletePage
  <2>3. /\ DOMAIN evictable' = DOMAIN evictable \ {f} /\ DOMAIN history' = DOMAIN history \ {f}
        /\ \A g \in DOMAIN history' : history'[g] = history[g]
    BY Zenon, <2>2 DEF Drop
  <2>4. IsFiniteSet(DOMAIN history')
    BY Zenon, <2>3, FS_RemoveElement, FS_Subset DEF HistoryInv
  <2> QED
    BY Zenon, <2>2, <2>3, <2>4 DEF HistoryInv
<1>2. CASE p \notin DOMAIN page_table
  <2>1. UNCHANGED <<evictable, history, clock>>
    BY Zenon, <1>2 DEF Delete, DeletePage, pool
  <2> QED
    BY Zenon, <2>1 DEF HistoryInv
<1> QED
  BY Zenon, <1>1, <1>2

LEMMA HistoryStep == IInv /\ HistoryInv /\ [ReplacerNext]_<<vars, replacer>> => HistoryInv'
<1> SUFFICES ASSUME IInv, HistoryInv, [ReplacerNext]_<<vars, replacer>> PROVE HistoryInv'
  BY Zenon
<1>1. ASSUME NEW t \in Thread, NEW f \in Frame, New(t, f) PROVE HistoryInv'
  <2>1. Acquired(f) /\ evictable' = Set(evictable, f, FALSE)
    BY Zenon, <1>1 DEF New, NewPage, Install
  <2> QED
    BY Zenon, <2>1, AcquiredHistory
<1>2. ASSUME NEW t \in Thread, NEW f \in Frame, NEW p \in PageId, Miss(t, p, f)
      PROVE  HistoryInv'
  <2>1. Acquired(f) /\ evictable' = Set(evictable, f, FALSE)
    BY Zenon, <1>2 DEF Miss, FetchMiss, Install
  <2> QED
    BY Zenon, <2>1, AcquiredHistory
<1>3. ASSUME Elsewhere, UNCHANGED replacer PROVE HistoryInv'
  <2>1. evictable' = evictable /\ history' = history /\ clock' = clock
    BY Zenon, <1>3 DEF Elsewhere, Change, FlushPage, FlushAllPages, replacer
  <2> QED
    BY Zenon, <2>1 DEF HistoryInv
<1>4. ASSUME UNCHANGED <<vars, replacer>> PROVE HistoryInv'
  <2>1. evictable' = evictable /\ history' = history /\ clock' = clock
    BY Zenon, <1>4 DEF vars, pool, replacer
  <2> QED
    BY Zenon, <2>1 DEF HistoryInv
<1> QED
  BY <1>1, <1>2, <1>3, <1>4, HitHistory, UnpinHistory, DeleteHistory, Zenon DEF ReplacerNext

LEMMA HistoryInit == ReplacerInit => HistoryInv
<1> SUFFICES ASSUME ReplacerInit PROVE HistoryInv
  BY Zenon
<1>1. DOMAIN history = {} /\ DOMAIN evictable = {} /\ clock = 0
  BY Zenon DEF ReplacerInit, Init
<1> QED
  BY Zenon, <1>1, FS_EmptySet DEF HistoryInv

----------------------------------------------------------------------------
(* The loop of Evict.                                                       *)

LEMMA Least ==
  ASSUME NEW T \in SUBSET Nat, T # {}
  PROVE  \E x \in T : \A y \in T : x <= y
<1>1. PICK x \in T : \A y \in T : ~ (<<y, x>> \in OpToRel(<, Nat))
  BY Zenon, NatLessThanWellFounded, WFMin
<1>2. \A y \in T : ~ (y < x)
  BY Zenon, <1>1 DEF OpToRel
<1> QED
  BY <1>2

\* b has the best frame of every turn of the loop over the first n frames of o.
Turns(o, b, n) ==
  b = [i \in 0 .. n |-> IF i = 0 THEN <<>> ELSE Adopt(b[i - 1], o[i])]

LEMMA TurnsOn ==
  ASSUME NEW o, NEW n \in Nat, NEW b, Turns(o, b, n)
  PROVE  \E c : Turns(o, c, n + 1)
<1> DEFINE c == [i \in 0 .. n + 1 |-> IF i = n + 1 THEN Adopt(b[n], o[n + 1]) ELSE b[i]]
<1>1. \A i \in 0 .. n : b[i] = IF i = 0 THEN <<>> ELSE Adopt(b[i - 1], o[i])
  BY Zenon DEF Turns
<1>2. \A i \in 0 .. n : c[i] = b[i]
  OBVIOUS
<1>3. c[n + 1] = Adopt(b[n], o[n + 1]) /\ n + 1 - 1 = n /\ n \in 0 .. n /\ n + 1 # 0
  OBVIOUS
<1>4. c = [i \in 0 .. n + 1 |-> c[i]]
  BY Zenon
<1> HIDE DEF c
<1>5. ASSUME NEW i \in 0 .. n + 1
      PROVE  c[i] = IF i = 0 THEN <<>> ELSE Adopt(c[i - 1], o[i])
  <2>1. CASE i = n + 1
    <3>1. i # 0 /\ i - 1 = n
      BY <2>1
    <3>2. c[i - 1] = b[n] /\ c[i] = Adopt(b[n], o[i])
      BY Zenon, <1>2, <1>3, <2>1, <3>1
    <3> QED
      BY Zenon, <3>1, <3>2
  <2>2. CASE i # n + 1
    <3>1. i \in 0 .. n /\ (i # 0 => i - 1 \in 0 .. n)
      BY <2>2
    <3> QED
      BY Zenon, <1>1, <1>2, <3>1
  <2> QED
    BY Zenon, <2>1, <2>2
<1>6. c = [i \in 0 .. n + 1 |-> IF i = 0 THEN <<>> ELSE Adopt(c[i - 1], o[i])]
  BY Zenon, <1>4, <1>5
<1> QED
  BY Zenon, <1>6 DEF Turns

LEMMA TurnsExist ==
  ASSUME NEW o, NEW n \in Nat
  PROVE  \E b : Turns(o, b, n)
<1> DEFINE T == {i \in Nat : ~ \E b : Turns(o, b, i)}
<1> SUFFICES ASSUME T # {} PROVE FALSE
  BY Zenon
<1>1. T \in SUBSET Nat
  BY Zenon
<1>2. PICK i \in T : \A y \in T : i <= y
  <2> HIDE DEF T
  <2> QED
    BY Zenon, <1>1, Least
<1>3. i \in Nat /\ ~ \E b : Turns(o, b, i)
  BY Zenon
<1>4. CASE i = 0
  <2> DEFINE b == [j \in 0 .. 0 |-> <<>>]
  <2>1. Turns(o, b, 0)
    BY DEF Turns
  <2> QED
    BY Zenon, <1>3, <1>4, <2>1
<1>5. CASE i # 0
  <2>1. i - 1 \in Nat /\ ~(i <= i - 1) /\ i - 1 + 1 = i
    BY <1>3, <1>5
  <2>2. PICK b : Turns(o, b, i - 1)
    BY Zenon, <1>2, <2>1
  <2>3. \E c : Turns(o, c, i - 1 + 1)
    BY Zenon, <2>1, <2>2, TurnsOn
  <2> QED
    BY Zenon, <1>3, <2>1, <2>3
<1> QED
  BY Zenon, <1>4, <1>5

\* Evicting v before f is what LRU-K asks for.
Ranks(v, f) ==
  \/ IsInf(v) /\ ~IsInf(f)
  \/ IsInf(v) = IsInf(f) /\ Head(history[v]) <= Head(history[f])

Best(o, i, b) ==
  \/ b = <<>> /\ \A j \in 1 .. i : o[j] \notin Evictable
  \/ \E v \in Evictable : b = <<v>> /\ \A j \in 1 .. i : o[j] \in Evictable => Ranks(v, o[j])

LEMMA OutranksRanks ==
  ASSUME HistoryInv, NEW f \in Evictable, NEW v \in Evictable
  PROVE  /\ Outranks(f, v) => Ranks(f, v)
         /\ ~Outranks(f, v) => Ranks(v, f)
<1>1. PICK g, w : g = Head(history[f]) /\ w = Head(history[v])
  BY Zenon
<1>2. g \in Nat /\ w \in Nat /\ clock \in Nat
  <2>1. Touched(history[f]) /\ Touched(history[v]) /\ clock \in Nat
    BY Zenon DEF HistoryInv, Evictable
  <2> QED
    BY Zenon, <1>1, <2>1, FirstTouch
<1>3. PICK a, b : a = IsInf(f) /\ b = IsInf(v)
  BY Zenon
<1>4. a \in BOOLEAN /\ b \in BOOLEAN
  BY <1>3 DEF IsInf
<1>5. Outranks(f, v) <=> IF a # b THEN a ELSE IF a THEN g < w ELSE clock - g > clock - w
  BY Zenon, <1>1, <1>3 DEF Outranks, Metric
<1>6. /\ Ranks(f, v) <=> (a /\ ~b) \/ (a = b /\ g <= w)
      /\ Ranks(v, f) <=> (b /\ ~a) \/ (b = a /\ w <= g)
  BY Zenon, <1>1, <1>3 DEF Ranks
<1>7. (clock - g > clock - w) <=> g < w
  BY <1>2
<1>8. (g < w => g <= w) /\ (~(g < w) => w <= g)
  BY <1>2
<1> QED
  BY Zenon, <1>4, <1>5, <1>6, <1>7, <1>8

LEMMA RanksTransitive ==
  ASSUME HistoryInv, NEW u \in Evictable, NEW v \in Evictable, NEW f \in Evictable,
         Ranks(u, v), Ranks(v, f)
  PROVE  Ranks(u, f)
<1>1. PICK x, y, z : x = Head(history[u]) /\ y = Head(history[v]) /\ z = Head(history[f])
  BY Zenon
<1>2. x \in Nat /\ y \in Nat /\ z \in Nat
  <2>1. Touched(history[u]) /\ Touched(history[v]) /\ Touched(history[f])
    BY Zenon DEF HistoryInv, Evictable
  <2> QED
    BY Zenon, <1>1, <2>1, FirstTouch
<1>3. x <= y /\ y <= z => x <= z
  BY <1>2
<1> QED
  BY Zenon, <1>1, <1>3 DEF Ranks

LEMMA RanksItself ==
  ASSUME HistoryInv, NEW f \in Evictable
  PROVE  Ranks(f, f)
<1>1. Touched(history[f])
  BY Zenon DEF HistoryInv, Evictable
<1>2. Head(history[f]) \in Nat
  BY Zenon, <1>1, FirstTouch
<1>3. Head(history[f]) <= Head(history[f])
  BY <1>2
<1> QED
  BY Zenon, <1>3 DEF Ranks

LEMMA AdoptBest ==
  ASSUME HistoryInv, NEW o, NEW i \in Nat \ {0}, NEW b, Best(o, i - 1, b)
  PROVE  Best(o, i, Adopt(b, o[i]))
<1>1. PICK f : f = o[i]
  BY Zenon
<1>2. \A j \in 1 .. i : j \in 1 .. i - 1 \/ j = i
  OBVIOUS
<1>3. CASE f \notin Evictable
  <2>1. Adopt(b, f) = b
    BY Zenon, <1>3 DEF Adopt
  <2> QED
    BY Zenon, <1>1, <1>2, <1>3, <2>1 DEF Best
<1>4. CASE f \in Evictable /\ b = <<>>
  <2>1. Adopt(b, f) = <<f>>
    BY Zenon, <1>4 DEF Adopt
  <2>2. \A j \in 1 .. i - 1 : o[j] \notin Evictable
    <3>1. \A v : <<v>> # <<>>
      BY Zenon
    <3> QED
      BY Zenon, <1>4, <3>1 DEF Best
  <2>3. Ranks(f, f)
    BY Zenon, <1>4, RanksItself
  <2> QED
    BY Zenon, <1>1, <1>2, <1>4, <2>1, <2>2, <2>3 DEF Best
<1>5. CASE f \in Evictable /\ b # <<>>
  <2>1. PICK v \in Evictable :
          b = <<v>> /\ \A j \in 1 .. i - 1 : o[j] \in Evictable => Ranks(v, o[j])
    BY Zenon, <1>5 DEF Best
  <2>2. b[1] = v
    BY Zenon, <2>1
  <2>3. CASE Outranks(f, v)
    <3>1. Adopt(b, f) = <<f>>
      BY Zenon, <1>5, <2>2, <2>3 DEF Adopt
    <3>2. Ranks(f, v) /\ Ranks(f, f)
      BY Zenon, <1>5, <2>3, OutranksRanks, RanksItself
    <3>3. \A j \in 1 .. i - 1 : o[j] \in Evictable => Ranks(f, o[j])
      BY Zenon, <1>5, <2>1, <3>2, RanksTransitive
    <3> QED
      BY Zenon, <1>1, <1>2, <1>5, <3>1, <3>2, <3>3 DEF Best
  <2>4. CASE ~Outranks(f, v)
    <3>1. Adopt(b, f) = b
      BY Zenon, <1>5, <2>2, <2>4 DEF Adopt
    <3>2. Ranks(v, f)
      BY Zenon, <1>5, <2>4, OutranksRanks
    <3> QED
      BY Zenon, <1>1, <1>2, <2>1, <3>1, <3>2 DEF Best
  <2> QED
    BY Zenon, <2>3, <2>4
<1> QED
  BY Zenon, <1>1, <1>3, <1>4, <1>5

LEMMA LoopFindsBest ==
  ASSUME HistoryInv, NEW o, NEW n \in Nat, NEW b, Turns(o, b, n)
  PROVE  Best(o, n, b[n])
<1>1. \A i \in 0 .. n : b[i] = IF i = 0 THEN <<>> ELSE Adopt(b[i - 1], o[i])
  BY Zenon DEF Turns
<1> DEFINE T == {i \in 0 .. n : ~Best(o, i, b[i])}
<1> SUFFICES ASSUME T # {} PROVE FALSE
  <2>1. n \in 0 .. n
    OBVIOUS
  <2> QED
    BY Zenon, <2>1
<1>2. T \in SUBSET Nat
  OBVIOUS
<1>3. PICK i \in T : \A y \in T : i <= y
  <2> HIDE DEF T
  <2> QED
    BY Zenon, <1>2, Least
<1>4. i \in 0 .. n /\ ~Best(o, i, b[i])
  BY Zenon
<1>5. CASE i = 0
  <2>1. b[i] = <<>> /\ 1 .. i = {}
    BY <1>1, <1>4, <1>5
  <2> QED
    BY Zenon, <1>4, <2>1 DEF Best
<1>6. CASE i # 0
  <2>1. i - 1 \in 0 .. n /\ ~(i <= i - 1) /\ i \in Nat \ {0}
    BY <1>4, <1>6
  <2>2. Best(o, i - 1, b[i - 1])
    BY Zenon, <1>3, <2>1
  <2>3. Best(o, i, Adopt(b[i - 1], o[i]))
    BY Zenon, <2>1, <2>2, AdoptBest
  <2> QED
    BY Zenon, <1>1, <1>4, <1>6, <2>3
<1> QED
  BY Zenon, <1>5, <1>6

\* An order yields every frame the replacer tracks.
LEMMA OrderCovers ==
  ASSUME HistoryInv, NEW o \in Orders
  PROVE  /\ Len(o) \in Nat /\ \A i \in 1 .. Len(o) : o[i] \in DOMAIN history
         /\ \A f \in DOMAIN history : \E i \in 1 .. Len(o) : o[i] = f
<1>1. PICK D : D = DOMAIN history
  BY Zenon
<1>2. PICK n : n = Cardinality(D)
  BY Zenon
<1>3. o \in [1 .. n -> D] /\ \A i, j \in 1 .. n : o[i] = o[j] => i = j
  BY Zenon, <1>1, <1>2 DEF Orders
<1>4. IsFiniteSet(D) /\ n \in Nat
  BY Zenon, <1>1, <1>2, FS_CardinalityType DEF HistoryInv
<1>5. o \in Injection(1 .. n, D)
  BY Zenon, <1>3 DEF Injection, IsInjective
<1>6. Cardinality(1 .. n) = n
  BY <1>4, FS_Interval
<1>7. o \in Surjection(1 .. n, D)
  BY Zenon, <1>2, <1>4, <1>5, <1>6, FS_Injection
<1>8. \A f \in D : \E i \in 1 .. n : o[i] = f
  BY Zenon, <1>7 DEF Surjection
<1>9. Len(o) = n
  BY <1>3, <1>4
<1> QED
  BY Zenon, <1>1, <1>3, <1>4, <1>8, <1>9

LEMMA EvictIsBest ==
  ASSUME HistoryInv, NEW o \in Orders
  PROVE  /\ Evict(o) = <<>> <=> Evictable = {}
         /\ \A v, f \in Evictable : Evict(o) = <<v>> => Ranks(v, f)
<1>1. /\ Len(o) \in Nat /\ \A i \in 1 .. Len(o) : o[i] \in DOMAIN history
      /\ \A f \in DOMAIN history : \E i \in 1 .. Len(o) : o[i] = f
  BY Zenon, OrderCovers
<1> DEFINE best == CHOOSE b : Turns(o, b, Len(o))
<1>2. Turns(o, best, Len(o))
  BY Zenon, <1>1, TurnsExist
<1>3. Evict(o) = best[Len(o)]
  BY Zenon DEF Evict, Turns
<1> HIDE DEF best
<1>4. Best(o, Len(o), Evict(o))
  <2>1. PICK n : n = Len(o)
    BY Zenon
  <2>2. n \in Nat /\ Turns(o, best, n)
    BY Zenon, <1>1, <1>2, <2>1
  <2>3. Best(o, n, best[n])
    BY Zenon, <2>2, LoopFindsBest
  <2> QED
    BY Zenon, <1>3, <2>1, <2>3
<1>5. \A f \in Evictable : \E i \in 1 .. Len(o) : o[i] = f
  BY Zenon, <1>1 DEF HistoryInv, Evictable
<1>6. \A v : <<v>> # <<>>
  BY Zenon
<1>7. \A u, v : <<u>> = <<v>> => u = v
  BY Zenon
<1> QED
  BY Zenon, <1>4, <1>5, <1>6, <1>7 DEF Best

\* LRUKReplacer::Evict picks the victim LRU-K asks for in whatever order the hash
\* map yields the frames, finds one whenever a frame is evictable, and Size() is
\* the number of frames whose page nobody has pinned.
THEOREM LRUKVictim == ReplacerSpec => []VictimIsLRUK
<1>1. SizeIsExact /\ HistoryInv => VictimIsLRUK
  BY Zenon, EvictIsBest DEF SizeIsExact, VictimIsLRUK, Ranks
<1>2. ReplacerSpec => []HistoryInv
  BY LRUKIsAPolicy, PoolInv, HistoryInit, HistoryStep, PTL DEF ReplacerSpec
<1> QED
  BY <1>1, <1>2, LRUKSize, PTL
=============================================================================
