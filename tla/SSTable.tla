------------------------------ MODULE SSTable ------------------------------
(***************************************************************************)
(* The sorted table file of src/src/lsm/sstable.cpp: the pages Build       *)
(* writes, the table Open reads back from them, its Bloom filter           *)
(* (bloom_filter.cpp), the point lookup and the iterator.  A file is the   *)
(* sequence of its pages, page p being file[p + 1]; an entry is <<key,     *)
(* LSMValue>>; a lookup that finds nothing returns <<>>, else <<LSMValue>>.*)
(***************************************************************************)
EXTENDS Integers, Sequences, SequencesExt, FiniteSetsExt

CONSTANTS
  PerDataPage,    \* kMaxEntriesPerDataPage
  PerIndexPage,   \* kMaxIndexEntriesPerPage
  PerBloomPage,   \* bits of the filter on a page
  NumBits,        \* num_bits_
  NumHashes,      \* num_hashes_
  Word,           \* 2^64
  Hash1, Hash2    \* Mix of a key under the two seeds

\* s in runs of n, the last one shorter.
Chunks(s, n) ==
  [i \in 1 .. (Len(s) + n - 1) \div n |->
     SubSeq(s, (i - 1) * n + 1, Min({i * n, Len(s)}))]

\* BloomFilter::BitIndex, counted from 1.
BitIndex(key, i) == (((Hash1[key] + i * Hash2[key]) % Word) % NumBits) + 1

\* Add of every key to an empty filter.
Bloom(keys) ==
  [b \in 1 .. NumBits |-> \E k \in keys, i \in 0 .. NumHashes - 1 : BitIndex(k, i) = b]

\* Header, data pages, index pages and filter pages, in the order allocated.
Build(entries) ==
  LET keys == [i \in DOMAIN entries |-> entries[i][1]]
      data == Chunks(entries, PerDataPage)
      index == [p \in DOMAIN data |-> <<data[p][1][1], p>>]
      index_pages == Chunks(index, PerIndexPage)
      empty == entries = <<>>
      header == [num_entries |-> Len(entries),
                 min_key |-> IF empty THEN 0 ELSE keys[1],
                 max_key |-> IF empty THEN 0 ELSE Last(keys),
                 num_data_pages |-> Len(data),
                 first_data_page_id |-> IF empty THEN -1 ELSE 1,
                 num_index_entries |-> Len(index),
                 first_index_page_id |-> IF empty THEN -1 ELSE 1 + Len(data),
                 first_bloom_page_id |-> 1 + Len(data) + Len(index_pages)]
  IN <<header>> \o data \o index_pages \o Chunks(Bloom(ToSet(keys)), PerBloomPage)

\* The sparse index is read page after page until all its entries are there.
Open(file_pages) ==
  LET h == file_pages[1]
      read(first, n) == FlattenSeq(SubSeq(file_pages, first + 1, first + n))
      index_pages == Min({n \in 1 .. Len(file_pages) - h.first_index_page_id - 1 :
                            Len(read(h.first_index_page_id, n)) >= h.num_index_entries})
      bloom_pages == (NumBits + PerBloomPage - 1) \div PerBloomPage
  IN [num_entries |-> h.num_entries, min_key |-> h.min_key, max_key |-> h.max_key,
      num_data_pages |-> h.num_data_pages,
      first_data_page_id |-> h.first_data_page_id,
      sparse_index |-> IF h.num_index_entries = 0 THEN <<>>
                      ELSE read(h.first_index_page_id, index_pages),
      bloom |-> read(h.first_bloom_page_id, bloom_pages),
      pages |-> file_pages]

MightContain(t, key) ==
  /\ t.num_entries # 0 /\ t.min_key <= key /\ key <= t.max_key
  /\ \A i \in 0 .. NumHashes - 1 : t.bloom[BitIndex(key, i)]

\* Mutation of FindPagePos: lower_bound, which misses a page's first key.
FindPagePos_LowerBound(t, key) ==
  LET after == SelectInSeq(t.sparse_index, LAMBDA e : key <= e[1])
      distance == IF after = 0 THEN Len(t.sparse_index) ELSE after - 1
  IN IF distance = 0 THEN 0 ELSE distance - 1

\* The last page whose first key is not past key, by std::upper_bound.
FindPagePos(t, key) ==
  LET after == SelectInSeq(t.sparse_index, LAMBDA e : key < e[1])
      distance == IF after = 0 THEN Len(t.sparse_index) ELSE after - 1
  IN IF distance = 0 THEN 0 ELSE distance - 1

PageId(t, page_pos) == t.sparse_index[page_pos + 1][2]

\* std::lower_bound on a data page: the first entry not before key, or 0.
LowerBoundIn(page, key) == SelectInSeq(page, LAMBDA e : e[1] >= key)

TableGet(t, key) ==
  IF ~MightContain(t, key) THEN <<>>
  ELSE LET page == t.pages[PageId(t, FindPagePos(t, key)) + 1]
           i == LowerBoundIn(page, key)
       IN IF i # 0 /\ page[i][1] = key THEN <<page[i][2]>> ELSE <<>>

\* An iterator: the page it has pinned, that page's position, and the entry.
Exhausted == [page_id |-> -1, page_pos |-> 0, index |-> 0]

NewIterator(t, start_key) ==
  IF t.num_entries = 0 \/ start_key > t.max_key THEN Exhausted
  ELSE LET pos == FindPagePos(t, Max({start_key, t.min_key}))
           i == LowerBoundIn(t.pages[PageId(t, pos) + 1], start_key)
       IN IF i = 0
          THEN [page_id |-> t.first_data_page_id + pos + 1, page_pos |-> pos + 1, index |-> 1]
          ELSE [page_id |-> PageId(t, pos), page_pos |-> pos, index |-> i]

Entry(t, it) == t.pages[it.page_id + 1][it.index]

IteratorNext(t, it) ==
  IF it.index < Len(t.pages[it.page_id + 1]) THEN [it EXCEPT !.index = @ + 1]
  ELSE IF it.page_pos + 1 >= t.num_data_pages THEN Exhausted
  ELSE [page_id |-> t.first_data_page_id + it.page_pos + 1,
        page_pos |-> it.page_pos + 1, index |-> 1]
=============================================================================
