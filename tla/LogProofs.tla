----------------------------- MODULE LogProofs -----------------------------
(***************************************************************************)
(* Proofs that LogManager, with pages of any size, implements              *)
(* AppendOnlyLog, and that ReadRecord and ReadFrom find every record.      *)
(***************************************************************************)
EXTENDS LogManager, WellFoundedInduction, TLAPS

----------------------------------------------------------------------------
(* Where an LSN is.                                                         *)

LEMMA Divides ==
  ASSUME NEW c \in Nat, NEW b \in 0 .. PerPage - 1
  PROVE  (c * PerPage + b) \div PerPage = c /\ (c * PerPage + b) % PerPage = b
  BY ConstantsAssumption

LEMMA Division ==
  ASSUME NEW lsn \in Nat
  PROVE  /\ lsn \div PerPage \in Nat /\ lsn % PerPage \in 0 .. PerPage - 1
         /\ lsn = (lsn \div PerPage) * PerPage + (lsn % PerPage)
  BY ConstantsAssumption

LEMMA Products ==
  ASSUME NEW c \in Nat, NEW d \in Nat, c < d
  PROVE  c * PerPage + PerPage <= d * PerPage
  BY ConstantsAssumption

----------------------------------------------------------------------------
(* The inductive invariant: every page but the current one is full, and     *)
(* the file holds the current page as the buffer does, unless nothing was   *)
(* stored on it yet.                                                        *)

PagesInv ==
  /\ next_lsn = current * PerPage + Len(buf)
  /\ Len(file) = current \/ Len(file) = current + 1
  /\ \A i \in 1 .. current : Len(file[i]) = PerPage
  /\ Len(file) = current => buf = <<>>
  /\ Len(file) = current + 1 => file[current + 1] = buf /\ buf # <<>> /\ pending = <<>>

IInv == TypeOK /\ PagesInv

\* A read finds the record of an LSN on its page of the file, also the current
\* page.
Found(lsn) ==
  /\ lsn \div PerPage \in 0 .. current /\ lsn % PerPage \in 0 .. PerPage - 1
  /\ lsn \div PerPage = current => lsn % PerPage < Len(buf)
  /\ lsn \div PerPage < Len(file)
  /\ ReadRecord(lsn) = file[(lsn \div PerPage) + 1][(lsn % PerPage) + 1]

AllFound == \A lsn \in 0 .. next_lsn - 1 : Found(lsn)

LEMMA Located == IInv => AllFound
<1> SUFFICES ASSUME IInv, NEW lsn \in 0 .. next_lsn - 1 PROVE Found(lsn)
  BY Zenon DEF AllFound
<1> DEFINE c == lsn \div PerPage
           b == lsn % PerPage
<1> USE DEF IInv
<1>1. lsn \in Nat /\ current \in Nat /\ next_lsn \in Nat /\ Len(buf) \in 0 .. PerPage
  BY ConstantsAssumption DEF TypeOK
<1>2. c \in Nat /\ b \in 0 .. PerPage - 1 /\ lsn = c * PerPage + b
  BY Zenon, <1>1, Division
<1> HIDE DEF c, b
<1>3. lsn < current * PerPage + Len(buf)
  BY <1>1 DEF PagesInv
<1>4. c <= current
  <2>1. SUFFICES ASSUME current < c PROVE FALSE
    BY <1>1, <1>2
  <2>2. current * PerPage + PerPage <= c * PerPage
    BY Zenon, <1>1, <1>2, <2>1, Products
  <2>3. current * PerPage \in Nat /\ c * PerPage \in Nat
    BY <1>1, <1>2, ConstantsAssumption
  <2> QED
    BY <1>1, <1>2, <1>3, <2>2, <2>3, ConstantsAssumption
<1>5. c = current => b < Len(buf)
  <2>1. c * PerPage \in Nat
    BY <1>2, ConstantsAssumption
  <2> QED
    BY <1>1, <1>2, <1>3, <2>1
<1>6. c < Len(file)
  BY <1>1, <1>2, <1>4, <1>5 DEF PagesInv
<1>7. ReadRecord(lsn) = file[c + 1][b + 1]
  <2>1. ReadRecord(lsn) = PageAt(c)[b + 1]
    BY Zenon DEF ReadRecord, c, b
  <2>2. PageAt(c) = file[c + 1]
    BY <1>1, <1>2, <1>4, <1>6 DEF PageAt, PagesInv
  <2> QED
    BY Zenon, <2>1, <2>2
<1> QED
  BY <1>1, <1>2, <1>4, <1>5, <1>6, <1>7 DEF c, b, Found

LEMMA InitInv == Init => IInv
  BY ConstantsAssumption DEF Init, IInv, TypeOK, PagesInv

LEMMA ReadBackType == IInv => ReadBack \in Seq(Record) /\ Len(ReadBack) = next_lsn
<1> SUFFICES ASSUME IInv PROVE ReadBack \in Seq(Record) /\ Len(ReadBack) = next_lsn
  BY Zenon
<1>1. next_lsn \in Nat
  BY Zenon DEF IInv, TypeOK
<1>2. ASSUME NEW i \in 1 .. next_lsn PROVE ReadRecord(i - 1) \in Record
  <2> DEFINE lsn == i - 1
             c == lsn \div PerPage
             b == lsn % PerPage
  <2>1. lsn \in 0 .. next_lsn - 1
    BY <1>1
  <2>2. /\ c \in 0 .. current /\ b \in 0 .. PerPage - 1
        /\ c = current => b < Len(buf)
        /\ c < Len(file) /\ ReadRecord(lsn) = file[c + 1][b + 1]
    BY Zenon, <2>1, Located DEF AllFound, Found
  <2> HIDE DEF lsn, c, b
  <2>3. file[c + 1] \in Seq(Record) /\ b + 1 \in 1 .. Len(file[c + 1])
    <3>1. file[c + 1] \in Seq(Record) /\ Len(file[c + 1]) \in Nat
      BY <2>2 DEF IInv, TypeOK
    <3>2. c # current => Len(file[c + 1]) = PerPage
      BY <2>2 DEF IInv, TypeOK, PagesInv
    <3>3. c = current => Len(file[c + 1]) = Len(buf)
      BY SMTT(30), <2>2 DEF IInv, TypeOK, PagesInv
    <3> QED
      BY <2>2, <3>1, <3>2, <3>3, ConstantsAssumption
  <2> QED
    BY <2>2, <2>3 DEF lsn
<1> QED
  BY <1>1, <1>2 DEF ReadBack

LEMMA LocatedNext == IInv' => AllFound'
  BY Located, PTL

LEMMA ReadBackTypeNext == IInv' => (ReadBack \in Seq(Record) /\ Len(ReadBack) = next_lsn)'
  BY ReadBackType, PTL

\* The record is stored in the slot its LSN is read from.
LEMMA StoreStep ==
  ASSUME IInv, NEW r \in Record, Len(buf) < PerPage, Store(r), current' = current
  PROVE  IInv' /\ ReadBack' = Append(ReadBack, r) /\ next_lsn' = next_lsn + 1
<1>1. /\ current \in Nat /\ next_lsn \in Nat /\ Len(buf) \in Nat
      /\ file \in Seq(Seq(Record)) /\ buf \in Seq(Record)
      /\ Len(file) \in current .. current + 1
  BY SMTT(30) DEF IInv, TypeOK, PagesInv
<1>2. /\ buf' = Append(buf, r) /\ next_lsn' = next_lsn + 1 /\ pending' = <<>>
      /\ WritePage(current, buf')
  BY Zenon DEF Store
<1>3. buf' \in Seq(Record) /\ Len(buf') = Len(buf) + 1 /\ buf'[Len(buf) + 1] = r
  BY <1>1, <1>2
<1>4. \A j \in 1 .. Len(buf) : buf'[j] = buf[j]
  BY <1>1, <1>2
<1>5. /\ file' \in Seq(Seq(Record)) /\ Len(file') = current + 1
      /\ file'[current + 1] = buf'
      /\ \A i \in 1 .. current : file'[i] = file[i]
  BY <1>1, <1>2, <1>3 DEF WritePage
<1>6. IInv'
  <2>1. TypeOK'
    <3>1. \A i \in DOMAIN file' : Len(file'[i]) <= PerPage
      <4>1. \A i \in 1 .. current : Len(file'[i]) = PerPage
        BY Zenon, <1>5 DEF IInv, PagesInv
      <4>2. Len(file'[current + 1]) <= PerPage
        BY <1>1, <1>3, <1>5, ConstantsAssumption
      <4>3. \A i \in DOMAIN file' : i \in 1 .. current \/ i = current + 1
        BY <1>1, <1>5
      <4> QED
        BY <4>1, <4>2, <4>3, ConstantsAssumption
    <3>2. next_lsn' \in Nat /\ pending' \in Seq(Record) /\ Len(buf') <= PerPage
      BY <1>1, <1>2, <1>3, ConstantsAssumption
    <3> QED
      BY Zenon, <1>1, <1>3, <1>5, <3>1, <3>2 DEF TypeOK
  <2>2. next_lsn' = current' * PerPage + Len(buf')
    <3>1. current * PerPage \in Nat
      BY <1>1, ConstantsAssumption
    <3> QED
      BY <1>1, <1>2, <1>3, <3>1 DEF IInv, PagesInv
  <2>3. PagesInv'
    <3>1. \A i \in 1 .. current' : Len(file'[i]) = PerPage
      BY Zenon, <1>5 DEF IInv, PagesInv
    <3>2. Len(file') # current' /\ buf' # <<>>
      BY <1>1, <1>3, <1>5
    <3> QED
      BY Zenon, <1>2, <1>5, <2>2, <3>1, <3>2 DEF PagesInv
  <2> QED
    BY Zenon, <2>1, <2>3 DEF IInv
<1>7. ASSUME NEW lsn \in 0 .. next_lsn - 1 PROVE ReadRecord(lsn)' = ReadRecord(lsn)
  <2> DEFINE c == lsn \div PerPage
             b == lsn % PerPage
  <2>1. /\ c \in 0 .. current /\ b \in 0 .. PerPage - 1
        /\ c = current => b < Len(buf)
        /\ c < Len(file) /\ ReadRecord(lsn) = file[c + 1][b + 1]
    BY Zenon, Located DEF AllFound, Found
  <2>2. lsn \in 0 .. next_lsn' - 1
    BY <1>1, <1>2
  <2>3. ReadRecord(lsn)' = file'[c + 1][b + 1]
    BY Zenon, <1>6, <2>2, LocatedNext DEF AllFound, Found
  <2> HIDE DEF c, b
  <2>4. CASE c = current
    <3>1. file[c + 1] = buf /\ file'[c + 1] = buf'
      BY <1>1, <1>5, <2>1, <2>4 DEF IInv, PagesInv
    <3>2. b + 1 \in 1 .. Len(buf)
      BY <1>1, <2>1, <2>4
    <3> QED
      BY Zenon, <1>4, <2>1, <2>3, <3>1, <3>2
  <2>5. CASE c # current
    <3>1. c + 1 \in 1 .. current
      BY SMTT(30), <1>1, <2>1, <2>5
    <3> QED
      BY Zenon, <1>5, <2>1, <2>3, <3>1
  <2> QED
    BY Zenon, <2>4, <2>5
<1> PICK n \in Nat : n = next_lsn
  BY Zenon, <1>1
<1>8. ReadRecord(n)' = r
  <2>1. n = current * PerPage + Len(buf) /\ Len(buf) \in 0 .. PerPage - 1
    BY <1>1, ConstantsAssumption DEF IInv, PagesInv
  <2>2. n \div PerPage = current' /\ n % PerPage = Len(buf)
    BY Zenon, <1>1, <2>1, Divides
  <2> QED
    BY Zenon, <1>3, <2>2 DEF ReadRecord, PageAt
<1>9. ReadBack' = Append(ReadBack, r)
  <2>1. ReadBack \in Seq(Record) /\ Len(ReadBack) = n
    BY Zenon, ReadBackType
  <2>2. ReadBack' \in Seq(Record) /\ Len(ReadBack') = n + 1
    BY Zenon, <1>2, <1>6, ReadBackTypeNext
  <2>3. \A i \in 1 .. n : ReadBack[i] = ReadRecord(i - 1)
    BY Zenon DEF ReadBack
  <2>4. \A i \in 1 .. n + 1 : ReadBack'[i] = ReadRecord(i - 1)'
    BY Zenon, <1>1, <1>2 DEF ReadBack
  <2>5. \A i \in 1 .. n : ReadBack'[i] = ReadBack[i]
    <3>1. \A i \in 1 .. n : i - 1 \in 0 .. next_lsn - 1 /\ i \in 1 .. n + 1
      BY <1>1
    <3> QED
      BY Zenon, <1>7, <2>3, <2>4, <3>1
  <2>6. ReadBack'[n + 1] = r
    <3>1. n + 1 \in 1 .. n + 1 /\ n + 1 - 1 = n
      OBVIOUS
    <3> QED
      BY <1>8, <2>4, <3>1
  <2> QED
    BY <2>1, <2>2, <2>5, <2>6
<1> QED
  BY Zenon, <1>2, <1>6, <1>9

\* A page turn writes the page as it was and moves only the buffer.
LEMMA TurnStep ==
  ASSUME IInv, NEW r \in Record, AppendTurn(r)
  PROVE  IInv' /\ file' = file /\ next_lsn' = next_lsn
<1>1. /\ current \in Nat /\ next_lsn \in Nat /\ file \in Seq(Seq(Record))
      /\ buf \in Seq(Record) /\ Len(buf) = PerPage /\ buf # <<>>
  BY ConstantsAssumption DEF IInv, TypeOK, AppendTurn
<1>2. Len(file) = current + 1 /\ file[current + 1] = buf
  BY Zenon, <1>1 DEF IInv, PagesInv
<1>3. /\ current' = current + 1 /\ buf' = <<>> /\ pending' = <<r>>
      /\ next_lsn' = next_lsn /\ WritePage(current, buf)
  BY Zenon DEF AppendTurn
<1>4. file' = file
  <2>1. file' = [i \in 1 .. Len(file) |-> file[i]]
    BY <1>1, <1>2, <1>3 DEF WritePage
  <2> QED
    BY <1>1, <2>1
<1>5. TypeOK'
  BY <1>1, <1>3, <1>4, ConstantsAssumption DEF IInv, TypeOK
<1>6. PagesInv'
  <2>1. next_lsn' = current' * PerPage + Len(buf')
    <3>1. (current + 1) * PerPage = current * PerPage + PerPage
      BY <1>1, ConstantsAssumption
    <3>2. (current + 1) * PerPage \in Nat
      BY <1>1, ConstantsAssumption
    <3> QED
      BY <1>1, <1>3, <3>1, <3>2 DEF IInv, PagesInv
  <2>2. \A i \in 1 .. current' : Len(file'[i]) = PerPage
    BY <1>1, <1>2, <1>3, <1>4 DEF IInv, PagesInv
  <2> QED
    BY <1>1, <1>2, <1>3, <1>4, <2>1, <2>2 DEF PagesInv
<1> QED
  BY Zenon, <1>3, <1>4, <1>5, <1>6 DEF IInv

\* A process that opens the file goes on with the LSN the last one stopped at.
LEMMA ReopenStep ==
  ASSUME IInv, Reopen
  PROVE  IInv' /\ file' = file /\ next_lsn' = next_lsn
<1>1. /\ current \in Nat /\ next_lsn \in Nat /\ file \in Seq(Seq(Record))
      /\ buf \in Seq(Record) /\ Len(file) \in Nat
      /\ \A i \in DOMAIN file : Len(file[i]) <= PerPage
  BY DEF IInv, TypeOK
<1>2. pending' = <<>> /\ file' = file
  BY Zenon DEF Reopen
<1>3. CASE file = <<>>
  <2>1. current' = 0 /\ buf' = <<>> /\ next_lsn' = 0
    BY Zenon, <1>3 DEF Reopen
  <2>2. current = 0 /\ buf = <<>> /\ next_lsn = 0
    BY <1>1, <1>3, ConstantsAssumption DEF IInv, PagesInv
  <2> QED
    BY Zenon, <1>1, <1>2, <1>3, <2>1, <2>2, ConstantsAssumption DEF IInv, TypeOK, PagesInv
<1>4. CASE file # <<>>
  <2>1. /\ current' = Len(file) - 1 /\ buf' = file[Len(file)]
        /\ next_lsn' = current' * PerPage + Len(buf')
    BY Zenon, <1>4 DEF Reopen
  <2>2. Len(file) \in 1 .. current + 1
    BY <1>1, <1>4 DEF IInv, PagesInv
  <2>3. next_lsn' = next_lsn /\ buf' # <<>>
    <3>1. CASE Len(file) = current + 1
      BY <1>1, <2>1, <3>1 DEF IInv, PagesInv
    <3>2. CASE Len(file) = current
      <4>1. current' = current - 1 /\ Len(buf') = PerPage /\ buf = <<>>
        BY <1>1, <2>1, <2>2, <3>2 DEF IInv, PagesInv
      <4>2. (current - 1) * PerPage + PerPage = current * PerPage
        BY <1>1, ConstantsAssumption
      <4>3. next_lsn = current * PerPage + 0 /\ current * PerPage \in Nat
        BY <1>1, <4>1, ConstantsAssumption DEF IInv, PagesInv
      <4> QED
        BY <2>1, <4>1, <4>2, <4>3, ConstantsAssumption
    <3> QED
      BY Zenon, <3>1, <3>2 DEF IInv, PagesInv
  <2>4. TypeOK'
    BY <1>1, <1>2, <2>1, <2>2, <2>3 DEF TypeOK
  <2>5. PagesInv'
    <3>1. Len(file') = current' + 1 /\ file'[current' + 1] = buf'
      BY <1>1, <1>2, <2>1
    <3>2. \A i \in 1 .. current' : Len(file'[i]) = PerPage
      BY <1>1, <1>2, <2>1, <2>2 DEF IInv, PagesInv
    <3>3. Len(file') # current'
      BY <1>1, <1>2, <2>1
    <3> QED
      BY Zenon, <1>2, <2>1, <2>3, <3>1, <3>2, <3>3 DEF PagesInv
  <2> QED
    BY Zenon, <1>2, <2>3, <2>4, <2>5 DEF IInv
<1> QED
  BY Zenon, <1>3, <1>4

\* Steps that leave the file and the count alone leave every answer alone.
LEMMA SameAnswers ==
  ASSUME IInv, IInv', file' = file, next_lsn' = next_lsn
  PROVE  ReadBack' = ReadBack
<1>1. next_lsn \in Nat
  BY Zenon DEF IInv, TypeOK
<1>2. ASSUME NEW i \in 1 .. next_lsn PROVE ReadRecord(i - 1)' = ReadRecord(i - 1)
  <2>1. i - 1 \in 0 .. next_lsn - 1 /\ i - 1 \in 0 .. next_lsn' - 1
    BY <1>1
  <2>2. Found(i - 1) /\ Found(i - 1)'
    BY Zenon, <2>1, Located, LocatedNext DEF AllFound
  <2> QED
    BY Zenon, <2>2 DEF Found
<1> QED
  BY Zenon, <1>2 DEF ReadBack

LEMMA NextStep ==
  ASSUME IInv, [Next]_vars
  PROVE  IInv' /\ [Abstract!LogAppend]_<<ReadBack, next_lsn>>
<1>1. ASSUME NEW r \in Record, AppendRecord(r) PROVE IInv' /\ Abstract!LogAppend
  BY Zenon, <1>1, StoreStep DEF AppendRecord, Abstract!LogAppend
<1>2. ASSUME NEW r \in Record, AppendTurn(r)
      PROVE  IInv' /\ UNCHANGED <<ReadBack, next_lsn>>
  BY Zenon, <1>2, TurnStep, SameAnswers
<1>3. ASSUME AppendTurned PROVE IInv' /\ Abstract!LogAppend
  <2>1. pending[1] \in Record /\ buf = <<>>
    BY <1>3 DEF AppendTurned, IInv, TypeOK, PagesInv
  <2>2. Len(buf) < PerPage /\ Store(pending[1]) /\ current' = current
    BY <1>3, <2>1, ConstantsAssumption DEF AppendTurned
  <2> QED
    BY Zenon, <2>1, <2>2, StoreStep DEF Abstract!LogAppend
<1>4. ASSUME Reopen PROVE IInv' /\ UNCHANGED <<ReadBack, next_lsn>>
  BY Zenon, <1>4, ReopenStep, SameAnswers
<1>5. ASSUME UNCHANGED vars PROVE IInv' /\ UNCHANGED <<ReadBack, next_lsn>>
  <2>1. IInv'
    BY Zenon, <1>5 DEF vars, IInv, TypeOK, PagesInv
  <2> QED
    BY Zenon, <1>5, <2>1, SameAnswers DEF vars
<1> QED
  BY Zenon, <1>1, <1>2, <1>3, <1>4, <1>5 DEF Next, Idle

\* LogManager is an append-only log to its users: a record's LSN is the next
\* one, and from then on ReadRecord answers it at that LSN, through page turns
\* and through a crash after either write of Append.
THEOREM LogImplements == Spec => ImplementsAppendOnlyLog
<1>1. Init => IInv /\ Abstract!LogInit
  BY InitInv DEF Init, Abstract!LogInit, ReadBack
<1>2. IInv /\ [Next]_vars => IInv' /\ [Abstract!LogAppend]_<<ReadBack, next_lsn>>
  BY Zenon, NextStep
<1> QED
  BY <1>1, <1>2, PTL DEF Spec, ImplementsAppendOnlyLog, Abstract!LogSpec

----------------------------------------------------------------------------
(* Flattening a sequence of pages.                                          *)

\* A non-empty set of naturals has a least element.
LEMMA Least ==
  ASSUME NEW T \in SUBSET Nat, T # {}
  PROVE  \E x \in T : \A y \in T : x <= y
<1>1. PICK x \in T : \A y \in T : ~ (<<y, x>> \in OpToRel(<, Nat))
  BY Zenon, NatLessThanWellFounded, WFMin
<1>2. \A y \in T : ~ (y < x)
  BY Zenon, <1>1 DEF OpToRel
<1> QED
  BY <1>2

LEMMA Induct ==
  ASSUME NEW T, 0 \in T, \A n \in Nat : n \in T => n + 1 \in T
  PROVE  Nat \subseteq T
<1> DEFINE B == Nat \ T
<1>1. CASE B = {}
  BY Zenon, <1>1
<1>2. CASE B # {}
  <2>1. PICK x \in B : \A y \in B : x <= y
    <3> HIDE DEF B
    <3>1. B \in SUBSET Nat
      BY Zenon DEF B
    <3> QED BY Zenon, <1>2, <3>1, Least
  <2>2. x \in Nat /\ x # 0
    BY Zenon
  <2>3. x - 1 \in Nat /\ x - 1 \notin B
    BY <2>1, <2>2
  <2>4. (x - 1) + 1 = x
    BY <2>2
  <2> QED
    BY Zenon, <2>2, <2>3, <2>4
<1> QED
  BY Zenon, <1>1, <1>2

Rec(seqs, n, g) == g = [i \in 1 .. n |-> IF i = 1 THEN seqs[i] ELSE g[i-1] \o seqs[i]]

LEMMA FlattenExists ==
  ASSUME NEW seqs
  PROVE  \A n \in Nat : \E g : Rec(seqs, n, g)
<1> DEFINE T == {n \in Nat : \E g : Rec(seqs, n, g)}
<1>1. 0 \in T
  <2>1. Rec(seqs, 0, [i \in 1 .. 0 |-> 0])
    BY DEF Rec
  <2> QED BY Zenon, <2>1
<1>2. ASSUME NEW n \in Nat, n \in T PROVE n + 1 \in T
  <2>1. PICK g : Rec(seqs, n, g)
    BY Zenon, <1>2
  <2> DEFINE h == [i \in 1 .. n + 1 |-> IF i = 1 THEN seqs[i] ELSE g[i-1] \o seqs[i]]
  <2>2. \A i \in 1 .. n : g[i] = h[i]
    <3>1. \A i \in 1 .. n : g[i] = IF i = 1 THEN seqs[i] ELSE g[i-1] \o seqs[i]
      <4> DEFINE rhs == [i \in 1 .. n |-> IF i = 1 THEN seqs[i] ELSE g[i-1] \o seqs[i]]
      <4>1. g = rhs
        BY Zenon, <2>1 DEF Rec
      <4>2. \A i \in 1 .. n : rhs[i] = IF i = 1 THEN seqs[i] ELSE g[i-1] \o seqs[i]
        BY Zenon
      <4> HIDE DEF rhs
      <4> QED BY Zenon, <4>1, <4>2
    <3>2. \A i \in 1 .. n : i \in 1 .. n + 1
      OBVIOUS
    <3> QED BY Zenon, <3>1, <3>2
  <2>3. h = [i \in 1 .. n + 1 |-> IF i = 1 THEN seqs[i] ELSE h[i-1] \o seqs[i]]
    <3>1. \A i \in 1 .. n + 1 : i # 1 => i - 1 \in 1 .. n
      OBVIOUS
    <3>2. \A i \in 1 .. n + 1 : i # 1 => g[i - 1] = h[i - 1]
      BY Zenon, <2>2, <3>1
    <3> HIDE DEF h
    <3>3. \A i \in 1 .. n + 1 : (IF i = 1 THEN seqs[i] ELSE g[i-1] \o seqs[i]) = (IF i = 1 THEN seqs[i] ELSE h[i-1] \o seqs[i])
      BY Zenon, <3>2
    <3> QED BY Zenon, <3>3 DEF h
  <2>4. Rec(seqs, n + 1, h)
    BY Zenon, <2>3 DEF Rec
  <2> HIDE DEF h
  <2>5. n + 1 \in Nat
    OBVIOUS
  <2> QED BY <2>4, <2>5, Zenon
<1> HIDE DEF T
<1>3. Nat \subseteq T
  BY <1>1, <1>2, Induct, Zenon
<1> QED
  BY Zenon, <1>3 DEF T

LEMMA FlattenDef ==
  ASSUME NEW seqs, Len(seqs) \in Nat, Len(seqs) # 0
  PROVE  \E g : Rec(seqs, Len(seqs), g) /\ FlattenSeq(seqs) = g[Len(seqs)]
<1> DEFINE f == CHOOSE g : g = [i \in 1 .. Len(seqs) |-> IF i = 1 THEN seqs[i] ELSE g[i-1] \o seqs[i]]
<1>1. \E g : g = [i \in 1 .. Len(seqs) |-> IF i = 1 THEN seqs[i] ELSE g[i-1] \o seqs[i]]
  BY Zenon, FlattenExists DEF Rec
<1>2. f = [i \in 1 .. Len(seqs) |-> IF i = 1 THEN seqs[i] ELSE f[i-1] \o seqs[i]]
  BY Zenon, <1>1
<1>3. FlattenSeq(seqs) = f[Len(seqs)]
  BY Zenon DEF FlattenSeq
<1> HIDE DEF f
<1> QED BY Zenon, <1>2, <1>3 DEF Rec

\* The pages P laid out one after the other: page i ends at offset o[i].
IsLaid(P, o) ==
  /\ o[0] = 0
  /\ \A i \in 1 .. Len(P) : o[i - 1] \in Nat /\ o[i] \in Nat /\ o[i] = o[i - 1] + Len(P[i])

\* The sequence w holds the first n pages in their places.
Holds(w, P, o, n) ==
  /\ w \in Seq(Record) /\ Len(w) = o[n]
  /\ \A i \in 1 .. n : \A b \in 1 .. Len(P[i]) :
       o[i - 1] + b \in 1 .. Len(w) /\ w[o[i - 1] + b] = P[i][b]

LEMMA HoldsFirst ==
  ASSUME NEW P \in Seq(Seq(Record)), NEW o, IsLaid(P, o), Len(P) # 0
  PROVE  Holds(P[1], P, o, 1)
<1>1. P[1] \in Seq(Record) /\ 1 \in 1 .. Len(P)
  OBVIOUS
<1>2. 1 - 1 = 0 /\ o[0] = 0
  BY DEF IsLaid
<1>3. o[1] = o[1 - 1] + Len(P[1])
  BY Zenon, <1>1 DEF IsLaid
<1>4. o[1] = Len(P[1])
  BY <1>1, <1>2, <1>3
<1>5. \A i \in 1 .. 1 : i = 1 /\ i - 1 = 0
  OBVIOUS
<1>6. \A b \in 1 .. Len(P[1]) : 0 + b = b
  BY <1>1
<1> QED
  BY Zenon, <1>1, <1>2, <1>4, <1>5, <1>6 DEF Holds

LEMMA HoldsNext ==
  ASSUME NEW P \in Seq(Seq(Record)), NEW o, IsLaid(P, o), NEW n \in Nat, n # 0, n + 1 <= Len(P),
         NEW w, Holds(w, P, o, n)
  PROVE  Holds(w \o P[n + 1], P, o, n + 1)
<1> DEFINE t == P[n + 1]
           v == w \o t
<1>1. t \in Seq(Record) /\ w \in Seq(Record) /\ n + 1 \in 1 .. Len(P) /\ (n + 1) - 1 = n
  BY DEF Holds
<1>2. o[n + 1] = o[(n + 1) - 1] + Len(t) /\ Len(w) = o[n]
  BY Zenon, <1>1 DEF IsLaid, Holds
<1>3. o[n + 1] = Len(w) + Len(t)
  BY Zenon, <1>1, <1>2
<1> HIDE DEF t
<1>4. v \in Seq(Record) /\ Len(v) = Len(w) + Len(t)
  BY <1>1
<1>5. \A x \in 1 .. Len(w) : x \in 1 .. Len(v) /\ v[x] = w[x]
  BY <1>1
<1>6. \A b \in 1 .. Len(t) : Len(w) + b \in 1 .. Len(v) /\ v[Len(w) + b] = t[b]
  BY <1>1
<1> HIDE DEF v
<1>7. ASSUME NEW i \in 1 .. n + 1, NEW b \in 1 .. Len(P[i])
      PROVE  o[i - 1] + b \in 1 .. Len(v) /\ v[o[i - 1] + b] = P[i][b]
  <2>1. CASE i = n + 1
    <3>1. o[i - 1] = Len(w) /\ P[i] = t
      BY Zenon, <1>1, <1>2, <2>1 DEF t
    <3> QED
      BY Zenon, <1>6, <3>1
  <2>2. CASE i # n + 1
    <3>1. i \in 1 .. n
      BY <2>2
    <3>2. o[i - 1] + b \in 1 .. Len(w) /\ w[o[i - 1] + b] = P[i][b]
      BY Zenon, <3>1 DEF Holds
    <3> QED
      BY Zenon, <1>5, <3>2
  <2> QED
    BY Zenon, <2>1, <2>2
<1>8. Len(v) = o[n + 1]
  BY Zenon, <1>3, <1>4
<1>9. Holds(v, P, o, n + 1)
  BY Zenon, <1>4, <1>7, <1>8 DEF Holds
<1> QED
  BY Zenon, <1>9 DEF v, t

\* What flattening pages gives.
LEMMA LaidFlat ==
  ASSUME NEW P \in Seq(Seq(Record)), Len(P) # 0, NEW o, IsLaid(P, o)
  PROVE  Holds(FlattenSeq(P), P, o, Len(P))
<1>0. Len(P) \in Nat
  OBVIOUS
<1>1. PICK g : Rec(P, Len(P), g) /\ FlattenSeq(P) = g[Len(P)]
  BY Zenon, <1>0, FlattenDef
<1>2. \A i \in 1 .. Len(P) : g[i] = IF i = 1 THEN P[i] ELSE g[i - 1] \o P[i]
  <2> DEFINE rhs == [i \in 1 .. Len(P) |-> IF i = 1 THEN P[i] ELSE g[i - 1] \o P[i]]
  <2>1. g = rhs
    BY Zenon, <1>1 DEF Rec
  <2>2. \A i \in 1 .. Len(P) : rhs[i] = IF i = 1 THEN P[i] ELSE g[i - 1] \o P[i]
    BY Zenon
  <2> HIDE DEF rhs
  <2> QED
    BY Zenon, <2>1, <2>2
<1> DEFINE T == {n \in Nat : n + 1 <= Len(P) => Holds(g[n + 1], P, o, n + 1)}
<1>3. 0 \in T
  <2>1. 0 + 1 = 1 /\ 1 \in 1 .. Len(P)
    BY <1>0
  <2>2. g[1] = P[1]
    BY Zenon, <1>2, <2>1
  <2>3. Holds(g[1], P, o, 1)
    BY Zenon, <2>2, HoldsFirst
  <2> QED
    BY Zenon, <2>1, <2>3
<1>4. ASSUME NEW n \in Nat, n \in T
      PROVE  n + 1 \in T
  <2> SUFFICES ASSUME (n + 1) + 1 <= Len(P)
               PROVE  Holds(g[(n + 1) + 1], P, o, (n + 1) + 1)
    OBVIOUS
  <2>1. /\ n + 1 \in Nat /\ n + 1 # 0 /\ n + 1 <= Len(P)
        /\ (n + 1) + 1 \in 1 .. Len(P) /\ (n + 1) + 1 # 1 /\ ((n + 1) + 1) - 1 = n + 1
    BY <1>0
  <2>2. Holds(g[n + 1], P, o, n + 1)
    BY Zenon, <1>4, <2>1
  <2>3. g[(n + 1) + 1] = g[((n + 1) + 1) - 1] \o P[(n + 1) + 1]
    BY Zenon, <1>2, <2>1
  <2> DEFINE m == n + 1
  <2>4. g[m + 1] = g[m] \o P[m + 1]
    BY Zenon, <2>1, <2>3
  <2>5. m \in Nat /\ m # 0 /\ m + 1 <= Len(P) /\ Holds(g[m], P, o, m)
    BY Zenon, <2>1, <2>2
  <2> HIDE DEF m
  <2>6. Holds(g[m] \o P[m + 1], P, o, m + 1)
    BY Zenon, <2>5, HoldsNext
  <2>7. Holds(g[m + 1], P, o, m + 1)
    BY Zenon, <2>4, <2>6
  <2> QED
    BY Zenon, <2>7 DEF m
<1> HIDE DEF T
<1>5. Nat \subseteq T
  BY Zenon, <1>3, <1>4, Induct
<1>6. Len(P) - 1 \in Nat /\ (Len(P) - 1) + 1 = Len(P) /\ (Len(P) - 1) + 1 <= Len(P)
  BY <1>0
<1>7. Holds(g[(Len(P) - 1) + 1], P, o, (Len(P) - 1) + 1)
  BY Zenon, <1>5, <1>6 DEF T
<1> QED
  BY Zenon, <1>1, <1>6, <1>7

----------------------------------------------------------------------------
(* The pages of the log.                                                    *)

LEMMA PageEnds ==
  ASSUME NEW i \in Nat
  PROVE  i * PerPage \in Nat /\ (i + 1) * PerPage = i * PerPage + PerPage
BY ConstantsAssumption

\* The file from its first record on.
LEMMA FileLaid ==
  ASSUME IInv, NEW o, o = [i \in 0 .. Len(file) |-> IF i <= current THEN i * PerPage ELSE next_lsn]
  PROVE  IsLaid(file, o) /\ o[Len(file)] = next_lsn
<1>a. /\ current \in Nat /\ next_lsn \in Nat /\ file \in Seq(Seq(Record)) /\ buf \in Seq(Record)
      /\ Len(file) = current \/ Len(file) = current + 1
      /\ next_lsn = current * PerPage + Len(buf)
  BY Zenon DEF IInv, TypeOK, PagesInv
<1>b. current * PerPage \in Nat
  BY Zenon, <1>a, PageEnds
<1>c. PerPage \in Nat /\ Len(file) \in Nat /\ Len(buf) \in Nat
  BY <1>a, ConstantsAssumption
<1>0. /\ current \in Nat /\ next_lsn \in Nat /\ file \in Seq(Seq(Record)) /\ buf \in Seq(Record)
      /\ Len(file) = current \/ Len(file) = current + 1
      /\ next_lsn = current * PerPage + Len(buf) /\ current * PerPage \in Nat
      /\ PerPage \in Nat /\ Len(file) \in Nat /\ Len(buf) \in Nat
  BY Zenon, <1>a, <1>b, <1>c
<1>1. \A i \in 0 .. Len(file) : o[i] = IF i <= current THEN i * PerPage ELSE next_lsn
  BY Zenon
<1>2. o[0] = 0
  BY <1>0, <1>1, ConstantsAssumption
<1>3. ASSUME NEW i \in 1 .. Len(file)
      PROVE  o[i - 1] \in Nat /\ o[i] \in Nat /\ o[i] = o[i - 1] + Len(file[i])
  <2>1. i - 1 \in Nat /\ i - 1 \in 0 .. Len(file) /\ i \in 0 .. Len(file) /\ i - 1 <= current
    BY <1>0
  <2>2. (i - 1) * PerPage \in Nat /\ ((i - 1) + 1) * PerPage = (i - 1) * PerPage + PerPage
    BY Zenon, <2>1, PageEnds
  <2>3. (i - 1) + 1 = i
    OBVIOUS
  <2>4. i * PerPage = (i - 1) * PerPage + PerPage
    BY Zenon, <2>2, <2>3
  <2>5. o[i - 1] = (i - 1) * PerPage
    BY Zenon, <1>1, <2>1
  <2>6. CASE i <= current
    <3>1. o[i] = i * PerPage
      BY Zenon, <1>1, <2>1, <2>6
    <3>2. Len(file[i]) = PerPage
      BY <2>6 DEF IInv, PagesInv
    <3> DEFINE x == (i - 1) * PerPage
    <3>3. x \in Nat /\ o[i - 1] = x /\ o[i] = x + PerPage
      BY Zenon, <2>2, <2>4, <2>5, <3>1
    <3>4. PerPage \in Nat
      BY Zenon, <1>0
    <3> HIDE DEF x
    <3>5. x + PerPage \in Nat
      BY <3>3, <3>4
    <3> QED
      BY Zenon, <3>2, <3>3, <3>5
  <2>7. CASE ~(i <= current)
    <3>1. i = current + 1 /\ i - 1 = current /\ Len(file) = current + 1
      BY <1>0, <2>7
    <3>2. o[i] = next_lsn
      BY Zenon, <1>1, <2>1, <2>7
    <3>3. file[i] = buf
      BY Zenon, <3>1 DEF IInv, PagesInv
    <3>4. o[i - 1] = current * PerPage
      BY Zenon, <2>5, <3>1
    <3> QED
      BY Zenon, <1>0, <3>2, <3>3, <3>4
  <2> QED
    BY Zenon, <2>6, <2>7
<1>4. o[Len(file)] = next_lsn
  <2>1. Len(file) \in 0 .. Len(file)
    BY <1>0
  <2>2. CASE Len(file) = current
    <3>1. Len(buf) = 0 /\ next_lsn = current * PerPage
      BY <1>0, <2>2 DEF IInv, PagesInv
    <3>2. Len(file) <= current
      BY <1>0, <2>2
    <3> QED
      BY Zenon, <1>1, <2>1, <2>2, <3>1, <3>2
  <2>3. CASE Len(file) = current + 1
    <3>1. ~(Len(file) <= current)
      BY <1>0, <2>3
    <3> QED
      BY Zenon, <1>1, <2>1, <3>1
  <2> QED
    BY Zenon, <1>0, <2>2, <2>3
<1> QED
  BY Zenon, <1>2, <1>3, <1>4 DEF IsLaid

\* The file read from front to back is the sequence of the records of the LSNs.
IsWritten ==
  /\ Written \in Seq(Record) /\ Len(Written) = next_lsn
  /\ \A lsn \in 0 .. next_lsn - 1 : ReadRecord(lsn) = Written[lsn + 1]

LEMMA WrittenIs == IInv => IsWritten
<1> SUFFICES ASSUME IInv PROVE IsWritten
  BY Zenon
<1>0. /\ current \in Nat /\ next_lsn \in Nat /\ file \in Seq(Seq(Record)) /\ buf \in Seq(Record)
      /\ next_lsn = current * PerPage + Len(buf)
      /\ Len(file) = current \/ Len(file) = current + 1
      /\ Len(file) \in Nat
  BY DEF IInv, TypeOK, PagesInv
<1>1. CASE Len(file) = 0
  <2>1. next_lsn = 0
    <3>1. current = 0 /\ buf = <<>>
      BY <1>0, <1>1 DEF IInv, PagesInv
    <3> QED
      BY <1>0, <3>1, ConstantsAssumption
  <2>2. Written = file /\ file = <<>>
    BY <1>0, <1>1 DEF Written, FlattenSeq
  <2> QED
    BY <2>1, <2>2 DEF IsWritten
<1>2. CASE Len(file) # 0
  <2>1. PICK o : o = [i \in 0 .. Len(file) |-> IF i <= current THEN i * PerPage ELSE next_lsn]
    BY Zenon
  <2>2. IsLaid(file, o) /\ o[Len(file)] = next_lsn
    BY Zenon, <2>1, FileLaid
  <2>3. Holds(Written, file, o, Len(file))
    BY Zenon, <1>0, <1>2, <2>2, LaidFlat DEF Written
  <2>4. Written \in Seq(Record) /\ Len(Written) = next_lsn
    BY Zenon, <2>2, <2>3 DEF Holds
  <2>5. ASSUME NEW lsn \in 0 .. next_lsn - 1
        PROVE  ReadRecord(lsn) = Written[lsn + 1]
    <3> DEFINE c == lsn \div PerPage
               b == lsn % PerPage
    <3>1. /\ c \in 0 .. current /\ b \in 0 .. PerPage - 1
          /\ c = current => b < Len(buf)
          /\ c < Len(file) /\ ReadRecord(lsn) = file[c + 1][b + 1]
      BY Zenon, Located DEF AllFound, Found
    <3>2. lsn = c * PerPage + b /\ c \in Nat
      BY <1>0, Division
    <3> HIDE DEF c, b
    <3>3. c + 1 \in 1 .. Len(file) /\ (c + 1) - 1 = c /\ c \in 0 .. Len(file) /\ c <= current
      <4>1. c <= current /\ c < Len(file)
        BY <3>1
      <4> QED
        BY <1>0, <3>2, <4>1
    <3>4. o[c] = c * PerPage
      BY Zenon, <2>1, <3>3
    <3>5. b + 1 \in 1 .. Len(file[c + 1])
      <4>1. c # current => Len(file[c + 1]) = PerPage
        BY <1>0, <3>1 DEF IInv, PagesInv
      <4>2. c = current => Len(file[c + 1]) = Len(buf) /\ Len(buf) \in Nat
        BY <1>0, <3>1, <3>3 DEF IInv, PagesInv
      <4> QED
        BY <3>1, <4>1, <4>2, ConstantsAssumption
    <3>6. Written[o[(c + 1) - 1] + (b + 1)] = file[c + 1][b + 1]
      BY Zenon, <2>3, <3>3, <3>5 DEF Holds
    <3>7. o[(c + 1) - 1] + (b + 1) = lsn + 1
      <4>1. o[(c + 1) - 1] = c * PerPage /\ c * PerPage \in Nat /\ b \in Nat
        BY <3>1, <3>2, <3>3, <3>4, PageEnds
      <4> DEFINE x == c * PerPage
      <4>2. o[(c + 1) - 1] = x /\ x \in Nat /\ b \in Nat /\ lsn = x + b
        BY Zenon, <3>2, <4>1
      <4> HIDE DEF x
      <4> QED
        BY <4>2
    <3> QED
      BY Zenon, <3>1, <3>6, <3>7
  <2> QED
    BY Zenon, <2>4, <2>5 DEF IsWritten
<1> QED
  BY Zenon, <1>1, <1>2

\* The page an LSN of the log ends on.
LastPage == (next_lsn - 1) \div PerPage

\* Page p as read is laid in the file from p * PerPage on, full unless it is
\* the last.
PageIs(p) ==
  /\ PageAt(p) \in Seq(Record) /\ Len(PageAt(p)) \in Nat
  /\ p < LastPage => Len(PageAt(p)) = PerPage
  /\ p = LastPage => Len(PageAt(p)) = next_lsn - p * PerPage
  /\ \A j \in 1 .. Len(PageAt(p)) : Written[p * PerPage + j] = PageAt(p)[j]

LEMMA LastIs ==
  ASSUME IInv, next_lsn # 0
  PROVE  /\ LastPage \in 0 .. current /\ LastPage < Len(file)
         /\ next_lsn - LastPage * PerPage = IF LastPage = current THEN Len(buf) ELSE PerPage
<1>0. /\ current \in Nat /\ next_lsn \in Nat /\ buf \in Seq(Record) /\ Len(buf) \in Nat
      /\ next_lsn = current * PerPage + Len(buf)
  BY DEF IInv, TypeOK, PagesInv
<1>1. next_lsn - 1 \in 0 .. next_lsn - 1 /\ next_lsn - 1 \in Nat
  BY <1>0
<1> DEFINE b == (next_lsn - 1) % PerPage
           x == LastPage * PerPage
           y == current * PerPage
<1>2. LastPage \in 0 .. current /\ b \in 0 .. PerPage - 1 /\ LastPage < Len(file)
  BY Zenon, <1>1, Located DEF AllFound, Found, LastPage
<1>3. next_lsn - 1 = x + b
  BY Zenon, <1>1, Division DEF LastPage
<1>4. LastPage \in Nat
  BY <1>2
<1>5. x \in Nat /\ y \in Nat
  BY Zenon, <1>0, <1>4, PageEnds
<1>6. next_lsn = y + Len(buf)
  BY Zenon, <1>0
<1>7. LastPage = current => x = y
  BY Zenon
<1>8. LastPage # current => x + PerPage <= y
  <2>1. LastPage # current => LastPage < current
    BY <1>0, <1>2
  <2> QED
    BY Zenon, <1>0, <1>4, <2>1, Products
<1>9. PerPage \in Nat
  BY Zenon, ConstantsAssumption
<1> HIDE DEF b, x, y
<1>10. next_lsn - x = IF LastPage = current THEN Len(buf) ELSE PerPage
  BY <1>0, <1>2, <1>3, <1>5, <1>6, <1>7, <1>8, <1>9
<1> QED
  BY Zenon, <1>2, <1>10 DEF x

LEMMA PagesAre ==
  ASSUME IInv, next_lsn # 0, NEW p \in 0 .. LastPage
  PROVE  PageIs(p)
<1>0. /\ current \in Nat /\ next_lsn \in Nat /\ file \in Seq(Seq(Record)) /\ buf \in Seq(Record)
      /\ Len(buf) \in Nat /\ Len(file) \in Nat
  BY DEF IInv, TypeOK
<1>1. /\ LastPage \in 0 .. current /\ LastPage < Len(file)
      /\ next_lsn - LastPage * PerPage = IF LastPage = current THEN Len(buf) ELSE PerPage
  BY Zenon, LastIs
<1>2. /\ p \in Nat /\ p <= current /\ p < Len(file) /\ p + 1 \in 1 .. Len(file) /\ (p + 1) - 1 = p
      /\ p \in 0 .. Len(file) /\ (p = current => LastPage = current)
      /\ (p < LastPage => p # current /\ p + 1 \in 1 .. current)
  BY <1>0, <1>1
<1>3. PageAt(p) = file[p + 1]
  <2>1. p = current => file[p + 1] = buf
    BY Zenon, <1>0, <1>2 DEF IInv, PagesInv
  <2> QED
    BY Zenon, <1>2, <2>1 DEF PageAt
<1>4. PageAt(p) \in Seq(Record) /\ Len(PageAt(p)) \in Nat
  BY <1>0, <1>2, <1>3
<1>5. p # current => Len(PageAt(p)) = PerPage
  <2>1. p # current => p + 1 \in 1 .. current
    BY <1>0, <1>2
  <2> QED
    BY Zenon, <1>3, <2>1 DEF IInv, PagesInv
<1>6. p = current => Len(PageAt(p)) = Len(buf)
  BY Zenon DEF PageAt
<1>7. ASSUME NEW j \in 1 .. Len(PageAt(p))
      PROVE  Written[p * PerPage + j] = PageAt(p)[j]
  <2>1. PICK o : o = [i \in 0 .. Len(file) |-> IF i <= current THEN i * PerPage ELSE next_lsn]
    BY Zenon
  <2>2. Len(file) # 0
    BY <1>0, <1>2
  <2>3. Holds(Written, file, o, Len(file))
    BY Zenon, <1>0, <2>1, <2>2, FileLaid, LaidFlat DEF Written
  <2>4. Written[o[(p + 1) - 1] + j] = file[p + 1][j]
    BY Zenon, <1>2, <1>3, <1>7, <2>3 DEF Holds
  <2>5. o[p] = p * PerPage
    BY Zenon, <1>2, <2>1
  <2> QED
    BY Zenon, <1>2, <1>3, <2>4, <2>5
<1> QED
  BY Zenon, <1>1, <1>2, <1>4, <1>5, <1>6, <1>7 DEF PageIs

\* What ReadFrom takes of page p, and the pieces it takes in order.
From(start, p) == IF p = start \div PerPage THEN (start % PerPage) + 1 ELSE 1

Piece(start, p) == SubSeq(PageAt(p), From(start, p), Len(PageAt(p)))

Pieces(start) ==
  [i \in 1 .. LastPage - (start \div PerPage) + 1 |-> Piece(start, (start \div PerPage) + i - 1)]

\* Where the page ends, and where each piece ends in what ReadFrom returns.
End(p) == IF p = LastPage THEN next_lsn ELSE (p + 1) * PerPage

Offsets(start) ==
  [i \in 0 .. LastPage - (start \div PerPage) + 1 |->
     IF i = 0 THEN 0 ELSE End((start \div PerPage) + i - 1) - start]

LEMMA ReadsPieces ==
  ASSUME NEW start, ~(start >= next_lsn)
  PROVE  ReadFrom(start) = FlattenSeq(Pieces(start))
BY Zenon DEF ReadFrom, Pieces, Piece, From, LastPage

\* Page p begins at p * PerPage, which is where the page before it ends.
LEMMA EndIs ==
  ASSUME IInv, next_lsn # 0, NEW p \in 0 .. LastPage
  PROVE  /\ p * PerPage \in Nat /\ End(p) \in Nat
         /\ End(p) = p * PerPage + Len(PageAt(p))
         /\ p # 0 => End(p - 1) = p * PerPage
<1>0. next_lsn \in Nat /\ LastPage \in Nat /\ p \in Nat
  <2>1. current \in Nat /\ next_lsn \in Nat /\ LastPage \in 0 .. current
    BY Zenon, LastIs DEF IInv, TypeOK
  <2> QED
    BY <2>1
<1>1. PageIs(p)
  BY Zenon, PagesAre
<1>2. p * PerPage \in Nat /\ (p + 1) * PerPage = p * PerPage + PerPage
  BY Zenon, <1>0, PageEnds
<1>3. (p < LastPage \/ p = LastPage) /\ (p < LastPage => p # LastPage)
  BY <1>0
<1>4. PerPage \in Nat
  BY Zenon, ConstantsAssumption
<1>5. End(p) \in Nat /\ End(p) = p * PerPage + Len(PageAt(p))
  <2> DEFINE x == p * PerPage
  <2>1. x \in Nat /\ (p + 1) * PerPage = x + PerPage
    BY Zenon, <1>2
  <2>2. Len(PageAt(p)) \in Nat /\ (p < LastPage => Len(PageAt(p)) = PerPage) /\ (p = LastPage => Len(PageAt(p)) = next_lsn - x)
    BY Zenon, <1>1 DEF PageIs
  <2>3. End(p) = IF p = LastPage THEN next_lsn ELSE x + PerPage
    BY Zenon, <2>1 DEF End
  <2> HIDE DEF x
  <2>4. End(p) \in Nat /\ End(p) = x + Len(PageAt(p))
    BY <1>0, <1>3, <1>4, <2>1, <2>2, <2>3
  <2> QED
    BY Zenon, <2>4 DEF x
<1>6. ASSUME p # 0
      PROVE  End(p - 1) = p * PerPage
  <2>1. p - 1 # LastPage /\ (p - 1) + 1 = p
    BY <1>0
  <2> QED
    BY Zenon, <2>1 DEF End
<1> QED
  BY Zenon, <1>2, <1>5, <1>6

\* An LSN: its page, its place on it.
LEMMA Place ==
  ASSUME IInv, NEW lsn \in 0 .. next_lsn - 1
  PROVE  /\ lsn \div PerPage \in 0 .. LastPage /\ lsn % PerPage \in 0 .. Len(PageAt(lsn \div PerPage)) - 1
         /\ lsn = (lsn \div PerPage) * PerPage + (lsn % PerPage)
<1>0. next_lsn \in Nat /\ lsn \in Nat /\ next_lsn # 0 /\ next_lsn - 1 \in Nat /\ lsn <= next_lsn - 1
  BY DEF IInv, TypeOK
<1> DEFINE c == lsn \div PerPage
           b == lsn % PerPage
           l == next_lsn - 1
<1>1. c \in Nat /\ b \in 0 .. PerPage - 1 /\ lsn = c * PerPage + b
  BY Zenon, <1>0, Division
<1>2. LastPage \in Nat /\ l % PerPage \in 0 .. PerPage - 1 /\ l = LastPage * PerPage + (l % PerPage)
  BY Zenon, <1>0, Division DEF LastPage
<1>3. c <= LastPage
  <2>1. SUFFICES ASSUME LastPage < c PROVE FALSE
    BY <1>1, <1>2
  <2>2. LastPage * PerPage + PerPage <= c * PerPage
    BY Zenon, <1>1, <1>2, <2>1, Products
  <2>3. LastPage * PerPage \in Nat /\ c * PerPage \in Nat
    BY Zenon, <1>1, <1>2, PageEnds
  <2> DEFINE x == LastPage * PerPage
             y == c * PerPage
             r == l % PerPage
  <2>4. x \in Nat /\ y \in Nat /\ x + PerPage <= y /\ l = x + r /\ lsn = y + b /\ r \in 0 .. PerPage - 1
        /\ b \in 0 .. PerPage - 1 /\ lsn <= l /\ PerPage \in Nat
    BY Zenon, <1>0, <1>1, <1>2, <2>2, <2>3, ConstantsAssumption
  <2> HIDE DEF x, y, r, l, c, b
  <2> QED
    BY <2>4
<1>4. c \in 0 .. LastPage
  BY <1>1, <1>2, <1>3
<1>5. PageIs(c)
  BY Zenon, <1>0, <1>4, PagesAre
<1>6. b < Len(PageAt(c))
  <2>1. CASE c = LastPage
    <3> DEFINE x == c * PerPage
    <3>1. x \in Nat /\ lsn = x + b /\ Len(PageAt(c)) = next_lsn - x
      BY Zenon, <1>1, <1>5, <2>1, PageEnds DEF PageIs
    <3> HIDE DEF x, b, c
    <3> QED
      BY <1>0, <1>1, <3>1
  <2>2. CASE c < LastPage
    <3>1. Len(PageAt(c)) = PerPage
      BY Zenon, <1>5, <2>2 DEF PageIs
    <3> HIDE DEF b, c
    <3> QED
      BY <1>1, <3>1, ConstantsAssumption
  <2> HIDE DEF c, b
  <2>3. c = LastPage \/ c < LastPage
    BY <1>2, <1>4
  <2> QED
    BY Zenon, <2>1, <2>2, <2>3
<1>7. b \in 0 .. Len(PageAt(c)) - 1
  <2>1. Len(PageAt(c)) \in Nat /\ PerPage \in Nat
    BY Zenon, <1>5, ConstantsAssumption DEF PageIs
  <2> HIDE DEF b, c
  <2> QED
    BY <1>1, <1>6, <2>1
<1> QED
  BY Zenon, <1>1, <1>4, <1>7

\* A suffix of a sequence.
LEMMA SuffixOf ==
  ASSUME NEW s \in Seq(Record), NEW a \in 1 .. Len(s) + 1
  PROVE  /\ SubSeq(s, a, Len(s)) \in Seq(Record) /\ Len(SubSeq(s, a, Len(s))) = Len(s) - a + 1
         /\ \A j \in 1 .. Len(s) - a + 1 : SubSeq(s, a, Len(s))[j] = s[a + j - 1]
OBVIOUS

LEMMA PieceIs ==
  ASSUME IInv, NEW start \in 0 .. next_lsn - 1, NEW p \in (start \div PerPage) .. LastPage
  PROVE  /\ From(start, p) \in 1 .. Len(PageAt(p)) + 1
         /\ Piece(start, p) \in Seq(Record)
         /\ Len(Piece(start, p)) = Len(PageAt(p)) - From(start, p) + 1
         /\ \A j \in 1 .. Len(PageAt(p)) - From(start, p) + 1 :
              Piece(start, p)[j] = PageAt(p)[From(start, p) + j - 1]
<1>0. next_lsn \in Nat /\ next_lsn # 0
  BY DEF IInv, TypeOK
<1>1. /\ start \div PerPage \in 0 .. LastPage
      /\ start % PerPage \in 0 .. Len(PageAt(start \div PerPage)) - 1
  BY Zenon, Place
<1>2. p \in 0 .. LastPage
  <2> DEFINE c == start \div PerPage
  <2>1. c \in 0 .. LastPage /\ p \in c .. LastPage
    BY Zenon, <1>1
  <2> HIDE DEF c
  <2> QED
    BY <2>1
<1>3. PageAt(p) \in Seq(Record) /\ Len(PageAt(p)) \in Nat
  BY Zenon, <1>0, <1>2, PagesAre DEF PageIs
<1>4. From(start, p) \in 1 .. Len(PageAt(p)) + 1
  <2>1. CASE p = start \div PerPage
    <3> DEFINE b == start % PerPage
    <3>1. From(start, p) = b + 1 /\ b \in 0 .. Len(PageAt(p)) - 1
      BY Zenon, <1>1, <2>1 DEF From
    <3> HIDE DEF b
    <3> QED
      BY <1>3, <3>1
  <2>2. CASE p # start \div PerPage
    <3>1. From(start, p) = 1
      BY Zenon, <2>2 DEF From
    <3> QED
      BY <1>3, <3>1
  <2> QED
    BY Zenon, <2>1, <2>2
<1> QED
  BY Zenon, <1>3, <1>4, SuffixOf DEF Piece

\* The pieces are laid out as Offsets says.
LEMMA PiecesLaid ==
  ASSUME IInv, NEW start \in 0 .. next_lsn - 1
  PROVE  /\ Pieces(start) \in Seq(Seq(Record))
         /\ Len(Pieces(start)) = LastPage - (start \div PerPage) + 1 /\ Len(Pieces(start)) # 0
         /\ IsLaid(Pieces(start), Offsets(start))
<1> DEFINE c == start \div PerPage
           b == start % PerPage
           n == LastPage - c + 1
           P == Pieces(start)
           o == Offsets(start)
<1>0. next_lsn \in Nat /\ next_lsn # 0 /\ start \in Nat
  BY DEF IInv, TypeOK
<1>1. c \in 0 .. LastPage /\ b \in 0 .. Len(PageAt(c)) - 1 /\ start = c * PerPage + b
  BY Zenon, Place
<1>2. P = [i \in 1 .. n |-> Piece(start, c + i - 1)]
  BY Zenon DEF Pieces
<1>3. o = [i \in 0 .. n |-> IF i = 0 THEN 0 ELSE End(c + i - 1) - start]
  BY Zenon DEF Offsets
<1>4. \A p \in c .. LastPage : Piece(start, p) \in Seq(Record)
  BY Zenon, PieceIs
<1>5. \A p \in c .. LastPage :
        /\ From(start, p) = IF p = c THEN b + 1 ELSE 1
        /\ Len(Piece(start, p)) = Len(PageAt(p)) - From(start, p) + 1
  BY Zenon, PieceIs DEF From
<1>6. \A p \in 0 .. LastPage :
        /\ p * PerPage \in Nat /\ End(p) \in Nat
        /\ End(p) = p * PerPage + Len(PageAt(p))
        /\ p # 0 => End(p - 1) = p * PerPage
  BY Zenon, <1>0, EndIs
<1>7. \A p \in 0 .. LastPage : Len(PageAt(p)) \in Nat
  BY Zenon, <1>0, PagesAre DEF PageIs
<1>8. LastPage \in Nat
  BY <1>0, Division DEF LastPage
<1> HIDE DEF c, b, n, P, o
<1>9. n \in Nat /\ n # 0 /\ \A i \in 1 .. n : c + i - 1 \in c .. LastPage /\ c + i - 1 \in 0 .. LastPage
  BY <1>1, <1>8 DEF n
<1>10. P \in Seq(Seq(Record)) /\ Len(P) = n
  <2>1. \A i \in 1 .. n : Piece(start, c + i - 1) \in Seq(Record)
    BY Zenon, <1>4, <1>9
  <2> QED
    BY <1>2, <1>9, <2>1
<1>11. \A i \in 1 .. n : P[i] = Piece(start, c + i - 1)
  BY Zenon, <1>2
<1>12. o[0] = 0
  BY <1>3, <1>9
<1>13. ASSUME NEW i \in 1 .. n
       PROVE  o[i - 1] \in Nat /\ o[i] \in Nat /\ o[i] = o[i - 1] + Len(P[i])
  <2> DEFINE p == c + i - 1
             x == p * PerPage
             L == Len(PageAt(p))
  <2>1. p \in c .. LastPage /\ p \in 0 .. LastPage
    BY Zenon, <1>9
  <2>0. p \in 0 .. LastPage =>
          /\ p * PerPage \in Nat /\ End(p) \in Nat
          /\ End(p) = p * PerPage + Len(PageAt(p))
          /\ p # 0 => End(p - 1) = p * PerPage
    BY Zenon, <1>6
  <2>2. x \in Nat /\ L \in Nat /\ End(p) = x + L /\ (p # 0 => End(p - 1) = x)
    <3>1. L \in Nat
      BY Zenon, <1>7, <2>1
    <3>2. x \in Nat /\ End(p) = x + L /\ (p # 0 => End(p - 1) = x)
      BY Zenon, <2>0, <2>1
    <3> QED
      BY Zenon, <3>1, <3>2
  <2>3. Len(P[i]) = L - From(start, p) + 1 /\ From(start, p) = IF p = c THEN b + 1 ELSE 1
    BY Zenon, <1>5, <1>11, <2>1
  <2>4. i \in 0 .. n /\ i # 0 /\ i - 1 \in 0 .. n
    BY <1>9
  <2>5. o[i] = x + L - start
    <3>1. o[i] = End(p) - start
      BY Zenon, <1>3, <2>4
    <3> HIDE DEF p
    <3> QED
      BY <2>2, <3>1
  <2>6. CASE i = 1
    <3>1. p = c
      BY <1>1, <1>8, <2>6
    <3>2. o[i - 1] = 0
      BY <1>12, <2>6
    <3>3. start = x + b /\ b \in 0 .. L - 1 /\ Len(P[i]) = L - (b + 1) + 1
      BY Zenon, <1>1, <2>3, <3>1
    <3> HIDE DEF p, x, L
    <3> QED
      BY <1>0, <2>2, <2>5, <3>2, <3>3
  <2>7. CASE i # 1
    <3>1. p # c /\ p # 0 /\ c + (i - 1) - 1 = p - 1 /\ i - 1 # 0 /\ c < p /\ p \in Nat /\ c \in Nat
      BY <1>1, <1>8, <1>9, <2>7
    <3>2. o[i - 1] = End(p - 1) - start
      BY Zenon, <1>3, <2>4, <3>1
    <3>3. o[i - 1] = x - start /\ Len(P[i]) = L - 1 + 1
      BY Zenon, <2>2, <2>3, <3>1, <3>2
    <3>4. start <= x
      <4>1. c * PerPage + PerPage <= x
        BY Zenon, <3>1, Products
      <4>2. c * PerPage \in Nat /\ b < PerPage /\ b \in Nat
        <5>1. c # LastPage
          BY <2>1, <3>1
        <5>2. c < LastPage
          BY <1>1, <1>8, <5>1
        <5>3. Len(PageAt(c)) = PerPage
          BY Zenon, <1>0, <1>1, <5>2, PagesAre DEF PageIs
        <5>4. c * PerPage \in Nat
          BY Zenon, <3>1, PageEnds
        <5>5. b < PerPage /\ b \in Nat
          BY <1>1, <5>3, ConstantsAssumption
        <5> QED
          BY Zenon, <5>4, <5>5
      <4> DEFINE y == c * PerPage
      <4>3. y + PerPage <= x /\ y \in Nat /\ start = y + b
        BY Zenon, <1>1, <4>1, <4>2
      <4> HIDE DEF y, x
      <4> QED
        BY <2>2, <4>2, <4>3, ConstantsAssumption
    <3> HIDE DEF p, x, L
    <3> QED
      BY <1>0, <2>2, <2>5, <3>3, <3>4
  <2> QED
    BY Zenon, <2>6, <2>7
<1>14. IsLaid(P, o)
  BY Zenon, <1>10, <1>12, <1>13 DEF IsLaid
<1> QED
  BY Zenon, <1>9, <1>10, <1>14 DEF n, P, o, c

\* Two sequences of one length that agree at every place are the same.
LEMMA SameSeq ==
  ASSUME NEW s \in Seq(Record), NEW t \in Seq(Record), Len(s) = Len(t),
         \A k \in 1 .. Len(s) : s[k] = t[k]
  PROVE  s = t
OBVIOUS

\* ReadFrom returns the records from start on.
LEMMA ReadFromIs ==
  ASSUME IInv, NEW start \in 0 .. next_lsn - 1
  PROVE  ReadFrom(start) = SubSeq(Written, start + 1, next_lsn)
<1> DEFINE c == start \div PerPage
           b == start % PerPage
           w == FlattenSeq(Pieces(start))
           o == Offsets(start)
           n == LastPage - c + 1
<1>0. next_lsn \in Nat /\ next_lsn # 0 /\ start \in Nat /\ start < next_lsn /\ ~(start >= next_lsn)
  BY DEF IInv, TypeOK
<1>1. ReadFrom(start) = w
  BY Zenon, <1>0, ReadsPieces
<1>2. Holds(w, Pieces(start), o, n)
  BY Zenon, PiecesLaid, LaidFlat
<1>3. c \in 0 .. LastPage /\ b \in 0 .. Len(PageAt(c)) - 1 /\ start = c * PerPage + b
  BY Zenon, Place
<1>4. LastPage \in Nat
  BY <1>0, Division DEF LastPage
<1>5. Written \in Seq(Record) /\ Len(Written) = next_lsn
  BY Zenon, WrittenIs DEF IsWritten
<1>6. o = [i \in 0 .. n |-> IF i = 0 THEN 0 ELSE End(c + i - 1) - start]
  BY Zenon DEF Offsets
<1>7. Pieces(start) = [i \in 1 .. n |-> Piece(start, c + i - 1)]
  BY Zenon DEF Pieces
<1>8. \A p \in c .. LastPage : From(start, p) = IF p = c THEN b + 1 ELSE 1
  BY Zenon DEF From
<1> HIDE DEF c, b, w, o, n
<1>9. n \in Nat /\ n # 0 /\ n \in 0 .. n /\ c + n - 1 = LastPage
  BY <1>3, <1>4 DEF n
<1>10. w \in Seq(Record) /\ Len(w) = next_lsn - start
  <2>1. o[n] = End(LastPage) - start /\ End(LastPage) = next_lsn
    BY Zenon, <1>6, <1>9 DEF End
  <2> QED
    BY Zenon, <1>2, <2>1 DEF Holds
<1>11. ASSUME NEW k \in 1 .. next_lsn - start
       PROVE  w[k] = Written[start + k]
  <2> DEFINE lsn == start + k - 1
             p == lsn \div PerPage
             q == lsn % PerPage
             i == p - c + 1
             j == q + 2 - From(start, p)
             x == p * PerPage
             L == Len(PageAt(p))
  <2>1. lsn \in 0 .. next_lsn - 1 /\ lsn \in Nat
    BY <1>0
  <2>2. p \in 0 .. LastPage /\ q \in 0 .. L - 1 /\ lsn = x + q
    <3> HIDE DEF lsn
    <3> QED
      BY Zenon, <2>1, Place
  <2>3. PageIs(p)
    <3> HIDE DEF p
    <3> QED
      BY Zenon, <1>0, <2>2, PagesAre
  <2>4. L \in Nat /\ Written[x + (q + 1)] = PageAt(p)[q + 1]
    <3>1. L \in Nat /\ \A r \in 1 .. L : Written[x + r] = PageAt(p)[r]
      BY Zenon, <2>3 DEF PageIs
    <3> HIDE DEF L, x, q, p
    <3>2. q + 1 \in 1 .. L
      BY <2>2, <3>1
    <3> QED
      BY Zenon, <3>1, <3>2
  <2> HIDE DEF lsn, p, q
  <2>5. x \in Nat /\ End(p) = x + L /\ (p # 0 => End(p - 1) = x)
    BY Zenon, <1>0, <2>2, EndIs
  <2>6. c <= p
    <3>1. SUFFICES ASSUME p < c PROVE FALSE
      BY <1>3, <2>2
    <3>2. p \in Nat /\ c \in Nat
      BY <1>3, <2>2
    <3>3. x + PerPage <= c * PerPage /\ c * PerPage \in Nat
      BY Zenon, <3>1, <3>2, Products, PageEnds
    <3>4. p < LastPage
      BY <1>3, <1>4, <3>1, <3>2
    <3>5. L = PerPage
      BY Zenon, <2>3, <3>4 DEF PageIs
    <3>6. b \in Nat
      <4>1. Len(PageAt(c)) \in Nat
        BY Zenon, <1>0, <1>3, PagesAre DEF PageIs
      <4> QED
        BY <1>3, <4>1
    <3> DEFINE y == c * PerPage
    <3>7. x + L <= y /\ y \in Nat /\ start = y + b
      BY Zenon, <1>3, <3>3, <3>5
    <3>8. start <= lsn
      BY <1>0 DEF lsn
    <3> HIDE DEF x, y, L
    <3> QED
      BY <1>0, <2>1, <2>2, <2>4, <2>5, <3>6, <3>7, <3>8
  <2>7. p \in c .. LastPage /\ i \in 1 .. n /\ c + i - 1 = p /\ i \in 0 .. n /\ i - 1 \in 0 .. n
    BY <1>3, <1>4, <2>2, <2>6 DEF n
  <2>8. /\ Len(Piece(start, p)) = L - From(start, p) + 1 /\ From(start, p) \in 1 .. L + 1
        /\ \A r \in 1 .. L - From(start, p) + 1 : Piece(start, p)[r] = PageAt(p)[From(start, p) + r - 1]
    BY Zenon, <2>7, PieceIs DEF c
  <2>9. Pieces(start)[i] = Piece(start, p)
    BY Zenon, <1>7, <2>7
  <2>10. o[i - 1] + j = k /\ j \in 1 .. L - From(start, p) + 1
    <3>1. CASE p = c
      <4>1. From(start, p) = b + 1
        BY Zenon, <1>8, <2>7, <3>1
      <4>2. i - 1 = 0 /\ i - 1 \in 0 .. n
        BY <1>3, <2>7, <3>1
      <4>3. o[i - 1] = 0
        BY Zenon, <1>6, <4>2
      <4>4. start = x + b /\ b \in 0 .. L - 1
        BY Zenon, <1>3, <3>1
      <4> HIDE DEF x, L, i
      <4>5. j = q + 1 - b
        BY <2>2, <2>4, <4>1, <4>4
      <4> HIDE DEF j
      <4>6. start <= lsn /\ k = lsn - start + 1
        BY <1>0 DEF lsn
      <4> QED
        BY <1>0, <2>1, <2>2, <2>4, <2>5, <4>1, <4>3, <4>4, <4>5, <4>6
    <3>2. CASE p # c
      <4>1. From(start, p) = 1
        BY Zenon, <1>8, <2>7, <3>2
      <4>2. i - 1 # 0 /\ c + (i - 1) - 1 = p - 1 /\ p # 0 /\ i - 1 \in 0 .. n
        BY <1>3, <1>4, <2>2, <2>6, <2>7, <3>2
      <4>3. o[i - 1] = x - start
        BY Zenon, <1>6, <2>5, <4>2
      <4> HIDE DEF x, L, i
      <4>4. j = q + 1
        BY <2>2, <2>4, <4>1
      <4> HIDE DEF j
      <4>5. k = lsn - start + 1
        BY <1>0 DEF lsn
      <4> QED
        BY <1>0, <2>1, <2>2, <2>4, <2>5, <4>1, <4>3, <4>4, <4>5
    <3> QED
      BY Zenon, <3>1, <3>2
  <2>11. w[o[i - 1] + j] = Pieces(start)[i][j]
    <3> HIDE DEF i, j
    <3> QED
      BY Zenon, <1>2, <2>7, <2>8, <2>9, <2>10 DEF Holds
  <2>12. Piece(start, p)[j] = PageAt(p)[From(start, p) + j - 1]
    <3> HIDE DEF j
    <3> QED
      BY Zenon, <2>8, <2>10
  <2>13. From(start, p) + j - 1 = q + 1 /\ x + (q + 1) = start + k
    <3>1. q \in Nat
      BY <2>2, <2>4
    <3>2. From(start, p) \in Nat
      BY <2>4, <2>8
    <3> HIDE DEF x
    <3>3. x + (q + 1) = start + k
      BY <1>0, <2>2, <2>5, <3>1 DEF lsn
    <3> QED
      BY <3>1, <3>2, <3>3
  <2> HIDE DEF i, j, x, L
  <2> QED
    BY Zenon, <2>4, <2>9, <2>10, <2>11, <2>12, <2>13
<1>12. /\ SubSeq(Written, start + 1, next_lsn) \in Seq(Record)
       /\ Len(SubSeq(Written, start + 1, next_lsn)) = next_lsn - start
       /\ \A k \in 1 .. next_lsn - start : SubSeq(Written, start + 1, next_lsn)[k] = Written[start + k]
  <2>1. start + 1 \in 1 .. Len(Written) + 1 /\ Len(Written) - (start + 1) + 1 = next_lsn - start
    BY <1>0, <1>5
  <2>2. \A k \in 1 .. next_lsn - start : (start + 1) + k - 1 = start + k
    BY <1>0
  <2>3. /\ SubSeq(Written, start + 1, Len(Written)) \in Seq(Record)
        /\ Len(SubSeq(Written, start + 1, Len(Written))) = Len(Written) - (start + 1) + 1
        /\ \A k \in 1 .. Len(Written) - (start + 1) + 1 :
             SubSeq(Written, start + 1, Len(Written))[k] = Written[(start + 1) + k - 1]
    BY Zenon, <1>5, <2>1, SuffixOf
  <2>4. SubSeq(Written, start + 1, Len(Written)) = SubSeq(Written, start + 1, next_lsn)
    BY Zenon, <1>5
  <2> QED
    BY Zenon, <2>1, <2>2, <2>3, <2>4
<1> QED
  BY Zenon, <1>1, <1>10, <1>11, <1>12, SameSeq

LEMMA ReadsFind == IInv => ReadsFindRecords
<1> SUFFICES ASSUME IInv PROVE ReadsFindRecords
  BY Zenon
<1>1. /\ next_lsn = Len(Written) /\ Written \in Seq(Record)
      /\ \A lsn \in 0 .. next_lsn - 1 : ReadRecord(lsn) = Written[lsn + 1]
  BY Zenon, WrittenIs DEF IsWritten
<1>2. ASSUME NEW lsn \in 0 .. next_lsn
      PROVE  ReadFrom(lsn) = SubSeq(Written, lsn + 1, next_lsn)
  <2>0. next_lsn \in Nat
    BY Zenon DEF IInv, TypeOK
  <2>1. CASE lsn = next_lsn
    <3>1. lsn >= next_lsn
      BY <2>0, <2>1
    <3>2. ReadFrom(lsn) = <<>>
      BY Zenon, <3>1 DEF ReadFrom
    <3>3. SubSeq(Written, lsn + 1, next_lsn) = <<>>
      BY <1>1, <2>0, <2>1
    <3> QED
      BY Zenon, <3>2, <3>3
  <2>2. CASE lsn # next_lsn
    <3>1. lsn \in 0 .. next_lsn - 1
      BY <2>0, <2>2
    <3> QED
      BY Zenon, <3>1, ReadFromIs
  <2> QED
    BY Zenon, <2>1, <2>2
<1> QED
  BY Zenon, <1>1, <1>2 DEF ReadsFindRecords

\* LSNs are given once and without gaps, the record of every LSN is found by
\* dividing it by the page size, and ReadFrom's loops return every record from
\* an LSN on, over page turns and crashes between the two page writes of Append
\* (LogManager::ReadRecord and ReadFrom), for every page size and every log.
THEOREM ReadsAreFound == Spec => []ReadsFindRecords
<1>1. Spec => []IInv
  BY InitInv, NextStep, PTL DEF Spec
<1> QED
  BY <1>1, ReadsFind, PTL
=============================================================================
