---------------------------- MODULE SeqlockProofs ----------------------------
(***************************************************************************)
(* The sequence lock of an entry for any number of words, writers, readers *)
(* and turns: a reader that loads in order never mixes two stores, and two *)
(* writers never leave a mixed value behind.                               *)
(***************************************************************************)
EXTENDS Seqlock, TLAPS

\* The number alternates between even and odd.
LEMMA Parity ==
  ASSUME NEW n \in Nat
  PROVE  /\ ~Odd(n) => Odd(n + 1)
         /\ ~Odd(n) => ~Odd(n + 2)
         /\ n \in Int
BY DEF Odd

\* The last store that has ended is an even number, at most one back, and never
\* goes back.
LEMMA EndedGrows ==
  ASSUME NEW m \in Nat, NEW n \in Nat, m <= n
  PROVE  /\ Ended(m) \in Nat /\ Ended(m) <= Ended(n) /\ Ended(n) <= n
         /\ ~Odd(n) => Ended(n) = n /\ Ended(n + 1) = n
         /\ Odd(n) => Ended(n) = n - 1
BY DEF Ended, Odd

\* Nothing is stored and nobody is under way.
LEMMA Initial == Init => IInv
<1> HAVE Init
<1> USE DEF Init, NoStore, Storing, NoLoad, Turns, Unread
<1>1. ~Odd(0)
  BY DEF Odd
<1>2. TypeOK
  BY SeqlockConstants DEF TypeOK, Stores
<1>3. FreshOK /\ ReadsAreFresh
  <2>1. Ended(0) = 0
    BY DEF Ended
  <2> QED
    BY <1>2, <2>1 DEF TypeOK, FreshOK, ReadsAreFresh
<1> QED
  BY <1>1, <1>2, <1>3, SeqlockConstants
     DEF IInv, WritersOK, ReadersOK, LateOK, StoredWhole, NoTornRead

\* A writer that has loaded nothing yet owns nothing.
LEMMA StoreCallKeeps ==
  ASSUME IInv, NEW w \in Writers, StoreCall(w)
  PROVE  IInv'
<1> USE SeqlockConstants, Parity DEF IInv, StoreCall, readerVars, Storing
<1>1. TypeOK'
  BY DEF TypeOK
<1>2. WritersOK'
  BY DEF TypeOK, WritersOK
<1>3. ReadersOK'
  BY DEF TypeOK, WritersOK, ReadersOK, StoredWhole
<1>4. LateOK'
  BY DEF TypeOK, LateOK
<1>5. StoredWhole'
  BY DEF TypeOK, WritersOK, StoredWhole
<1>6. NoTornRead'
  BY DEF TypeOK, ReadersOK, LateOK, NoTornRead
<1>7. FreshOK' /\ ReadsAreFresh'
  BY EndedGrows DEF TypeOK, WritersOK, StoredWhole, FreshOK, ReadsAreFresh
<1> QED
  BY <1>1, <1>2, <1>3, <1>4, <1>5, <1>6, <1>7

\* The number loaded is even.
LEMMA LoadSeqKeeps ==
  ASSUME IInv, NEW w \in Writers, LoadSeq(w)
  PROVE  IInv'
<1> USE SeqlockConstants, Parity DEF IInv, LoadSeq, readerVars
<1>1. TypeOK'
  BY DEF TypeOK
<1>2. WritersOK'
  BY DEF TypeOK, WritersOK
<1>3. ReadersOK'
  BY DEF TypeOK, WritersOK, ReadersOK, StoredWhole
<1>4. LateOK'
  BY DEF TypeOK, LateOK
<1>5. StoredWhole'
  BY DEF TypeOK, WritersOK, StoredWhole
<1>6. NoTornRead'
  BY DEF TypeOK, ReadersOK, LateOK, NoTornRead
<1>7. FreshOK' /\ ReadsAreFresh'
  BY EndedGrows DEF TypeOK, WritersOK, StoredWhole, FreshOK, ReadsAreFresh
<1> QED
  BY <1>1, <1>2, <1>3, <1>4, <1>5, <1>6, <1>7

\* The number was even, so nobody copies, and readers who began with it are now
\* behind.
LEMMA CasKeeps ==
  ASSUME IInv, NEW w \in Writers, Cas(w)
  PROVE  IInv'
<1> USE SeqlockConstants, Parity DEF IInv, Cas, readerVars
<1>1. TypeOK'
  BY DEF TypeOK
<1>2. WritersOK'
  BY DEF TypeOK, WritersOK
<1>3. ReadersOK'
  BY DEF TypeOK, WritersOK, ReadersOK, StoredWhole
<1>4. LateOK'
  BY DEF TypeOK, LateOK
<1>5. StoredWhole'
  BY DEF TypeOK, WritersOK, StoredWhole
<1>6. NoTornRead'
  BY DEF TypeOK, ReadersOK, LateOK, NoTornRead
<1>7. FreshOK' /\ ReadsAreFresh'
  BY EndedGrows DEF TypeOK, WritersOK, StoredWhole, FreshOK, ReadsAreFresh
<1> QED
  BY <1>1, <1>2, <1>3, <1>4, <1>5, <1>6, <1>7

\* The writer starts again.
LEMMA CasFailsKeeps ==
  ASSUME IInv, NEW w \in Writers, CasFails(w)
  PROVE  IInv'
<1> USE SeqlockConstants, Parity DEF IInv, CasFails, readerVars, Storing
<1>1. TypeOK'
  BY DEF TypeOK
<1>2. WritersOK'
  BY DEF TypeOK, WritersOK
<1>3. ReadersOK'
  BY DEF TypeOK, WritersOK, ReadersOK, StoredWhole
<1>4. LateOK'
  BY DEF TypeOK, LateOK
<1>5. StoredWhole'
  BY DEF TypeOK, WritersOK, StoredWhole
<1>6. NoTornRead'
  BY DEF TypeOK, ReadersOK, LateOK, NoTornRead
<1>7. FreshOK' /\ ReadsAreFresh'
  BY EndedGrows DEF TypeOK, WritersOK, StoredWhole, FreshOK, ReadsAreFresh
<1> QED
  BY <1>1, <1>2, <1>3, <1>4, <1>5, <1>6, <1>7

\* The number is odd and not one a reader began with.
LEMMA CopyWordKeeps ==
  ASSUME IInv, NEW w \in Writers, NEW x \in Words, CopyWord(w, x)
  PROVE  IInv'
<1> USE SeqlockConstants, Parity DEF IInv, CopyWord, readerVars
<1>1. TypeOK'
  BY DEF TypeOK, Stores
<1>2. WritersOK'
  BY DEF TypeOK, WritersOK
<1>3. ReadersOK'
  BY DEF TypeOK, WritersOK, ReadersOK, StoredWhole
<1>4. LateOK'
  BY DEF TypeOK, LateOK
<1>5. StoredWhole'
  BY DEF TypeOK, WritersOK, StoredWhole
<1>6. NoTornRead'
  BY DEF TypeOK, ReadersOK, LateOK, NoTornRead
<1>7. FreshOK' /\ ReadsAreFresh'
  <2>1. \A y \in Words : word'[y] = IF y = x THEN [seq |-> writer[w].seq + 2, by |-> w]
                                    ELSE word[y]
    BY DEF TypeOK
  <2>2. writer[w].seq + 2 >= Ended(seq)
    BY EndedGrows DEF TypeOK, WritersOK
  <2>3. UNCHANGED <<seq, reader, since, result>>
    OBVIOUS
  <2> HIDE DEF CopyWord
  <2> QED
    BY <2>1, <2>2, <2>3 DEF FreshOK, ReadsAreFresh
<1> QED
  BY <1>1, <1>2, <1>3, <1>4, <1>5, <1>6, <1>7

\* All words are of this store when the number becomes even again.
LEMMA StoreSeqKeeps ==
  ASSUME IInv, NEW w \in Writers, StoreSeq(w)
  PROVE  IInv'
<1> USE SeqlockConstants, Parity DEF IInv, StoreSeq, readerVars, NoStore
<1>1. TypeOK'
  BY DEF TypeOK
<1>2. WritersOK'
  BY DEF TypeOK, WritersOK
<1>3. ReadersOK'
  BY DEF TypeOK, WritersOK, ReadersOK, StoredWhole
<1>4. LateOK'
  BY DEF TypeOK, LateOK
<1>5. StoredWhole'
  BY DEF TypeOK, WritersOK, StoredWhole
<1>6. NoTornRead'
  BY DEF TypeOK, ReadersOK, LateOK, NoTornRead
<1>7. FreshOK' /\ ReadsAreFresh'
  <2>1. seq \in Nat /\ seq' = seq + 1 /\ ~Odd(seq')
    BY DEF TypeOK, WritersOK
  <2>2. \A x \in Words : word'[x].seq = seq'
    BY <1>5, <2>1 DEF StoredWhole
  <2>3. Ended(seq') = seq'
    BY <2>1, EndedGrows
  <2>4. UNCHANGED <<reader, since, result>>
    OBVIOUS
  <2> HIDE DEF StoreSeq
  <2> QED
    BY <2>1, <2>2, <2>3, <2>4 DEF TypeOK, FreshOK, ReadsAreFresh
<1> QED
  BY <1>1, <1>2, <1>3, <1>4, <1>5, <1>6, <1>7

\* A reader that has loaded nothing yet.
LEMMA ReadCallKeeps ==
  ASSUME IInv, NEW r \in Readers, ReadCall(r)
  PROVE  IInv'
<1> USE SeqlockConstants, Parity DEF IInv, ReadCall, writerVars, Turns, Unread
<1>1. TypeOK'
  BY DEF TypeOK
<1>2. WritersOK'
  BY DEF TypeOK, WritersOK
<1>3. ReadersOK'
  BY DEF TypeOK, WritersOK, ReadersOK, StoredWhole
<1>4. LateOK'
  BY DEF TypeOK, LateOK
<1>5. StoredWhole'
  BY DEF TypeOK, WritersOK, StoredWhole
<1>6. NoTornRead'
  BY DEF TypeOK, ReadersOK, LateOK, NoTornRead
<1>7. FreshOK' /\ ReadsAreFresh'
  BY EndedGrows DEF TypeOK, WritersOK, StoredWhole, FreshOK, ReadsAreFresh
<1> QED
  BY <1>1, <1>2, <1>3, <1>4, <1>5, <1>6, <1>7

\* A turn that goes on begins with an even number.
LEMMA BeginKeeps ==
  ASSUME IInv, NEW r \in Readers, Begin(r)
  PROVE  IInv'
<1> USE SeqlockConstants, Parity DEF IInv, Begin, writerVars, Turns, Unread
<1>1. TypeOK'
  BY DEF TypeOK
<1>2. WritersOK'
  BY DEF TypeOK, WritersOK
<1>3. ReadersOK'
  BY DEF TypeOK, WritersOK, ReadersOK, StoredWhole
<1>4. LateOK'
  BY DEF TypeOK, LateOK
<1>5. StoredWhole'
  BY DEF TypeOK, WritersOK, StoredWhole
<1>6. NoTornRead'
  BY DEF TypeOK, ReadersOK, LateOK, NoTornRead
<1>7. FreshOK' /\ ReadsAreFresh'
  BY EndedGrows DEF TypeOK, WritersOK, StoredWhole, FreshOK, ReadsAreFresh
<1> QED
  BY <1>1, <1>2, <1>3, <1>4, <1>5, <1>6, <1>7

\* While the number is the one the reader began with, no word changes.
LEMMA ReadWordKeeps ==
  ASSUME IInv, NEW r \in Readers, NEW x \in Words, ReadWord(r, x)
  PROVE  IInv'
<1> USE SeqlockConstants, Parity DEF IInv, ReadWord, writerVars
<1>1. TypeOK'
  <2> DEFINE v    == [reader[r].v EXCEPT ![x] = word[x]]
             next == [reader[r] EXCEPT !.v = v]
  <2>1. v \in [Words -> Stores \cup {None}]
    BY DEF TypeOK
  <2> HIDE DEF v
  <2>2. next = [pc |-> reader[r].pc, s1 |-> reader[r].s1, v |-> v,
                turn |-> reader[r].turn]
    BY DEF TypeOK
  <2>3. reader' = [reader EXCEPT ![r] = next]
    BY DEF TypeOK, v
  <2>4. UNCHANGED <<seq, word, writer, since, result>>
    OBVIOUS
  <2> HIDE DEF next, ReadWord
  <2> QED
    BY <2>1, <2>2, <2>3, <2>4 DEF TypeOK
<1>2. WritersOK'
  BY DEF TypeOK, WritersOK
<1>3. ReadersOK'
  BY DEF TypeOK, WritersOK, ReadersOK, StoredWhole
<1>4. LateOK'
  BY DEF TypeOK, LateOK
<1>5. StoredWhole'
  BY DEF TypeOK, WritersOK, StoredWhole
<1>6. NoTornRead'
  BY DEF TypeOK, ReadersOK, LateOK, NoTornRead
<1>7. FreshOK' /\ ReadsAreFresh'
  <2>1. word[x].seq >= Ended(since[r])
    <3>1. word[x].seq \in Nat /\ word[x].seq >= Ended(seq)
      BY DEF TypeOK, Stores, FreshOK
    <3>2. Ended(since[r]) <= Ended(seq) /\ Ended(since[r]) \in Nat /\ Ended(seq) \in Nat
      BY EndedGrows DEF TypeOK, FreshOK
    <3> QED
      BY <3>1, <3>2
  <2>2. /\ \A q \in Readers : reader'[q].pc = reader[q].pc
        /\ \A q \in Readers, y \in Words :
             reader'[q].v[y] = IF q = r /\ y = x THEN word[x] ELSE reader[q].v[y]
    BY DEF TypeOK
  <2>3. UNCHANGED <<seq, word, since, result>>
    OBVIOUS
  <2> HIDE DEF ReadWord
  <2> QED
    BY <2>1, <2>2, <2>3 DEF FreshOK, ReadsAreFresh
<1> QED
  BY <1>1, <1>2, <1>3, <1>4, <1>5, <1>6, <1>7

\* The number is still the one the reader began with, so it has the words of
\* the last store.
LEMMA CheckKeeps ==
  ASSUME IInv, NEW r \in Readers, Check(r)
  PROVE  IInv'
<1> USE SeqlockConstants, Parity DEF IInv, Check, writerVars, Return, Value, WordsRead, NoLoad, Unread
<1>1. TypeOK'
  BY DEF TypeOK
<1>2. WritersOK'
  BY DEF TypeOK, WritersOK
<1>3. ReadersOK'
  BY DEF TypeOK, WritersOK, ReadersOK, StoredWhole
<1>4. LateOK'
  BY DEF TypeOK, LateOK
<1>5. StoredWhole'
  BY DEF TypeOK, WritersOK, StoredWhole
<1>6. NoTornRead'
  BY DEF TypeOK, ReadersOK, StoredWhole, NoTornRead
<1>7. FreshOK' /\ ReadsAreFresh'
  BY EndedGrows DEF TypeOK, WritersOK, StoredWhole, FreshOK, ReadsAreFresh
<1> QED
  BY <1>1, <1>2, <1>3, <1>4, <1>5, <1>6, <1>7

\* What was read is forgotten.
LEMMA CheckFailsKeeps ==
  ASSUME IInv, NEW r \in Readers, CheckFails(r)
  PROVE  IInv'
<1> USE SeqlockConstants, Parity DEF IInv, CheckFails, writerVars, Turns, Unread
<1>1. TypeOK'
  BY DEF TypeOK
<1>2. WritersOK'
  BY DEF TypeOK, WritersOK
<1>3. ReadersOK'
  BY DEF TypeOK, WritersOK, ReadersOK, StoredWhole
<1>4. LateOK'
  BY DEF TypeOK, LateOK
<1>5. StoredWhole'
  BY DEF TypeOK, WritersOK, StoredWhole
<1>6. NoTornRead'
  BY DEF TypeOK, ReadersOK, LateOK, NoTornRead
<1>7. FreshOK' /\ ReadsAreFresh'
  BY EndedGrows DEF TypeOK, WritersOK, StoredWhole, FreshOK, ReadsAreFresh
<1> QED
  BY <1>1, <1>2, <1>3, <1>4, <1>5, <1>6, <1>7

\* Only readers that do not load in order come here.
LEMMA CheckEarlyKeeps ==
  ASSUME IInv, NEW r \in Readers, CheckEarly(r)
  PROVE  IInv'
<1> USE SeqlockConstants, Parity DEF IInv, CheckEarly, writerVars
<1>1. TypeOK'
  <2> DEFINE next == [reader[r] EXCEPT !.pc = "late"]
  <2>1. next = [pc |-> "late", s1 |-> reader[r].s1, v |-> reader[r].v,
                turn |-> reader[r].turn]
    BY DEF TypeOK
  <2>2. reader' = [reader EXCEPT ![r] = next]
    BY DEF TypeOK
  <2>3. UNCHANGED <<seq, word, writer, since, result>>
    OBVIOUS
  <2> HIDE DEF next, CheckEarly
  <2> QED
    BY <2>1, <2>2, <2>3 DEF TypeOK
<1>2. WritersOK'
  BY DEF TypeOK, WritersOK
<1>3. ReadersOK'
  BY DEF TypeOK, WritersOK, ReadersOK, StoredWhole
<1>4. LateOK'
  BY DEF TypeOK, LateOK
<1>5. StoredWhole'
  BY DEF TypeOK, WritersOK, StoredWhole
<1>6. NoTornRead'
  BY DEF TypeOK, ReadersOK, LateOK, NoTornRead
<1>7. FreshOK' /\ ReadsAreFresh'
  BY EndedGrows DEF TypeOK, WritersOK, StoredWhole, FreshOK, ReadsAreFresh
<1> QED
  BY <1>1, <1>2, <1>3, <1>4, <1>5, <1>6, <1>7

\* Only readers that do not load in order come here.
LEMMA ReturnLateKeeps ==
  ASSUME IInv, NEW r \in Readers, ReturnLate(r)
  PROVE  IInv'
<1> USE SeqlockConstants, Parity DEF IInv, ReturnLate, writerVars, Return, Value, WordsRead, NoLoad, Unread
<1>1. TypeOK'
  BY DEF TypeOK
<1>2. WritersOK'
  BY DEF TypeOK, WritersOK
<1>3. ReadersOK'
  BY DEF TypeOK, WritersOK, ReadersOK, StoredWhole
<1>4. LateOK'
  BY DEF TypeOK, LateOK
<1>5. StoredWhole'
  BY DEF TypeOK, WritersOK, StoredWhole
<1>6. NoTornRead'
  BY DEF TypeOK, ReadersOK, LateOK, NoTornRead
<1>7. FreshOK' /\ ReadsAreFresh'
  BY EndedGrows DEF TypeOK, WritersOK, StoredWhole, FreshOK, ReadsAreFresh
<1> QED
  BY <1>1, <1>2, <1>3, <1>4, <1>5, <1>6, <1>7

\* Nothing is returned.
LEMMA GiveUpKeeps ==
  ASSUME IInv, NEW r \in Readers, GiveUp(r)
  PROVE  IInv'
<1> USE SeqlockConstants, Parity DEF IInv, GiveUp, writerVars, Return, NoLoad, Unread
<1>1. TypeOK'
  BY DEF TypeOK
<1>2. WritersOK'
  BY DEF TypeOK, WritersOK
<1>3. ReadersOK'
  BY DEF TypeOK, WritersOK, ReadersOK, StoredWhole
<1>4. LateOK'
  BY DEF TypeOK, LateOK
<1>5. StoredWhole'
  BY DEF TypeOK, WritersOK, StoredWhole
<1>6. NoTornRead'
  BY DEF TypeOK, ReadersOK, LateOK, NoTornRead
<1>7. FreshOK' /\ ReadsAreFresh'
  BY EndedGrows DEF TypeOK, WritersOK, StoredWhole, FreshOK, ReadsAreFresh
<1> QED
  BY <1>1, <1>2, <1>3, <1>4, <1>5, <1>6, <1>7

\* A stuttering step changes none of it.
LEMMA StutterKeeps == IInv /\ UNCHANGED vars => IInv'
BY DEF IInv, TypeOK, WritersOK, ReadersOK, LateOK, FreshOK, StoredWhole, NoTornRead,
       ReadsAreFresh, vars

\* IInv - who owns an odd number, and which words belong to an even one - is
\* an invariant of storeValue and loadValue (s3fifo.go:298-330).
THEOREM Inductive == Spec => []IInv
<1>1. IInv /\ [Next]_vars => IInv'
  <2> SUFFICES ASSUME IInv, Next PROVE IInv'
    BY StutterKeeps
  <2>1. ASSUME NEW w \in Writers, StoreCall(w) \/ Store(w) PROVE IInv'
    BY <2>1, StoreCallKeeps, LoadSeqKeeps, CasKeeps, CasFailsKeeps, CopyWordKeeps,
       StoreSeqKeeps DEF Store
  <2>2. ASSUME NEW r \in Readers, ReadCall(r) \/ Load(r) PROVE IInv'
    BY <2>2, ReadCallKeeps, BeginKeeps, ReadWordKeeps, CheckKeeps, CheckFailsKeeps,
       CheckEarlyKeeps, ReturnLateKeeps, GiveUpKeeps DEF Load
  <2> QED
    BY <2>1, <2>2 DEF Next
<1> QED
  BY Initial, <1>1, PTL DEF Spec

\* A value loaded in program order is the value of one store, for values of
\* any number of words.
THEOREM ReadsNotTorn == Spec => []NoTornRead
<1>1. IInv => NoTornRead
  BY DEF IInv
<1> QED
  BY Inductive, <1>1, PTL

\* No word of a value returned is older than the last store that had ended when
\* loadValue was called, in program order or not (s3fifo.go:314-330).
THEOREM ReadsStayFresh == Spec => []ReadsAreFresh
<1>1. IInv => ReadsAreFresh
  BY DEF IInv
<1> QED
  BY Inductive, <1>1, PTL

\* Between stores, all words are those of the store that ended last.
THEOREM StoresAreWhole == Spec => []StoredWhole
<1>1. IInv => StoredWhole
  BY DEF IInv
<1> QED
  BY Inductive, <1>1, PTL
=============================================================================
