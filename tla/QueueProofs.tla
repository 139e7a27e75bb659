----------------------------- MODULE QueueProofs -----------------------------
(***************************************************************************)
(* What S3FIFOProofs leaves open: as long as no Delete has hit an entry on *)
(* death row, the two linked lists, death row, the index and the entry     *)
(* about to be inserted stay consistent, for every capacity, set of keys,  *)
(* number of goroutines and choice of thresholds.                          *)
(*                                                                         *)
(* QueuesIntact walks a list with a recursive function, which says little  *)
(* about what a step does to it.  The proof keeps instead a witness: a     *)
(* sequence of distinct entries whose links run along it.  pushBack        *)
(* appends to the sequence, remove cuts one element out.                   *)
(*                                                                         *)
(* The last part shows what such a Delete cannot reach: no entry gets a    *)
(* second place, so the index never hands out a recycled entry.            *)
(***************************************************************************)
EXTENDS S3FIFOProofs, FiniteSetTheorems

(* Lists and their walks *)

\* w is the queue q of L, from its head to its tail.
Walk(L, q, w) ==
  LET n == L.len[q] IN
  /\ n \in Nat /\ w \in [1..n -> Entries]
  /\ \A i, j \in 1..n : w[i] = w[j] => i = j
  /\ L.head[q] = IF n = 0 THEN Nil ELSE w[1]
  /\ L.tail[q] = IF n = 0 THEN Nil ELSE w[n]
  /\ \A i \in 1..n : /\ L.next[w[i]] = IF i = n THEN Nil ELSE w[i + 1]
                     /\ L.prev[w[i]] = IF i = 1 THEN Nil ELSE w[i - 1]

\* The queue q of L is well formed and links exactly the entries of S.
Holds(L, q, S) == \E w : Walk(L, q, w) /\ S = {w[i] : i \in 1..L.len[q]}

\* A set of naturals has a least element.
LEMMA NatMin ==
  ASSUME NEW T \in SUBSET Nat, T # {}
  PROVE \E n \in T : \A m \in T : n <= m
<1> DEFINE R == OpToRel(<, Nat)
<1>2. PICK i \in T : \A j \in T : ~ (<<j, i>> \in R)
    BY NatLessThanWellFounded, WFMin
<1>3. \A j \in T : i <= j
    <3> TAKE j \in T
    <3>1. ~ (j < i)
      BY <1>2 DEF OpToRel
    <3> QED BY <3>1
<1> QED BY <1>3

\* pushBack of an entry the queue does not hold appends it.
LEMMA PushHolds ==
  ASSUME NEW L \in Links, NEW q \in Queues, NEW S, Holds(L, q, S),
         NEW e \in Entries \ S
  PROVE  Holds(PushBack(L, q, e), q, S \cup {e})
<1> DEFINE n == L.len[q]
           M == PushBack(L, q, e)
<1>1. PICK w : Walk(L, q, w) /\ S = {w[i] : i \in 1..n}
  BY DEF Holds
<1> DEFINE v == [i \in 1..n + 1 |-> IF i = n + 1 THEN e ELSE w[i]]
<1>2. n \in Nat /\ w \in [1..n -> Entries] /\ e \notin {w[i] : i \in 1..n} /\ e # Nil
  BY <1>1, NilIsNoEntry DEF Walk
<1>3. /\ M.len[q] = n + 1 /\ M.tail[q] = e
      /\ M.head[q] = IF n = 0 THEN e ELSE w[1]
      /\ \A x \in Entries : /\ M.next[x] = IF n # 0 /\ x = w[n] THEN e
                                           ELSE IF x = e THEN Nil ELSE L.next[x]
                            /\ M.prev[x] = IF x # e THEN L.prev[x]
                                           ELSE IF n = 0 THEN Nil ELSE w[n]
  BY <1>1, <1>2, NilIsNoEntry DEF PushBack, Links, Ref, Walk
<1> HIDE DEF M
<1>4. v \in [1..n + 1 -> Entries]
  BY <1>2
<1>5. \A i \in 1..n : v[i] = w[i] /\ v[i] # e
  BY <1>2
<1>6. v[n + 1] = e
  BY <1>2
<1>7. \A i, j \in 1..n + 1 : v[i] = v[j] => i = j
  BY <1>1, <1>2 DEF Walk
<1>8. \A i \in 1..n + 1 : /\ M.next[v[i]] = IF i = n + 1 THEN Nil ELSE v[i + 1]
                          /\ M.prev[v[i]] = IF i = 1 THEN Nil ELSE v[i - 1]
  <2> TAKE i \in 1..n + 1
  <2>1. CASE i = n + 1
    <3>1. e # Nil /\ (n # 0 => e # w[n] /\ v[n] = w[n])
      BY <1>2
    <3> HIDE DEF v
    <3> QED BY <1>2, <1>3, <1>6, <2>1, <3>1
  <2>2. CASE i \in 1..n
    <3>1. /\ v[i] = w[i] /\ v[i] # e /\ v[i] \in Entries
          /\ i # 1 => v[i - 1] = w[i - 1]
          /\ i # n => v[i + 1] = w[i + 1] /\ w[i] # w[n]
      BY <1>1, <1>2, <2>2 DEF Walk
    <3>2. /\ L.next[w[i]] = IF i = n THEN Nil ELSE w[i + 1]
          /\ L.prev[w[i]] = IF i = 1 THEN Nil ELSE w[i - 1]
      BY <1>1, <2>2 DEF Walk
    <3> HIDE DEF v
    <3> QED BY <1>2, <1>3, <1>6, <2>2, <3>1, <3>2
  <2> QED BY <1>2, <2>1, <2>2
<1>9. Walk(M, q, v)
  <2>1. M.head[q] = v[1] /\ M.tail[q] = v[n + 1]
    BY <1>2, <1>3
  <2> HIDE DEF v
  <2> QED BY <1>2, <1>3, <1>4, <1>7, <1>8, <2>1 DEF Walk
<1>10. S \cup {e} = {v[i] : i \in 1..n + 1}
  <2>1. ASSUME NEW x \in S \cup {e} PROVE x \in {v[i] : i \in 1..n + 1}
    <3>1. CASE x = e
      <4>1. n + 1 \in 1..n + 1
        BY <1>2
      <4> QED BY <1>6, <3>1, <4>1
    <3>2. CASE x \in S
      <4>1. PICK i \in 1..n : x = w[i]
        BY <1>1, <3>2
      <4>2. i \in 1..n + 1 /\ v[i] = x
        BY <1>2, <1>5, <4>1
      <4> HIDE DEF v
      <4> QED BY <4>2
    <3> QED BY <3>1, <3>2
  <2>2. \A i \in 1..n + 1 : v[i] \in S \cup {e}
    BY <1>1, <1>2, <1>5, <1>6
  <2> QED BY <2>1, <2>2
<1>11. Holds(M, q, S \cup {e})
  <2> HIDE DEF v, n
  <2> QED BY <1>3, <1>9, <1>10 DEF Holds
<1> QED BY <1>11 DEF M

\* What q holds is not disturbed by what happens to entries it does not hold.
LEMMA HoldsKept ==
  ASSUME NEW L, NEW M, NEW q \in Queues, NEW S, Holds(L, q, S),
         M.len[q] = L.len[q], M.head[q] = L.head[q], M.tail[q] = L.tail[q],
         \A x \in S : M.next[x] = L.next[x] /\ M.prev[x] = L.prev[x]
  PROVE  Holds(M, q, S)
<1>1. PICK w : Walk(L, q, w) /\ S = {w[i] : i \in 1..L.len[q]}
  BY DEF Holds
<1>2. Walk(M, q, w)
  BY <1>1 DEF Walk
<1> QED BY <1>1, <1>2 DEF Holds

\* pushBack on one queue does not disturb the other,
LEMMA PushKeeps ==
  ASSUME NEW L \in Links, NEW q \in Queues, NEW r \in Queues \ {q},
         NEW S, Holds(L, q, S), NEW T, Holds(L, r, T), S \cap T = {},
         NEW e \in Entries \ T
  PROVE  Holds(PushBack(L, q, e), r, T)
<1> DEFINE M == PushBack(L, q, e)
<1>1. T \subseteq Entries /\ L.tail[q] \in S \cup {Nil}
  BY DEF Holds, Walk
<1>2. /\ M.len[r] = L.len[r] /\ M.head[r] = L.head[r] /\ M.tail[r] = L.tail[r]
      /\ \A x \in T : M.next[x] = L.next[x] /\ M.prev[x] = L.prev[x]
  BY <1>1, NilIsNoEntry DEF PushBack, Links
<1> QED BY <1>2, HoldsKept

\* nor does remove,
LEMMA RemoveKeeps ==
  ASSUME NEW L \in Links, NEW q \in Queues, NEW r \in Queues \ {q},
         NEW S, Holds(L, q, S), NEW T, Holds(L, r, T), S \cap T = {},
         NEW e \in S
  PROVE  Holds(Remove(L, q, e), r, T)
<1> DEFINE M == Remove(L, q, e)
<1>1. T \subseteq Entries /\ L.prev[e] \in S \cup {Nil} /\ L.next[e] \in S \cup {Nil}
  BY DEF Holds, Walk
<1>2. /\ M.len[r] = L.len[r] /\ M.head[r] = L.head[r] /\ M.tail[r] = L.tail[r]
      /\ \A x \in T : M.next[x] = L.next[x] /\ M.prev[x] = L.prev[x]
  BY <1>1, NilIsNoEntry DEF Remove, Links
<1> QED BY <1>2, HoldsKept

\* which cuts the entry out of its own, wherever it stands.
LEMMA RemoveHolds ==
  ASSUME NEW L \in Links, NEW q \in Queues, NEW S, Holds(L, q, S), NEW e \in S
  PROVE  Holds(Remove(L, q, e), q, S \ {e})
<1> DEFINE n == L.len[q]
           M == Remove(L, q, e)
<1>1. PICK w : Walk(L, q, w) /\ S = {w[i] : i \in 1..n}
  BY DEF Holds
<1>2. PICK k \in 1..n : e = w[k]
  BY <1>1
<1> DEFINE v == [i \in 1..n - 1 |-> IF i < k THEN w[i] ELSE w[i + 1]]
<1>3. n \in Nat /\ n # 0 /\ n - 1 \in Nat /\ w \in [1..n -> Entries] /\ k \in Nat
  BY <1>1, <1>2 DEF Walk
<1>4. \A i \in 1..n : /\ w[i] \in Entries /\ w[i] # Nil
                      /\ i # 1 => i - 1 \in 1..n
                      /\ i # n => i + 1 \in 1..n
                      /\ i # k => w[i] # e
  BY <1>1, <1>2, <1>3, NilIsNoEntry DEF Walk
<1>5. \A i, j \in 1..n : w[i] = w[j] => i = j
  BY <1>1 DEF Walk
<1> DEFINE p == IF k = 1 THEN Nil ELSE w[k - 1]
           s == IF k = n THEN Nil ELSE w[k + 1]
<1>6. L.prev[e] = p /\ L.next[e] = s
  BY <1>1, <1>2 DEF Walk
<1>7. /\ M.len[q] = n - 1
      /\ M.head[q] = IF p = Nil THEN s ELSE w[1]
      /\ M.tail[q] = IF s = Nil THEN p ELSE w[n]
      /\ \A x \in Entries \ {e} : /\ M.next[x] = IF x = p THEN s ELSE L.next[x]
                                  /\ M.prev[x] = IF x = s THEN p ELSE L.prev[x]
  BY <1>1, <1>3, <1>6 DEF Remove, Links, Walk
<1> HIDE DEF M
<1>8. v \in [1..n - 1 -> Entries]
  BY <1>3
<1>9. /\ \A i \in 1..n - 1 : i < k => v[i] = w[i]
      /\ \A i \in 1..n - 1 : ~ (i < k) => v[i] = w[i + 1]
  OBVIOUS
<1>10. \A i, j \in 1..n - 1 : v[i] = v[j] => i = j
  <2> HIDE DEF v
  <2> QED BY <1>3, <1>5, <1>9
<1>11. M.head[q] = IF n - 1 = 0 THEN Nil ELSE v[1]
  BY <1>3, <1>4, <1>7
<1>12. M.tail[q] = IF n - 1 = 0 THEN Nil ELSE v[n - 1]
  BY <1>3, <1>4, <1>7
<1>13. \A i \in 1..n - 1 : /\ M.next[v[i]] = IF i = n - 1 THEN Nil ELSE v[i + 1]
                           /\ M.prev[v[i]] = IF i = 1 THEN Nil ELSE v[i - 1]
  <2> TAKE i \in 1..n - 1
  <2>1. \A j \in 1..n : /\ L.next[w[j]] = IF j = n THEN Nil ELSE w[j + 1]
                        /\ L.prev[w[j]] = IF j = 1 THEN Nil ELSE w[j - 1]
    BY <1>1 DEF Walk
  <2>2. CASE i < k - 1
    <3>1. v[i] = w[i] /\ v[i + 1] = w[i + 1] /\ (i # 1 => v[i - 1] = w[i - 1])
      BY <1>3, <2>2
    <3>2. w[i] # p /\ w[i] # s /\ w[i] \in Entries \ {e}
      BY <1>3, <1>4, <1>5, <2>2
    <3> HIDE DEF v, p, s
    <3> QED BY <1>3, <1>7, <2>1, <2>2, <3>1, <3>2
  <2>3. CASE i = k - 1
    <3>1. v[i] = w[i] /\ v[i] = p /\ (i # 1 => v[i - 1] = w[i - 1])
      BY <1>3, <2>3
    <3>2. s = IF i = n - 1 THEN Nil ELSE v[i + 1]
      BY <1>3, <2>3
    <3>3. w[i] # s /\ w[i] \in Entries \ {e}
      BY <1>3, <1>4, <1>5, <2>3
    <3>4. L.prev[w[i]] = IF i = 1 THEN Nil ELSE w[i - 1]
      <4>1. i \in 1..n
        BY <1>3
      <4> HIDE DEF v, p, s, n
      <4> QED BY <2>1, <4>1
    <3>5. M.next[w[i]] = s /\ M.prev[w[i]] = L.prev[w[i]]
      <4> HIDE DEF v, p, s
      <4> QED BY <1>7, <3>1, <3>3
    <3> HIDE DEF v, p, s
    <3> QED BY <3>1, <3>2, <3>4, <3>5
  <2>4. CASE i = k
    <3>1. v[i] = w[i + 1] /\ v[i] = s /\ (i # n - 1 => v[i + 1] = w[i + 2])
      BY <1>3, <2>4
    <3>2. p = IF i = 1 THEN Nil ELSE v[i - 1]
      BY <1>3, <2>4
    <3>3. w[i + 1] # p /\ w[i + 1] \in Entries \ {e}
      BY <1>3, <1>4, <1>5, <2>4
    <3>4. L.next[w[i + 1]] = IF i = n - 1 THEN Nil ELSE w[i + 2]
      <4>1. i + 1 \in 1..n /\ (i + 1) + 1 = i + 2 /\ (i + 1 = n <=> i = n - 1)
        BY <1>3
      <4> HIDE DEF v, p, s, n
      <4> QED BY <2>1, <4>1
    <3>5. M.prev[w[i + 1]] = p /\ M.next[w[i + 1]] = L.next[w[i + 1]]
      <4> HIDE DEF v, p, s
      <4> QED BY <1>7, <3>1, <3>3
    <3> HIDE DEF v, p, s
    <3> QED BY <3>1, <3>2, <3>4, <3>5
  <2>5. CASE i > k
    <3>1. /\ v[i] = w[i + 1] /\ v[i - 1] = w[i] /\ i # 1
          /\ i # n - 1 => v[i + 1] = w[i + 2]
      BY <1>3, <2>5
    <3>2. w[i + 1] # p /\ w[i + 1] # s /\ w[i + 1] \in Entries \ {e}
      BY <1>3, <1>4, <1>5, <2>5
    <3> HIDE DEF v, p, s
    <3> QED BY <1>3, <1>7, <2>1, <2>5, <3>1, <3>2
  <2> QED BY <1>3, <2>2, <2>3, <2>4, <2>5
<1>14. Walk(M, q, v)
  <2> HIDE DEF v
  <2> QED BY <1>3, <1>7, <1>8, <1>10, <1>11, <1>12, <1>13 DEF Walk
<1>15. S \ {e} = {v[i] : i \in 1..n - 1}
  <2>1. \A x \in S \ {e} : x \in {v[i] : i \in 1..n - 1}
    <3> TAKE x \in S \ {e}
    <3>1. PICK j \in 1..n : x = w[j] /\ j # k
      BY <1>1, <1>2
    <3>2. CASE j < k
      BY <1>3, <1>9, <3>1, <3>2
    <3>3. CASE j > k
      <4>1. j - 1 \in 1..n - 1 /\ v[j - 1] = w[j]
        BY <1>3, <3>1, <3>3
      <4> QED BY <3>1, <4>1
    <3> QED BY <1>3, <3>1, <3>2, <3>3
  <2>2. \A i \in 1..n - 1 : v[i] \in S \ {e}
    <3> TAKE i \in 1..n - 1
    <3>1. CASE i < k
      BY <1>1, <1>3, <1>4, <1>9, <3>1
    <3>2. CASE ~ (i < k)
      BY <1>1, <1>3, <1>4, <1>9, <3>2
    <3> QED BY <3>1, <3>2
  <2> HIDE DEF v
  <2> QED BY <2>1, <2>2
<1>16. Holds(M, q, S \ {e})
  <2> HIDE DEF v, n
  <2> QED BY <1>7, <1>14, <1>15 DEF Holds
<1> QED BY <1>16 DEF M

\* Following next from the head runs along the walk and ends with nil.
LEMMA ReachedIs ==
  ASSUME NEW L, NEW q, NEW w, Walk(L, q, w), NEW n \in Nat, n = L.len[q]
  PROVE  Reached(L, q, n) = [i \in 0..n |-> IF i = n THEN Nil ELSE w[i + 1]]
<1> DEFINE W == [i \in 0..n |-> IF i = n THEN Nil ELSE w[i + 1]]
           step(at) == [i \in 0..n |-> IF i = 0 THEN L.head[q]
                        ELSE IF at[i - 1] = Nil THEN Nil ELSE L.next[at[i - 1]]]
<1>1. Reached(L, q, n) = CHOOSE at : at = step(at)
  BY DEF Reached
<1>2. W = step(W)
  BY NilIsNoEntry DEF Walk
<1> DEFINE at == Reached(L, q, n)
<1>3. at = step(at)
  <2> HIDE DEF W, step
  <2> QED BY <1>1, <1>2, Zenon
<1> HIDE DEF at
<1> DEFINE bad == {i \in 0..n : at[i] # W[i]}
<1>4. bad = {}
  <2> SUFFICES ASSUME bad # {} PROVE FALSE
    OBVIOUS
  <2>1. PICK i \in bad : \A j \in bad : i <= j
    <3>1. bad \in SUBSET Nat
      OBVIOUS
    <3> HIDE DEF bad
    <3> QED BY <3>1, NatMin
  <2>2. i \in 0..n /\ at[i] # W[i]
    BY <2>1
  <2>3. i # 0 => at[i - 1] = W[i - 1]
    <3> HIDE DEF W
    <3> QED BY <2>1, <2>2
  <2>4. at[i] = IF i = 0 THEN L.head[q]
                        ELSE IF at[i - 1] = Nil THEN Nil ELSE L.next[at[i - 1]]
    <3> HIDE DEF W
    <3> QED BY <1>3, <2>2
  <2>5. W[i] = IF i = 0 THEN L.head[q]
                        ELSE IF W[i - 1] = Nil THEN Nil ELSE L.next[W[i - 1]]
    <3>1. W[i] = step(W)[i]
      <4> HIDE DEF W, step
      <4> QED BY <1>2
    <3> HIDE DEF W
    <3> QED BY <3>1, <2>2
  <2> HIDE DEF W
  <2> QED BY <2>2, <2>3, <2>4, <2>5
<1>5. at = W
  <2>1. at = [i \in 0..n |-> at[i]]
    <3> HIDE DEF W
    <3> QED BY <1>3
  <2>2. W = [i \in 0..n |-> W[i]]
    OBVIOUS
  <2>3. \A i \in 0..n : at[i] = W[i]
    <3> HIDE DEF W
    <3> QED BY <1>4
  <2> HIDE DEF W
  <2> QED BY <2>1, <2>2, <2>3, Zenon
<1> QED
  BY <1>5 DEF at

\* What Holds promises is what QueuesIntact says of a queue.
LEMMA HoldsMeans ==
  ASSUME NEW L, NEW q, NEW S, Holds(L, q, S)
  PROVE  LET n  == L.len[q]
             at == Reached(L, q, n)
         IN /\ n \in Nat /\ IsFiniteSet(S) /\ n = Cardinality(S)
            /\ {at[i] : i \in 0 .. n - 1} = S
            /\ \A i \in 0 .. n - 1 :
                 L.prev[at[i]] = IF i = 0 THEN Nil ELSE at[i - 1]
            /\ at[n] = Nil
            /\ L.tail[q] = IF n = 0 THEN Nil ELSE at[n - 1]
<1> DEFINE n  == L.len[q]
           at == Reached(L, q, n)
<1>1. PICK w : Walk(L, q, w) /\ S = {w[i] : i \in 1..n}
  BY DEF Holds
<1>2. n \in Nat
  BY <1>1 DEF Walk
<1>3. at = [i \in 0..n |-> IF i = n THEN Nil ELSE w[i + 1]]
  <2> HIDE DEF n
  <2> QED BY <1>1, <1>2, ReachedIs DEF n
<1>4. IsFiniteSet(S) /\ n = Cardinality(S)
  <2>1. w \in [1..n -> S]
    BY <1>1 DEF Walk
  <2>2. w \in Injection(1..n, S) /\ w \in Surjection(1..n, S)
    BY <1>1, <2>1 DEF Walk, Injection, Surjection, IsInjective
  <2>3. ExistsBijection(1..n, S)
    BY <2>2 DEF ExistsBijection, Bijection
  <2> HIDE DEF n
  <2> QED BY <1>2, <2>3, FS_NatBijection, FS_CountingElements
<1> HIDE DEF at
<1>5. {at[i] : i \in 0 .. n - 1} = S
  <2>1. \A i \in 0 .. n - 1 : at[i] = w[i + 1] /\ i + 1 \in 1..n
    BY <1>2, <1>3
  <2>2. \A j \in 1..n : j - 1 \in 0 .. n - 1 /\ at[j - 1] = w[j]
    BY <1>2, <1>3
  <2>3. \A x \in S : x \in {at[i] : i \in 0 .. n - 1}
    BY <1>1, <2>2
  <2>4. \A i \in 0 .. n - 1 : at[i] \in S
    BY <1>1, <2>1
  <2> QED BY <2>3, <2>4
<1>6. \A i \in 0 .. n - 1 : L.prev[at[i]] = IF i = 0 THEN Nil ELSE at[i - 1]
  <2> TAKE i \in 0 .. n - 1
  <2>1. at[i] = w[i + 1] /\ i + 1 \in 1..n /\ (i # 0 => at[i - 1] = w[i])
    BY <1>2, <1>3
  <2>2. L.prev[w[i + 1]] = IF i + 1 = 1 THEN Nil ELSE w[(i + 1) - 1]
    BY <1>1, <2>1 DEF Walk
  <2> QED BY <1>2, <2>1, <2>2
<1>7. at[n] = Nil
  BY <1>2, <1>3
<1>8. L.tail[q] = IF n = 0 THEN Nil ELSE at[n - 1]
  BY <1>1, <1>2, <1>3 DEF Walk
<1> QED BY <1>2, <1>4, <1>5, <1>6, <1>7, <1>8 DEF at
\* A pushed entry joins its queue and leaves the other as it was.
LEMMA PushTwo ==
  ASSUME NEW L \in Links, NEW q \in Queues, NEW S,
         \A r \in Queues : Holds(L, r, S[r]), S["small"] \cap S["main"] = {},
         NEW e \in Entries, e \notin S["small"], e \notin S["main"]
  PROVE  \A r \in Queues :
           Holds(PushBack(L, q, e), r, IF r = q THEN S[r] \cup {e} ELSE S[r])
<1>1. Holds(PushBack(L, q, e), q, S[q] \cup {e})
  BY PushHolds DEF Queues
<1>2. ASSUME NEW r \in Queues \ {q} PROVE Holds(PushBack(L, q, e), r, S[r])
  <2>1. S[q] \cap S[r] = {} /\ e \notin S[r] /\ Holds(L, q, S[q]) /\ Holds(L, r, S[r])
    BY DEF Queues
  <2> QED BY <2>1, PushKeeps
<1> QED BY <1>1, <1>2

\* A removed entry leaves its queue, and the other as it was.
LEMMA RemoveTwo ==
  ASSUME NEW L \in Links, NEW q \in Queues, NEW S,
         \A r \in Queues : Holds(L, r, S[r]), S["small"] \cap S["main"] = {},
         NEW e \in S[q]
  PROVE  \A r \in Queues :
           Holds(Remove(L, q, e), r, IF r = q THEN S[r] \ {e} ELSE S[r])
<1>1. Holds(Remove(L, q, e), q, S[q] \ {e})
  BY RemoveHolds
<1>2. ASSUME NEW r \in Queues \ {q} PROVE Holds(Remove(L, q, e), r, S[r])
  <2>1. S[q] \cap S[r] = {} /\ Holds(L, q, S[q]) /\ Holds(L, r, S[r])
    BY DEF Queues
  <2> QED BY <2>1, RemoveKeeps
<1> QED BY <1>1, <1>2

\* Empty lists hold nothing.
LEMMA NothingHeld == \A q \in Queues : Holds(NoLinks, q, {})
<1> TAKE q \in Queues
<1> DEFINE w == [i \in 1..0 |-> Nil]
<1>1. NoLinks.len[q] = 0 /\ NoLinks.head[q] = Nil /\ NoLinks.tail[q] = Nil
  BY DEF NoLinks
<1>2. w \in [1..0 -> Entries] /\ 1..0 = {}
  OBVIOUS
<1> HIDE DEF w
<1>3. Walk(NoLinks, q, w)
  BY <1>1, <1>2 DEF Walk
<1>4. {} = {w[i] : i \in 1..NoLinks.len[q]}
  BY <1>1, <1>2
<1> QED BY <1>3, <1>4 DEF Holds

\* A queue that counts an entry has a head, which it holds.
LEMMA HeadHeld ==
  ASSUME NEW L \in Links, NEW q \in Queues, NEW S, Holds(L, q, S), L.len[q] > 0
  PROVE  L.head[q] \in S /\ S \subseteq Entries /\ L.head[q] # Nil
BY NilIsNoEntry DEF Holds, Walk

-----------------------------------------------------------------------------
(* The inductive invariant *)

\* The entries that belong on q by the index tb and the entry fields en: the
\* index maps their key to them, and they are not on death row.
Owned(tb, en, q) ==
  {x \in Entries : /\ en[x].key \in Keys /\ tb[en[x].key] = x
                   /\ ~en[x].onRow /\ (en[x].inSmall <=> q = "small")}

QueuesHold == \A q \in Queues : Holds(links, q, Owned(table, ent, q))

\* Everything the cache relies on, except while an entry deleted from death row
\* may have cleared a list it was not on.
Sound    == QueuesHold /\ RowIntact /\ IndexIntact /\ InsertIntact /\ ~panicked
QueueInv == IInv /\ (~rowDeleted => Sound)

\* Two names for the same entries, as the index gives every key its own.
LEMMA OwnedMembers ==
  ASSUME TypeOK, IndexIntact, NEW q \in Queues
  PROVE  Members(q) = Owned(table, ent, q)
<1>1. \A k \in Keys : table[k] \in Entries \cup {Nil} /\ (table[k] # Nil => ent[table[k]].key = k)
  BY DEF TypeOK, Ref, IndexIntact
<1>2. \A x \in Members(q) : x \in Owned(table, ent, q)
  BY <1>1 DEF Members, Owned, Live, QueueOf, Queues
<1>3. \A x \in Owned(table, ent, q) : x \in Members(q)
  <2> TAKE x \in Owned(table, ent, q)
  <2>1. x \in Entries /\ ent[x].key \in Keys /\ table[ent[x].key] = x
    BY DEF Owned
  <2>2. Live(ent[x].key) /\ QueueOf(x) = q
    BY <2>1, NilIsNoEntry DEF Owned, Live, QueueOf, Queues
  <2> QED BY <2>1, <2>2 DEF Members
<1> QED BY <1>2, <1>3

\* No entry is owned by both queues.
LEMMA OwnedApart == \A tb, en : Owned(tb, en, "small") \cap Owned(tb, en, "main") = {}
BY DEF Owned

\* Nothing on death row is on a queue or waiting to be inserted.
LEMMA RowApart ==
  ASSUME IInv, Sound, ~rowDeleted, NEW i \in RowSlots, row[i] # Nil
  PROVE  /\ row[i] \in Entries /\ ent[row[i]].key \in Keys
         /\ table[ent[row[i]].key] = row[i] /\ ent[row[i]].onRow
         /\ \A j \in RowSlots : row[j] = row[i] => j = i
BY DEF IInv, TypeOK, KeyedOK, Keyed, Sound, RowIntact, Ref

-----------------------------------------------------------------------------
(* Steps that leave the lists alone *)

\* A step that only touches counters, or moves a goroutine that has nothing to
\* insert.
LEMMA FrameSound ==
  ASSUME IInv, Sound, ~rowDeleted,
         UNCHANGED <<table, links, row, free, panicked, rowDeleted>>,
         \A e \in Entries : /\ ent'[e].key = ent[e].key
                            /\ ent'[e].onRow = ent[e].onRow
                            /\ ent'[e].inSmall = ent[e].inSmall,
         \A p \in Procs : Inserting(p)' => Inserting(p) /\ arg'[p] = arg[p]
  PROVE  Sound'
<1>1. \A k \in Keys : table[k] \in Entries \cup {Nil}
  BY DEF IInv, TypeOK, Ref
<1>2. \A i \in RowSlots : row[i] \in Entries \cup {Nil}
  BY DEF IInv, TypeOK, Ref
<1>3. \A q : Owned(table', ent', q) = Owned(table, ent, q)
  BY DEF Owned
<1>4. QueuesHold'
  BY <1>3 DEF Sound, QueuesHold
<1>5. RowIntact'
  BY <1>1, <1>2 DEF Sound, RowIntact
<1>6. IndexIntact'
  BY <1>1 DEF Sound, IndexIntact, Inserting
<1>7. InsertIntact'
  <2> SUFFICES ASSUME NEW p \in Procs, Inserting(p)'
               PROVE  /\ arg'[p].key \in Keys /\ table'[arg'[p].key] = Nil
                      /\ ent'[arg'[p].ent].key = arg'[p].key /\ ~ent'[arg'[p].ent].onRow
                      /\ arg'[p].ent # free'
    BY DEF InsertIntact
  <2>1. Inserting(p) /\ arg'[p] = arg[p] /\ arg[p].ent \in Entries
    BY DEF IInv, TypeOK, Ref, Inserting
  <2> QED BY <2>1 DEF Sound, InsertIntact
<1> QED BY <1>4, <1>5, <1>6, <1>7 DEF Sound

\* Looking a key up inserts nothing.
LEMMA CallSound ==
  ASSUME IInv, Sound, ~rowDeleted, NEW p \in Procs, NEW k \in Keys, Call(p, k)
  PROVE  Sound'
<1>1. PICK s \in {"incFreq", "resurrectLock", "setLock"}, e \in Ref : Goto(p, s, k, e)
  BY DEF Call, GetHit, GetOnDeathRow, SetHit, SetMiss, IInv, TypeOK, Ref
<1>2. UNCHANGED <<table, ent, links, row, free, panicked, rowDeleted>>
  BY DEF Call, GetHit, GetOnDeathRow, SetHit, SetMiss, queueVars, evictVars, histVars
<1>3. s \in Steps \ (Evicting \cup {"insert"})
  BY DEF Steps, Evicting
<1>4. /\ pc'[p] = s /\ \A q \in Procs \ {p} : pc'[q] = pc[q] /\ arg'[q] = arg[q]
  BY <1>1, <1>3, GotoType DEF IInv
<1>5. \A q \in Procs : Inserting(q)' => Inserting(q) /\ arg'[q] = arg[q]
  BY <1>3, <1>4 DEF Inserting
<1> QED BY <1>2, <1>5, FrameSound

\* Touching an entry changes neither its key nor where it is.
LEMMA TouchSound ==
  ASSUME IInv, Sound, ~rowDeleted, NEW p \in Procs, Touch(p)
  PROVE  Sound'
<1>1. /\ arg[p].ent \in Entries
      /\ UNCHANGED <<table, links, row, free, panicked, rowDeleted>>
  BY DEF IInv, TypeOK, LockOK, Ref, Touch, IncFreq, IncPeakFreq,
         queueVars, evictVars, histVars
<1>2. \/ Step(p, "incPeakFreq")
      \/ Return(p)
  BY DEF Touch, IncFreq, IncPeakFreq
<1>3. /\ pc'[p] \in {"idle", "incPeakFreq"}
      /\ \A q \in Procs \ {p} : pc'[q] = pc[q] /\ arg'[q] = arg[q]
  BY <1>2, StepType, ReturnType DEF IInv, Steps
<1>4. \A e \in Entries : /\ ent'[e].key = ent[e].key
                         /\ ent'[e].onRow = ent[e].onRow
                         /\ ent'[e].inSmall = ent[e].inSmall
  <2>1. CASE IncFreq(p)
    <3>1. PICK f : ent' = [ent EXCEPT ![arg[p].ent].freq = f]
      BY <2>1 DEF IncFreq
    <3> QED BY <1>1, <3>1 DEF IInv, TypeOK, Fields
  <2>2. CASE IncPeakFreq(p)
    <3>1. PICK f : ent' = [ent EXCEPT ![arg[p].ent].peak = f]
      BY <2>2 DEF IncPeakFreq
    <3> QED BY <1>1, <3>1 DEF IInv, TypeOK, Fields
  <2> QED BY <2>1, <2>2 DEF Touch
<1>5. \A q \in Procs : Inserting(q)' => Inserting(q) /\ arg'[q] = arg[q]
  BY <1>3 DEF Inserting, Evicting
<1> QED BY <1>1, <1>4, <1>5, FrameSound

\* Nor do a double check that ends in an update, a resurrection given up, a turn
\* of evictOne, an empty queue and a head found cold.
LEMMA MoveSound ==
  ASSUME IInv, Sound, ~rowDeleted, NEW p \in Procs,
         \/ SetRaced(p) \/ ResurrectRaced(p) \/ EvictOne(p) \/ QueueEmpty(p)
         \/ EvictFromSmall(p) \/ EvictFromMain(p)
  PROVE  Sound'
<1>1. UNCHANGED <<table, ent, links, row, free, panicked, rowDeleted>>
  BY DEF SetRaced, ResurrectRaced, EvictOne, QueueEmpty, EvictFromSmall, EvictFromMain,
         queueVars, evictVars, histVars
<1>2. \A q \in Procs : Inserting(q)' => Inserting(q) /\ arg'[q] = arg[q]
  <2>1. CASE SetRaced(p)
    <3>1. pc'[p] = "incFreq" /\ \A q \in Procs \ {p} : pc'[q] = pc[q] /\ arg'[q] = arg[q]
      BY <2>1 DEF SetRaced, Goto, IInv, TypeOK
    <3> QED BY <3>1 DEF Inserting, Evicting
  <2>2. CASE ResurrectRaced(p)
    <3>1. pc'[p] = "idle" /\ \A q \in Procs \ {p} : pc'[q] = pc[q] /\ arg'[q] = arg[q]
      BY <2>2, ReturnType DEF ResurrectRaced, IInv
    <3> QED BY <3>1 DEF Inserting, Evicting
  <2>3. CASE EvictOne(p) \/ QueueEmpty(p) \/ EvictFromSmall(p) \/ EvictFromMain(p)
    <3>1. pc[p] \in Evicting /\ \E s \in Evicting : Step(p, s)
      BY <2>3 DEF EvictOne, QueueEmpty, EvictFromSmall, EvictFromMain, InMain, AfterMain,
                  Evicting
    <3>2. arg' = arg /\ \A q \in Procs \ {p} : pc'[q] = pc[q]
      BY <3>1, StepType DEF IInv, Steps
    <3> QED BY <3>1, <3>2 DEF Inserting
  <2> QED BY <2>1, <2>2, <2>3
<1> QED BY <1>1, <1>2, FrameSound

\* A queue that counts entries has a head: nobody dereferences nil.
LEMMA NoPanic ==
  ASSUME IInv, Sound, NEW p \in Procs, Panic(p)
  PROVE  FALSE
<1>1. PICK q \in Queues : links.len[q] > 0 /\ links.head[q] = Nil
  BY DEF Panic, Queues
<1>2. Holds(links, q, Owned(table, ent, q))
  BY DEF Sound, QueuesHold
<1> QED BY <1>1, <1>2, HeadHeld DEF IInv, TypeOK

\* A new entry, fresh or recycled, is nowhere in the index or on death row.
LEMMA AllocatedApart ==
  ASSUME IInv, Sound, ~rowDeleted, NEW e \in Allocated
  PROVE  /\ e \in Entries /\ \A k \in Keys : table[k] # e
         /\ \A i \in RowSlots : row[i] # e
         /\ \A q \in Queues : e \notin Owned(table, ent, q)
<1>1. e \in Entries
  BY DEF IInv, TypeOK, Ref, Allocated, Unreferenced
<1>2. \A k \in Keys : table[k] # e
  BY <1>1, NilIsNoEntry DEF Allocated, Unreferenced, Sound, IndexIntact
<1>3. \A i \in RowSlots : row[i] # e
  BY <1>1, <1>2, RowApart, NilIsNoEntry
<1>4. \A q \in Queues : e \notin Owned(table, ent, q)
  BY <1>2 DEF Owned
<1> QED BY <1>1, <1>2, <1>3, <1>4

\* An entry joins the queue it is pushed on,
LEMMA JoinHolds ==
  ASSUME IInv, Sound, NEW q \in Queues, NEW e \in Entries,
         \A r \in Queues : e \notin Owned(table, ent, r),
         links' = PushBack(links, q, e),
         \A r \in Queues : e \in Owned(table', ent', r) <=> r = q,
         \A r \in Queues : \A x \in Entries \ {e} :
           x \in Owned(table', ent', r) <=> x \in Owned(table, ent, r)
  PROVE  QueuesHold'
<1> DEFINE S == [r \in Queues |-> Owned(table, ent, r)]
<1>1. \A r \in Queues : Owned(table', ent', r) = IF r = q THEN S[r] \cup {e} ELSE S[r]
  <2> TAKE r \in Queues
  <2>1. Owned(table', ent', r) \subseteq Entries /\ S[r] \subseteq Entries
    BY DEF Owned
  <2> QED BY <2>1
<1>2. \A r \in Queues : Holds(links, r, S[r])
  BY DEF Sound, QueuesHold
<1>3. S["small"] \cap S["main"] = {} /\ e \notin S["small"] /\ e \notin S["main"]
  BY OwnedApart DEF Queues
<1> HIDE DEF S
<1>4. \A r \in Queues : Holds(PushBack(links, q, e), r, IF r = q THEN S[r] \cup {e} ELSE S[r])
  BY <1>2, <1>3, PushTwo DEF IInv, TypeOK
<1> QED BY <1>1, <1>4 DEF QueuesHold

\* leaves the queue it is removed from,
LEMMA LeaveHolds ==
  ASSUME IInv, Sound, NEW q \in Queues, NEW e \in Owned(table, ent, q),
         links' = Remove(links, q, e),
         \A r \in Queues : e \notin Owned(table', ent', r),
         \A r \in Queues : \A x \in Entries \ {e} :
           x \in Owned(table', ent', r) <=> x \in Owned(table, ent, r)
  PROVE  QueuesHold'
<1> DEFINE S == [r \in Queues |-> Owned(table, ent, r)]
<1>1. \A r \in Queues : Owned(table', ent', r) = IF r = q THEN S[r] \ {e} ELSE S[r]
  <2> TAKE r \in Queues
  <2>1. Owned(table', ent', r) \subseteq Entries /\ S[r] \subseteq Entries
    BY DEF Owned
  <2>2. r # q => e \notin S[r]
    BY OwnedApart DEF Queues
  <2> QED BY <2>1, <2>2
<1>2. (\A r \in Queues : Holds(links, r, S[r])) /\ e \in S[q]
  BY DEF Sound, QueuesHold
<1>3. S["small"] \cap S["main"] = {}
  BY OwnedApart DEF Queues
<1> HIDE DEF S
<1>4. \A r \in Queues : Holds(Remove(links, q, e), r, IF r = q THEN S[r] \ {e} ELSE S[r])
  BY <1>2, <1>3, RemoveTwo DEF IInv, TypeOK
<1> QED BY <1>1, <1>4 DEF QueuesHold

\* or moves from one to the tail of another, or of the same.
LEMMA MoveHolds ==
  ASSUME IInv, Sound, NEW q \in Queues, NEW to \in Queues,
         NEW e \in Owned(table, ent, q),
         links' = PushBack(Remove(links, q, e), to, e),
         \A r \in Queues : e \in Owned(table', ent', r) <=> r = to,
         \A r \in Queues : \A x \in Entries \ {e} :
           x \in Owned(table', ent', r) <=> x \in Owned(table, ent, r)
  PROVE  QueuesHold'
<1> DEFINE S == [r \in Queues |-> Owned(table, ent, r)]
           T == [r \in Queues |-> S[r] \ {e}]
           L == Remove(links, q, e)
<1>1. \A r \in Queues : Owned(table', ent', r) = IF r = to THEN T[r] \cup {e} ELSE T[r]
  <2> TAKE r \in Queues
  <2>1. Owned(table', ent', r) \subseteq Entries /\ T[r] \subseteq Entries /\ e \in Entries
    BY DEF Owned
  <2>2. \A x \in Entries \ {e} : x \in Owned(table', ent', r) <=> x \in T[r]
    OBVIOUS
  <2>3. e \notin T[r] /\ (e \in Owned(table', ent', r) <=> r = to)
    OBVIOUS
  <2> HIDE DEF S, T
  <2> QED BY <2>1, <2>2, <2>3
<1>2. (\A r \in Queues : Holds(links, r, S[r])) /\ e \in S[q] /\ e \in Entries
  BY DEF Sound, QueuesHold, Owned
<1>3. S["small"] \cap S["main"] = {}
  BY OwnedApart DEF Queues
<1>4. \A r \in Queues : T[r] = IF r = q THEN S[r] \ {e} ELSE S[r]
  BY <1>2, <1>3 DEF Queues
<1>5. T["small"] \cap T["main"] = {} /\ e \notin T["small"] /\ e \notin T["main"]
  BY <1>3 DEF Queues
<1> HIDE DEF S, T
<1>6. L \in Links
  BY <1>2, RemoveType DEF IInv, TypeOK
<1>7. \A r \in Queues : Holds(L, r, T[r])
  <2>1. \A r \in Queues : Holds(L, r, IF r = q THEN S[r] \ {e} ELSE S[r])
    BY <1>2, <1>3, RemoveTwo DEF IInv, TypeOK
  <2> HIDE DEF L
  <2> QED BY <1>4, <2>1
<1> HIDE DEF L
<1>8. \A r \in Queues : Holds(PushBack(L, to, e), r, IF r = to THEN T[r] \cup {e} ELSE T[r])
  BY <1>2, <1>5, <1>6, <1>7, PushTwo
<1> QED BY <1>1, <1>8 DEF QueuesHold, L

\* Below capacity the new entry joins the small queue and the index at once.
LEMMA SetBelowCapacitySound ==
  ASSUME IInv, IInv', Sound, ~rowDeleted, NEW p \in Procs, SetBelowCapacity(p)
  PROVE  Sound'
<1> DEFINE k == arg[p].key
           new == EntryOf(k, 0, TRUE)
<1>1. /\ pc[p] = "setLock" /\ lock = Nil /\ k \in Keys /\ table[k] = Nil
      /\ free' = Nil /\ Return(p)
      /\ UNCHANGED <<row, panicked, rowDeleted>>
  BY DEF IInv, LockOK, SetBelowCapacity, histVars
<1>2. PICK e \in Allocated :
        /\ ent' = [ent EXCEPT ![e] = new]
        /\ links' = PushBack(links, "small", e)
        /\ table' = [table EXCEPT ![k] = e]
  BY DEF SetBelowCapacity
<1>3. /\ e \in Entries /\ \A x \in Keys : table[x] # e
      /\ \A i \in RowSlots : row[i] # e
      /\ \A q \in Queues : e \notin Owned(table, ent, q)
  BY AllocatedApart
<1>4. /\ table \in [Keys -> Ref] /\ ent \in [Entries -> Fields] /\ links \in Links
      /\ row \in [RowSlots -> Ref]
  BY DEF IInv, TypeOK
<1>5. new.key = k /\ ~new.onRow /\ new.inSmall
  BY DEF EntryOf
<1>6. \A q \in Procs : ~Inserting(q) /\ ~Inserting(q)'
  <2>1. pc'[p] = "idle" /\ \A q \in Procs \ {p} : pc'[q] = pc[q]
    BY <1>1, ReturnType DEF IInv
  <2> QED BY <1>1, <2>1, S3FIFOConstants DEF IInv, LockOK, Inserting, Evicting
<1> HIDE DEF new, k
<1>7. \A x \in Keys : table[x] # Nil => /\ table[x] \in Entries \ {e} /\ ent[table[x]].key = x
                                        /\ table'[x] = table[x] /\ ent'[table[x]] = ent[table[x]]
  BY <1>1, <1>2, <1>3, <1>4 DEF Sound, IndexIntact, Ref
<1>8. table'[k] = e /\ ent'[e] = new /\ \A x \in Keys \ {k} : table'[x] = table[x]
  BY <1>1, <1>2, <1>3, <1>4
<1>9. QueuesHold'
  <2>1. ASSUME NEW q \in Queues, NEW x \in Entries \ {e}
        PROVE  x \in Owned(table', ent', q) <=> x \in Owned(table, ent, q)
    <3>1. ent'[x] = ent[x]
      BY <1>2, <1>4
    <3>2. ent[x].key \in Keys => (table'[ent[x].key] = x <=> table[ent[x].key] = x)
      BY <1>1, <1>3, <1>8, NilIsNoEntry
    <3> QED BY <3>1, <3>2 DEF Owned
  <2>2. \A q \in Queues : e \in Owned(table', ent', q) <=> q = "small"
    BY <1>1, <1>3, <1>5, <1>8 DEF Owned, Queues
  <2> QED BY <1>2, <1>3, <2>1, <2>2, JoinHolds DEF Queues
<1>10. RowIntact'
  <2>1. \A x \in Keys : table'[x] # Nil =>
          (ent'[table'[x]].onRow <=> \E i \in RowSlots : row'[i] = table'[x])
    BY <1>1, <1>3, <1>5, <1>7, <1>8 DEF Sound, RowIntact
  <2>2. \A i \in RowSlots : row'[i] # Nil => table'[ent'[row'[i]].key] = row'[i]
    <3> TAKE i \in RowSlots
    <3> HAVE row'[i] # Nil
    <3>1. /\ row[i] \in Entries /\ ent[row[i]].key \in Keys /\ row' = row
          /\ table[ent[row[i]].key] = row[i]
      BY <1>1, RowApart
    <3> QED BY <1>7, <3>1, NilIsNoEntry
  <2> QED BY <1>1, <2>1, <2>2 DEF Sound, RowIntact
<1>11. IndexIntact'
  <2> SUFFICES ASSUME NEW x \in Keys, table'[x] # Nil
               PROVE  ent'[table'[x]].key = x /\ table'[x] # free'
                      /\ \A q \in Procs : ~ Inserting(q)' \/ arg'[q].ent # table'[x]
    BY DEF IndexIntact, Inserting
  <2> QED BY <1>1, <1>5, <1>6, <1>7, <1>8
<1>12. InsertIntact'
  BY <1>6 DEF InsertIntact
<1> QED BY <1>1, <1>9, <1>10, <1>11, <1>12 DEF Sound

\* At capacity the new entry is filled in while nothing refers to it.
LEMMA SetAtCapacitySound ==
  ASSUME IInv, IInv', Sound, ~rowDeleted, NEW p \in Procs, SetAtCapacity(p)
  PROVE  Sound'
<1> DEFINE k == arg[p].key
<1>1. /\ pc[p] = "setLock" /\ lock = Nil /\ k \in Keys /\ table[k] = Nil
      /\ free' = Nil
      /\ UNCHANGED <<table, links, row, panicked, rowDeleted>>
  BY DEF IInv, LockOK, SetAtCapacity, queueVars, histVars
<1>2. PICK e, new :
        /\ e \in Allocated
        /\ ent' = [ent EXCEPT ![e] = new] /\ new.key = k /\ ~new.onRow
        /\ Goto(p, "evictOne", k, e)
  <2>1. PICK e \in Allocated, inGhost \in {TRUE, InGhost(ghosts, k)} :
          /\ ent' = [ent EXCEPT ![e] = IF inGhost THEN EntryOf(k, Lookup(ghosts, k), FALSE)
                                       ELSE EntryOf(k, 0, TRUE)]
          /\ Goto(p, "evictOne", k, e)
    BY DEF SetAtCapacity
  <2>2. \A peak, b : EntryOf(k, peak, b).key = k /\ ~EntryOf(k, peak, b).onRow
    BY DEF EntryOf
  <2> HIDE DEF k
  <2> QED BY <2>1, <2>2
<1>3. /\ e \in Entries /\ \A x \in Keys : table[x] # e
      /\ \A i \in RowSlots : row[i] # e
      /\ \A q \in Queues : e \notin Owned(table, ent, q)
  BY <1>2, AllocatedApart
<1>4. /\ table \in [Keys -> Ref] /\ ent \in [Entries -> Fields]
      /\ row \in [RowSlots -> Ref]
  BY DEF IInv, TypeOK
<1>5. /\ arg'[p].key = k /\ arg'[p].ent = e
      /\ \A q \in Procs \ {p} : ~Inserting(q)'
  <2>1. /\ arg'[p].key = k /\ arg'[p].ent = e
        /\ \A q \in Procs \ {p} : pc'[q] = pc[q]
    BY <1>1, <1>2, <1>3, GotoType DEF IInv, Steps, Evicting, Ref
  <2> QED BY <1>1, <2>1, S3FIFOConstants DEF IInv, LockOK, Inserting, Evicting
<1> HIDE DEF k
<1>6. ent'[e] = new /\ \A x \in Entries \ {e} : ent'[x] = ent[x]
  BY <1>2, <1>3, <1>4
<1>7. \A x \in Keys : table[x] # Nil => /\ table[x] \in Entries \ {e} /\ ent[table[x]].key = x
                                        /\ ent'[table[x]] = ent[table[x]]
  BY <1>3, <1>4, <1>6 DEF Sound, IndexIntact, Ref
<1>8. QueuesHold'
  <2>1. \A q \in Queues : Owned(table', ent', q) = Owned(table, ent, q)
    BY <1>1, <1>3, <1>6 DEF Owned
  <2> QED BY <1>1, <2>1 DEF Sound, QueuesHold
<1>9. RowIntact'
  <2>1. \A i \in RowSlots : row[i] # Nil => table[ent'[row[i]].key] = row[i]
    BY <1>3, <1>6, RowApart
  <2> QED BY <1>1, <1>7, <2>1 DEF Sound, RowIntact
<1>10. IndexIntact'
  BY <1>1, <1>3, <1>5, <1>7 DEF IndexIntact, Inserting
<1>11. InsertIntact'
  BY <1>1, <1>2, <1>3, <1>5, <1>6, NilIsNoEntry DEF InsertIntact
<1> QED BY <1>1, <1>8, <1>9, <1>10, <1>11 DEF Sound

\* Only the holder of the mutex has an entry to insert.
LEMMA InserterHolds ==
  ASSUME IInv, NEW p \in Procs, lock = p
  PROVE  \A q \in Procs \ {p} : ~Inserting(q)
BY DEF IInv, LockOK, Inserting

\* Publishing the new entry puts it on the queue it is flagged for.
LEMMA InsertSound ==
  ASSUME IInv, IInv', Sound, ~rowDeleted, NEW p \in Procs, Insert(p)
  PROVE  Sound'
<1> DEFINE e == arg[p].ent
           k == arg[p].key
<1>1. /\ pc[p] = "insert" /\ lock = p /\ k \in Keys /\ e \in Entries
      /\ links' = PushBack(links, QueueOf(e), e)
      /\ table' = [table EXCEPT ![k] = e]
      /\ Return(p)
      /\ UNCHANGED <<ent, row, free, panicked, rowDeleted>>
  BY DEF IInv, LockOK, KeyedOK, Keyed, Insert, evictVars, histVars
<1>2. Inserting(p) /\ e # Nil
  BY <1>1, NilIsNoEntry DEF Inserting
<1>3. /\ table[k] = Nil /\ ent[e].key = k /\ ~ent[e].onRow /\ e # free
  BY <1>2 DEF Sound, InsertIntact
<1>4. \A x \in Keys : table[x] # e
  BY <1>2 DEF Sound, IndexIntact, Inserting
<1>5. \A q \in Procs : ~Inserting(q)'
  <2>1. pc'[p] = "idle" /\ \A q \in Procs \ {p} : pc'[q] = pc[q] /\ arg'[q] = arg[q]
    BY <1>1, ReturnType DEF IInv
  <2> QED BY <1>1, <2>1, InserterHolds DEF Inserting, Evicting
<1>6. \A i \in RowSlots : row[i] # e
  BY <1>1, <1>4, RowApart, NilIsNoEntry
<1>7. table \in [Keys -> Ref] /\ ent \in [Entries -> Fields]
  BY DEF IInv, TypeOK
<1> HIDE DEF e, k
<1>8. table'[k] = e /\ \A x \in Keys \ {k} : table'[x] = table[x]
  BY <1>1, <1>7
<1>9. QueuesHold'
  <2>1. QueueOf(e) \in Queues
    BY DEF QueueOf, Queues
  <2>2. ASSUME NEW q \in Queues, NEW x \in Entries \ {e}
        PROVE  x \in Owned(table', ent', q) <=> x \in Owned(table, ent, q)
    <3>1. ent[x].key \in Keys => (table'[ent[x].key] = x <=> table[ent[x].key] = x)
      BY <1>3, <1>8, NilIsNoEntry
    <3> QED BY <1>1, <3>1 DEF Owned
  <2>3. \A q \in Queues : e \notin Owned(table, ent, q)
    BY <1>4 DEF Owned
  <2>4. \A q \in Queues : e \in Owned(table', ent', q) <=> q = QueueOf(e)
    BY <1>1, <1>3, <1>8 DEF Owned, Queues, QueueOf
  <2> QED BY <1>1, <2>1, <2>2, <2>3, <2>4, JoinHolds
<1>10. RowIntact'
  <2>1. \A x \in Keys : table'[x] # Nil =>
          (ent[table'[x]].onRow <=> \E i \in RowSlots : row[i] = table'[x])
    BY <1>1, <1>3, <1>6, <1>8 DEF Sound, RowIntact
  <2>2. \A i \in RowSlots : row[i] # Nil => table'[ent[row[i]].key] = row[i]
    BY <1>3, <1>6, <1>8, RowApart, NilIsNoEntry
  <2> QED BY <1>1, <2>1, <2>2 DEF Sound, RowIntact
<1>11. IndexIntact'
  BY <1>1, <1>3, <1>5, <1>8 DEF Sound, IndexIntact, Inserting
<1>12. InsertIntact'
  BY <1>5 DEF InsertIntact
<1> QED BY <1>1, <1>9, <1>10, <1>11, <1>12 DEF Sound

\* An entry with one slot of death row is cleared from it.
LEMMA RowWithoutClears ==
  ASSUME IInv, Sound, ~rowDeleted, NEW e \in Entries
  PROVE  \A i \in RowSlots : RowWithout(e)[i] = IF row[i] = e THEN Nil ELSE row[i]
<1> TAKE i \in RowSlots
<1>1. row[i] = e => \A j \in 0 .. i - 1 : row[j] # e
  <2> HAVE row[i] = e
  <2> TAKE j \in 0 .. i - 1
  <2>1. j \in RowSlots /\ j # i
    BY S3FIFOConstants DEF RowSlots
  <2> QED BY <2>1, RowApart, NilIsNoEntry
<1> QED BY <1>1 DEF RowWithout

\* A resurrected entry leaves death row for the tail of main.
LEMMA ResurrectSound ==
  ASSUME IInv, IInv', Sound, ~rowDeleted, NEW p \in Procs, Resurrect(p)
  PROVE  Sound'
<1> DEFINE k == arg[p].key
           e == table[k]
           new == [ent[e] EXCEPT !.onRow = FALSE, !.inSmall = FALSE,
                                 !.freq = BoostFreq, !.peak = BoostFreq]
<1>1. /\ pc[p] = "resurrectLock" /\ lock = Nil
      /\ k \in Keys /\ e \in Entries /\ e # Nil /\ ent[e].onRow
      /\ row' = RowWithout(e)
      /\ links' = PushBack(links, "main", e)
      /\ UNCHANGED <<table, free, panicked, rowDeleted>>
  BY DEF IInv, TypeOK, Ref, LockOK, Resurrect, histVars
<1>2. ent' = [ent EXCEPT ![e] = new]
  BY DEF Resurrect
<1>3. table \in [Keys -> Ref] /\ ent \in [Entries -> Fields] /\ row \in [RowSlots -> Ref]
  BY DEF IInv, TypeOK
<1>4. new.key = ent[e].key /\ ~new.onRow /\ ~new.inSmall
  <2>1. ent[e] \in Fields
    BY <1>1, <1>3
  <2> HIDE DEF e
  <2> QED BY <2>1 DEF Fields
<1>5. ent[e].key = k /\ e # free
  BY <1>1 DEF Sound, IndexIntact
<1>6. \A q \in Procs : ~Inserting(q)'
  <2>1. \A q \in Procs : ~Inserting(q)
    BY <1>1, S3FIFOConstants DEF IInv, LockOK, Inserting
  <2>2. arg'[p].ent = Nil /\ \A q \in Procs \ {p} : pc'[q] = pc[q] /\ arg'[q] = arg[q]
    <3>1. CASE total + 1 > Capacity
      <4>1. Goto(p, "evictOne", k, Nil)
        BY <3>1 DEF Resurrect
      <4> HIDE DEF k
      <4> QED BY <1>1, <4>1, GotoType DEF IInv, Steps, Evicting, Ref
    <3>2. CASE ~ (total + 1 > Capacity)
      BY <3>2, ReturnType DEF IInv, Resurrect
    <3> QED BY <3>1, <3>2
  <2> QED BY <2>1, <2>2 DEF Inserting
<1> HIDE DEF new, e, k
<1>7. ent'[e] = new /\ \A x \in Entries \ {e} : ent'[x] = ent[x]
  BY <1>1, <1>2, <1>3
<1>8. \A i \in RowSlots : row'[i] = IF row[i] = e THEN Nil ELSE row[i]
  BY <1>1, RowWithoutClears
<1>9. QueuesHold'
  <2>1. \A q \in Queues : \A x \in Entries \ {e} :
          x \in Owned(table', ent', q) <=> x \in Owned(table, ent, q)
    BY <1>1, <1>7 DEF Owned
  <2>2. \A q \in Queues : e \notin Owned(table, ent, q)
    BY <1>1 DEF Owned
  <2>3. \A q \in Queues : e \in Owned(table', ent', q) <=> q = "main"
    BY <1>1, <1>4, <1>5, <1>7 DEF Owned, Queues, e
  <2> QED BY <1>1, <2>1, <2>2, <2>3, JoinHolds DEF Queues
<1>10. RowIntact'
  <2>1. \A x \in Keys : table[x] # Nil =>
          (ent'[table[x]].onRow <=> \E i \in RowSlots : row'[i] = table[x])
    <3> SUFFICES ASSUME NEW x \in Keys, table[x] # Nil
                 PROVE  ent'[table[x]].onRow <=> \E i \in RowSlots : row'[i] = table[x]
      OBVIOUS
    <3>1. CASE table[x] = e
      BY <1>4, <1>7, <1>8, <3>1
    <3>2. CASE table[x] # e
      <4>1. table[x] \in Entries \ {e}
        BY <1>3, <3>2 DEF Ref
      <4>2. \A i \in RowSlots : row'[i] = table[x] <=> row[i] = table[x]
        BY <1>8, <3>2
      <4> QED BY <1>7, <4>1, <4>2 DEF Sound, RowIntact
    <3> QED BY <3>1, <3>2
  <2>2. \A i \in RowSlots : row'[i] # Nil =>
          /\ table[ent'[row'[i]].key] = row'[i]
          /\ \A j \in RowSlots : row'[j] = row'[i] => j = i
    BY <1>7, <1>8, RowApart
  <2> QED BY <1>1, <2>1, <2>2 DEF RowIntact
<1>11. IndexIntact'
  <2>1. \A x \in Keys : table[x] # Nil => ent'[table[x]].key = ent[table[x]].key
    BY <1>3, <1>4, <1>7 DEF Ref
  <2> QED BY <1>1, <1>6, <2>1 DEF Sound, IndexIntact, Inserting
<1>12. InsertIntact'
  BY <1>6 DEF InsertIntact
<1> QED BY <1>1, <1>9, <1>10, <1>11, <1>12 DEF Sound

\* del of an entry that is on a queue takes it off that queue.
LEMMA DeleteSound ==
  ASSUME IInv, IInv', Sound, ~rowDeleted, NEW k \in Keys, Delete(k), ~rowDeleted'
  PROVE  Sound'
<1> DEFINE e == table[k]
<1>1. /\ lock = Nil /\ e # Nil /\ e \in Entries /\ ~ent[e].onRow
      /\ links' = Remove(links, QueueOf(e), e)
      /\ table' = [table EXCEPT ![k] = Nil]
      /\ UNCHANGED <<ent, row, free, pc, arg, panicked>>
  BY DEF IInv, TypeOK, Ref, Delete, evictVars, procVars
<1>2. table \in [Keys -> Ref] /\ ent[e].key = k
  BY <1>1 DEF IInv, TypeOK, Sound, IndexIntact
<1>3. \A q \in Procs : ~Inserting(q) /\ ~Inserting(q)'
  BY <1>1, S3FIFOConstants DEF IInv, LockOK, Inserting
<1>4. \A i \in RowSlots : row[i] # e
  BY <1>1, RowApart
<1>5. QueueOf(e) \in Queues /\ e \in Owned(table, ent, QueueOf(e))
  BY <1>1, <1>2 DEF Owned, QueueOf, Queues
<1> HIDE DEF e
<1>6. table'[k] = Nil /\ \A x \in Keys \ {k} : table'[x] = table[x]
  BY <1>1, <1>2
<1>7. QueuesHold'
  <2>1. ASSUME NEW q \in Queues, NEW x \in Entries \ {e}
        PROVE  x \in Owned(table', ent', q) <=> x \in Owned(table, ent, q)
    <3>1. ent[x].key \in Keys => (table'[ent[x].key] = x <=> table[ent[x].key] = x)
      BY <1>6, NilIsNoEntry DEF e
    <3> QED BY <1>1, <3>1 DEF Owned
  <2>2. \A q \in Queues : e \notin Owned(table', ent', q)
    BY <1>1, <1>2, <1>6 DEF Owned
  <2> QED BY <1>1, <1>5, <2>1, <2>2, LeaveHolds
<1>8. RowIntact'
  <2>1. \A x \in Keys : table'[x] # Nil =>
          (ent[table'[x]].onRow <=> \E i \in RowSlots : row[i] = table'[x])
    BY <1>6 DEF Sound, RowIntact
  <2>2. \A i \in RowSlots : row[i] # Nil => table'[ent[row[i]].key] = row[i]
    BY <1>4, <1>6, RowApart DEF e
  <2> QED BY <1>1, <2>1, <2>2 DEF Sound, RowIntact
<1>9. IndexIntact'
  BY <1>1, <1>3, <1>6 DEF Sound, IndexIntact, Inserting
<1>10. InsertIntact'
  BY <1>3 DEF InsertIntact
<1> QED BY <1>1, <1>7, <1>8, <1>9, <1>10 DEF Sound

\* flush restores everything, whatever a Delete has damaged before.
LEMMA FlushSound ==
  ASSUME IInv, ~panicked, Flush
  PROVE  Sound'
<1>1. /\ lock = Nil /\ table' = [k \in Keys |-> Nil] /\ links' = NoLinks
      /\ row' = [i \in RowSlots |-> Nil]
      /\ UNCHANGED <<pc, arg, panicked>>
  BY DEF Flush, procVars
<1>2. \A p \in Procs : ~Inserting(p)'
  BY <1>1, S3FIFOConstants DEF IInv, LockOK, Inserting
<1>3. QueuesHold'
  <2>1. \A q \in Queues : Owned(table', ent', q) = {}
    BY <1>1, NilIsNoEntry DEF Owned
  <2> QED BY <1>1, <2>1, NothingHeld DEF QueuesHold
<1>4. RowIntact' /\ IndexIntact' /\ InsertIntact'
  BY <1>1, <1>2 DEF RowIntact, IndexIntact, InsertIntact
<1> QED BY <1>1, <1>3, <1>4 DEF Sound

\* Two entries of the index have different keys.
LEMMA KeysApart ==
  ASSUME NEW x, NEW y, table[ent[x].key] = x, table[ent[y].key] = y, x # y
  PROVE  ent[x].key # ent[y].key
OBVIOUS

\* The head of a queue that counts entries is owned by it, in the index, and
\* neither on death row, nor recycled, nor what somebody is to insert.
LEMMA HeadOwned ==
  ASSUME IInv, Sound, ~rowDeleted, NEW q \in Queues, links.len[q] > 0
  PROVE  LET e == links.head[q] IN
         /\ e # Nil /\ e \in Entries /\ e \in Owned(table, ent, q)
         /\ ent[e].key \in Keys /\ table[ent[e].key] = e
         /\ ~ent[e].onRow /\ \A i \in RowSlots : row[i] # e
         /\ e # free
         /\ \A p \in Procs : Inserting(p) => arg[p].ent # e
<1> DEFINE e == links.head[q]
<1>1. e # Nil /\ e \in Owned(table, ent, q)
  BY HeadHeld DEF IInv, TypeOK, Sound, QueuesHold
<1> HIDE DEF e
<1>2. e \in Entries /\ ent[e].key \in Keys /\ table[ent[e].key] = e /\ ~ent[e].onRow
  BY <1>1 DEF Owned
<1>3. \A i \in RowSlots : row[i] # e
  BY <1>1, <1>2, RowApart
<1>4. e # free /\ \A p \in Procs : Inserting(p) => arg[p].ent # e
  BY <1>1, <1>2 DEF Sound, IndexIntact, Inserting
<1> QED BY <1>1, <1>2, <1>3, <1>4 DEF e

\* What an eviction leaves to be inserted.
LEMMA EvictedInserts ==
  ASSUME IInv, NEW p \in Procs, pc[p] \in Evicting, Evicted(p)
  PROVE  \A x \in Procs : Inserting(x)' => Inserting(x) /\ arg'[x] = arg[x]
<1>1. CASE arg[p].ent # Nil
  <2>1. Step(p, "insert")
    BY <1>1 DEF Evicted
  <2>2. arg' = arg /\ \A x \in Procs \ {p} : pc'[x] = pc[x]
    BY <2>1, StepType DEF IInv, Steps
  <2> QED BY <1>1, <2>2 DEF Inserting
<1>2. CASE arg[p].ent = Nil
  <2>1. arg'[p].ent = Nil /\ \A x \in Procs \ {p} : pc'[x] = pc[x] /\ arg'[x] = arg[x]
    BY <1>2, ReturnType DEF IInv, Evicted
  <2> QED BY <2>1 DEF Inserting
<1> QED BY <1>1, <1>2

\* sendToDeathRow, whichever way it goes: the entry leaves its queue, and at
\* most one entry leaves the index, to be recycled.
LEMMA SendToDeathRowSound ==
  ASSUME IInv, Sound, ~rowDeleted, UNCHANGED <<panicked, rowDeleted>>,
         NEW q \in Queues, links.len[q] > 0,
         SendToDeathRow(links.head[q], Remove(links, q, links.head[q])),
         \A p \in Procs : Inserting(p)' => Inserting(p) /\ arg'[p] = arg[p]
  PROVE  Sound'
<1> DEFINE e == links.head[q]
           old == row[rowPos]
<1>1. /\ e # Nil /\ e \in Entries /\ e \in Owned(table, ent, q)
      /\ ent[e].key \in Keys /\ table[ent[e].key] = e
      /\ ~ent[e].onRow /\ \A i \in RowSlots : row[i] # e
      /\ e # free
      /\ \A p \in Procs : Inserting(p) => arg[p].ent # e
  BY HeadOwned
<1>2. SendToDeathRow(e, Remove(links, q, e))
  OBVIOUS
<1>3. /\ table \in [Keys -> Ref] /\ ent \in [Entries -> Fields]
      /\ row \in [RowSlots -> Ref] /\ rowPos \in RowSlots
  BY DEF IInv, TypeOK
<1> HIDE DEF e
<1>4. links' = Remove(links, q, e)
  BY <1>2 DEF SendToDeathRow
\* x is the entry that leaves the index, if one does.
<1>5. PICK x \in {e, old, Nil} :
        /\ x # Nil => /\ x \in Entries /\ ent[x].key \in Keys
                      /\ table' = [table EXCEPT ![ent[x].key] = Nil]
                      /\ table[ent[x].key] = x
                      /\ free' = x
        /\ x = Nil => table' = table /\ free' = free
        /\ \A y \in Entries : /\ ent'[y].key = ent[y].key /\ ent'[y].inSmall = ent[y].inSmall
                              /\ ent'[y].onRow <=> IF x = e THEN ent[y].onRow
                                                   ELSE y = e \/ (y # x /\ ent[y].onRow)
        /\ row' = IF x = e THEN row ELSE [row EXCEPT ![rowPos] = e]
        /\ x # e => x = old
  <2>1. CASE ent[e].peak < Threshold(Remove(links, q, e))
    BY <1>1, <1>2, <2>1 DEF SendToDeathRow
  <2>2. CASE ~ (ent[e].peak < Threshold(Remove(links, q, e)))
    <3>1. CASE old = Nil
      <4>1. /\ ent' = [ent EXCEPT ![e].onRow = TRUE]
            /\ row' = [row EXCEPT ![rowPos] = e] /\ table' = table /\ free' = free
        BY <1>2, <2>2, <3>1 DEF SendToDeathRow
      <4>2. \A y \in Entries : /\ ent'[y].key = ent[y].key /\ ent'[y].inSmall = ent[y].inSmall
                               /\ ent'[y].onRow <=> (y = e \/ (y # Nil /\ ent[y].onRow))
        BY <1>1, <1>3, <4>1, NilIsNoEntry DEF Fields
      <4> HIDE DEF old
      <4> WITNESS old \in {e, old, Nil}
      <4> QED BY <1>1, <3>1, <4>1, <4>2
    <3>2. CASE old # Nil
      <4>1. /\ ent' = [ent EXCEPT ![old].onRow = FALSE, ![e].onRow = TRUE]
            /\ row' = [row EXCEPT ![rowPos] = e]
            /\ table' = [table EXCEPT ![ent[old].key] = Nil] /\ free' = old
        BY <1>2, <2>2, <3>2 DEF SendToDeathRow
      <4>2. /\ old \in Entries /\ ent[old].key \in Keys /\ table[ent[old].key] = old
            /\ old # e
        BY <1>1, <1>3, <3>2, RowApart
      <4>3. \A y \in Entries : /\ ent'[y].key = ent[y].key /\ ent'[y].inSmall = ent[y].inSmall
                               /\ ent'[y].onRow <=> (y = e \/ (y # old /\ ent[y].onRow))
        BY <1>1, <1>3, <4>1, <4>2 DEF Fields
      <4> HIDE DEF old
      <4> WITNESS old \in {e, old, Nil}
      <4> QED BY <3>2, <4>1, <4>2, <4>3
    <3> QED BY <3>1, <3>2
  <2> QED BY <2>1, <2>2
<1>6. \A k \in Keys : table'[k] = IF table[k] = x THEN Nil ELSE table[k]
  <2> TAKE k \in Keys
  <2>1. table[k] = x /\ x # Nil => k = ent[x].key
    BY DEF Sound, IndexIntact
  <2> QED BY <1>3, <1>5, <2>1
<1>7. QueuesHold'
  <2>1. ASSUME NEW r \in Queues, NEW y \in Entries \ {e}
        PROVE  y \in Owned(table', ent', r) <=> y \in Owned(table, ent, r)
    <3>1. CASE y = x
      <4>1. ent[y].onRow /\ y # Nil
        BY <1>3, <1>5, <2>1, <3>1, NilIsNoEntry, RowApart
      <4>2. table'[ent'[y].key] # y
        BY <1>5, <1>6, <3>1, <4>1
      <4> QED BY <4>1, <4>2 DEF Owned
    <3>2. CASE y # x
      <4>1. ent[y].key \in Keys => (table'[ent[y].key] = y <=> table[ent[y].key] = y)
        BY <1>6, <3>2, NilIsNoEntry
      <4>2. ent'[y].onRow <=> ent[y].onRow
        BY <1>5, <2>1, <3>2
      <4> QED BY <1>5, <4>1, <4>2 DEF Owned
    <3> QED BY <3>1, <3>2
  <2>2. \A r \in Queues : e \notin Owned(table', ent', r)
    <3>1. CASE x = e
      BY <1>1, <1>5, <1>6, <3>1 DEF Owned
    <3>2. CASE x # e
      BY <1>1, <1>5, <3>2 DEF Owned
    <3> QED BY <3>1, <3>2
  <2> QED BY <1>1, <1>4, <2>1, <2>2, LeaveHolds
<1>8. RowIntact'
  <2>1. ASSUME NEW k \in Keys, table'[k] # Nil
        PROVE  ent'[table'[k]].onRow <=> \E i \in RowSlots : row'[i] = table'[k]
    <3>1. table'[k] = table[k] /\ table[k] # x /\ table[k] \in Entries
      BY <1>3, <1>6, <2>1 DEF Ref
    <3>2. ent[table[k]].onRow <=> \E i \in RowSlots : row[i] = table[k]
      BY <3>1, NilIsNoEntry DEF Sound, RowIntact
    <3>3. CASE x = e
      BY <1>5, <3>1, <3>2, <3>3
    <3>4. CASE x # e /\ table[k] = e
      BY <1>3, <1>5, <3>1, <3>4
    <3>5. CASE x # e /\ table[k] # e
      <4>1. \A i \in RowSlots : row'[i] = table[k] <=> row[i] = table[k]
        BY <1>3, <1>5, <3>1, <3>5
      <4>2. ent'[table[k]].onRow <=> ent[table[k]].onRow
        BY <1>5, <3>1, <3>5
      <4> QED BY <3>1, <3>2, <4>1, <4>2
    <3> QED BY <3>3, <3>4, <3>5
  <2>2. ASSUME NEW i \in RowSlots, row'[i] # Nil
        PROVE  /\ table'[ent'[row'[i]].key] = row'[i]
               /\ \A j \in RowSlots : row'[i] = row'[j] => i = j
    <3>1. row'[i] \in Entries /\ ent[row'[i]].key \in Keys /\ table[ent[row'[i]].key] = row'[i]
      BY <1>1, <1>3, <1>5, <2>2, RowApart
    <3>2. row'[i] # x
      <4>1. CASE x = e
        BY <1>1, <1>5, <4>1
      <4>2. CASE x # e
        BY <1>3, <1>5, <2>2, <4>2, RowApart
      <4> QED BY <4>1, <4>2
    <3>3. table'[ent'[row'[i]].key] = row'[i]
      BY <1>5, <1>6, <3>1, <3>2
    <3>4. \A j \in RowSlots : row'[i] = row'[j] => i = j
      <4>1. CASE x = e
        BY <1>5, <2>2, <4>1, RowApart
      <4>2. CASE x # e
        <5>1. \A j \in RowSlots : row'[j] = IF j = rowPos THEN e ELSE row[j]
          BY <1>3, <1>5, <4>2
        <5> QED BY <1>1, <2>2, <5>1, RowApart
      <4> QED BY <4>1, <4>2
    <3> QED BY <3>3, <3>4
  <2> QED BY <2>1, <2>2 DEF RowIntact
<1>9. IndexIntact'
  <2> SUFFICES ASSUME NEW k \in Keys, table'[k] # Nil
               PROVE  /\ ent'[table'[k]].key = k /\ table'[k] # free'
                      /\ \A p \in Procs : Inserting(p)' => arg'[p].ent # table'[k]
    BY DEF IndexIntact, Inserting
  <2>1. table'[k] = table[k] /\ table[k] # x /\ table[k] \in Entries
    BY <1>3, <1>6 DEF Ref
  <2>2. /\ ent[table[k]].key = k /\ table[k] # free
        /\ \A p \in Procs : Inserting(p) => arg[p].ent # table[k]
    BY <2>1, NilIsNoEntry DEF Sound, IndexIntact, Inserting
  <2> QED BY <1>5, <2>1, <2>2
<1>10. InsertIntact'
  <2> SUFFICES ASSUME NEW p \in Procs, Inserting(p)'
               PROVE  /\ arg'[p].key \in Keys /\ table'[arg'[p].key] = Nil
                      /\ ent'[arg'[p].ent].key = arg'[p].key /\ ~ent'[arg'[p].ent].onRow
                      /\ arg'[p].ent # free'
    BY DEF InsertIntact
  <2> DEFINE new == arg[p].ent
  <2>1. Inserting(p) /\ arg'[p] = arg[p] /\ new \in Entries /\ new # e
    BY <1>1 DEF IInv, TypeOK, Ref, Inserting
  <2>2. /\ arg[p].key \in Keys /\ table[arg[p].key] = Nil
        /\ ent[new].key = arg[p].key /\ ~ent[new].onRow /\ new # free
    BY <2>1 DEF Sound, InsertIntact
  <2>3. new # x
    BY <1>5, <2>1, <2>2, NilIsNoEntry
  <2> HIDE DEF new
  <2>4. ~ent'[new].onRow /\ ent'[new].key = ent[new].key /\ new # free'
    BY <1>5, <2>1, <2>2, <2>3
  <2> QED BY <1>6, <2>1, <2>2, <2>4 DEF new
<1> QED BY <1>7, <1>8, <1>9, <1>10 DEF Sound

\* An eviction sends the head of a queue to death row.
LEMMA EvictSound ==
  ASSUME IInv, Sound, ~rowDeleted, NEW p \in Procs, Drop(p)
  PROVE  Sound'
<1>1. PICK q \in Queues :
        /\ links.len[q] > 0
        /\ SendToDeathRow(links.head[q], Remove(links, q, links.head[q]))
  BY DEF Drop, Queues
<1>2. pc[p] \in Evicting /\ Evicted(p) /\ UNCHANGED <<panicked, rowDeleted>>
  BY DEF Drop, Evicting, histVars
<1>3. \A x \in Procs : Inserting(x)' => Inserting(x) /\ arg'[x] = arg[x]
  BY <1>2, EvictedInserts
<1> QED BY <1>1, <1>2, <1>3, SendToDeathRowSound

\* Promotion, demotion and second chances move the head of a queue to the tail
\* of the queue its flag then names.
LEMMA RotateSound ==
  ASSUME IInv, Sound, ~rowDeleted, NEW p \in Procs,
         Promote(p) \/ Demote(p) \/ SecondChance(p)
  PROVE  Sound'
<1>1. PICK q \in Queues, to \in Queues :
        /\ links.len[q] > 0
        /\ links' = PushBack(Remove(links, q, links.head[q]), to, links.head[q])
        /\ \E f, b : /\ ent' = [ent EXCEPT ![links.head[q]] =
                                  [@ EXCEPT !.freq = f, !.inSmall = b]]
                     /\ b <=> to = "small"
  <2>1. CASE Promote(p)
    <3>1. /\ "small" \in Queues /\ "main" \in Queues /\ (FALSE <=> "main" = "small")
          /\ links.len["small"] > 0
          /\ links' = PushBack(Remove(links, "small", links.head["small"]), "main",
                               links.head["small"])
          /\ ent' = [ent EXCEPT ![links.head["small"]] =
                       [@ EXCEPT !.freq = 0, !.inSmall = FALSE]]
      BY <2>1 DEF Promote, Queues
    <3> QED BY <3>1
  <2>2. CASE Demote(p)
    <3>1. /\ "small" \in Queues /\ "main" \in Queues
          /\ links.len["main"] > 0
          /\ links' = PushBack(Remove(links, "main", links.head["main"]), "small",
                               links.head["main"])
          /\ ent' = [ent EXCEPT ![links.head["main"]] =
                       [@ EXCEPT !.freq = 1, !.inSmall = TRUE]]
      BY <2>2 DEF Demote, Queues
    <3> QED BY <3>1
  <2>3. CASE SecondChance(p)
    <3> DEFINE h == links.head["main"]
    <3>1. /\ "main" \in Queues /\ links.len["main"] > 0
          /\ links' = PushBack(Remove(links, "main", h), "main", h)
          /\ ent' = [ent EXCEPT ![h].freq = @ - 1]
      BY <2>3 DEF SecondChance, Queues
    <3>2. h \in Entries /\ ~ent[h].inSmall /\ ent[h] \in Fields /\ ent \in [Entries -> Fields]
      BY <3>1, HeadOwned DEF Owned, Queues, IInv, TypeOK
    <3>3. ent' = [ent EXCEPT ![h] = [@ EXCEPT !.freq = ent[h].freq - 1, !.inSmall = FALSE]]
      <4>1. ent[h].inSmall = FALSE
        BY <3>2 DEF Fields
      <4>2. [ent[h] EXCEPT !.freq = ent[h].freq - 1]
              = [ent[h] EXCEPT !.freq = ent[h].freq - 1, !.inSmall = FALSE]
        <5> HIDE DEF h
        <5> QED BY <3>2, <4>1 DEF Fields
      <4> HIDE DEF h
      <4> QED BY <3>1, <4>2
    <3> HIDE DEF h
    <3>4. \E f, b : /\ ent' = [ent EXCEPT ![h] = [@ EXCEPT !.freq = f, !.inSmall = b]]
                    /\ b <=> "main" = "small"
      BY <3>3
    <3> QED BY <3>1, <3>4 DEF h
  <2> QED BY <2>1, <2>2, <2>3
<1> DEFINE e == links.head[q]
<1>2. /\ e # Nil /\ e \in Entries /\ e \in Owned(table, ent, q)
      /\ ent[e].key \in Keys /\ table[ent[e].key] = e
      /\ ~ent[e].onRow /\ \A i \in RowSlots : row[i] # e
      /\ \A x \in Procs : Inserting(x) => arg[x].ent # e
  BY <1>1, HeadOwned
<1>3. UNCHANGED <<table, row, free, panicked, rowDeleted>>
  BY DEF Promote, Demote, SecondChance, evictVars, histVars
<1>4. \A x \in Procs : Inserting(x)' => Inserting(x) /\ arg'[x] = arg[x]
  <2>1. CASE SecondChance(p)
    BY <2>1 DEF SecondChance, procVars, Inserting
  <2>2. CASE Promote(p) \/ Demote(p)
    <3>1. pc[p] \in Evicting /\ \E s \in Evicting : Step(p, s)
      BY <2>2 DEF Promote, Demote, InMain, AfterMain, Evicting
    <3>2. arg' = arg /\ \A x \in Procs \ {p} : pc'[x] = pc[x]
      BY <3>1, StepType DEF IInv, Steps
    <3> QED BY <3>1, <3>2 DEF Inserting
  <2> QED BY <2>1, <2>2
<1>5. PICK f, b : /\ ent' = [ent EXCEPT ![e] = [@ EXCEPT !.freq = f, !.inSmall = b]]
                  /\ b <=> to = "small"
  BY <1>1
<1>6. links' = PushBack(Remove(links, q, e), to, e)
  BY <1>1
<1>7. ent \in [Entries -> Fields] /\ table \in [Keys -> Ref] /\ row \in [RowSlots -> Ref]
  BY DEF IInv, TypeOK
<1> HIDE DEF e
<1>8. /\ \A y \in Entries : ent'[y].key = ent[y].key /\ (ent'[y].onRow <=> ent[y].onRow)
      /\ \A y \in Entries \ {e} : ent'[y].inSmall <=> ent[y].inSmall
      /\ ent'[e].inSmall <=> to = "small"
  BY <1>2, <1>5, <1>7 DEF Fields
<1>9. QueuesHold'
  <2>1. \A r \in Queues : \A y \in Entries \ {e} :
          y \in Owned(table', ent', r) <=> y \in Owned(table, ent, r)
    BY <1>3, <1>8 DEF Owned
  <2>2. \A r \in Queues : e \in Owned(table', ent', r) <=> r = to
    BY <1>2, <1>3, <1>8 DEF Owned, Queues
  <2> QED BY <1>2, <1>6, <2>1, <2>2, MoveHolds
<1>10. RowIntact'
  <2>1. \A k \in Keys : table[k] # Nil => (ent'[table[k]].onRow <=> ent[table[k]].onRow)
    BY <1>7, <1>8 DEF Ref
  <2>2. \A i \in RowSlots : row[i] # Nil => table[ent'[row[i]].key] = row[i]
    BY <1>8, RowApart
  <2> QED BY <1>3, <2>1, <2>2 DEF Sound, RowIntact
<1>11. IndexIntact'
  <2>1. \A k \in Keys : table[k] # Nil => ent'[table[k]].key = ent[table[k]].key
    BY <1>7, <1>8 DEF Ref
  <2> QED BY <1>3, <1>4, <2>1 DEF Sound, IndexIntact, Inserting
<1>12. InsertIntact'
  <2> SUFFICES ASSUME NEW x \in Procs, Inserting(x)'
               PROVE  /\ arg'[x].key \in Keys /\ table'[arg'[x].key] = Nil
                      /\ ent'[arg'[x].ent].key = arg'[x].key /\ ~ent'[arg'[x].ent].onRow
                      /\ arg'[x].ent # free'
    BY DEF InsertIntact
  <2>1. Inserting(x) /\ arg'[x] = arg[x] /\ arg[x].ent \in Entries
    BY <1>4 DEF IInv, TypeOK, Ref, Inserting
  <2> QED BY <1>3, <1>8, <2>1 DEF Sound, InsertIntact
<1> QED BY <1>3, <1>9, <1>10, <1>11, <1>12 DEF Sound

\* A step that changes nothing.
LEMMA StutterSound ==
  ASSUME IInv, Sound, ~rowDeleted, UNCHANGED vars
  PROVE  Sound'
<1>1. UNCHANGED <<table, ent, links, row, free, pc, arg, panicked, rowDeleted>>
  BY DEF vars, queueVars, evictVars, procVars, histVars
<1> QED BY <1>1, FrameSound DEF Inserting

-----------------------------------------------------------------------------
(* Theorems *)

\* The invariant holds initially, with empty lists.
LEMMA InitSound == Init => Sound
<1> SUFFICES ASSUME Init PROVE Sound
  OBVIOUS
<1>1. QueuesHold
  <2>1. \A q \in Queues : Owned(table, ent, q) = {}
    BY NilIsNoEntry DEF Init, Owned
  <2> QED BY <2>1, NothingHeld DEF QueuesHold, Init
<1>2. RowIntact /\ IndexIntact /\ InsertIntact
  BY DEF Init, RowIntact, IndexIntact, InsertIntact, Inserting, Evicting
<1> QED BY <1>1, <1>2 DEF Sound, Init

\* Only Delete sets the flag, and only Flush clears it.
LEMMA RowDeletedChanges ==
  ASSUME [Next]_vars, rowDeleted' # rowDeleted
  PROVE  (\E k \in Keys : Delete(k)) \/ Flush
<1> SUFFICES ASSUME ~ (\E k \in Keys : Delete(k)), ~ Flush
             PROVE  rowDeleted' = rowDeleted
  OBVIOUS
<1>1. ASSUME NEW p \in Procs, Locking(p) \/ Touch(p) PROVE rowDeleted' = rowDeleted
  BY <1>1 DEF Locking, Touch, SetRaced, SetBelowCapacity, SetAtCapacity, ResurrectRaced,
              Resurrect, IncFreq, IncPeakFreq, histVars
<1>2. ASSUME NEW p \in Procs, Eviction(p) \/ Insert(p) PROVE rowDeleted' = rowDeleted
  BY <1>2 DEF Eviction, Insert, EvictOne, QueueEmpty, Panic, EvictFromSmall, Promote,
              EvictFromMain, Demote, SecondChance, Drop, histVars
<1>3. ASSUME NEW p \in Procs, NEW k \in Keys, Call(p, k) PROVE rowDeleted' = rowDeleted
  BY <1>3 DEF Call, GetHit, GetOnDeathRow, SetHit, SetMiss, histVars
<1>4. UNCHANGED vars => rowDeleted' = rowDeleted
  BY DEF vars, histVars
<1> QED BY <1>1, <1>2, <1>3, <1>4 DEF Next

\* QueueInv is inductive: between two Flushes, until a Delete hits death row,
\* every step keeps the lists, death row and the index consistent.
THEOREM QueueInductive == Spec => []QueueInv
<1>1. Init => QueueInv
  BY InitInv, InitSound DEF QueueInv
<1>2. QueueInv /\ IInv' /\ [Next]_vars => QueueInv'
  <2> SUFFICES ASSUME QueueInv, IInv', [Next]_vars, ~rowDeleted' PROVE Sound'
    BY DEF QueueInv
  <2>1. CASE rowDeleted
    <3>1. Flush /\ ~panicked
      <4>1. \A k \in Keys : ~ Delete(k)
        BY <2>1 DEF Delete
      <4>2. Flush
        BY <2>1, <4>1, RowDeletedChanges
      <4>3. ~ UNCHANGED vars
        BY <2>1 DEF vars, histVars
      <4> QED BY <4>2, <4>3 DEF Next
    <3> QED BY <3>1, FlushSound DEF QueueInv
  <2>2. CASE ~rowDeleted
    <3>1. IInv /\ Sound /\ ~panicked
      BY <2>2 DEF QueueInv, Sound
    <3>2. ASSUME NEW p \in Procs, Locking(p) PROVE Sound'
      BY <2>2, <3>1, <3>2, MoveSound, SetBelowCapacitySound, SetAtCapacitySound,
         ResurrectSound DEF Locking
    <3>3. ASSUME NEW p \in Procs, Eviction(p) PROVE Sound'
      BY <2>2, <3>1, <3>3, MoveSound, NoPanic, EvictSound, RotateSound DEF Eviction
    <3>4. ASSUME NEW p \in Procs, Touch(p) PROVE Sound'
      BY <2>2, <3>1, <3>4, TouchSound
    <3>5. ASSUME NEW p \in Procs, Insert(p) PROVE Sound'
      BY <2>2, <3>1, <3>5, InsertSound
    <3>6. ASSUME NEW p \in Procs, NEW k \in Keys, Call(p, k) PROVE Sound'
      BY <2>2, <3>1, <3>6, CallSound
    <3>7. ASSUME NEW k \in Keys, Delete(k) PROVE Sound'
      BY <2>2, <3>1, <3>7, DeleteSound
    <3>8. CASE Flush
      BY <3>1, <3>8, FlushSound
    <3>9. CASE UNCHANGED vars
      BY <2>2, <3>1, <3>9, StutterSound
    <3> QED BY <3>2, <3>3, <3>4, <3>5, <3>6, <3>7, <3>8, <3>9 DEF Next
  <2> QED BY <2>1, <2>2
<1> QED BY <1>1, <1>2, Inductive, PTL DEF Spec

\* The witness of the invariant is the walk that QueuesIntact takes.
LEMMA SoundQueues == QueueInv => QueuesIntact
<1> SUFFICES ASSUME QueueInv, ~rowDeleted, NEW q \in Queues
             PROVE  LET n  == links.len[q]
                        at == Reached(links, q, n)
                    IN /\ n = Cardinality(Members(q))
                       /\ {at[i] : i \in 0 .. n - 1} = Members(q)
                       /\ \A i \in 0 .. n - 1 :
                            links.prev[at[i]] = IF i = 0 THEN Nil ELSE at[i - 1]
                       /\ at[n] = Nil
                       /\ links.tail[q] = IF n = 0 THEN Nil ELSE at[n - 1]
  BY DEF QueuesIntact
<1>1. Members(q) = Owned(table, ent, q)
  BY OwnedMembers DEF QueueInv, Sound, IInv
<1>2. Holds(links, q, Members(q))
  BY <1>1 DEF QueueInv, Sound, QueuesHold
<1> HIDE DEF Members
<1> QED BY <1>2, HoldsMeans

\* Each queue, walked from head to tail and back, holds exactly the entries the
\* index and the flags say are its own, each once, until a Delete hits death row
\* (entryList, s3fifo.go:238-270; del, s3fifo.go:658-677).
THEOREM QueuesStayIntact == Spec => []QueuesIntact
BY QueueInductive, SoundQueues, PTL

\* An entry is flagged as on death row exactly when one slot, and no other,
\* holds it (s3fifo.go:792-822, 520-552).
THEOREM RowStaysIntact == Spec => []RowIntact
<1>1. QueueInv => RowIntact
  BY DEF QueueInv, Sound, RowIntact
<1> QED BY <1>1, QueueInductive, PTL

\* The live keys are as many as the entries of the two queues: each key has one
\* entry and each entry one key.
LEMMA SoundLen == QueueInv => LenExact
<1> SUFFICES ASSUME QueueInv, ~rowDeleted
             PROVE  total = Cardinality({k \in Keys : Live(k)})
  BY DEF LenExact
<1> DEFINE K == {k \in Keys : Live(k)}
           A == Owned(table, ent, "small")
           B == Owned(table, ent, "main")
<1>1. Holds(links, "small", A) /\ Holds(links, "main", B)
  BY DEF QueueInv, Sound, QueuesHold, Queues
<1>2. /\ IsFiniteSet(A) /\ links.len["small"] = Cardinality(A)
      /\ IsFiniteSet(B) /\ links.len["main"] = Cardinality(B)
  BY <1>1, HoldsMeans
<1>3. A \cap B = {} /\ Cardinality({}) = 0
  BY OwnedApart, FS_EmptySet
<1>4. IsFiniteSet(A \cup B) /\ Cardinality(A \cup B) = Cardinality(A) + Cardinality(B)
  <2> HIDE DEF A, B
  <2>1. Cardinality(A) \in Nat /\ Cardinality(B) \in Nat
    BY <1>2, FS_CardinalityType
  <2>2. /\ IsFiniteSet(A \cup B)
        /\ Cardinality(A \cup B) = Cardinality(A) + Cardinality(B) - Cardinality(A \cap B)
    BY <1>2, FS_Union
  <2>3. Cardinality(A \cap B) = 0
    BY <1>3
  <2> QED BY <2>1, <2>2, <2>3
<1>5. ExistsBijection(A \cup B, K)
  <2> DEFINE f == [x \in A \cup B |-> ent[x].key]
  <2>1. \A x \in A \cup B : /\ ent[x].key \in Keys /\ table[ent[x].key] = x /\ x # Nil
                            /\ ~ent[x].onRow
    BY NilIsNoEntry DEF Owned
  <2>2. f \in [A \cup B -> K]
    <3> HIDE DEF A, B
    <3> QED BY <2>1 DEF Live
  <2>3. f \in Injection(A \cup B, K)
    <3> HIDE DEF A, B
    <3> QED BY <2>1, <2>2 DEF Injection, IsInjective
  <2>4. \A k \in K : table[k] \in A \cup B /\ ent[table[k]].key = k
    BY DEF QueueInv, IInv, TypeOK, Ref, Sound, IndexIntact, Live, Owned
  <2>5. f \in Surjection(A \cup B, K)
    <3> HIDE DEF A, B, K
    <3> QED BY <2>2, <2>4 DEF Surjection
  <2> QED BY <2>3, <2>5 DEF ExistsBijection, Bijection
<1>6. Cardinality(K) = Cardinality(A) + Cardinality(B)
  <2> HIDE DEF A, B, K
  <2> QED BY <1>4, <1>5, FS_Bijection
<1>7. total = links.len["small"] + links.len["main"]
  BY DEF QueueInv, IInv, CountOK
<1> QED BY <1>2, <1>6, <1>7

\* Len() (s3fifo.go:824) is the number of keys that a get would find in a queue,
\* until a Delete hits death row.
THEOREM LenStaysExact == Spec => []LenExact
BY QueueInductive, SoundLen, PTL

\* What a get, a set or an eviction relies on when it takes the mutex, whatever
\* led there: all of the above, and an index that never hands out an entry of
\* another key, a recycled one or one not yet published.
THEOREM ConsistentUntilRowDelete == Spec => [](~rowDeleted => Consistent)
<1>1. QueueInv => (~rowDeleted => Consistent)
  BY SoundQueues, SoundLen DEF QueueInv, Sound, Consistent
<1> QED BY <1>1, QueueInductive, PTL

\* No operation dereferences nil (e.freq() of a list head, s3fifo.go:710-771)
\* unless a Delete has hit an entry on death row since the last Flush.
THEOREM NoPanicBeforeRowDelete == Spec => []PanicOnlyAfterRowDelete
<1>1. QueueInv => PanicOnlyAfterRowDelete
  BY DEF QueueInv, Sound, PanicOnlyAfterRowDelete
<1> QED BY <1>1, QueueInductive, PTL

-----------------------------------------------------------------------------
(* What a Delete on death row leaves intact *)

\* A list whose ends were cleared is left in pieces, and its new ends may be
\* those of two different ones; but pieces stay pieces: the pointers of L go both
\* ways, no pointer leads on from an end, and a piece is in one queue.
Pieces(L, en) ==
  /\ \A q \in Queues : \A e \in Entries :
       /\ L.head[q] = e => L.prev[e] = Nil
       /\ L.tail[q] = e => L.next[e] = Nil
       /\ e \in {L.head[q], L.tail[q]} => (en[e].inSmall <=> q = "small")
  /\ \A x, y \in Entries :
       /\ L.next[x] = y <=> L.prev[y] = x
       /\ L.next[x] = y => (en[x].inSmall <=> en[y].inSmall)

\* An entry is linked, or waits to be recycled, or has one slot of death row, or
\* is about to be inserted, for its key; what get takes for an entry on death
\* row is there.
OnePlace ==
  /\ free # Nil => ~Linked(links, free)
  /\ \A i \in RowSlots : row[i] # Nil =>
       /\ row[i] # free /\ ~Linked(links, row[i])
       /\ \A j \in RowSlots : row[i] = row[j] => i = j
  /\ \A p \in Procs : Inserting(p) =>
       /\ arg[p].ent # free /\ ~Linked(links, arg[p].ent)
       /\ \A i \in RowSlots : row[i] # arg[p].ent
       /\ ent[arg[p].ent].key = arg[p].key /\ ~ent[arg[p].ent].onRow
  /\ \A k \in Keys : table[k] # Nil /\ ent[table[k]].onRow =>
       \E i \in RowSlots : row[i] = table[k]

PlacesOK == Pieces(links, ent) /\ OnePlace /\ IndexIntact

\* An entry that nothing leads to leads nowhere.
LEMMA UnlinkedLeads ==
  ASSUME NEW L \in Links, NEW en, Pieces(L, en), NEW e \in Entries, ~Linked(L, e)
  PROVE  L.next[e] = Nil /\ L.prev[e] = Nil
<1>1. L.next[e] \in Ref /\ L.prev[e] \in Ref
  BY DEF Links
<1>2. L.next[e] \in Entries => L.prev[L.next[e]] = e
  BY DEF Pieces
<1>3. L.prev[e] \in Entries => L.next[L.prev[e]] = e
  BY DEF Pieces
<1> QED BY <1>1, <1>2, <1>3 DEF Ref, Linked

\* pushBack puts an entry that nothing leads to at the end of a piece,
LEMMA PushPieces ==
  ASSUME NEW L \in Links, NEW en, NEW em, NEW q \in Queues, NEW e \in Entries,
         Pieces(L, en), ~Linked(L, e),
         \A x \in Entries \ {e} : em[x].inSmall <=> en[x].inSmall,
         em[e].inSmall <=> q = "small"
  PROVE  /\ Pieces(PushBack(L, q, e), em)
         /\ \A x \in Entries : Linked(PushBack(L, q, e), x) => x = e \/ Linked(L, x)
<1> DEFINE M == PushBack(L, q, e)
           last == L.tail[q]
<1>1. /\ \A r \in Queues : M.head[r] = IF r = q /\ last = Nil THEN e ELSE L.head[r]
      /\ \A r \in Queues : M.tail[r] = IF r = q THEN e ELSE L.tail[r]
      /\ \A x \in Entries : /\ M.next[x] = IF x = last THEN e
                                           ELSE IF x = e THEN Nil ELSE L.next[x]
                            /\ M.prev[x] = IF x = e THEN last ELSE L.prev[x]
  BY DEF PushBack, Links
<1>2. /\ last \in Ref /\ last # e /\ e # Nil /\ L.next[e] = Nil /\ L.prev[e] = Nil
      /\ \A r \in Queues : L.head[r] # e /\ L.tail[r] # e
      /\ \A x \in Entries : L.next[x] # e /\ L.prev[x] # e
  BY UnlinkedLeads, NilIsNoEntry DEF Linked, Links
<1>3. last \in Entries => L.next[last] = Nil /\ (en[last].inSmall <=> q = "small")
  BY DEF Pieces
<1>4. \A x \in Entries : L.prev[x] = last => last = Nil
  BY <1>2, <1>3, NilIsNoEntry DEF Pieces, Ref
<1> HIDE DEF M, last
<1>5. \A r \in Queues : \A x \in Entries :
        /\ M.head[r] = x => M.prev[x] = Nil
        /\ M.tail[r] = x => M.next[x] = Nil
        /\ x \in {M.head[r], M.tail[r]} => (em[x].inSmall <=> r = "small")
  <2> TAKE r \in Queues
  <2> TAKE x \in Entries
  <2>1. CASE x = e
    BY <1>1, <1>2, <2>1
  <2>2. CASE x # e
    <3>1. /\ L.head[r] = x => L.prev[x] = Nil
          /\ L.tail[r] = x => L.next[x] = Nil
          /\ x \in {L.head[r], L.tail[r]} => (en[x].inSmall <=> r = "small")
      BY DEF Pieces
    <3>2. M.tail[r] = x => x # last
      BY <1>1, <1>2, <1>3, <2>2, <3>1 DEF Queues, last
    <3> QED BY <1>1, <2>2, <3>1, <3>2
  <2> QED BY <2>1, <2>2
<1>6. \A x, y \in Entries : M.next[x] = y <=> M.prev[y] = x
  <2> TAKE x, y \in Entries
  <2>1. L.next[x] = y <=> L.prev[y] = x
    BY DEF Pieces
  <2> QED BY <1>1, <1>2, <1>3, <1>4, <2>1, NilIsNoEntry
<1>7. \A x, y \in Entries : M.next[x] = y => (em[x].inSmall <=> em[y].inSmall)
  <2> TAKE x, y \in Entries
  <2>1. L.next[x] = y => (en[x].inSmall <=> en[y].inSmall)
    BY DEF Pieces
  <2> QED BY <1>1, <1>2, <1>3, <2>1, NilIsNoEntry
<1>8. \A x \in Entries : Linked(M, x) => x = e \/ Linked(L, x)
  <2> TAKE x \in Entries
  <2>1. last = x => Linked(L, x)
    BY DEF Linked, last
  <2> QED BY <1>1, <2>1, NilIsNoEntry DEF Linked
<1> QED BY <1>5, <1>6, <1>7, <1>8 DEF Pieces, M

\* and remove, of an entry at either end, in the middle or on no list at all,
\* leaves nothing that leads to it.
LEMMA RemovePieces ==
  ASSUME NEW L \in Links, NEW en, NEW q \in Queues, NEW e \in Entries, Pieces(L, en),
         Linked(L, e) => (en[e].inSmall <=> q = "small")
  PROVE  /\ Pieces(Remove(L, q, e), en) /\ ~Linked(Remove(L, q, e), e)
         /\ \A x \in Entries : Linked(Remove(L, q, e), x) => Linked(L, x)
<1> DEFINE M == Remove(L, q, e)
           p == L.prev[e]
           n == L.next[e]
<1>1. /\ \A r \in Queues : M.head[r] = IF r = q /\ p = Nil THEN n ELSE L.head[r]
      /\ \A r \in Queues : M.tail[r] = IF r = q /\ n = Nil THEN p ELSE L.tail[r]
      /\ \A x \in Entries : /\ M.next[x] = IF x = e THEN Nil
                                           ELSE IF x = p THEN n ELSE L.next[x]
                            /\ M.prev[x] = IF x = e THEN Nil
                                           ELSE IF x = n THEN p ELSE L.prev[x]
  BY DEF Remove, Links
<1>2. p \in Ref /\ n \in Ref /\ e # Nil
  BY NilIsNoEntry DEF Links
<1>3. /\ n \in Entries => L.prev[n] = e /\ (en[e].inSmall <=> en[n].inSmall)
      /\ p \in Entries => L.next[p] = e /\ (en[p].inSmall <=> en[e].inSmall)
  BY DEF Pieces
<1>4. n \in Entries \/ p \in Entries => (en[e].inSmall <=> q = "small")
  BY <1>3 DEF Linked
<1>5. \A x \in Entries : /\ L.next[x] = e => x = p
                         /\ L.prev[x] = e => x = n
  BY DEF Pieces
<1>6. n = e <=> p = e
  BY <1>2, <1>3
<1>7. \A r \in Queues :
        /\ L.head[r] = e => p = Nil /\ r = q
        /\ L.tail[r] = e => n = Nil /\ r = q
  BY DEF Pieces, Linked, Queues
<1>8. \A x \in {p, n} \cap Entries : Linked(L, x)
  BY DEF Linked
<1> HIDE DEF M, p, n
<1>9. \A r \in Queues : \A x \in Entries :
        /\ M.head[r] = x => M.prev[x] = Nil
        /\ M.tail[r] = x => M.next[x] = Nil
        /\ x \in {M.head[r], M.tail[r]} => (en[x].inSmall <=> r = "small")
  <2> TAKE r \in Queues
  <2> TAKE x \in Entries
  <2>1. /\ L.head[r] = x => L.prev[x] = Nil
        /\ L.tail[r] = x => L.next[x] = Nil
        /\ x \in {L.head[r], L.tail[r]} => (en[x].inSmall <=> r = "small")
    BY DEF Pieces
  <2>2. M.head[r] = x => M.prev[x] = Nil
    BY <1>1, <1>2, <1>3, <2>1, NilIsNoEntry DEF Ref
  <2>3. M.tail[r] = x => M.next[x] = Nil
    BY <1>1, <1>2, <1>3, <2>1, NilIsNoEntry DEF Ref
  <2>4. x \in {M.head[r], M.tail[r]} => (en[x].inSmall <=> r = "small")
    BY <1>1, <1>3, <1>4, <2>1
  <2> QED BY <2>2, <2>3, <2>4
<1>10. \A x, y \in Entries : M.next[x] = y <=> M.prev[y] = x
  <2> TAKE x, y \in Entries
  <2>1. L.next[x] = y <=> L.prev[y] = x
    BY DEF Pieces
  <2> QED BY <1>1, <1>2, <1>3, <1>5, <2>1, NilIsNoEntry DEF Ref
<1>11. \A x, y \in Entries : M.next[x] = y => (en[x].inSmall <=> en[y].inSmall)
  <2> TAKE x, y \in Entries
  <2>1. L.next[x] = y => (en[x].inSmall <=> en[y].inSmall)
    BY DEF Pieces
  <2> QED BY <1>1, <1>2, <1>3, <2>1, NilIsNoEntry DEF Ref
<1>12. ~Linked(M, e)
  <2>1. \A r \in Queues : M.head[r] # e /\ M.tail[r] # e
    BY <1>1, <1>2, <1>3, <1>6, <1>7, NilIsNoEntry DEF Ref
  <2>2. \A x \in Entries : M.next[x] # e /\ M.prev[x] # e
    BY <1>1, <1>2, <1>5, <1>6
  <2> QED BY <2>1, <2>2 DEF Linked
<1>13. \A x \in Entries : Linked(M, x) => Linked(L, x)
  <2> TAKE x \in Entries
  <2>1. x \in {p, n} => Linked(L, x)
    BY <1>8
  <2>2. \A r \in Queues : x \in {M.head[r], M.tail[r]} => Linked(L, x)
    BY <1>1, <2>1 DEF Linked
  <2>3. \A y \in Entries : x \in {M.next[y], M.prev[y]} => Linked(L, x)
    BY <1>1, <2>1, NilIsNoEntry DEF Linked
  <2> QED BY <2>2, <2>3 DEF Linked
<1> QED BY <1>9, <1>10, <1>11, <1>12, <1>13 DEF Pieces, M

-----------------------------------------------------------------------------

\* A step that leaves the lists alone, but for the counters of entries, and
\* gives nobody an entry to insert.
LEMMA FramePlaces ==
  ASSUME IInv, PlacesOK, UNCHANGED <<table, links, row, free>>,
         \A e \in Entries : /\ ent'[e].key = ent[e].key
                            /\ ent'[e].onRow <=> ent[e].onRow
                            /\ ent'[e].inSmall <=> ent[e].inSmall,
         \A p \in Procs : Inserting(p)' => Inserting(p) /\ arg'[p] = arg[p]
  PROVE  PlacesOK'
<1>1. /\ \A k \in Keys : table[k] # Nil => table[k] \in Entries
      /\ \A p \in Procs : arg[p].ent # Nil => arg[p].ent \in Entries
  BY DEF IInv, TypeOK, Ref
<1>2. Pieces(links, ent)'
  BY DEF PlacesOK, Pieces
<1>3. OnePlace'
  <2>1. /\ free' # Nil => ~Linked(links, free)'
        /\ \A i \in RowSlots : row'[i] # Nil =>
             /\ row'[i] # free' /\ ~Linked(links, row[i])'
             /\ \A j \in RowSlots : row'[i] = row'[j] => i = j
    BY DEF PlacesOK, OnePlace, Linked
  <2>2. \A p \in Procs : Inserting(p)' =>
          /\ arg'[p].ent # free' /\ ~Linked(links, arg[p].ent)'
          /\ \A i \in RowSlots : row'[i] # arg'[p].ent
          /\ ent'[arg'[p].ent].key = arg'[p].key /\ ~ent'[arg'[p].ent].onRow
    BY <1>1 DEF PlacesOK, OnePlace, Linked, Inserting
  <2>3. \A k \in Keys : table'[k] # Nil /\ ent'[table'[k]].onRow =>
          \E i \in RowSlots : row'[i] = table'[k]
    BY <1>1 DEF PlacesOK, OnePlace
  <2> QED BY <2>1, <2>2, <2>3 DEF OnePlace
<1>4. IndexIntact'
  BY <1>1 DEF PlacesOK, IndexIntact, Inserting
<1> QED BY <1>2, <1>3, <1>4 DEF PlacesOK

\* Looking a key up gives nobody an entry to insert,
LEMMA CallPlaces ==
  ASSUME IInv, PlacesOK, NEW p \in Procs, NEW k \in Keys, Call(p, k)
  PROVE  PlacesOK'
<1>1. PICK s \in {"incFreq", "resurrectLock", "setLock"}, e \in Ref : Goto(p, s, k, e)
  BY DEF Call, GetHit, GetOnDeathRow, SetHit, SetMiss, IInv, TypeOK, Ref
<1>2. UNCHANGED <<table, ent, links, row, free>>
  BY DEF Call, GetHit, GetOnDeathRow, SetHit, SetMiss, queueVars, evictVars
<1>3. s \in Steps \ (Evicting \cup {"insert"})
  BY DEF Steps, Evicting
<1>4. pc'[p] = s /\ \A q \in Procs \ {p} : pc'[q] = pc[q] /\ arg'[q] = arg[q]
  BY <1>1, <1>3, GotoType DEF IInv
<1>5. \A q \in Procs : Inserting(q)' => Inserting(q) /\ arg'[q] = arg[q]
  BY <1>3, <1>4 DEF Inserting
<1> QED BY <1>2, <1>5, FramePlaces

\* nor does a touch of an entry that may be anywhere,
LEMMA TouchPlaces ==
  ASSUME IInv, PlacesOK, NEW p \in Procs, Touch(p)
  PROVE  PlacesOK'
<1>1. /\ arg[p].ent \in Entries
      /\ UNCHANGED <<table, links, row, free>>
  BY DEF IInv, TypeOK, LockOK, Ref, Touch, IncFreq, IncPeakFreq, queueVars, evictVars
<1>2. Step(p, "incPeakFreq") \/ Return(p)
  BY DEF Touch, IncFreq, IncPeakFreq
<1>3. /\ pc'[p] \in {"idle", "incPeakFreq"}
      /\ \A q \in Procs \ {p} : pc'[q] = pc[q] /\ arg'[q] = arg[q]
  BY <1>2, StepType, ReturnType DEF IInv, Steps
<1>4. \A e \in Entries : /\ ent'[e].key = ent[e].key
                         /\ ent'[e].onRow <=> ent[e].onRow
                         /\ ent'[e].inSmall <=> ent[e].inSmall
  <2>1. CASE IncFreq(p)
    <3>1. PICK f : ent' = [ent EXCEPT ![arg[p].ent].freq = f]
      BY <2>1 DEF IncFreq
    <3> QED BY <1>1, <3>1 DEF IInv, TypeOK, Fields
  <2>2. CASE IncPeakFreq(p)
    <3>1. PICK f : ent' = [ent EXCEPT ![arg[p].ent].peak = f]
      BY <2>2 DEF IncPeakFreq
    <3> QED BY <1>1, <3>1 DEF IInv, TypeOK, Fields
  <2> QED BY <2>1, <2>2 DEF Touch
<1>5. \A q \in Procs : Inserting(q)' => Inserting(q) /\ arg'[q] = arg[q]
  BY <1>3 DEF Inserting, Evicting
<1> QED BY <1>1, <1>4, <1>5, FramePlaces

\* nor do an update under the mutex, a resurrection given up, a turn of evictOne,
\* an empty queue, a head found cold and a nil dereference.
LEMMA MovePlaces ==
  ASSUME IInv, PlacesOK, NEW p \in Procs,
         \/ SetRaced(p) \/ ResurrectRaced(p) \/ EvictOne(p) \/ QueueEmpty(p)
         \/ EvictFromSmall(p) \/ EvictFromMain(p) \/ Panic(p)
  PROVE  PlacesOK'
<1>1. UNCHANGED <<table, ent, links, row, free>>
  BY DEF SetRaced, ResurrectRaced, EvictOne, QueueEmpty, EvictFromSmall, EvictFromMain, Panic,
         queueVars, evictVars
<1>2. \A q \in Procs : Inserting(q)' => Inserting(q) /\ arg'[q] = arg[q]
  <2>1. CASE SetRaced(p)
    <3>1. pc'[p] = "incFreq" /\ \A q \in Procs \ {p} : pc'[q] = pc[q] /\ arg'[q] = arg[q]
      BY <2>1 DEF SetRaced, Goto, IInv, TypeOK
    <3> QED BY <3>1 DEF Inserting, Evicting
  <2>2. CASE ResurrectRaced(p)
    <3>1. pc'[p] = "idle" /\ \A q \in Procs \ {p} : pc'[q] = pc[q] /\ arg'[q] = arg[q]
      BY <2>2, ReturnType DEF ResurrectRaced, IInv
    <3> QED BY <3>1 DEF Inserting, Evicting
  <2>3. CASE EvictOne(p) \/ QueueEmpty(p) \/ EvictFromSmall(p) \/ EvictFromMain(p)
    <3>1. pc[p] \in Evicting /\ \E s \in Evicting : Step(p, s)
      BY <2>3 DEF EvictOne, QueueEmpty, EvictFromSmall, EvictFromMain, InMain, AfterMain,
                  Evicting
    <3>2. arg' = arg /\ \A q \in Procs \ {p} : pc'[q] = pc[q]
      BY <3>1, StepType DEF IInv, Steps
    <3> QED BY <3>1, <3>2 DEF Inserting
  <2>4. CASE Panic(p)
    BY <2>4 DEF Panic, procVars, Inserting
  <2> QED BY <2>1, <2>2, <2>3, <2>4
<1> QED BY <1>1, <1>2, FramePlaces

\* A new entry, fresh or recycled, has no place yet.
LEMMA AllocatedNowhere ==
  ASSUME IInv, PlacesOK, NEW e \in Allocated
  PROVE  /\ e \in Entries /\ ~Linked(links, e)
         /\ \A k \in Keys : table[k] # e
         /\ \A i \in RowSlots : row[i] # e
BY NilIsNoEntry DEF IInv, TypeOK, Ref, Allocated, Unreferenced, PlacesOK, OnePlace, IndexIntact

\* Below capacity it joins the small queue and the index at once.
LEMMA SetBelowCapacityPlaces ==
  ASSUME IInv, PlacesOK, NEW p \in Procs, SetBelowCapacity(p)
  PROVE  PlacesOK'
<1> DEFINE k == arg[p].key
           new == EntryOf(k, 0, TRUE)
<1>1. /\ pc[p] = "setLock" /\ lock = Nil /\ k \in Keys
      /\ free' = Nil /\ row' = row /\ Return(p)
  BY DEF IInv, LockOK, SetBelowCapacity
<1>2. PICK e \in Allocated :
        /\ ent' = [ent EXCEPT ![e] = new]
        /\ links' = PushBack(links, "small", e)
        /\ table' = [table EXCEPT ![k] = e]
  BY DEF SetBelowCapacity
<1>3. /\ e \in Entries /\ ~Linked(links, e)
      /\ \A x \in Keys : table[x] # e
      /\ \A i \in RowSlots : row[i] # e
  BY AllocatedNowhere
<1>4. table \in [Keys -> Ref] /\ ent \in [Entries -> Fields] /\ row \in [RowSlots -> Ref]
  BY DEF IInv, TypeOK
<1>5. new.key = k /\ ~new.onRow /\ new.inSmall
  BY DEF EntryOf
<1>6. \A q \in Procs : ~Inserting(q)'
  <2>1. pc'[p] = "idle" /\ \A q \in Procs \ {p} : pc'[q] = pc[q]
    BY <1>1, ReturnType DEF IInv
  <2> QED BY <1>1, <2>1, S3FIFOConstants DEF IInv, LockOK, Inserting, Evicting
<1> HIDE DEF new, k
<1>7. ent'[e] = new /\ \A x \in Entries \ {e} : ent'[x] = ent[x]
  BY <1>2, <1>3, <1>4
<1>8. table'[k] = e /\ \A x \in Keys \ {k} : table'[x] = table[x]
  BY <1>1, <1>2, <1>4
<1>9. Pieces(links, ent)' /\ \A x \in Entries : Linked(links, x)' => x = e \/ Linked(links, x)
  <2>1. links \in Links /\ Pieces(links, ent) /\ "small" \in Queues
    BY DEF IInv, TypeOK, PlacesOK, Queues
  <2>2. \A x \in Entries \ {e} : ent'[x].inSmall <=> ent[x].inSmall
    BY <1>7
  <2>3. ent'[e].inSmall <=> "small" = "small"
    BY <1>5, <1>7
  <2>4. /\ Pieces(links', ent')
        /\ \A x \in Entries : Linked(links', x) => x = e \/ Linked(links, x)
    BY <1>2, <1>3, <2>1, <2>2, <2>3, PushPieces
  <2> QED BY <2>4 DEF Pieces, Linked
<1>10. OnePlace'
  <2>1. \A i \in RowSlots : row'[i] # Nil =>
          /\ ~Linked(links, row[i])'
          /\ \A j \in RowSlots : row'[i] = row'[j] => i = j
    BY <1>1, <1>3, <1>4, <1>9 DEF PlacesOK, OnePlace, Ref, Linked
  <2>2. \A x \in Keys : table'[x] # Nil /\ ent'[table'[x]].onRow =>
          \E i \in RowSlots : row'[i] = table'[x]
    BY <1>1, <1>3, <1>4, <1>5, <1>7, <1>8 DEF PlacesOK, OnePlace, Ref
  <2> QED BY <1>1, <1>6, <2>1, <2>2 DEF OnePlace
<1>11. IndexIntact'
  <2>1. \A x \in Keys : table'[x] # Nil => ent'[table'[x]].key = x
    BY <1>3, <1>4, <1>5, <1>7, <1>8 DEF PlacesOK, IndexIntact, Ref
  <2>2. \A x \in Keys : table'[x] # Nil =>
          \A q \in Procs : pc'[q] \in Evicting \cup {"insert"} => arg'[q].ent # table'[x]
    BY <1>6 DEF Inserting
  <2> QED BY <1>1, <2>1, <2>2 DEF IndexIntact
<1> QED BY <1>9, <1>10, <1>11 DEF PlacesOK

\* At capacity it is filled in while nothing refers to it.
LEMMA SetAtCapacityPlaces ==
  ASSUME IInv, PlacesOK, NEW p \in Procs, SetAtCapacity(p)
  PROVE  PlacesOK'
<1> DEFINE k == arg[p].key
<1>1. /\ pc[p] = "setLock" /\ lock = Nil /\ k \in Keys /\ free' = Nil
      /\ UNCHANGED <<table, links, row>>
  BY DEF IInv, LockOK, SetAtCapacity, queueVars
<1>2. PICK e, new :
        /\ e \in Allocated
        /\ ent' = [ent EXCEPT ![e] = new] /\ new.key = k /\ ~new.onRow
        /\ Goto(p, "evictOne", k, e)
  <2>1. PICK e \in Allocated, inGhost \in {TRUE, InGhost(ghosts, k)} :
          /\ ent' = [ent EXCEPT ![e] = IF inGhost THEN EntryOf(k, Lookup(ghosts, k), FALSE)
                                       ELSE EntryOf(k, 0, TRUE)]
          /\ Goto(p, "evictOne", k, e)
    BY DEF SetAtCapacity
  <2>2. \A peak, b : EntryOf(k, peak, b).key = k /\ ~EntryOf(k, peak, b).onRow
    BY DEF EntryOf
  <2> HIDE DEF k
  <2> QED BY <2>1, <2>2
<1>3. /\ e \in Entries /\ ~Linked(links, e)
      /\ \A x \in Keys : table[x] # e
      /\ \A i \in RowSlots : row[i] # e
  BY <1>2, AllocatedNowhere
<1>4. table \in [Keys -> Ref] /\ ent \in [Entries -> Fields] /\ row \in [RowSlots -> Ref]
  BY DEF IInv, TypeOK
<1>5. /\ arg'[p].key = k /\ arg'[p].ent = e
      /\ \A q \in Procs \ {p} : pc'[q] \notin Evicting \cup {"insert"}
  <2>1. /\ arg'[p].key = k /\ arg'[p].ent = e
        /\ \A q \in Procs \ {p} : pc'[q] = pc[q]
    BY <1>1, <1>2, <1>3, GotoType DEF IInv, Steps, Evicting, Ref
  <2> QED BY <1>1, <2>1, S3FIFOConstants DEF IInv, LockOK
<1> HIDE DEF k
<1>6. ent'[e].key = k /\ ~ent'[e].onRow /\ \A x \in Entries \ {e} : ent'[x] = ent[x]
  BY <1>2, <1>3, <1>4
<1>7. \A x \in Entries : Linked(links, x)' <=> Linked(links, x)
  BY <1>1 DEF Linked
<1>8. Pieces(links, ent)'
  BY <1>1, <1>3, <1>6 DEF PlacesOK, Pieces, Linked
<1>9. OnePlace'
  <2>1. \A i \in RowSlots : row'[i] # Nil =>
          /\ ~Linked(links, row[i])'
          /\ \A j \in RowSlots : row'[i] = row'[j] => i = j
    BY <1>1 DEF PlacesOK, OnePlace, Linked
  <2>2. \A x \in Keys : table'[x] # Nil /\ ent'[table'[x]].onRow =>
          \E i \in RowSlots : row'[i] = table'[x]
    BY <1>1, <1>3, <1>4, <1>6 DEF PlacesOK, OnePlace, Ref
  <2>3. \A q \in Procs : Inserting(q)' =>
          /\ arg'[q].ent # free' /\ ~Linked(links, arg[q].ent)'
          /\ \A i \in RowSlots : row'[i] # arg'[q].ent
          /\ ent'[arg'[q].ent].key = arg'[q].key /\ ~ent'[arg'[q].ent].onRow
    <3> SUFFICES ASSUME NEW q \in Procs, Inserting(q)'
                 PROVE  /\ arg'[q].ent # free' /\ ~Linked(links, arg[q].ent)'
                        /\ \A i \in RowSlots : row'[i] # arg'[q].ent
                        /\ ent'[arg'[q].ent].key = arg'[q].key /\ ~ent'[arg'[q].ent].onRow
      OBVIOUS
    <3>1. q = p /\ arg'[q].ent = e
      BY <1>5 DEF Inserting
    <3>2. ~Linked(links, arg[q].ent)'
      BY <1>1, <1>3, <3>1 DEF Linked
    <3> QED BY <1>1, <1>3, <1>5, <1>6, <3>1, <3>2, NilIsNoEntry
  <2> QED BY <1>1, <2>1, <2>2, <2>3 DEF OnePlace
<1>10. IndexIntact'
  <2>1. \A x \in Keys : table'[x] # Nil => ent'[table'[x]].key = x
    BY <1>1, <1>3, <1>4, <1>6 DEF PlacesOK, IndexIntact, Ref
  <2>2. \A x \in Keys : table'[x] # Nil =>
          \A q \in Procs : pc'[q] \in Evicting \cup {"insert"} => arg'[q].ent # table'[x]
    BY <1>1, <1>3, <1>5
  <2> QED BY <1>1, <2>1, <2>2 DEF IndexIntact
<1> QED BY <1>8, <1>9, <1>10 DEF PlacesOK

\* A pushed entry, seen from the state: the lists stay in pieces and only it
\* becomes linked.
LEMMA PushedPlaces ==
  ASSUME IInv, PlacesOK, NEW q \in Queues, NEW e \in Entries, ~Linked(links, e),
         links' = PushBack(links, q, e),
         \A x \in Entries \ {e} : ent'[x].inSmall <=> ent[x].inSmall,
         ent'[e].inSmall <=> q = "small"
  PROVE  /\ Pieces(links, ent)'
         /\ \A x \in Entries : Linked(links', x) => x = e \/ Linked(links, x)
<1>1. links \in Links /\ Pieces(links, ent)
  BY DEF IInv, TypeOK, PlacesOK
<1>2. /\ Pieces(links', ent')
      /\ \A x \in Entries : Linked(links', x) => x = e \/ Linked(links, x)
  BY <1>1, PushPieces
<1> QED BY <1>2 DEF Pieces

\* Publishing puts an entry on the queue it is flagged for, whatever the state of
\* the lists.
LEMMA InsertPlaces ==
  ASSUME IInv, PlacesOK, NEW p \in Procs, Insert(p)
  PROVE  PlacesOK'
<1> DEFINE e == arg[p].ent
           k == arg[p].key
<1>1. /\ pc[p] = "insert" /\ lock = p /\ k \in Keys /\ e \in Entries
      /\ links' = PushBack(links, QueueOf(e), e)
      /\ table' = [table EXCEPT ![k] = e]
      /\ Return(p)
      /\ UNCHANGED <<ent, row, free>>
  BY DEF IInv, LockOK, KeyedOK, Keyed, Insert, evictVars
<1>2. Inserting(p)
  BY <1>1, NilIsNoEntry DEF Inserting
<1>3. /\ e # free /\ ~Linked(links, e) /\ ent[e].key = k /\ ~ent[e].onRow
      /\ \A i \in RowSlots : row[i] # e
  BY <1>2 DEF PlacesOK, OnePlace
<1>4. \A q \in Procs : pc'[q] \notin Evicting \cup {"insert"}
  <2>1. pc'[p] = "idle" /\ \A q \in Procs \ {p} : pc'[q] = pc[q]
    BY <1>1, ReturnType DEF IInv
  <2> QED BY <1>1, <2>1 DEF IInv, LockOK, Evicting
<1>5. table \in [Keys -> Ref] /\ \A i \in RowSlots : row[i] # Nil => row[i] \in Entries
  BY DEF IInv, TypeOK, Ref
<1>6. free # Nil => free \in Entries
  BY DEF IInv, TypeOK, Ref
<1>7. \A x \in Keys : table[x] # e
  BY <1>1, NilIsNoEntry DEF PlacesOK, IndexIntact
<1> HIDE DEF e, k
<1>8. table'[k] = e /\ \A x \in Keys \ {k} : table'[x] = table[x]
  BY <1>1, <1>5
<1>9. /\ Pieces(links, ent)'
      /\ \A x \in Entries : Linked(links', x) => x = e \/ Linked(links, x)
  <2>1. QueueOf(e) \in Queues /\ (ent[e].inSmall <=> QueueOf(e) = "small")
    BY DEF QueueOf, Queues
  <2> QED BY <1>1, <1>3, <2>1, PushedPlaces
<1>10. OnePlace'
  <2>1. free' # Nil => ~Linked(links', free')
    BY <1>1, <1>3, <1>6, <1>9 DEF PlacesOK, OnePlace
  <2>2. \A i \in RowSlots : row'[i] # Nil =>
          /\ row'[i] # free' /\ ~Linked(links', row'[i])
          /\ \A j \in RowSlots : row'[i] = row'[j] => i = j
    BY <1>1, <1>3, <1>5, <1>9 DEF PlacesOK, OnePlace
  <2>3. \A x \in Keys : table'[x] # Nil /\ ent'[table'[x]].onRow =>
          \E i \in RowSlots : row'[i] = table'[x]
    BY <1>1, <1>3, <1>8 DEF PlacesOK, OnePlace
  <2> QED BY <1>4, <2>1, <2>2, <2>3 DEF OnePlace, Linked, Inserting
<1>11. IndexIntact'
  BY <1>1, <1>3, <1>4, <1>8 DEF PlacesOK, IndexIntact
<1> QED BY <1>9, <1>10, <1>11 DEF PlacesOK

\* A resurrected entry had one slot of death row and was linked nowhere.
LEMMA ResurrectPlaces ==
  ASSUME IInv, PlacesOK, NEW p \in Procs, Resurrect(p)
  PROVE  PlacesOK'
<1> DEFINE k == arg[p].key
           e == table[k]
           new == [ent[e] EXCEPT !.onRow = FALSE, !.inSmall = FALSE,
                                 !.freq = BoostFreq, !.peak = BoostFreq]
<1>1. /\ pc[p] = "resurrectLock" /\ lock = Nil
      /\ k \in Keys /\ e \in Entries /\ e # Nil /\ ent[e].onRow
      /\ row' = RowWithout(e)
      /\ links' = PushBack(links, "main", e)
      /\ UNCHANGED <<table, free>>
  BY DEF IInv, TypeOK, Ref, LockOK, Resurrect
<1>2. ent' = [ent EXCEPT ![e] = new]
  BY DEF Resurrect
<1>3. table \in [Keys -> Ref] /\ ent \in [Entries -> Fields] /\ row \in [RowSlots -> Ref]
  BY DEF IInv, TypeOK
<1>4. new.key = ent[e].key /\ ~new.onRow /\ ~new.inSmall
  <2>1. ent[e] \in Fields
    BY <1>1, <1>3
  <2> HIDE DEF e
  <2> QED BY <2>1 DEF Fields
<1>5. ent[e].key = k /\ e # free
  BY <1>1 DEF PlacesOK, IndexIntact
<1>6. \A q \in Procs : ~Inserting(q)'
  <2>1. \A q \in Procs : ~Inserting(q)
    BY <1>1, S3FIFOConstants DEF IInv, LockOK, Inserting
  <2>2. arg'[p].ent = Nil /\ \A q \in Procs \ {p} : pc'[q] = pc[q] /\ arg'[q] = arg[q]
    <3>1. CASE total + 1 > Capacity
      <4>1. Goto(p, "evictOne", k, Nil)
        BY <3>1 DEF Resurrect
      <4> HIDE DEF k
      <4> QED BY <1>1, <4>1, GotoType DEF IInv, Steps, Evicting, Ref
    <3>2. CASE ~ (total + 1 > Capacity)
      BY <3>2, ReturnType DEF IInv, Resurrect
    <3> QED BY <3>1, <3>2
  <2> QED BY <2>1, <2>2 DEF Inserting
<1>7. PICK s \in RowSlots : row[s] = e
  BY <1>1 DEF PlacesOK, OnePlace
<1> HIDE DEF new, e, k
<1>8. ~Linked(links, e) /\ \A i \in RowSlots : row[i] = e => i = s
  BY <1>1, <1>7 DEF PlacesOK, OnePlace
<1>9. ent'[e] = new /\ \A x \in Entries \ {e} : ent'[x] = ent[x]
  BY <1>1, <1>2, <1>3
<1>10. \A i \in RowSlots : row'[i] = IF row[i] = e THEN Nil ELSE row[i]
  <2> TAKE i \in RowSlots
  <2>1. row[i] = e => \A j \in 0 .. i - 1 : row[j] # e
    <3> HAVE row[i] = e
    <3> TAKE j \in 0 .. i - 1
    <3>1. j \in RowSlots /\ j # i
      BY S3FIFOConstants DEF RowSlots
    <3> QED BY <1>8, <3>1
  <2> QED BY <1>1, <2>1 DEF RowWithout
<1>11. /\ Pieces(links, ent)'
       /\ \A x \in Entries : Linked(links', x) => x = e \/ Linked(links, x)
  <2>1. "main" \in Queues /\ (ent'[e].inSmall <=> "main" = "small")
    BY <1>4, <1>9 DEF Queues
  <2>2. \A x \in Entries \ {e} : ent'[x].inSmall <=> ent[x].inSmall
    BY <1>9
  <2> QED BY <1>1, <1>8, <2>1, <2>2, PushedPlaces
<1>12. OnePlace'
  <2>1. free' # Nil => ~Linked(links', free')
    BY <1>1, <1>5, <1>11 DEF IInv, TypeOK, Ref, PlacesOK, OnePlace
  <2>2. \A i \in RowSlots : row'[i] # Nil =>
          /\ row'[i] # free' /\ ~Linked(links', row'[i])
          /\ \A j \in RowSlots : row'[i] = row'[j] => i = j
    BY <1>1, <1>3, <1>10, <1>11 DEF Ref, PlacesOK, OnePlace
  <2>3. \A x \in Keys : table'[x] # Nil /\ ent'[table'[x]].onRow =>
          \E i \in RowSlots : row'[i] = table'[x]
    <3> SUFFICES ASSUME NEW x \in Keys, table[x] # Nil, ent'[table[x]].onRow
                 PROVE  \E i \in RowSlots : row'[i] = table[x]
      BY <1>1
    <3>1. table[x] \in Entries \ {e} /\ ent[table[x]].onRow
      BY <1>3, <1>4, <1>9 DEF Ref
    <3>2. \E i \in RowSlots : row[i] = table[x]
      BY <3>1 DEF PlacesOK, OnePlace
    <3> QED BY <1>10, <3>1, <3>2
  <2> QED BY <1>6, <2>1, <2>2, <2>3 DEF OnePlace, Linked
<1>13. IndexIntact'
  <2>1. \A x \in Keys : table[x] # Nil => ent'[table[x]].key = ent[table[x]].key
    BY <1>3, <1>4, <1>9 DEF Ref
  <2> QED BY <1>1, <1>6, <2>1 DEF PlacesOK, IndexIntact, Inserting
<1> QED BY <1>11, <1>12, <1>13 DEF PlacesOK

\* A removed entry, seen from the state: the lists stay in pieces and none of
\* them holds it.
LEMMA RemovedPlaces ==
  ASSUME IInv, PlacesOK, NEW q \in Queues, NEW e \in Entries,
         Linked(links, e) => (ent[e].inSmall <=> q = "small"),
         links' = Remove(links, q, e),
         \A x \in Entries : ent'[x].inSmall <=> ent[x].inSmall
  PROVE  /\ Pieces(links, ent)' /\ ~Linked(links', e)
         /\ \A x \in Entries : Linked(links', x) => Linked(links, x)
<1>1. links \in Links /\ Pieces(links, ent)
  BY DEF IInv, TypeOK, PlacesOK
<1>2. /\ Pieces(links', ent) /\ ~Linked(links', e)
      /\ \A x \in Entries : Linked(links', x) => Linked(links, x)
  BY <1>1, RemovePieces
<1> QED BY <1>2 DEF Pieces

\* del of an entry of a queue or of death row: a list may lose its ends, but no
\* entry gets a second place.
LEMMA DeletePlaces ==
  ASSUME IInv, PlacesOK, NEW k \in Keys, Delete(k)
  PROVE  PlacesOK'
<1> DEFINE e == table[k]
<1>1. /\ lock = Nil /\ e # Nil /\ e \in Entries
      /\ links' = Remove(links, QueueOf(e), e)
      /\ table' = [table EXCEPT ![k] = Nil]
      /\ UNCHANGED <<ent, row, free, pc, arg>>
  BY DEF IInv, TypeOK, Ref, Delete, evictVars, procVars
<1>2. table \in [Keys -> Ref] /\ row \in [RowSlots -> Ref] /\ free \in Ref
  BY DEF IInv, TypeOK
<1>3. \A q \in Procs : ~Inserting(q) /\ ~Inserting(q)'
  BY <1>1, S3FIFOConstants DEF IInv, LockOK, Inserting
<1> HIDE DEF e
<1>4. \A x \in Keys : table'[x] # Nil => table'[x] = table[x]
  BY <1>1, <1>2
<1>5. /\ Pieces(links, ent)'
      /\ \A x \in Entries : Linked(links', x) => Linked(links, x)
  <2>1. QueueOf(e) \in Queues /\ (ent[e].inSmall <=> QueueOf(e) = "small")
    BY DEF QueueOf, Queues
  <2> QED BY <1>1, <2>1, RemovedPlaces
<1>6. OnePlace'
  <2>1. free' # Nil => ~Linked(links', free')
    BY <1>1, <1>2, <1>5 DEF Ref, PlacesOK, OnePlace
  <2>2. \A i \in RowSlots : row'[i] # Nil =>
          /\ row'[i] # free' /\ ~Linked(links', row'[i])
          /\ \A j \in RowSlots : row'[i] = row'[j] => i = j
    BY <1>1, <1>2, <1>5 DEF Ref, PlacesOK, OnePlace
  <2>3. \A x \in Keys : table'[x] # Nil /\ ent'[table'[x]].onRow =>
          \E i \in RowSlots : row'[i] = table'[x]
    BY <1>1, <1>4 DEF PlacesOK, OnePlace
  <2> QED BY <1>3, <2>1, <2>2, <2>3 DEF OnePlace, Linked
<1>7. IndexIntact'
  BY <1>1, <1>3, <1>4 DEF PlacesOK, IndexIntact, Inserting
<1> QED BY <1>5, <1>6, <1>7 DEF PlacesOK

\* After flush nothing is linked.
LEMMA FlushPlaces ==
  ASSUME IInv, Flush
  PROVE  PlacesOK'
<1>1. /\ lock = Nil /\ table' = [k \in Keys |-> Nil] /\ links' = NoLinks
      /\ row' = [i \in RowSlots |-> Nil]
      /\ UNCHANGED <<pc, arg, free>>
  BY DEF Flush, procVars
<1>2. \A p \in Procs : ~Inserting(p)'
  BY <1>1, S3FIFOConstants DEF IInv, LockOK, Inserting
<1>3. Pieces(links, ent)' /\ \A e \in Entries : ~Linked(links', e)
  BY <1>1, NilIsNoEntry DEF NoLinks, Pieces, Linked
<1>4. OnePlace'
  BY <1>1, <1>2, <1>3 DEF OnePlace, Linked, IInv, TypeOK, Ref
<1>5. IndexIntact'
  BY <1>1 DEF IndexIntact
<1> QED BY <1>3, <1>4, <1>5 DEF PlacesOK

\* The head of a queue has that queue for its only place.
LEMMA HeadPlaces ==
  ASSUME IInv, PlacesOK, NEW q \in Queues, links.head[q] # Nil
  PROVE  LET e == links.head[q] IN
         /\ e \in Entries /\ Linked(links, e) /\ (ent[e].inSmall <=> q = "small")
         /\ e # free /\ \A i \in RowSlots : row[i] # e
         /\ \A p \in Procs : Inserting(p) => arg[p].ent # e
<1> DEFINE e == links.head[q]
<1>1. e \in Entries /\ Linked(links, e)
  BY DEF IInv, TypeOK, Links, Ref, Linked
<1>2. ent[e].inSmall <=> q = "small"
  BY <1>1 DEF PlacesOK, Pieces
<1> HIDE DEF e
<1>3. /\ e # free /\ \A i \in RowSlots : row[i] # e
      /\ \A p \in Procs : Inserting(p) => arg[p].ent # e
  BY <1>1, NilIsNoEntry DEF PlacesOK, OnePlace
<1> QED BY <1>1, <1>2, <1>3 DEF e

\* sendToDeathRow gives the head a slot, or recycles it or the entry whose slot
\* it takes.
LEMMA SendToDeathRowPlaces ==
  ASSUME IInv, PlacesOK, NEW q \in Queues, links.head[q] # Nil,
         SendToDeathRow(links.head[q], Remove(links, q, links.head[q])),
         \A p \in Procs : Inserting(p)' => Inserting(p) /\ arg'[p] = arg[p]
  PROVE  PlacesOK'
<1> DEFINE e == links.head[q]
           old == row[rowPos]
<1>1. /\ e # Nil /\ e \in Entries /\ Linked(links, e) /\ (ent[e].inSmall <=> q = "small")
      /\ e # free /\ \A i \in RowSlots : row[i] # e
      /\ \A p \in Procs : Inserting(p) => arg[p].ent # e
  BY HeadPlaces
<1>2. SendToDeathRow(e, Remove(links, q, e))
  OBVIOUS
<1>3. /\ table \in [Keys -> Ref] /\ ent \in [Entries -> Fields]
      /\ row \in [RowSlots -> Ref] /\ rowPos \in RowSlots /\ free \in Ref
  BY DEF IInv, TypeOK
<1> HIDE DEF e
<1>4. links' = Remove(links, q, e)
  BY <1>2 DEF SendToDeathRow
\* x is the entry that leaves the index, if it was there.
<1>5. PICK x \in {e, old, Nil} :
        /\ x # Nil => /\ x \in Entries
                      /\ table' = [table EXCEPT ![ent[x].key] = Nil]
                      /\ free' = x
        /\ x = Nil => table' = table /\ free' = free
        /\ \A y \in Entries : /\ ent'[y].key = ent[y].key /\ ent'[y].inSmall = ent[y].inSmall
                              /\ ent'[y].onRow <=> IF x = e THEN ent[y].onRow
                                                   ELSE y = e \/ (y # x /\ ent[y].onRow)
        /\ row' = IF x = e THEN row ELSE [row EXCEPT ![rowPos] = e]
        /\ x # e => x = old
  <2>1. CASE ent[e].peak < Threshold(Remove(links, q, e))
    BY <1>1, <1>2, <2>1 DEF SendToDeathRow
  <2>2. CASE ~ (ent[e].peak < Threshold(Remove(links, q, e)))
    <3>1. CASE old = Nil
      <4>1. /\ ent' = [ent EXCEPT ![e].onRow = TRUE]
            /\ row' = [row EXCEPT ![rowPos] = e] /\ table' = table /\ free' = free
        BY <1>2, <2>2, <3>1 DEF SendToDeathRow
      <4>2. \A y \in Entries : /\ ent'[y].key = ent[y].key /\ ent'[y].inSmall = ent[y].inSmall
                               /\ ent'[y].onRow <=> (y = e \/ (y # Nil /\ ent[y].onRow))
        BY <1>1, <1>3, <4>1, NilIsNoEntry DEF Fields
      <4> HIDE DEF old
      <4> WITNESS old \in {e, old, Nil}
      <4> QED BY <1>1, <3>1, <4>1, <4>2
    <3>2. CASE old # Nil
      <4>1. /\ ent' = [ent EXCEPT ![old].onRow = FALSE, ![e].onRow = TRUE]
            /\ row' = [row EXCEPT ![rowPos] = e]
            /\ table' = [table EXCEPT ![ent[old].key] = Nil] /\ free' = old
        BY <1>2, <2>2, <3>2 DEF SendToDeathRow
      <4>2. old \in Entries /\ old # e
        BY <1>1, <1>3, <3>2 DEF Ref
      <4>3. \A y \in Entries : /\ ent'[y].key = ent[y].key /\ ent'[y].inSmall = ent[y].inSmall
                               /\ ent'[y].onRow <=> (y = e \/ (y # old /\ ent[y].onRow))
        BY <1>1, <1>3, <4>1, <4>2 DEF Fields
      <4> HIDE DEF old
      <4> WITNESS old \in {e, old, Nil}
      <4> QED BY <3>2, <4>1, <4>2, <4>3
    <3> QED BY <3>1, <3>2
  <2> QED BY <2>1, <2>2
<1>6. \A k \in Keys : table'[k] # Nil => table'[k] = table[k] /\ table[k] # x
  <2> TAKE k \in Keys
  <2>1. table[k] = x /\ x # Nil => k = ent[x].key
    BY DEF PlacesOK, IndexIntact
  <2> QED BY <1>3, <1>5, <2>1
<1>7. /\ Pieces(links, ent)' /\ ~Linked(links', e)
      /\ \A y \in Entries : Linked(links', y) => Linked(links, y)
  BY <1>1, <1>4, <1>5, RemovedPlaces
<1>8. x # Nil => /\ ~Linked(links', x) /\ \A i \in RowSlots : row'[i] # x
                 /\ \A p \in Procs : Inserting(p) => arg[p].ent # x
  <2>1. CASE x = e
    BY <1>1, <1>5, <1>7, <2>1
  <2>2. CASE x # e
    <3> HAVE x # Nil
    <3>1. x \in Entries /\ row[rowPos] = x
      BY <1>5, <2>2
    <3>2. ~Linked(links, x) /\ \A i \in RowSlots : row[i] = x => i = rowPos
      BY <1>3, <3>1, NilIsNoEntry DEF PlacesOK, OnePlace
    <3>3. \A i \in RowSlots : row'[i] = IF i = rowPos THEN e ELSE row[i]
      BY <1>3, <1>5, <2>2
    <3>4. \A p \in Procs : Inserting(p) => arg[p].ent # x
      BY <1>3, <3>1 DEF PlacesOK, OnePlace
    <3> QED BY <1>7, <2>2, <3>1, <3>2, <3>3, <3>4
  <2> QED BY <2>1, <2>2
<1>9. \A i \in RowSlots : row'[i] # Nil =>
        /\ row'[i] # free' /\ ~Linked(links', row'[i])
        /\ \A j \in RowSlots : row'[i] = row'[j] => i = j
  <2> SUFFICES ASSUME NEW i \in RowSlots, row'[i] # Nil
               PROVE  /\ row'[i] # free' /\ ~Linked(links', row'[i])
                      /\ \A j \in RowSlots : row'[i] = row'[j] => i = j
    OBVIOUS
  <2>1. CASE x = e
    <3>1. row' = row /\ row[i] \in Entries /\ row[i] # e /\ free' = e
      BY <1>1, <1>3, <1>5, <2>1 DEF Ref
    <3> QED BY <1>7, <3>1 DEF PlacesOK, OnePlace
  <2>2. CASE x # e
    <3>1. \A j \in RowSlots : row'[j] = IF j = rowPos THEN e ELSE row[j]
      BY <1>3, <1>5, <2>2
    <3>2. row'[i] # free'
      BY <1>1, <1>5, <1>8, <3>1 DEF PlacesOK, OnePlace
    <3>3. ~Linked(links', row'[i])
      BY <1>3, <1>7, <3>1 DEF PlacesOK, OnePlace, Ref
    <3>4. \A j \in RowSlots : row'[i] = row'[j] => i = j
      BY <1>1, <3>1 DEF PlacesOK, OnePlace
    <3> QED BY <3>2, <3>3, <3>4
  <2> QED BY <2>1, <2>2
<1>10. \A p \in Procs : Inserting(p)' =>
        /\ arg'[p].ent # free' /\ ~Linked(links', arg'[p].ent)
        /\ \A i \in RowSlots : row'[i] # arg'[p].ent
        /\ ent'[arg'[p].ent].key = arg'[p].key /\ ~ent'[arg'[p].ent].onRow
  <2> TAKE p \in Procs
  <2> HAVE Inserting(p)'
  <2> DEFINE new == arg[p].ent
  <2>1. Inserting(p) /\ arg'[p] = arg[p] /\ new \in Entries /\ new # e
    BY <1>1 DEF IInv, TypeOK, Ref, Inserting
  <2>2. /\ new # free /\ ~Linked(links, new) /\ \A i \in RowSlots : row[i] # new
        /\ ent[new].key = arg[p].key /\ ~ent[new].onRow
    BY <2>1 DEF PlacesOK, OnePlace
  <2>3. x # Nil => new # x
    BY <1>8, <2>1
  <2> HIDE DEF new
  <2>4. new # free' /\ ~Linked(links', new) /\ ent'[new].key = arg[p].key /\ ~ent'[new].onRow
    BY <1>5, <1>7, <2>1, <2>2, <2>3
  <2>5. \A i \in RowSlots : row'[i] # new
    BY <1>3, <1>5, <2>1, <2>2
  <2> QED BY <2>1, <2>4, <2>5 DEF new
<1>11. \A k \in Keys : table'[k] # Nil /\ ent'[table'[k]].onRow =>
         \E i \in RowSlots : row'[i] = table'[k]
  <2> SUFFICES ASSUME NEW k \in Keys, table'[k] # Nil, ent'[table'[k]].onRow
               PROVE  \E i \in RowSlots : row'[i] = table'[k]
    OBVIOUS
  <2>1. table'[k] = table[k] /\ table[k] # x /\ table[k] \in Entries
    BY <1>3, <1>6 DEF Ref
  <2>2. CASE table[k] = e
    <3>1. row'[rowPos] = e
      BY <1>3, <1>5, <2>1, <2>2
    <3> QED BY <1>3, <2>1, <2>2, <3>1
  <2>3. CASE table[k] # e
    <3>1. ent[table[k]].onRow
      BY <1>5, <2>1, <2>3
    <3>2. PICK i \in RowSlots : row[i] = table[k]
      BY <2>1, <3>1, NilIsNoEntry DEF PlacesOK, OnePlace
    <3>3. row'[i] = row[i]
      BY <1>3, <1>5, <2>1, <3>2
    <3> QED BY <2>1, <3>2, <3>3
  <2> QED BY <2>2, <2>3
<1>12. OnePlace'
  <2>1. free' # Nil => ~Linked(links', free')
    BY <1>3, <1>5, <1>7, <1>8 DEF PlacesOK, OnePlace, Ref
  <2> QED BY <1>9, <1>10, <1>11, <2>1 DEF OnePlace, Linked
<1>13. IndexIntact'
  <2> SUFFICES ASSUME NEW k \in Keys, table'[k] # Nil
               PROVE  /\ ent'[table'[k]].key = k /\ table'[k] # free'
                      /\ \A p \in Procs : Inserting(p)' => arg'[p].ent # table'[k]
    BY DEF IndexIntact, Inserting
  <2>1. table'[k] = table[k] /\ table[k] # x /\ table[k] \in Entries
    BY <1>3, <1>6 DEF Ref
  <2>2. /\ ent[table[k]].key = k /\ table[k] # free
        /\ \A p \in Procs : Inserting(p) => arg[p].ent # table[k]
    BY <2>1, NilIsNoEntry DEF PlacesOK, IndexIntact, Inserting
  <2> QED BY <1>5, <2>1, <2>2
<1> QED BY <1>7, <1>12, <1>13 DEF PlacesOK

\* An eviction is of a head.
LEMMA EvictPlaces ==
  ASSUME IInv, PlacesOK, NEW p \in Procs, Drop(p)
  PROVE  PlacesOK'
<1>1. PICK q \in Queues :
        /\ links.head[q] # Nil
        /\ SendToDeathRow(links.head[q], Remove(links, q, links.head[q]))
  BY DEF Drop, Queues
<1>2. pc[p] \in Evicting /\ Evicted(p)
  BY DEF Drop, Evicting
<1>3. \A x \in Procs : Inserting(x)' => Inserting(x) /\ arg'[x] = arg[x]
  BY <1>2, EvictedInserts
<1> QED BY <1>1, <1>3, SendToDeathRowPlaces

\* A rotated entry changes its place in the lists, and its flag with it.
LEMMA RotatePlaces ==
  ASSUME IInv, PlacesOK, NEW p \in Procs, Promote(p) \/ Demote(p) \/ SecondChance(p)
  PROVE  PlacesOK'
<1>1. PICK q \in Queues, to \in Queues :
        /\ links.head[q] # Nil
        /\ links' = PushBack(Remove(links, q, links.head[q]), to, links.head[q])
        /\ \E f, b : /\ ent' = [ent EXCEPT ![links.head[q]] =
                                  [@ EXCEPT !.freq = f, !.inSmall = b]]
                     /\ b <=> to = "small"
  <2>1. CASE Promote(p)
    <3>1. /\ "small" \in Queues /\ "main" \in Queues /\ (FALSE <=> "main" = "small")
          /\ links.head["small"] # Nil
          /\ links' = PushBack(Remove(links, "small", links.head["small"]), "main",
                               links.head["small"])
          /\ ent' = [ent EXCEPT ![links.head["small"]] =
                       [@ EXCEPT !.freq = 0, !.inSmall = FALSE]]
      BY <2>1 DEF Promote, Queues
    <3> QED BY <3>1
  <2>2. CASE Demote(p)
    <3>1. /\ "small" \in Queues /\ "main" \in Queues
          /\ links.head["main"] # Nil
          /\ links' = PushBack(Remove(links, "main", links.head["main"]), "small",
                               links.head["main"])
          /\ ent' = [ent EXCEPT ![links.head["main"]] =
                       [@ EXCEPT !.freq = 1, !.inSmall = TRUE]]
      BY <2>2 DEF Demote, Queues
    <3> QED BY <3>1
  <2>3. CASE SecondChance(p)
    <3> DEFINE h == links.head["main"]
    <3>1. /\ "main" \in Queues /\ h # Nil
          /\ links' = PushBack(Remove(links, "main", h), "main", h)
          /\ ent' = [ent EXCEPT ![h].freq = @ - 1]
      BY <2>3 DEF SecondChance, Queues
    <3>2. h \in Entries /\ ~ent[h].inSmall /\ ent[h] \in Fields /\ ent \in [Entries -> Fields]
      BY <3>1, HeadPlaces DEF IInv, TypeOK
    <3>3. ent' = [ent EXCEPT ![h] = [@ EXCEPT !.freq = ent[h].freq - 1, !.inSmall = FALSE]]
      <4>1. ent[h].inSmall = FALSE
        BY <3>2 DEF Fields
      <4>2. [ent[h] EXCEPT !.freq = ent[h].freq - 1]
              = [ent[h] EXCEPT !.freq = ent[h].freq - 1, !.inSmall = FALSE]
        <5> HIDE DEF h
        <5> QED BY <3>2, <4>1 DEF Fields
      <4> HIDE DEF h
      <4> QED BY <3>1, <4>2
    <3> HIDE DEF h
    <3>4. \E f, b : /\ ent' = [ent EXCEPT ![h] = [@ EXCEPT !.freq = f, !.inSmall = b]]
                    /\ b <=> "main" = "small"
      BY <3>3
    <3> QED BY <3>1, <3>4 DEF h
  <2> QED BY <2>1, <2>2, <2>3
<1> DEFINE e == links.head[q]
           L == Remove(links, q, e)
<1>2. /\ e # Nil /\ e \in Entries /\ (ent[e].inSmall <=> q = "small")
      /\ e # free /\ \A i \in RowSlots : row[i] # e
      /\ \A x \in Procs : Inserting(x) => arg[x].ent # e
  BY <1>1, HeadPlaces
<1>3. UNCHANGED <<table, row, free>>
  BY DEF Promote, Demote, SecondChance, evictVars
<1>4. \A x \in Procs : Inserting(x)' => Inserting(x) /\ arg'[x] = arg[x]
  <2>1. CASE SecondChance(p)
    BY <2>1 DEF SecondChance, procVars, Inserting
  <2>2. CASE Promote(p) \/ Demote(p)
    <3>1. pc[p] \in Evicting /\ \E s \in Evicting : Step(p, s)
      BY <2>2 DEF Promote, Demote, InMain, AfterMain, Evicting
    <3>2. arg' = arg /\ \A x \in Procs \ {p} : pc'[x] = pc[x]
      BY <3>1, StepType DEF IInv, Steps
    <3> QED BY <3>1, <3>2 DEF Inserting
  <2> QED BY <2>1, <2>2
<1>5. PICK f, b : /\ ent' = [ent EXCEPT ![e] = [@ EXCEPT !.freq = f, !.inSmall = b]]
                  /\ b <=> to = "small"
  BY <1>1
<1>6. links' = PushBack(L, to, e)
  BY <1>1
<1>7. /\ ent \in [Entries -> Fields] /\ table \in [Keys -> Ref]
      /\ row \in [RowSlots -> Ref] /\ free \in Ref
  BY DEF IInv, TypeOK
<1> HIDE DEF e
<1>8. /\ \A y \in Entries : ent'[y].key = ent[y].key /\ (ent'[y].onRow <=> ent[y].onRow)
      /\ \A y \in Entries \ {e} : ent'[y].inSmall <=> ent[y].inSmall
      /\ ent'[e].inSmall <=> to = "small"
  BY <1>2, <1>5, <1>7 DEF Fields
<1>9. /\ Pieces(links, ent)'
      /\ \A y \in Entries \ {e} : Linked(links', y) => Linked(links, y)
  <2>1. links \in Links /\ Pieces(links, ent)
    BY DEF IInv, TypeOK, PlacesOK
  <2>2. /\ L \in Links /\ Pieces(L, ent) /\ ~Linked(L, e)
        /\ \A y \in Entries : Linked(L, y) => Linked(links, y)
    BY <1>2, <2>1, RemovePieces, RemoveType
  <2> HIDE DEF L
  <2>3. /\ Pieces(PushBack(L, to, e), ent')
        /\ \A y \in Entries : Linked(PushBack(L, to, e), y) => y = e \/ Linked(L, y)
    BY <1>2, <1>8, <2>2, PushPieces
  <2> QED BY <1>6, <2>2, <2>3 DEF Pieces
<1>10. OnePlace'
  <2>1. free' # Nil => ~Linked(links', free')
    BY <1>2, <1>3, <1>7, <1>9 DEF Ref, PlacesOK, OnePlace
  <2>2. \A i \in RowSlots : row'[i] # Nil =>
          /\ row'[i] # free' /\ ~Linked(links', row'[i])
          /\ \A j \in RowSlots : row'[i] = row'[j] => i = j
    BY <1>2, <1>3, <1>7, <1>9 DEF Ref, PlacesOK, OnePlace
  <2>3. \A x \in Procs : Inserting(x)' =>
          /\ arg'[x].ent # free' /\ ~Linked(links', arg'[x].ent)
          /\ \A i \in RowSlots : row'[i] # arg'[x].ent
          /\ ent'[arg'[x].ent].key = arg'[x].key /\ ~ent'[arg'[x].ent].onRow
    <3> TAKE x \in Procs
    <3> HAVE Inserting(x)'
    <3>1. Inserting(x) /\ arg'[x] = arg[x] /\ arg[x].ent \in Entries \ {e}
      BY <1>2, <1>4 DEF IInv, TypeOK, Ref, Inserting
    <3> QED BY <1>3, <1>8, <1>9, <3>1 DEF PlacesOK, OnePlace
  <2>4. \A k \in Keys : table'[k] # Nil /\ ent'[table'[k]].onRow =>
          \E i \in RowSlots : row'[i] = table'[k]
    BY <1>3, <1>7, <1>8 DEF Ref, PlacesOK, OnePlace
  <2> QED BY <2>1, <2>2, <2>3, <2>4 DEF OnePlace, Linked
<1>11. IndexIntact'
  <2>1. \A k \in Keys : table[k] # Nil => ent'[table[k]].key = ent[table[k]].key
    BY <1>7, <1>8 DEF Ref
  <2> QED BY <1>3, <1>4, <2>1 DEF PlacesOK, IndexIntact, Inserting
<1> QED BY <1>9, <1>10, <1>11 DEF PlacesOK

\* Initially nothing has a place.
LEMMA InitPlaces == Init => PlacesOK
<1> SUFFICES ASSUME Init PROVE PlacesOK
  OBVIOUS
<1>1. Pieces(links, ent)
  BY NilIsNoEntry DEF Init, NoLinks, Pieces
<1>2. OnePlace /\ IndexIntact
  BY DEF Init, OnePlace, IndexIntact, Inserting, Evicting
<1> QED BY <1>1, <1>2 DEF PlacesOK

\* PlacesOK is inductive whatever Delete hits: no sequence of calls puts an
\* entry that is still referred to in a second place.
THEOREM PlacesInductive == Spec => []PlacesOK
<1>1. IInv /\ PlacesOK /\ [Next]_vars => PlacesOK'
  <2> SUFFICES ASSUME IInv, PlacesOK, [Next]_vars
               PROVE  PlacesOK'
    OBVIOUS
  <2>1. ASSUME NEW p \in Procs, Locking(p) PROVE PlacesOK'
    BY <2>1, MovePlaces, SetBelowCapacityPlaces, SetAtCapacityPlaces, ResurrectPlaces
       DEF Locking
  <2>2. ASSUME NEW p \in Procs, Eviction(p) PROVE PlacesOK'
    BY <2>2, MovePlaces, EvictPlaces, RotatePlaces DEF Eviction
  <2>3. ASSUME NEW p \in Procs, Touch(p) PROVE PlacesOK'
    BY <2>3, TouchPlaces
  <2>4. ASSUME NEW p \in Procs, Insert(p) PROVE PlacesOK'
    BY <2>4, InsertPlaces
  <2>5. ASSUME NEW p \in Procs, NEW k \in Keys, Call(p, k) PROVE PlacesOK'
    BY <2>5, CallPlaces
  <2>6. ASSUME NEW k \in Keys, Delete(k) PROVE PlacesOK'
    BY <2>6, DeletePlaces
  <2>7. CASE Flush
    BY <2>7, FlushPlaces
  <2>8. CASE UNCHANGED vars
    <3>1. UNCHANGED <<table, ent, links, row, free, pc, arg>>
      BY <2>8 DEF vars, queueVars, evictVars, procVars
    <3> QED BY <3>1, FramePlaces DEF Inserting
  <2> QED BY <2>1, <2>2, <2>3, <2>4, <2>5, <2>6, <2>7, <2>8 DEF Next
<1>2. Spec => []IInv
  BY Inductive
<1> QED BY InitPlaces, <1>1, <1>2, PTL DEF Spec

\* What get and setWithHash rely on when they take an entry from the index holds
\* in every behaviour, a Delete on death row included: the entry carries their
\* key, is not waiting to be recycled and is not being filled.
THEOREM IndexStaysIntact == Spec => []IndexIntact
<1>1. PlacesOK => IndexIntact
  BY DEF PlacesOK
<1> QED BY <1>1, PlacesInductive, PTL
=============================================================================
