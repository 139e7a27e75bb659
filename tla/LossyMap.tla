------------------------------ MODULE LossyMap ------------------------------
(***************************************************************************)
(* What a TieredCache may expect of a Store (store.go): every key is a     *)
(* register that a Set writes while it is in progress, that may lose its   *)
(* value at any time, and whose Get returns nothing but what the register  *)
(* held, or a Set in progress wrote, while the Get was in progress.        *)
(***************************************************************************)
CONSTANTS Keys, Values, Procs, None

VARIABLES
  map,   \* the value of each key
  call   \* the operation of each goroutine: for a "put" the value in seen,
         \* for a "get" what it may return, once it has "got" what it returns

vars == <<map, call>>

Idle == [op |-> "idle", key |-> None, seen |-> {}]

TypeOK ==
  /\ map \in [Keys -> Values \cup {None}]
  /\ call \in [Procs -> [op : {"idle", "put", "get", "got"},
                         key : Keys \cup {None},
                         seen : SUBSET (Values \cup {None})]]

Init ==
  /\ map \in [Keys -> Values \cup {None}]
  /\ call = [p \in Procs |-> Idle]

Enter(p, op, k, seen) ==
  call' = [call EXCEPT ![p] = [op |-> op, key |-> k, seen |-> seen]]

\* What is shown of the keys in K while others get them.
Show(K, r) ==
  call' = [p \in Procs |->
             IF call[p].op = "get" /\ call[p].key \in K
             THEN [call[p] EXCEPT !.seen = @ \cup {r}] ELSE call[p]]

Put(p, k, v) == call[p] = Idle /\ Enter(p, "put", k, {v}) /\ UNCHANGED map

Get(p, k) ==
  /\ call[p] = Idle
  /\ Enter(p, "get", k, {map[k]}) \/ Enter(p, "got", k, {map[k]})
  /\ UNCHANGED map

Answer(p) ==
  /\ call[p].op = "get"
  /\ \E r \in call[p].seen : Enter(p, "got", call[p].key, {r})
  /\ UNCHANGED map

\* What a Get has got may expire before it looks at the expiry.
Drop(p) ==
  /\ call[p].op = "got"
  /\ Enter(p, "got", call[p].key, {None})
  /\ UNCHANGED map

\* A "get" that returns without an answer has failed.
Return(p) == call[p] # Idle /\ call' = [call EXCEPT ![p] = Idle] /\ UNCHANGED map

Putting(k, v) ==
  \E p \in Procs : call[p].op = "put" /\ call[p].key = k /\ v \in call[p].seen

Write(k, v) ==
  /\ Putting(k, v)
  /\ map' = [map EXCEPT ![k] = v] \/ UNCHANGED map  \* or overwritten at once
  /\ Show({k}, v)

Lost(K) == map' = [k \in Keys |-> IF k \in K THEN None ELSE map[k]]

\* A Get that is under way may also find that a value it read before it was
\* overwritten has gone.
Lose(K)  == Show(K, None) /\ \E L \in SUBSET K : Lost(L)
Crash(K) == Lost(K) /\ call' = [p \in Procs |-> Idle]

Next ==
  \/ UNCHANGED vars  \* most steps of a store, and the quickest to recognise
  \/ \E p \in Procs, k \in Keys : Get(p, k) \/ \E v \in Values : Put(p, k, v)
  \/ \E p \in Procs : Answer(p) \/ Drop(p) \/ Return(p)
  \/ \E k \in Keys, v \in Values : Write(k, v)
  \/ \E K \in SUBSET Keys : Lose(K) \/ Crash(K)

Spec == Init /\ [][Next]_vars
=============================================================================
