------------------------------ MODULE Entries ------------------------------
(***************************************************************************)
(* What a get of the engine returns, while entries are updated, put on     *)
(* death row, resurrected, evicted and recycled for other keys.            *)
(*                                                                         *)
(* S3FIFO has the queues and leaves the values out; here it is the other   *)
(* way round.  The queues are a set any member of which may be evicted, to *)
(* death row or for good, and death row is a set whose members may be      *)
(* displaced: every choice of the queues, counters and slots is among      *)
(* these.  Loads and stores of values are single steps (Seqlock).          *)
(***************************************************************************)
EXTENDS Naturals, FiniteSets

CONSTANTS
  Keys, Values,
  KeyOf,      \* the key each value is set for, to tell where it comes from
  Timed,      \* the values set with an expiry; the others never expire
  Procs, Entries,
  Nil,        \* no entry, no value
  Zero,       \* the zero value
  Capacity, RowSize

ASSUME EntriesConstants ==
  /\ KeyOf \in [Values -> Keys] /\ Timed \subseteq Values
  /\ Nil \notin Entries \cup Values \cup Keys \cup Procs /\ Zero \notin Values \cup {Nil}
  /\ Capacity \in Nat \ {0} /\ RowSize \in Nat \ {0}

VARIABLES
  table,      \* c.entries
  ent,        \* key, value and expirySec of every entry; an expiry is named
              \* by the value it was set with, Nil is none
  queued,     \* the entries on the small or the main queue
  row,        \* the entries on death row
  free,       \* c.freeEntry
  lock,       \* c.mu
  late,       \* the expiries that have passed
  pc, arg,
  seen,       \* history: what a get may return
  dead,       \* history: the values that had expired before a get began
  clobbered,  \* history: entries recycled for a key other than the one some
              \* goroutine holds them for
  mixed,      \* history: entries that two updates have written at a time
  rowDeleted  \* history: a Delete has hit death row

engine   == <<table, ent, queued, row, free>>
procVars == <<pc, arg>>
getVars  == <<seen, dead>>
histVars == <<clobbered, mixed, rowDeleted>>
vars     == <<engine, lock, late, procVars, getVars, histVars>>

NoArg == [key |-> Nil, ent |-> Nil, val |-> Nil, via |-> "none", passed |-> {}]

TypeOK ==
  /\ table \in [Keys -> Entries \cup {Nil}]
  /\ ent \in [Entries -> [key : Keys \cup {Nil}, val : Values \cup {Nil},
                          exp : Timed \cup {Nil}]]
  /\ queued \subseteq Entries /\ row \subseteq Entries
  /\ free \in Entries \cup {Nil} /\ lock \in Procs \cup {Nil}
  /\ late \subseteq Timed
  /\ pc \in [Procs -> {"idle", "check", "value", "resurrect", "return",
                       "range", "store", "expiry", "lock", "publish"}]
  /\ arg \in [Procs -> [key : Keys \cup {Nil}, ent : Entries \cup {Nil},
                        val : Values \cup {Nil, Zero},
                        via : {"none", "index", "row", "range", "new"},
                        passed : SUBSET Timed]]
  /\ seen \in [Procs -> SUBSET (Values \cup {Nil})]
  /\ dead \in [Procs -> SUBSET Values]
  /\ clobbered \subseteq Entries /\ mixed \subseteq Entries
  /\ rowDeleted \in BOOLEAN

Init ==
  /\ table = [k \in Keys |-> Nil]
  /\ ent = [e \in Entries |-> [key |-> Nil, val |-> Nil, exp |-> Nil]]
  /\ queued = {} /\ row = {} /\ free = Nil /\ lock = Nil /\ late = {}
  /\ pc = [p \in Procs |-> "idle"]
  /\ arg = [p \in Procs |-> NoArg]
  /\ seen = [p \in Procs |-> {}] /\ dead = [p \in Procs |-> {}]
  /\ clobbered = {} /\ mixed = {} /\ rowDeleted = FALSE

-----------------------------------------------------------------------------

Held(k)    == IF table[k] = Nil THEN Nil ELSE ent[table[k]].val
Expiry(v)  == IF v \in Timed THEN v ELSE Nil

Looking    == {"check", "value", "resurrect"}         \* in a get
Updates    == {"store", "expiry", "lock", "publish"}  \* in a Set
Setting(k) == {arg[p].val :
                 p \in {q \in Procs : arg[q].key = k /\ pc[q] \in Updates}}

Goto(p, s, k, e, v, via) ==
  /\ pc' = [pc EXCEPT ![p] = s]
  /\ arg' = [arg EXCEPT ![p] = [key |-> k, ent |-> e, val |-> v, via |-> via,
                                passed |-> arg[p].passed]]

Step(p, s) == Goto(p, s, arg[p].key, arg[p].ent, arg[p].val, arg[p].via)
Idle(p)    == pc' = [pc EXCEPT ![p] = "idle"] /\ arg' = [arg EXCEPT ![p] = NoArg]

\* A get ends, or the iteration of Range goes on.
Over(p) == IF arg[p].via = "range" THEN Goto(p, "range", Nil, Nil, Nil, "range")
           ELSE Idle(p)

\* get asks for the time when it has the entry, Range when it begins.
Passed(p) == IF arg[p].via = "range" THEN arg[p].passed ELSE late

\* History: p begins to look k up.
Watch(p, k) ==
  /\ seen' = [seen EXCEPT ![p] = {Held(k)} \cup Setting(k)]
  /\ dead' = [dead EXCEPT ![p] = Passed(p) \ Setting(k)]

\* History: v is being set, and the gets of its key may see it.
Announce(v) ==
  LET Gets(p) == pc[p] \in Looking /\ arg[p].key = KeyOf[v]
  IN /\ seen' = [p \in Procs |-> IF Gets(p) THEN seen[p] \cup {v} ELSE seen[p]]
     /\ dead' = [p \in Procs |-> IF Gets(p) THEN dead[p] \ {v} ELSE dead[p]]

Forget(p) == /\ seen' = [seen EXCEPT ![p] = {}]
             /\ dead' = [dead EXCEPT ![p] = {}]

-----------------------------------------------------------------------------
(* get and Range *)

GetHit(p, k) ==
  /\ pc[p] = "idle" /\ table[k] # Nil /\ table[k] \notin row
  /\ Goto(p, "check", k, table[k], Nil, "index")
  /\ Watch(p, k)
  /\ UNCHANGED <<engine, lock, late, histVars>>

Range(p) ==
  /\ pc[p] = "idle"
  /\ pc' = [pc EXCEPT ![p] = "range"]
  /\ arg' = [arg EXCEPT ![p] = [NoArg EXCEPT !.via = "range", !.passed = late]]
  /\ UNCHANGED <<engine, lock, late, getVars, histVars>>

\* The iteration loads an entry wherever it is.
RangeVisit(p, k) ==
  /\ pc[p] = "range" /\ table[k] # Nil
  /\ Goto(p, "check", k, table[k], Nil, "range")
  /\ Watch(p, k)
  /\ UNCHANGED <<engine, lock, late, histVars>>

RangeEnd(p) ==
  /\ pc[p] = "range"
  /\ Idle(p)
  /\ UNCHANGED <<engine, lock, late, getVars, histVars>>

GetOnRow(p, k) ==
  /\ pc[p] = "idle" /\ table[k] # Nil /\ table[k] \in row
  /\ Goto(p, "resurrect", k, table[k], Nil, "row")
  /\ Watch(p, k)
  /\ UNCHANGED <<engine, lock, late, histVars>>

CheckExpired(p) ==
  /\ pc[p] = "check" /\ ent[arg[p].ent].exp \in Passed(p)
  /\ Over(p) /\ Forget(p)
  /\ UNCHANGED <<engine, lock, late, histVars>>

\* Plausible bug: the expiry is not looked at.
CheckNothing(p) ==
  /\ pc[p] = "check"
  /\ Step(p, "value")
  /\ UNCHANGED <<engine, lock, late, getVars, histVars>>

CheckFresh(p) ==
  /\ pc[p] = "check" /\ ent[arg[p].ent].exp \notin Passed(p)
  /\ Step(p, "value")
  /\ UNCHANGED <<engine, lock, late, getVars, histVars>>

LoadValue(p) ==
  LET e == arg[p].ent IN
  /\ pc[p] = "value"
  /\ Goto(p, "return", arg[p].key, e, ent[e].val, arg[p].via)
  /\ UNCHANGED <<engine, lock, late, getVars, histVars>>

Return(p) ==
  /\ pc[p] = "return"
  /\ Over(p) /\ Forget(p)
  /\ UNCHANGED <<engine, lock, late, histVars>>

\* The key has gone by the time of the mutex.
ResurrectMiss(p) ==
  /\ pc[p] = "resurrect" /\ lock = Nil /\ table[arg[p].key] = Nil
  /\ Idle(p) /\ Forget(p)
  /\ UNCHANGED <<engine, lock, late, histVars>>

\* Its entry has left death row: zero and true.
ResurrectRaced(p) ==
  LET e == table[arg[p].key] IN
  /\ pc[p] = "resurrect" /\ lock = Nil /\ e # Nil /\ e \notin row
  /\ Goto(p, "return", arg[p].key, e, Zero, "row")
  /\ UNCHANGED <<engine, lock, late, getVars, histVars>>

\* Plausible bug: an entry that is displaced stays in the index.
UnindexForgotten(T, e) == T

Unindex(T, e) == [T EXCEPT ![ent[e].key] = Nil]

\* Plausible bug: an entry is up for recycling as soon as it is on death row.
EvictOneFreesEarly(Q, R, T, e) ==
  \/ /\ queued' = Q \ {e} /\ row' = R
     /\ table' = Unindex(T, e) /\ free' = e
  \/ \E old \in R \cup {Nil} :
       /\ queued' = Q \ {e} /\ row' = (R \ {old}) \cup {e}
       /\ Cardinality(row') <= RowSize
       /\ table' = IF old = Nil THEN T ELSE Unindex(T, old)
       /\ free' = e

\* evictOne with Q on the queues and R on death row: some entry leaves, to
\* death row, which may displace another, or for good; T is the index then.
\* The entry that is gone is the next to recycle.
EvictOne(Q, R, T, e) ==
  \/ /\ queued' = Q \ {e} /\ row' = R
     /\ table' = Unindex(T, e) /\ free' = e
  \/ /\ Cardinality(R) < RowSize
     /\ queued' = Q \ {e} /\ row' = R \cup {e}
     /\ table' = T /\ UNCHANGED free
  \/ \E old \in R :
       /\ queued' = Q \ {e} /\ row' = (R \ {old}) \cup {e}
       /\ table' = Unindex(T, old) /\ free' = old

Resurrect(p) ==
  LET e == table[arg[p].key]
      Q == queued \cup {e}
      R == row \ {e}
  IN
  /\ pc[p] = "resurrect" /\ lock = Nil /\ e \in row
  /\ Goto(p, "return", arg[p].key, e, ent[e].val, "row")
  /\ IF Cardinality(Q) > Capacity
     THEN \E x \in Q : EvictOne(Q, R, table, x)
     ELSE queued' = Q /\ row' = R /\ UNCHANGED <<table, free>>
  /\ UNCHANGED <<ent, lock, late, getVars, histVars>>

-----------------------------------------------------------------------------
(* set *)

\* The lock-free update of an entry that exists, or seems to.
SetHit(p, v) ==
  LET e == table[KeyOf[v]] IN
  /\ pc[p] = "idle" /\ e # Nil
  /\ Goto(p, "store", KeyOf[v], e, v, "none")
  /\ Announce(v)
  /\ UNCHANGED <<engine, lock, late, histVars>>

Updating(e) == {p \in Procs : pc[p] = "expiry" /\ arg[p].ent = e}

StoreValue(p) ==
  LET e == arg[p].ent IN
  /\ pc[p] = "store"
  /\ ent' = [ent EXCEPT ![e].val = arg[p].val]
  /\ mixed' = IF Updating(e) = {} THEN mixed ELSE mixed \cup {e}
  /\ Step(p, "expiry")
  /\ UNCHANGED <<table, queued, row, free, lock, late, getVars, clobbered, rowDeleted>>

\* Plausible bug: an entry keeps the expiry it had.
StoreNoExpiry(p) ==
  /\ pc[p] = "expiry"
  /\ IF arg[p].via = "new" THEN Step(p, "publish") /\ UNCHANGED lock
     ELSE Idle(p) /\ lock' = IF lock = p THEN Nil ELSE lock
  /\ UNCHANGED <<table, ent, queued, row, free, late, getVars, histVars>>

StoreExpiry(p) ==
  LET e == arg[p].ent IN
  /\ pc[p] = "expiry"
  /\ ent' = [ent EXCEPT ![e].exp = Expiry(arg[p].val)]
  /\ IF arg[p].via = "new" THEN Step(p, "publish") /\ UNCHANGED lock
     ELSE Idle(p) /\ lock' = IF lock = p THEN Nil ELSE lock
  /\ UNCHANGED <<table, queued, row, free, late, getVars, histVars>>

SetMiss(p, v) ==
  /\ pc[p] = "idle" /\ table[KeyOf[v]] = Nil
  /\ Goto(p, "lock", KeyOf[v], Nil, v, "none")
  /\ Announce(v)
  /\ UNCHANGED <<engine, lock, late, histVars>>

SetRaced(p) ==
  LET e == table[arg[p].key] IN
  /\ pc[p] = "lock" /\ lock = Nil /\ e # Nil
  /\ lock' = p
  /\ Goto(p, "store", arg[p].key, e, arg[p].val, "none")
  /\ UNCHANGED <<engine, late, getVars, histVars>>

\* What a goroutine, the index, a queue, death row or freeEntry refers to.
Holders(e) == {p \in Procs : arg[p].ent = e}
Unreferenced ==
  {e \in Entries \ (queued \cup row \cup {free}) :
     Holders(e) = {} /\ \A k \in Keys : table[k] # e}
Allocated ==
  IF free # Nil THEN {free}
  ELSE {e \in Unreferenced : e = CHOOSE x \in Unreferenced : TRUE}

\* A recycled entry gets its key first, then value and expiry, and then it is
\* published again; those who still hold it see each of these.
Insert(p) ==
  LET k == arg[p].key
      v == arg[p].val
  IN
  /\ pc[p] = "lock" /\ lock = Nil /\ table[k] = Nil
  /\ lock' = p
  /\ \E e \in Allocated :
       /\ ent' = [ent EXCEPT ![e].key = k]
       /\ Goto(p, "store", k, e, v, "new")
       /\ clobbered' = IF \E q \in Holders(e) : arg[q].key # k
                       THEN clobbered \cup {e}
                       ELSE IF Holders(e) = {} THEN clobbered \ {e} ELSE clobbered
       /\ mixed' = IF Holders(e) = {} THEN mixed \ {e} ELSE mixed
  /\ free' = Nil
  /\ UNCHANGED <<table, queued, row, late, getVars, rowDeleted>>

\* Make room when the queues are full, then publish.
Publish(p) ==
  LET e == arg[p].ent
      T == [table EXCEPT ![arg[p].key] = e]
  IN
  /\ pc[p] = "publish"
  /\ \/ /\ Cardinality(queued) < Capacity \/ rowDeleted
        /\ queued' = queued \cup {e} /\ table' = T
        /\ UNCHANGED <<row, free>>
     \/ /\ Cardinality(queued) >= Capacity \/ rowDeleted
        /\ \E x \in queued, Q \in {queued \cup {e}}, U \in {T} :
             EvictOne(Q, row, U, x)
  /\ lock' = Nil
  /\ Idle(p)
  /\ UNCHANGED <<ent, late, getVars, histVars>>

-----------------------------------------------------------------------------

\* On death row the entry keeps its slot, and a queue may lose its entries.
Delete(p, k) ==
  LET e == table[k] IN
  /\ pc[p] = "idle" /\ lock = Nil /\ e # Nil
  /\ table' = [table EXCEPT ![k] = Nil]
  /\ IF e \in row THEN queued' \in SUBSET queued /\ rowDeleted' = TRUE
     ELSE queued' = queued \ {e} /\ UNCHANGED rowDeleted
  /\ UNCHANGED <<ent, row, free, lock, late, procVars, getVars, clobbered, mixed>>

\* freeEntry survives.
Flush(p) ==
  /\ pc[p] = "idle" /\ lock = Nil
  /\ table' = [k \in Keys |-> Nil]
  /\ queued' = {} /\ row' = {} /\ rowDeleted' = FALSE
  /\ UNCHANGED <<ent, free, lock, late, procVars, getVars, clobbered, mixed>>

Pass(v) ==
  /\ v \in Timed \ late
  /\ late' = late \cup {v}
  /\ UNCHANGED <<engine, lock, procVars, getVars, histVars>>

Run(p) ==
  \/ CheckExpired(p) \/ CheckFresh(p) \/ LoadValue(p) \/ Return(p)
  \/ ResurrectMiss(p) \/ ResurrectRaced(p) \/ Resurrect(p)
  \/ StoreValue(p) \/ StoreExpiry(p) \/ SetRaced(p) \/ Insert(p) \/ Publish(p)

Next ==
  \/ \E p \in Procs, k \in Keys :
       GetHit(p, k) \/ GetOnRow(p, k) \/ RangeVisit(p, k) \/ Delete(p, k)
  \/ \E p \in Procs, v \in Values : SetHit(p, v) \/ SetMiss(p, v)
  \/ \E p \in Procs : Run(p) \/ Range(p) \/ RangeEnd(p) \/ Flush(p)
  \/ \E v \in Timed : Pass(v)

Spec == Init /\ [][Next]_vars

-----------------------------------------------------------------------------
(* Properties *)

Returns(p) == pc[p] = "return"

\* A get, and Range for each key, returns what the key held, or was being set
\* to, while it looked.  Two things break that: an entry that was recycled for
\* another key after the get had found it, and two gets that resurrect one key,
\* the second of which returns the zero value and true.
GetsHeld ==
  \A p \in Procs : Returns(p) =>
    \/ arg[p].val \in seen[p]
    \/ arg[p].ent \in clobbered
    \/ arg[p].val = Zero /\ arg[p].via = "row"

\* Until a Delete hits death row, the index and the queues agree: the entries
\* queued or on death row, no entry twice, are those the index leads to, each
\* under its own key, and the entry kept for recycling is none of them.
Linked ==
  ~rowDeleted =>
    /\ queued \cap row = {}
    /\ queued \cup row = {table[k] : k \in Keys} \ {Nil}
    /\ \A k \in Keys : table[k] # Nil => ent[table[k]].key = k
    /\ free \notin queued \cup row

EntriesIntact == TypeOK /\ Linked

\* The index leads to a value of its own key, unless the entry was recycled
\* while a goroutine still held it for another key.
IndexHoldsOwn ==
  \A k \in Keys : table[k] # Nil /\ table[k] \notin clobbered =>
    KeyOf[ent[table[k]].val] = k

\* A value and the expiry next to it come from the same Set, except while an
\* update is under way or after two updates of an entry have overlapped; an entry
\* recycled for another key is no exception.
ExpiryKept ==
  \A k \in Keys : LET e == table[k] IN
    e # Nil /\ e \notin mixed /\ Updating(e) = {} =>
      ent[e].exp = Expiry(ent[e].val)

\* A value that had expired before the get, or the Range, began is returned only
\* from death row, where get does not look at the expiry, or for the reasons
\* above.
ExpiredServed ==
  \A p \in Procs : Returns(p) /\ arg[p].val \in dead[p] =>
    arg[p].via = "row" \/ arg[p].ent \in clobbered \cup mixed

(* What makes these inductive, also after a Delete has hit death row *)

\* What a goroutine carries at each step: an entry under a key, a value of it.
CarriedOK ==
  \A p \in Procs :
    /\ pc[p] = "idle" => arg[p].via = "none"
    /\ pc[p] = "range" => arg[p].via = "range"
    /\ pc[p] \in {"check", "value", "resurrect", "return",
                  "store", "expiry", "publish"} =>
         arg[p].ent \in Entries /\ arg[p].key \in Keys
    /\ pc[p] \in Updates =>
         arg[p].val \in Values /\ arg[p].key = KeyOf[arg[p].val]
    /\ pc[p] = "publish" => arg[p].via = "new"

\* The parts of Linked that no Delete breaks.
Apart ==
  /\ queued \cap row = {} /\ free \notin queued \cup row
  /\ \A k \in Keys : table[k] # Nil => ent[table[k]].key = k /\ table[k] # free

\* An insert holds the mutex until it publishes: nothing leads to its entry and
\* its key is still missing.
Unpublished ==
  \A p \in Procs : arg[p].via = "new" =>
    /\ lock = p /\ free = Nil /\ pc[p] \in {"store", "expiry", "publish"}
    /\ arg[p].ent \notin queued \cup row
    /\ ent[arg[p].ent].key = arg[p].key
    /\ \A k \in Keys : table[k] # arg[p].ent
    /\ table[arg[p].key] = Nil

\* p inserts an entry that has a value already.
Filled(p) == arg[p].via = "new" /\ pc[p] # "store"

\* Who holds an entry holds it for its key, and so is its value, which an insert
\* has to put there before the entry is published.
OneKey ==
  \A p \in Procs :
    /\ arg[p].ent \in Entries \ clobbered => ent[arg[p].ent].key = arg[p].key
    /\ Filled(p) /\ arg[p].ent \notin clobbered =>
         KeyOf[ent[arg[p].ent].val] = arg[p].key

\* The value of an entry is that of the update under way; the expiry is the
\* value's unless an update is under way, or an insert that alone holds the
\* entry has not begun to fill it.
Paired ==
  /\ \A p \in Procs : pc[p] = "expiry" /\ arg[p].ent \notin mixed =>
       ent[arg[p].ent].val = arg[p].val
  /\ \A e \in Entries \ mixed :
       \/ ent[e].exp = Expiry(ent[e].val)
       \/ \E p \in Procs : pc[p] = "expiry" /\ arg[p].ent = e
       \/ \E p \in Procs : /\ arg[p].via = "new" /\ pc[p] = "store"
                           /\ \A q \in Procs : arg[q].ent = e <=> q = p

\* A get may return every value its key is being set to.
Announced ==
  \A p, q \in Procs :
    pc[p] \in Looking /\ pc[q] \in Updates /\ arg[p].key = arg[q].key =>
      arg[q].val \in seen[p] \ dead[p]

\* What a get is about to load, or will find on death row when it has the mutex,
\* is among what it may return, the entry of an insert included that is published
\* while it waits.
InSight ==
  \A p \in Procs :
    /\ pc[p] \in {"check", "value"} /\ arg[p].ent \notin clobbered =>
         ent[arg[p].ent].val \in seen[p]
    /\ pc[p] = "resurrect" =>
         /\ table[arg[p].key] \in Entries \ clobbered =>
              ent[table[arg[p].key]].val \in seen[p]
         /\ \A q \in Procs :
              Filled(q) /\ arg[q].key = arg[p].key /\ arg[q].ent \notin clobbered =>
                ent[arg[q].ent].val \in seen[p]

\* What had expired before the get began has expired when it looks, and it goes
\* on only with an entry whose value had not.
Expired ==
  \A p \in Procs :
    /\ pc[p] \in {"check", "value"} => dead[p] \subseteq Passed(p)
    /\ pc[p] = "value" /\ arg[p].ent \notin clobbered \cup mixed =>
         ent[arg[p].ent].val \notin dead[p]

IInv ==
  /\ EntriesIntact /\ CarriedOK /\ Apart /\ Unpublished
  /\ OneKey /\ IndexHoldsOwn /\ Paired
  /\ Announced /\ InSight /\ GetsHeld
  /\ Expired /\ ExpiredServed

(* What the documentation promises and the code does not keep *)

\* memory.go:54: "Get returns the value for key, or zero and false if not
\* found."
OwnValue ==
  \A p \in Procs : Returns(p) /\ arg[p].val \in Values =>
    KeyOf[arg[p].val] = arg[p].key
=============================================================================
