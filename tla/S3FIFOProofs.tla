---------------------------- MODULE S3FIFOProofs ----------------------------
(***************************************************************************)
(* The accounting of the cache, for every capacity, set of keys, number of *)
(* goroutines and choice of thresholds: types, the capacity bound and the  *)
(* fact that evictOne always finds a queue to work on.  None of the        *)
(* theorems assumes that the queues are well formed, so they hold in the   *)
(* states a Delete of an entry on death row leads to as well.              *)
(***************************************************************************)
EXTENDS S3FIFO, WellFoundedInduction, TLAPS

(* Lists *)

\* A pushed entry keeps the lists well typed and is counted once.
LEMMA PushBackType ==
  ASSUME NEW L \in Links, NEW q \in Queues, NEW e \in Entries
  PROVE  /\ PushBack(L, q, e) \in Links
         /\ PushBack(L, q, e).len = [L.len EXCEPT ![q] = @ + 1]
BY NilIsNoEntry DEF PushBack, Links, Ref

\* A removed entry keeps the lists well typed and is discounted once, even if
\* it was on no list.
LEMMA RemoveType ==
  ASSUME NEW L \in Links, NEW q \in Queues, NEW e \in Entries
  PROVE  /\ Remove(L, q, e) \in Links
         /\ Remove(L, q, e).len = [L.len EXCEPT ![q] = @ - 1]
BY NilIsNoEntry DEF Remove, Links, Ref

\* Pushing an entry of S keeps every pointer within S.
LEMMA PushBackWithin ==
  ASSUME NEW L \in Links, NEW q \in Queues, NEW e \in Entries,
         NEW S, Within(L, S), e \in S
  PROVE  Within(PushBack(L, q, e), S)
BY NilIsNoEntry DEF PushBack, Links, Queues, Ref, Within

\* Removing any entry only copies pointers that were within S.
LEMMA RemoveWithin ==
  ASSUME NEW L \in Links, NEW q \in Queues, NEW e \in Entries,
         NEW S, Within(L, S)
  PROVE  Within(Remove(L, q, e), S)
BY NilIsNoEntry DEF Remove, Links, Queues, Ref, Within

LEMMA NoLinksType == NoLinks \in Links /\ \A S : Within(NoLinks, S)
BY DEF NoLinks, Links, Queues, Ref, Within

-----------------------------------------------------------------------------
(* Ghosts *)

\* The ring either does not know a key or has a first slot for it.
LEMMA LookupType ==
  ASSUME NEW g \in Ghosts, NEW k \in Keys
  PROVE  Lookup(g, k) \in 0..MaxPeak
<1> DEFINE T == RingSlots(g, k)
           R == OpToRel(<, Nat)
<1>1. CASE T = {}
  BY <1>1, GhostConstants DEF Lookup
<1>2. CASE T # {}
  <2>1. T \subseteq Nat /\ T \subseteq Slots
    BY GhostConstants DEF RingSlots, Slots
  <2>2. PICK i \in T : \A j \in T : ~ (<<j, i>> \in R)
    BY <1>2, <2>1, NatLessThanWellFounded, WFMin
  <2>3. \A j \in T : i <= j
    <3> TAKE j \in T
    <3>1. ~ (j < i)
      BY <2>1, <2>2 DEF OpToRel
    <3> QED BY <2>1, <3>1
  <2> DEFINE m == CHOOSE x \in T : \A j \in T : x <= j
  <2>4. m \in T
    BY <2>3
  <2>5. g.ring[m].freq \in 0..MaxPeak
    BY <2>1, <2>4 DEF Ghosts
  <2> QED BY <1>2, <2>5 DEF Lookup
<1> QED BY <1>1, <1>2

LEMMA NoGhostsType == NoGhosts \in Ghosts
BY GhostConstants DEF NoGhosts, Ghosts, EmptyFilter, Filters, Slots

LEMMA AddToGhostType ==
  ASSUME NEW g \in Ghosts, NEW k \in Keys, NEW peak \in 0..MaxPeak
  PROVE  AddToGhost(g, k, peak) \in Ghosts
<1> DEFINE added == [g EXCEPT !.active = FilterAdd(@, k)]
<1>1. added \in Ghosts
  BY DEF Ghosts, FilterAdd, Filters
<1>2. RingAdd(added, k, peak) \in Ghosts
  <2>1. (added.pos + 1) % RingSize \in Slots
    BY <1>1, GhostConstants DEF Ghosts, Slots
  <2> HIDE DEF added
  <2> QED BY <1>1, <2>1 DEF RingAdd, Ghosts
<1>3. \A h \in Ghosts : Rotate(h) \in Ghosts
  BY DEF Rotate, Ghosts, EmptyFilter, Filters
<1> QED BY <1>1, <1>2, <1>3 DEF AddToGhost

-----------------------------------------------------------------------------
(* The invariant holds initially and is preserved by every action *)

LEMMA EntryOfType ==
  ASSUME NEW k \in Keys \cup {NoKey}, NEW peak \in 0..MaxPeak
  PROVE  /\ EntryOf(k, peak, TRUE) \in Fields /\ EntryOf(k, peak, TRUE).key = k
         /\ EntryOf(k, peak, FALSE) \in Fields /\ EntryOf(k, peak, FALSE).key = k
<1>1. peak % FreqMod \in 0 .. FreqMod - 1
  BY GhostConstants, S3FIFOConstants
<1> QED BY <1>1 DEF EntryOf, Fields

LEMMA ZeroPeak == 0 \in 0..MaxPeak
BY GhostConstants

LEMMA InitInv == Init => IInv
<1> SUFFICES ASSUME Init PROVE IInv
  OBVIOUS
<1>1. TypeOK
  <2>1. ZeroEntry \in Fields
    BY ZeroPeak, EntryOfType DEF ZeroEntry
  <2>2. NoArg \in [key : Keys \cup {NoKey}, ent : Ref]
    BY DEF NoArg, Ref
  <2>3. "idle" \in Steps /\ Nil \in Ref /\ 0 \in RowSlots
    BY S3FIFOConstants DEF Steps, Ref, RowSlots
  <2>4. table \in [Keys -> Ref] /\ ent \in [Entries -> Fields] /\ row \in [RowSlots -> Ref]
    BY <2>1, <2>3 DEF Init
  <2>5. pc \in [Procs -> Steps] /\ arg \in [Procs -> [key : Keys \cup {NoKey}, ent : Ref]]
    BY <2>2, <2>3 DEF Init
  <2>6. links \in Links /\ ghosts \in Ghosts
    BY NoLinksType, NoGhostsType DEF Init
  <2>7. /\ rowPos \in RowSlots /\ free \in Ref /\ total \in Int
        /\ lock \in Procs \cup {Nil}
    BY <2>3 DEF Init
  <2>8. panicked \in BOOLEAN /\ rowDeleted \in BOOLEAN
    BY DEF Init
  <2> QED BY <2>3, <2>4, <2>5, <2>6, <2>7, <2>8 DEF TypeOK
<1>2. LockOK
  BY S3FIFOConstants DEF Init, LockOK, Evicting
<1>3. KeyedOK
  BY NoLinksType DEF Init, KeyedOK, NoArg
<1>4. CountOK
  BY S3FIFOConstants DEF Init, CountOK, NoLinks, Queues, Evicting
<1> QED BY <1>1, <1>2, <1>3, <1>4 DEF IInv

\* Where the goroutines are after one of them has moved.
LEMMA GotoType ==
  ASSUME TypeOK, NEW p \in Procs, NEW s \in Steps,
         NEW k \in Keys \cup {NoKey}, NEW e \in Ref, Goto(p, s, k, e)
  PROVE  /\ pc' \in [Procs -> Steps]
         /\ arg' \in [Procs -> [key : Keys \cup {NoKey}, ent : Ref]]
         /\ pc'[p] = s /\ arg'[p].key = k /\ arg'[p].ent = e
         /\ \A q \in Procs \ {p} : pc'[q] = pc[q] /\ arg'[q] = arg[q]
BY DEF TypeOK, Goto

LEMMA ReturnType ==
  ASSUME TypeOK, NEW p \in Procs, Return(p)
  PROVE  /\ pc' \in [Procs -> Steps]
         /\ arg' \in [Procs -> [key : Keys \cup {NoKey}, ent : Ref]]
         /\ pc'[p] = "idle" /\ arg'[p].key = NoKey /\ arg'[p].ent = Nil
         /\ \A q \in Procs \ {p} : pc'[q] = pc[q] /\ arg'[q] = arg[q]
BY GotoType DEF Return, Steps, Ref

LEMMA StepType ==
  ASSUME TypeOK, NEW p \in Procs, NEW s \in Steps, Step(p, s)
  PROVE  /\ pc' \in [Procs -> Steps] /\ arg' = arg /\ lock' = lock
         /\ pc'[p] = s /\ \A q \in Procs \ {p} : pc'[q] = pc[q]
BY DEF TypeOK, Step

\* Looking a key up moves one goroutine that does not hold the mutex.
LEMMA CallInv ==
  ASSUME IInv, NEW p \in Procs, NEW k \in Keys, Call(p, k)
  PROVE  IInv'
<1>1. PICK s \in {"incFreq", "resurrectLock", "setLock"}, e \in Keyed \cup {Nil} :
        /\ Goto(p, s, k, e) /\ (s = "incFreq" => e # Nil)
  BY DEF IInv, KeyedOK, Call, GetHit, GetOnDeathRow, SetHit, SetMiss
<1>2. /\ pc[p] = "idle" /\ UNCHANGED <<table, ent, links, total, lock>>
      /\ UNCHANGED <<row, rowPos, free, ghosts, panicked, rowDeleted>>
  BY DEF Call, GetHit, GetOnDeathRow, SetHit, SetMiss, queueVars, evictVars, histVars
<1>3. /\ pc' \in [Procs -> Steps]
      /\ arg' \in [Procs -> [key : Keys \cup {NoKey}, ent : Ref]]
      /\ pc'[p] = s /\ arg'[p].key = k /\ arg'[p].ent = e
      /\ \A q \in Procs \ {p} : pc'[q] = pc[q] /\ arg'[q] = arg[q]
  BY <1>1, GotoType DEF IInv, Steps, Keyed, Ref
<1>4. TypeOK'
  BY <1>2, <1>3 DEF IInv, TypeOK
<1>5. LockOK'
  BY <1>1, <1>2, <1>3 DEF IInv, LockOK, Evicting
<1>6. KeyedOK'
  <2>1. Keyed' = Keyed
    BY <1>2 DEF Keyed
  <2> QED BY <1>1, <1>2, <1>3, <2>1 DEF IInv, KeyedOK
<1>7. CountOK'
  BY <1>1, <1>2, <1>3 DEF IInv, CountOK, Resurrecting, Evicting
<1> QED BY <1>4, <1>5, <1>6, <1>7 DEF IInv

\* Touching an entry changes its counters and may end a double check.
LEMMA TouchInv ==
  ASSUME IInv, NEW p \in Procs, Touch(p)
  PROVE  IInv'
<1>1. /\ pc[p] \in {"incFreq", "incPeakFreq"} /\ arg[p].ent \in Entries
      /\ UNCHANGED <<table, links, total, row, rowPos, free, ghosts>>
      /\ UNCHANGED <<panicked, rowDeleted>>
  BY DEF IInv, TypeOK, LockOK, Ref, Touch, IncFreq, IncPeakFreq,
         queueVars, evictVars, histVars
<1>2. \/ Step(p, "incPeakFreq")
      \/ Return(p) /\ Unlock(p)
  BY DEF Touch, IncFreq, IncPeakFreq
<1>3. /\ pc' \in [Procs -> Steps]
      /\ arg' \in [Procs -> [key : Keys \cup {NoKey}, ent : Ref]]
      /\ \/ pc'[p] = "incPeakFreq" /\ arg'[p] = arg[p] /\ lock' = lock
         \/ pc'[p] = "idle" /\ arg'[p].ent = Nil /\ lock' \in {Nil, lock} \ {p}
      /\ \A q \in Procs \ {p} : pc'[q] = pc[q] /\ arg'[q] = arg[q]
      /\ lock' # lock => lock = p /\ lock' = Nil
  BY <1>2, StepType, ReturnType, S3FIFOConstants DEF IInv, TypeOK, Steps, Unlock
<1>4. /\ ent' \in [Entries -> Fields]
      /\ \A e \in Entries : ent'[e].key = ent[e].key
  <2>1. CASE IncFreq(p)
    <3>1. PICK f \in 0 .. FreqMod - 1 : ent' = [ent EXCEPT ![arg[p].ent].freq = f]
      <4>1. ent[arg[p].ent].freq \in 0 .. FreqMod - 1
        BY <1>1 DEF IInv, TypeOK, Fields
      <4>2. \A f \in Incremented(p, ent[arg[p].ent].freq, MaxFreq) : f \in 0 .. FreqMod - 1
        BY <4>1, S3FIFOConstants DEF Incremented
      <4> QED BY <2>1, <4>2 DEF IncFreq
    <3> QED BY <1>1, <3>1 DEF IInv, TypeOK, Fields
  <2>2. CASE IncPeakFreq(p)
    <3>1. PICK f \in 0 .. MaxPeak : ent' = [ent EXCEPT ![arg[p].ent].peak = f]
      <4>1. ent[arg[p].ent].peak \in 0 .. MaxPeak
        BY <1>1 DEF IInv, TypeOK, Fields
      <4>2. \A f \in Incremented(p, ent[arg[p].ent].peak, MaxPeak) : f \in 0 .. MaxPeak
        BY <4>1, GhostConstants DEF Incremented
      <4> QED BY <2>2, <4>2 DEF IncPeakFreq
    <3> QED BY <1>1, <3>1 DEF IInv, TypeOK, Fields
  <2> QED BY <2>1, <2>2 DEF Touch
<1>5. TypeOK'
  BY <1>1, <1>3, <1>4 DEF IInv, TypeOK
<1>6. LockOK'
  BY <1>1, <1>3, S3FIFOConstants DEF IInv, LockOK, Evicting
<1>7. KeyedOK'
  <2>1. Keyed' = Keyed
    BY <1>4 DEF Keyed
  <2> QED BY <1>1, <1>3, <2>1 DEF IInv, KeyedOK
<1>8. CountOK'
  BY <1>1, <1>3 DEF IInv, CountOK, Resurrecting, Evicting
<1> QED BY <1>5, <1>6, <1>7, <1>8 DEF IInv

\* A double check that finds the key keeps the mutex while it updates.
LEMMA SetRacedInv ==
  ASSUME IInv, NEW p \in Procs, SetRaced(p)
  PROVE  IInv'
<1> DEFINE e == table[arg[p].key]
<1>1. /\ pc[p] = "setLock" /\ lock = Nil /\ lock' = p
      /\ arg[p].key \in Keys /\ e \in Keyed /\ e # Nil
      /\ Goto(p, "incFreq", arg[p].key, e)
      /\ UNCHANGED <<table, ent, links, total, row, rowPos, free, ghosts>>
      /\ UNCHANGED <<panicked, rowDeleted>>
  BY DEF IInv, LockOK, KeyedOK, SetRaced, queueVars, evictVars, histVars
<1>2. /\ pc' \in [Procs -> Steps]
      /\ arg' \in [Procs -> [key : Keys \cup {NoKey}, ent : Ref]]
      /\ pc'[p] = "incFreq" /\ arg'[p].key = arg[p].key /\ arg'[p].ent = e
      /\ \A q \in Procs \ {p} : pc'[q] = pc[q] /\ arg'[q] = arg[q]
  BY <1>1, GotoType DEF IInv, Steps, Keyed, Ref
<1> HIDE DEF e
<1>3. TypeOK'
  BY <1>1, <1>2 DEF IInv, TypeOK
<1>4. LockOK'
  BY <1>1, <1>2, S3FIFOConstants DEF IInv, LockOK, Evicting
<1>5. KeyedOK'
  <2>1. Keyed' = Keyed
    BY <1>1 DEF Keyed
  <2> QED BY <1>1, <1>2, <2>1 DEF IInv, KeyedOK
<1>6. CountOK'
  BY <1>1, <1>2, S3FIFOConstants DEF IInv, LockOK, CountOK, Resurrecting, Evicting
<1> QED BY <1>3, <1>4, <1>5, <1>6 DEF IInv

\* A new entry, fresh or recycled, gets its key before anything refers to it.
LEMMA NewEntry ==
  ASSUME IInv, NEW e \in Entries, NEW k \in Keys, NEW rec \in Fields, rec.key = k,
         ent' = [ent EXCEPT ![e] = rec]
  PROVE  /\ ent' \in [Entries -> Fields]
         /\ Keyed \subseteq Keyed' /\ e \in Keyed'
BY DEF IInv, TypeOK, Keyed

\* Pointers stay within a set that grows.
LEMMA WithinGrows ==
  ASSUME NEW L, NEW S, NEW T, Within(L, S), S \subseteq T
  PROVE  Within(L, T)
BY DEF Within

\* An insertion below capacity counts one more entry.
LEMMA SetBelowCapacityInv ==
  ASSUME IInv, NEW p \in Procs, SetBelowCapacity(p)
  PROVE  IInv'
<1> DEFINE k == arg[p].key
           new == EntryOf(k, 0, TRUE)
<1>1. /\ pc[p] = "setLock" /\ lock = Nil /\ lock' = Nil /\ k \in Keys
      /\ total < Capacity /\ total' = total + 1 /\ free' = Nil
      /\ Return(p)
      /\ UNCHANGED <<row, rowPos, ghosts, panicked, rowDeleted>>
  BY DEF IInv, LockOK, SetBelowCapacity, histVars
<1>2. PICK e \in Entries :
        /\ ent' = [ent EXCEPT ![e] = new]
        /\ links' = PushBack(links, "small", e)
        /\ table' = [table EXCEPT ![k] = e]
  BY DEF IInv, TypeOK, Ref, SetBelowCapacity, Allocated, Unreferenced
<1>3. /\ pc' \in [Procs -> Steps]
      /\ arg' \in [Procs -> [key : Keys \cup {NoKey}, ent : Ref]]
      /\ pc'[p] = "idle" /\ arg'[p].ent = Nil
      /\ \A q \in Procs \ {p} : pc'[q] = pc[q] /\ arg'[q] = arg[q]
  BY <1>1, ReturnType DEF IInv
<1>4. new \in Fields /\ new.key = k
  BY <1>1, ZeroPeak, EntryOfType
<1> HIDE DEF new
<1>5. ent' \in [Entries -> Fields] /\ Keyed \subseteq Keyed' /\ e \in Keyed'
  BY <1>1, <1>2, <1>4, NewEntry
<1>6. links' \in Links /\ links'.len = [links.len EXCEPT !["small"] = @ + 1]
  BY <1>2, PushBackType DEF IInv, TypeOK, Queues
<1>7. TypeOK'
  BY <1>1, <1>2, <1>3, <1>5, <1>6 DEF IInv, TypeOK, Ref
<1>8. LockOK'
  BY <1>1, <1>3, S3FIFOConstants DEF IInv, LockOK, Evicting
<1>9. KeyedOK'
  <2>1. Within(links, Keyed')
    BY <1>5, WithinGrows DEF IInv, KeyedOK
  <2>2. Within(links', Keyed')
    BY <1>2, <1>5, <2>1, PushBackWithin DEF IInv, TypeOK, Queues
  <2>3. \A x \in Keys : table'[x] \in Keyed' \cup {Nil}
    BY <1>2, <1>5 DEF IInv, TypeOK, KeyedOK
  <2> QED BY <1>1, <1>3, <1>5, <2>2, <2>3 DEF IInv, KeyedOK
<1>10. CountOK'
  <2>1. total' = links'.len["small"] + links'.len["main"]
    BY <1>1, <1>6 DEF IInv, TypeOK, CountOK, Links, Queues
  <2> QED BY <1>1, <1>3, <2>1, S3FIFOConstants
          DEF IInv, TypeOK, LockOK, CountOK, Resurrecting, Evicting
<1> QED BY <1>7, <1>8, <1>9, <1>10 DEF IInv

\* An insertion at capacity keeps the mutex and sets out to evict.
LEMMA SetAtCapacityInv ==
  ASSUME IInv, NEW p \in Procs, SetAtCapacity(p)
  PROVE  IInv'
<1> DEFINE k == arg[p].key
<1>1. /\ pc[p] = "setLock" /\ lock = Nil /\ lock' = p /\ k \in Keys
      /\ total >= Capacity /\ free' = Nil
      /\ UNCHANGED <<table, links, total, row, rowPos, ghosts, panicked, rowDeleted>>
  BY DEF IInv, LockOK, SetAtCapacity, queueVars, histVars
<1>2. Lookup(ghosts, k) \in 0..MaxPeak
  BY <1>1, LookupType DEF IInv, TypeOK
<1> DEFINE old == EntryOf(k, Lookup(ghosts, k), FALSE)
           new == EntryOf(k, 0, TRUE)
<1>3. old \in Fields /\ old.key = k /\ new \in Fields /\ new.key = k
  BY <1>1, <1>2, ZeroPeak, EntryOfType
<1>4. PICK e \in Entries, rec \in Fields :
        /\ ent' = [ent EXCEPT ![e] = rec] /\ rec.key = k
        /\ Goto(p, "evictOne", k, e)
  <2>1. PICK e \in Allocated, inGhost \in {TRUE, InGhost(ghosts, k)} :
          /\ ent' = [ent EXCEPT ![e] = IF inGhost THEN old ELSE new]
          /\ Goto(p, "evictOne", k, e)
    BY DEF SetAtCapacity
  <2>2. e \in Entries
    BY DEF IInv, TypeOK, Ref, Allocated, Unreferenced
  <2> QED BY <1>3, <2>1, <2>2
<1>5. ent' \in [Entries -> Fields] /\ Keyed \subseteq Keyed' /\ e \in Keyed'
  BY <1>1, <1>4, NewEntry
<1>6. /\ pc' \in [Procs -> Steps]
      /\ arg' \in [Procs -> [key : Keys \cup {NoKey}, ent : Ref]]
      /\ pc'[p] = "evictOne" /\ arg'[p].key = k /\ arg'[p].ent = e
      /\ \A q \in Procs \ {p} : pc'[q] = pc[q] /\ arg'[q] = arg[q]
  BY <1>1, <1>4, GotoType DEF IInv, Steps, Evicting, Ref
<1>7. TypeOK'
  BY <1>1, <1>5, <1>6 DEF IInv, TypeOK, Ref
<1>8. LockOK'
  BY <1>1, <1>6, NilIsNoEntry, S3FIFOConstants DEF IInv, LockOK, Evicting
<1>9. KeyedOK'
  <2>1. Within(links', Keyed')
    BY <1>1, <1>5, WithinGrows DEF IInv, KeyedOK
  <2> QED BY <1>1, <1>5, <1>6, <2>1 DEF IInv, KeyedOK
<1>10. CountOK'
  BY <1>1, <1>6, S3FIFOConstants DEF IInv, TypeOK, LockOK, CountOK, Resurrecting, Evicting
<1> QED BY <1>7, <1>8, <1>9, <1>10 DEF IInv

\* Publishing the new entry fills the room that the eviction made.
LEMMA InsertInv ==
  ASSUME IInv, NEW p \in Procs, Insert(p)
  PROVE  IInv'
<1> DEFINE e == arg[p].ent
<1>1. /\ pc[p] = "insert" /\ lock = p /\ lock' = Nil
      /\ arg[p].key \in Keys /\ e \in Keyed /\ e \in Entries
      /\ table' = [table EXCEPT ![arg[p].key] = e] /\ total' = total + 1
      /\ Return(p)
      /\ UNCHANGED <<ent, row, rowPos, free, ghosts, panicked, rowDeleted>>
  BY DEF IInv, LockOK, KeyedOK, Keyed, Insert, evictVars, histVars
<1>2. PICK q \in Queues : links' = PushBack(links, q, e)
  BY DEF Insert, QueueOf, Queues
<1>3. /\ pc' \in [Procs -> Steps]
      /\ arg' \in [Procs -> [key : Keys \cup {NoKey}, ent : Ref]]
      /\ pc'[p] = "idle" /\ arg'[p].ent = Nil
      /\ \A x \in Procs \ {p} : pc'[x] = pc[x] /\ arg'[x] = arg[x]
  BY <1>1, ReturnType DEF IInv
<1> HIDE DEF e
<1>4. links' \in Links /\ links'.len = [links.len EXCEPT ![q] = @ + 1]
  BY <1>1, <1>2, PushBackType DEF IInv, TypeOK
<1>5. TypeOK'
  BY <1>1, <1>3, <1>4 DEF IInv, TypeOK, Ref
<1>6. LockOK'
  BY <1>1, <1>3, S3FIFOConstants DEF IInv, LockOK, Evicting
<1>7. KeyedOK'
  <2>1. Keyed' = Keyed
    BY <1>1 DEF Keyed
  <2>2. Within(links', Keyed)
    BY <1>1, <1>2, PushBackWithin DEF IInv, TypeOK, KeyedOK
  <2>3. \A x \in Keys : table'[x] \in Keyed \cup {Nil}
    BY <1>1 DEF IInv, TypeOK, KeyedOK
  <2> QED BY <1>1, <1>3, <2>1, <2>2, <2>3 DEF IInv, KeyedOK
<1>8. CountOK'
  <2>1. total' = links'.len["small"] + links'.len["main"]
    BY <1>1, <1>4 DEF IInv, TypeOK, CountOK, Links, Queues
  <2> QED BY <1>1, <1>3, <2>1, S3FIFOConstants
          DEF IInv, TypeOK, LockOK, CountOK, Resurrecting, Evicting
<1> QED BY <1>5, <1>6, <1>7, <1>8 DEF IInv

\* Giving a resurrection up changes nothing but where the goroutine is.
LEMMA ResurrectRacedInv ==
  ASSUME IInv, NEW p \in Procs, ResurrectRaced(p)
  PROVE  IInv'
<1>1. /\ pc[p] = "resurrectLock" /\ lock = Nil /\ Return(p)
      /\ UNCHANGED <<table, ent, links, total, row, rowPos, free, ghosts>>
      /\ UNCHANGED <<lock, panicked, rowDeleted>>
  BY DEF ResurrectRaced, queueVars, evictVars, histVars
<1>2. /\ pc' \in [Procs -> Steps]
      /\ arg' \in [Procs -> [key : Keys \cup {NoKey}, ent : Ref]]
      /\ pc'[p] = "idle" /\ arg'[p].ent = Nil
      /\ \A x \in Procs \ {p} : pc'[x] = pc[x] /\ arg'[x] = arg[x]
  BY <1>1, ReturnType DEF IInv
<1>3. TypeOK'
  BY <1>1, <1>2 DEF IInv, TypeOK
<1>4. LockOK'
  BY <1>1, <1>2, S3FIFOConstants DEF IInv, LockOK, Evicting
<1>5. KeyedOK'
  <2>1. Keyed' = Keyed
    BY <1>1 DEF Keyed
  <2> QED BY <1>1, <1>2, <2>1 DEF IInv, KeyedOK
<1>6. CountOK'
  BY <1>1, <1>2 DEF IInv, CountOK, Resurrecting, Evicting
<1> QED BY <1>3, <1>4, <1>5, <1>6 DEF IInv

\* A resurrected entry is one too many exactly when room is to be made for it.
LEMMA ResurrectInv ==
  ASSUME IInv, NEW p \in Procs, Resurrect(p)
  PROVE  IInv'
<1> DEFINE e == table[arg[p].key]
<1>1. /\ pc[p] = "resurrectLock" /\ lock = Nil
      /\ arg[p].key \in Keys /\ e \in Keyed /\ e \in Entries
      /\ row' = RowWithout(e) /\ total' = total + 1
      /\ ent' = [ent EXCEPT ![e] = [@ EXCEPT !.onRow = FALSE, !.inSmall = FALSE,
                                             !.freq = BoostFreq, !.peak = BoostFreq]]
      /\ links' = PushBack(links, "main", e)
      /\ UNCHANGED <<table, rowPos, free, ghosts, panicked, rowDeleted>>
  BY DEF IInv, LockOK, KeyedOK, Keyed, Resurrect, histVars
<1>2. /\ pc' \in [Procs -> Steps]
      /\ arg' \in [Procs -> [key : Keys \cup {NoKey}, ent : Ref]]
      /\ arg'[p].ent = Nil
      /\ \A x \in Procs \ {p} : pc'[x] = pc[x] /\ arg'[x] = arg[x]
      /\ \/ /\ total + 1 > Capacity /\ lock' = p
            /\ pc'[p] = "evictOne" /\ arg'[p].key = arg[p].key
         \/ total + 1 <= Capacity /\ pc'[p] = "idle" /\ lock' = lock
  <2>1. CASE total + 1 > Capacity
    BY <1>1, <2>1, GotoType DEF IInv, Resurrect, Steps, Evicting, Ref
  <2>2. CASE ~ (total + 1 > Capacity)
    BY <1>1, <2>2, ReturnType, S3FIFOConstants DEF IInv, TypeOK, Resurrect
  <2> QED BY <2>1, <2>2
<1>3. /\ ent' \in [Entries -> Fields]
      /\ \A x \in Entries : ent'[x].key = ent[x].key
  <2> DEFINE rec == [ent[e] EXCEPT !.onRow = FALSE, !.inSmall = FALSE,
                                   !.freq = BoostFreq, !.peak = BoostFreq]
  <2>1. ent[e] \in Fields
    BY <1>1 DEF IInv, TypeOK
  <2>2. BoostFreq \in 0 .. FreqMod - 1 /\ BoostFreq \in 0 .. MaxPeak
    BY S3FIFOConstants, GhostConstants
  <2>3. rec \in Fields /\ rec.key = ent[e].key
    <3> HIDE DEF e
    <3> QED BY <2>1, <2>2 DEF Fields
  <2>4. ent' = [ent EXCEPT ![e] = rec]
    BY <1>1
  <2> HIDE DEF rec, e
  <2> QED BY <1>1, <2>3, <2>4 DEF IInv, TypeOK
<1>4. links' \in Links /\ links'.len = [links.len EXCEPT !["main"] = @ + 1]
  BY <1>1, PushBackType DEF IInv, TypeOK, Queues
<1>5. row' \in [RowSlots -> Ref] /\ \A i \in RowSlots : row'[i] \in {row[i], Nil}
  BY <1>1 DEF IInv, TypeOK, RowWithout, Ref
<1> HIDE DEF e
<1>6. TypeOK'
  BY <1>1, <1>2, <1>3, <1>4, <1>5 DEF IInv, TypeOK
<1>7. LockOK'
  BY <1>1, <1>2, S3FIFOConstants DEF IInv, LockOK, Evicting
<1>8. KeyedOK'
  <2>1. Keyed' = Keyed
    BY <1>3 DEF Keyed
  <2>2. Within(links', Keyed)
    BY <1>1, PushBackWithin DEF IInv, TypeOK, KeyedOK, Queues
  <2> QED BY <1>1, <1>2, <1>5, <2>1, <2>2 DEF IInv, KeyedOK
<1>9. CountOK'
  <2>1. total' = links'.len["small"] + links'.len["main"]
    BY <1>1, <1>4 DEF IInv, TypeOK, CountOK, Links, Queues
  <2>2. total <= Capacity /\ total' = total + 1
    <3>1. \A x \in Procs : pc[x] \notin Evicting
      BY <1>1, S3FIFOConstants DEF IInv, LockOK
    <3>2. total # Capacity + 1
      BY <3>1 DEF IInv, CountOK, Resurrecting
    <3> QED BY <1>1, <3>2, S3FIFOConstants DEF IInv, TypeOK, CountOK
  <2> QED BY <1>1, <1>2, <2>1, <2>2, S3FIFOConstants
          DEF IInv, TypeOK, LockOK, CountOK, Resurrecting, Evicting
<1> QED BY <1>6, <1>7, <1>8, <1>9 DEF IInv

\* del discounts one entry, on a list or not.
LEMMA DeleteInv ==
  ASSUME IInv, NEW k \in Keys, Delete(k)
  PROVE  IInv'
<1> DEFINE e == table[k]
<1>1. /\ lock = Nil /\ e \in Entries
      /\ table' = [table EXCEPT ![k] = Nil] /\ total' = total - 1
      /\ UNCHANGED <<ent, row, rowPos, free, ghosts, lock, pc, arg, panicked>>
  BY DEF IInv, TypeOK, Ref, Delete, evictVars, procVars
<1>2. PICK q \in Queues : links' = Remove(links, q, e)
  BY DEF Delete, QueueOf, Queues
<1>3. rowDeleted' \in BOOLEAN
  BY DEF Delete
<1> HIDE DEF e
<1>4. links' \in Links /\ links'.len = [links.len EXCEPT ![q] = @ - 1]
  BY <1>1, <1>2, RemoveType DEF IInv, TypeOK
<1>5. TypeOK'
  BY <1>1, <1>3, <1>4 DEF IInv, TypeOK, Ref
<1>6. LockOK'
  BY <1>1 DEF IInv, LockOK
<1>7. KeyedOK'
  <2>1. Keyed' = Keyed
    BY <1>1 DEF Keyed
  <2>2. Within(links', Keyed)
    BY <1>1, <1>2, RemoveWithin DEF IInv, TypeOK, KeyedOK
  <2>3. \A x \in Keys : table'[x] \in Keyed \cup {Nil}
    BY <1>1 DEF IInv, TypeOK, KeyedOK
  <2> QED BY <1>1, <2>1, <2>2, <2>3 DEF IInv, KeyedOK
<1>8. CountOK'
  <2>1. total' = links'.len["small"] + links'.len["main"]
    BY <1>1, <1>4 DEF IInv, TypeOK, CountOK, Links, Queues
  <2>2. \A p \in Procs : pc[p] \notin Evicting \cup {"insert"}
    BY <1>1, S3FIFOConstants DEF IInv, LockOK
  <2> QED BY <1>1, <2>1, <2>2, S3FIFOConstants DEF IInv, TypeOK, CountOK, Resurrecting
<1> QED BY <1>5, <1>6, <1>7, <1>8 DEF IInv

\* flush empties what it counts.
LEMMA FlushInv ==
  ASSUME IInv, Flush
  PROVE  IInv'
<1>1. /\ lock = Nil /\ table' = [k \in Keys |-> Nil] /\ links' = NoLinks
      /\ ghosts' = NoGhosts /\ row' = [i \in RowSlots |-> Nil]
      /\ rowPos' = 0 /\ total' = 0 /\ rowDeleted' = FALSE
      /\ UNCHANGED <<ent, free, lock, pc, arg, panicked>>
  BY DEF Flush, procVars
<1>2. TypeOK'
  <2>1. links' \in Links /\ ghosts' \in Ghosts
    BY <1>1, NoLinksType, NoGhostsType
  <2>2. /\ table' \in [Keys -> Ref] /\ row' \in [RowSlots -> Ref]
        /\ rowPos' \in RowSlots /\ total' \in Int
    BY <1>1, S3FIFOConstants DEF Ref, RowSlots
  <2>3. rowDeleted' \in BOOLEAN
    BY <1>1
  <2> QED BY <1>1, <2>1, <2>2, <2>3 DEF IInv, TypeOK
<1>3. LockOK'
  BY <1>1 DEF IInv, LockOK
<1>4. KeyedOK'
  <2>1. Keyed' = Keyed
    BY <1>1 DEF Keyed
  <2> QED BY <1>1, <2>1, NoLinksType DEF IInv, KeyedOK
<1>5. CountOK'
  <2>1. \A p \in Procs : pc[p] \notin Evicting \cup {"insert"}
    BY <1>1, S3FIFOConstants DEF IInv, LockOK
  <2> QED BY <1>1, <2>1, S3FIFOConstants DEF CountOK, NoLinks, Queues
<1> QED BY <1>2, <1>3, <1>4, <1>5 DEF IInv

-----------------------------------------------------------------------------
(* Eviction *)

\* One turn of evictOne, an empty queue, or a head found cold: only the
\* goroutine moves, between steps that hold the mutex.
LEMMA MoveInv ==
  ASSUME IInv, NEW p \in Procs,
         EvictOne(p) \/ QueueEmpty(p) \/ EvictFromSmall(p) \/ EvictFromMain(p)
  PROVE  IInv'
<1>1. /\ pc[p] \in Evicting
      /\ \E s \in Evicting : Step(p, s)
      /\ UNCHANGED <<table, ent, links, total, row, rowPos, free, ghosts>>
      /\ UNCHANGED <<panicked, rowDeleted>>
  BY DEF EvictOne, QueueEmpty, EvictFromSmall, EvictFromMain, InMain, AfterMain, Evicting,
         queueVars, evictVars, histVars
<1>2. /\ pc' \in [Procs -> Steps] /\ arg' = arg /\ lock' = lock
      /\ pc'[p] \in Evicting /\ \A x \in Procs \ {p} : pc'[x] = pc[x]
  BY <1>1, StepType DEF IInv, Steps
<1>3. TypeOK'
  BY <1>1, <1>2 DEF IInv, TypeOK
<1>4. LockOK'
  BY <1>1, <1>2 DEF IInv, LockOK, Evicting
<1>5. KeyedOK'
  <2>1. Keyed' = Keyed
    BY <1>1 DEF Keyed
  <2> QED BY <1>1, <1>2, <2>1 DEF IInv, KeyedOK
<1>6. CountOK'
  BY <1>1, <1>2 DEF IInv, CountOK, Resurrecting, Evicting
<1> QED BY <1>3, <1>4, <1>5, <1>6 DEF IInv

\* A nil dereference changes nothing in memory.
LEMMA PanicInv ==
  ASSUME IInv, NEW p \in Procs, Panic(p)
  PROVE  IInv'
<1>1. UNCHANGED <<table, ent, links, total, row, rowPos, free, ghosts, lock, pc, arg>>
  BY DEF Panic, queueVars, evictVars, procVars
<1>2. panicked' \in BOOLEAN /\ rowDeleted' = rowDeleted
  BY DEF Panic
<1>3. TypeOK' /\ LockOK'
  BY <1>1, <1>2 DEF IInv, TypeOK, LockOK
<1>4. Keyed' = Keyed
  BY <1>1 DEF Keyed
<1>5. KeyedOK' /\ CountOK'
  BY <1>1, <1>4 DEF IInv, KeyedOK, CountOK, Resurrecting
<1> QED BY <1>3, <1>5 DEF IInv

\* The head of a queue an evictor works on has a key.
LEMMA HeadKeyed ==
  ASSUME IInv, NEW q \in Queues, links.head[q] # Nil
  PROVE  links.head[q] \in Keyed /\ links.head[q] \in Entries
BY DEF IInv, KeyedOK, Within, Keyed

LEMMA OnRowType ==
  ASSUME NEW r \in Fields
  PROVE  /\ [r EXCEPT !.onRow = TRUE] \in Fields /\ [r EXCEPT !.onRow = TRUE].key = r.key
         /\ [r EXCEPT !.onRow = FALSE] \in Fields /\ [r EXCEPT !.onRow = FALSE].key = r.key
BY DEF Fields

\* sendToDeathRow replaces at most one index entry, one row slot and one key of
\* the ghosts; no key of an entry changes.
LEMMA SendToDeathRowType ==
  ASSUME IInv, NEW e \in Keyed, NEW L, SendToDeathRow(e, L)
  PROVE  /\ links' = L /\ total' = total - 1
         /\ table' \in [Keys -> Ref] /\ \A k \in Keys : table'[k] \in {table[k], Nil}
         /\ ent' \in [Entries -> Fields]
         /\ \A x \in Entries : ent'[x].key = ent[x].key
         /\ row' \in [RowSlots -> Ref] /\ \A i \in RowSlots : row'[i] \in {row[i], e}
         /\ rowPos' \in RowSlots /\ free' \in Ref /\ ghosts' \in Ghosts
<1> DEFINE old == row[rowPos]
<1>1. /\ e \in Entries /\ ent[e].key \in Keys /\ ent[e].peak \in 0..MaxPeak
  BY DEF IInv, TypeOK, Keyed, Fields
<1>2. old # Nil => old \in Entries /\ ent[old].key \in Keys /\ ent[old].peak \in 0..MaxPeak
  BY DEF IInv, TypeOK, KeyedOK, Keyed, Fields
<1>3. (rowPos + 1) % RowSize \in RowSlots
  BY S3FIFOConstants DEF IInv, TypeOK, RowSlots
<1>4. CASE ent[e].peak < Threshold(L)
  <2>1. /\ table' = [table EXCEPT ![ent[e].key] = Nil]
        /\ ghosts' = AddToGhost(ghosts, ent[e].key, ent[e].peak)
        /\ free' = e /\ UNCHANGED <<ent, row, rowPos>>
        /\ links' = L /\ total' = total - 1
    BY <1>1, <1>4, NilIsNoEntry DEF SendToDeathRow
  <2>2. ghosts' \in Ghosts
    BY <1>1, <2>1, AddToGhostType DEF IInv, TypeOK
  <2> QED BY <1>1, <2>1, <2>2 DEF IInv, TypeOK, Ref
<1>5. CASE ~ (ent[e].peak < Threshold(L))
  <2>1. /\ row' = [row EXCEPT ![rowPos] = e] /\ rowPos' = (rowPos + 1) % RowSize
        /\ links' = L /\ total' = total - 1
        /\ \/ /\ old = Nil /\ ent' = [ent EXCEPT ![e].onRow = TRUE]
              /\ UNCHANGED <<table, ghosts, free>>
           \/ /\ old # Nil
              /\ ent' = [ent EXCEPT ![old].onRow = FALSE, ![e].onRow = TRUE]
              /\ table' = [table EXCEPT ![ent[old].key] = Nil]
              /\ ghosts' = AddToGhost(ghosts, ent[old].key, ent[old].peak)
              /\ free' = old
    BY <1>5 DEF SendToDeathRow
  <2>2. ghosts' \in Ghosts
    BY <1>2, <2>1, AddToGhostType DEF IInv, TypeOK
  <2>3. ent' \in [Entries -> Fields] /\ \A x \in Entries : ent'[x].key = ent[x].key
    <3>1. CASE old = Nil
      <4>1. ent' = [ent EXCEPT ![e] = [@ EXCEPT !.onRow = TRUE]]
        BY <2>1, <3>1
      <4> QED BY <1>1, <4>1, OnRowType DEF IInv, TypeOK
    <3>2. CASE old # Nil
      <4> DEFINE mid == [ent EXCEPT ![old] = [@ EXCEPT !.onRow = FALSE]]
      <4>1. ent' = [mid EXCEPT ![e] = [@ EXCEPT !.onRow = TRUE]]
        BY <2>1, <3>2
      <4>2. mid \in [Entries -> Fields] /\ \A x \in Entries : mid[x].key = ent[x].key
        <5> HIDE DEF old
        <5> QED BY <1>2, <3>2, OnRowType DEF IInv, TypeOK
      <4> HIDE DEF mid
      <4> QED BY <1>1, <4>1, <4>2, OnRowType
    <3> QED BY <3>1, <3>2
  <2>4. row' \in [RowSlots -> Ref] /\ \A i \in RowSlots : row'[i] \in {row[i], e}
    BY <1>1, <2>1 DEF IInv, TypeOK, Ref
  <2>5. /\ table' \in [Keys -> Ref] /\ \A k \in Keys : table'[k] \in {table[k], Nil}
        /\ free' \in Ref
    BY <1>2, <2>1 DEF IInv, TypeOK, Ref
  <2> QED BY <1>3, <2>1, <2>2, <2>3, <2>4, <2>5
<1> QED BY <1>4, <1>5

\* An eviction makes the room that its caller needs, whoever that is.
LEMMA EvictInv ==
  ASSUME IInv, NEW p \in Procs, Drop(p)
  PROVE  IInv'
<1>1. PICK q \in Queues :
        LET e == links.head[q] IN
        /\ e # Nil /\ SendToDeathRow(e, Remove(links, q, e))
  BY DEF Drop, Queues
<1>2. /\ pc[p] \in Evicting /\ lock = p /\ Evicted(p) /\ UNCHANGED <<panicked, rowDeleted>>
  BY DEF IInv, LockOK, Drop, Evicting, histVars
<1> DEFINE e == links.head[q]
           L == Remove(links, q, e)
<1>3. e \in Keyed /\ e \in Entries
  BY <1>1, HeadKeyed
<1>4. /\ L \in Links /\ L.len = [links.len EXCEPT ![q] = @ - 1] /\ Within(L, Keyed)
  BY <1>3, RemoveType, RemoveWithin DEF IInv, TypeOK, KeyedOK
<1>5. SendToDeathRow(e, L)
  BY <1>1
<1> HIDE DEF e, L
<1>6. /\ links' = L /\ total' = total - 1
      /\ table' \in [Keys -> Ref] /\ \A k \in Keys : table'[k] \in {table[k], Nil}
      /\ ent' \in [Entries -> Fields]
      /\ \A x \in Entries : ent'[x].key = ent[x].key
      /\ row' \in [RowSlots -> Ref] /\ \A i \in RowSlots : row'[i] \in {row[i], e}
      /\ rowPos' \in RowSlots /\ free' \in Ref /\ ghosts' \in Ghosts
  BY <1>3, <1>5, SendToDeathRowType
<1>7. /\ pc' \in [Procs -> Steps]
      /\ arg' \in [Procs -> [key : Keys \cup {NoKey}, ent : Ref]]
      /\ \A x \in Procs \ {p} : pc'[x] = pc[x] /\ arg'[x] = arg[x]
      /\ \/ arg[p].ent # Nil /\ pc'[p] = "insert" /\ arg'[p] = arg[p] /\ lock' = p
         \/ arg[p].ent = Nil /\ pc'[p] = "idle" /\ arg'[p].ent = Nil /\ lock' = Nil
  <2>1. CASE arg[p].ent # Nil
    BY <1>2, <2>1, StepType DEF IInv, TypeOK, Evicted, Steps
  <2>2. CASE arg[p].ent = Nil
    BY <1>2, <2>2, ReturnType DEF IInv, Evicted
  <2> QED BY <2>1, <2>2
<1>8. TypeOK'
  BY <1>2, <1>4, <1>6, <1>7 DEF IInv, TypeOK
<1>9. LockOK'
  BY <1>2, <1>7, S3FIFOConstants DEF IInv, LockOK, Evicting
<1>10. KeyedOK'
  <2>1. Keyed' = Keyed
    BY <1>6 DEF Keyed
  <2> QED BY <1>3, <1>4, <1>6, <1>7, <2>1 DEF IInv, KeyedOK
<1>11. CountOK'
  <2>1. total' = links'.len["small"] + links'.len["main"]
    BY <1>4, <1>6 DEF IInv, TypeOK, CountOK, Links, Queues
  <2>2. \A x \in Procs \ {p} : pc'[x] \notin Evicting \cup {"insert"} /\ ~ Resurrecting(x)
    BY <1>2, <1>7 DEF IInv, LockOK, Resurrecting, Evicting
  <2>3. total' \in Int /\ total' <= Capacity
    BY <1>6, S3FIFOConstants DEF IInv, TypeOK, CountOK
  <2>4. arg[p].ent # Nil => total' < Capacity
    <3> HAVE arg[p].ent # Nil
    <3>1. ~ \E x \in Procs : Resurrecting(x)
      BY <2>2 DEF Resurrecting
    <3>2. total # Capacity + 1
      BY <3>1 DEF IInv, CountOK
    <3>3. total \in Int /\ total <= Capacity + 1 /\ Capacity \in Int
      BY S3FIFOConstants DEF IInv, TypeOK, CountOK
    <3> QED BY <1>6, <3>2, <3>3
  <2> QED BY <1>7, <2>1, <2>2, <2>3, <2>4, S3FIFOConstants DEF CountOK, Evicting
<1> QED BY <1>8, <1>9, <1>10, <1>11 DEF IInv

\* Promotion, demotion and second chances move an entry from the head of one
\* queue to the tail of another and count nothing.
LEMMA RotateInv ==
  ASSUME IInv, NEW p \in Procs, Promote(p) \/ Demote(p) \/ SecondChance(p)
  PROVE  IInv'
<1>1. PICK q \in Queues, to \in Queues :
        LET e == links.head[q] IN
        e # Nil /\ links' = PushBack(Remove(links, q, e), to, e)
  BY DEF Promote, Demote, SecondChance, Queues
<1>2. /\ pc[p] \in Evicting /\ lock = p
      /\ UNCHANGED <<table, total, row, rowPos, free, ghosts, panicked, rowDeleted>>
      /\ \E s \in Evicting : Step(p, s)
  <2>1. CASE Promote(p) \/ Demote(p)
    BY <2>1 DEF IInv, LockOK, Promote, Demote, InMain, AfterMain, Evicting, evictVars, histVars
  <2>2. CASE SecondChance(p)
    <3>1. pc[p] \in Evicting /\ UNCHANGED <<pc, arg, lock>>
      BY <2>2 DEF SecondChance, InMain, Evicting, procVars
    <3>2. Step(p, pc[p])
      BY <3>1 DEF IInv, TypeOK, Step
    <3> QED BY <2>2, <3>1, <3>2 DEF IInv, LockOK, SecondChance, evictVars, histVars
  <2> QED BY <2>1, <2>2
<1> DEFINE e == links.head[q]
           L == Remove(links, q, e)
<1>3. e \in Keyed /\ e \in Entries
  BY <1>1, HeadKeyed
<1>4. /\ L \in Links /\ L.len = [links.len EXCEPT ![q] = @ - 1] /\ Within(L, Keyed)
  BY <1>3, RemoveType, RemoveWithin DEF IInv, TypeOK, KeyedOK
<1>5. links' = PushBack(L, to, e)
  BY <1>1
<1>6. /\ links' \in Links /\ links'.len = [L.len EXCEPT ![to] = @ + 1]
      /\ Within(links', Keyed)
  <2> HIDE DEF L, e
  <2> QED BY <1>3, <1>4, <1>5, PushBackType, PushBackWithin
<1>7. /\ ent' \in [Entries -> Fields]
      /\ \A x \in Entries : ent'[x].key = ent[x].key
  <2>1. 0 \in 0 .. FreqMod - 1 /\ 1 \in 0 .. FreqMod - 1
    BY S3FIFOConstants
  <2>2. PICK h \in Entries, rec \in Fields :
          ent' = [ent EXCEPT ![h] = rec] /\ rec.key = ent[h].key
    <3>1. CASE Promote(p)
      <4> DEFINE h == links.head["small"]
                 rec == [ent[h] EXCEPT !.freq = 0, !.inSmall = FALSE]
      <4>1. h \in Entries /\ ent' = [ent EXCEPT ![h] = rec]
        BY <3>1, HeadKeyed DEF Promote, Queues
      <4>2. ent[h] \in Fields
        BY <4>1 DEF IInv, TypeOK
      <4>3. rec \in Fields /\ rec.key = ent[h].key
        <5> HIDE DEF h
        <5> QED BY <2>1, <4>2 DEF Fields
      <4> HIDE DEF rec, h
      <4> QED BY <4>1, <4>3
    <3>2. CASE Demote(p)
      <4> DEFINE h == links.head["main"]
                 rec == [ent[h] EXCEPT !.freq = 1, !.inSmall = TRUE]
      <4>1. h \in Entries /\ ent' = [ent EXCEPT ![h] = rec]
        BY <3>2, HeadKeyed DEF Demote, Queues
      <4>2. ent[h] \in Fields
        BY <4>1 DEF IInv, TypeOK
      <4>3. rec \in Fields /\ rec.key = ent[h].key
        <5> HIDE DEF h
        <5> QED BY <2>1, <4>2 DEF Fields
      <4> HIDE DEF rec, h
      <4> QED BY <4>1, <4>3
    <3>3. CASE SecondChance(p)
      <4> DEFINE h == links.head["main"]
                 rec == [ent[h] EXCEPT !.freq = @ - 1]
      <4>1. h \in Entries /\ ent' = [ent EXCEPT ![h] = rec] /\ ent[h].freq > 0
        BY <3>3, HeadKeyed DEF SecondChance, Queues
      <4>2. ent[h] \in Fields
        BY <4>1 DEF IInv, TypeOK
      <4>3. rec \in Fields /\ rec.key = ent[h].key
        <5> HIDE DEF h
        <5> QED BY <4>1, <4>2, S3FIFOConstants DEF Fields
      <4> HIDE DEF rec, h
      <4> QED BY <4>1, <4>3
    <3> QED BY <3>1, <3>2, <3>3
  <2> QED BY <2>2 DEF IInv, TypeOK
<1>8. /\ pc' \in [Procs -> Steps] /\ arg' = arg /\ lock' = lock
      /\ pc'[p] \in Evicting /\ \A x \in Procs \ {p} : pc'[x] = pc[x]
  BY <1>2, StepType DEF IInv, Steps
<1>9. TypeOK'
  BY <1>2, <1>6, <1>7, <1>8 DEF IInv, TypeOK
<1>10. LockOK'
  BY <1>2, <1>8 DEF IInv, LockOK, Evicting
<1>11. KeyedOK'
  <2>1. Keyed' = Keyed
    BY <1>7 DEF Keyed
  <2> QED BY <1>2, <1>6, <1>8, <2>1 DEF IInv, KeyedOK
<1>12. CountOK'
  <2>1. links'.len["small"] + links'.len["main"] = links.len["small"] + links.len["main"]
    <3> HIDE DEF L, e
    <3> QED BY <1>4, <1>6 DEF IInv, TypeOK, Links, Queues
  <2> QED BY <1>2, <1>8, <2>1 DEF IInv, CountOK, Resurrecting, Evicting
<1> QED BY <1>9, <1>10, <1>11, <1>12 DEF IInv

LEMMA StutterInv ==
  ASSUME IInv, UNCHANGED vars
  PROVE  IInv'
<1>1. UNCHANGED <<table, ent, links, total, row, rowPos, free, ghosts, lock, pc, arg>>
  BY DEF vars, queueVars, evictVars, procVars
<1>2. UNCHANGED <<panicked, rowDeleted>>
  BY DEF vars, histVars
<1>3. TypeOK' /\ LockOK'
  BY <1>1, <1>2 DEF IInv, TypeOK, LockOK
<1>4. Keyed' = Keyed
  BY <1>1 DEF Keyed
<1>5. KeyedOK' /\ CountOK'
  BY <1>1, <1>4 DEF IInv, KeyedOK, CountOK, Resurrecting
<1> QED BY <1>3, <1>5 DEF IInv

-----------------------------------------------------------------------------
(* What leaves the index *)

\* The filters know a key right after it is added, even if they rotate on it.
LEMMA AddToGhostKnows ==
  ASSUME NEW g \in Ghosts, NEW k \in Keys, NEW peak
  PROVE  InGhost(AddToGhost(g, k, peak), k)
<1> DEFINE added == [g EXCEPT !.active = FilterAdd(@, k)]
<1>1. k \in added.active.keys
  BY DEF Ghosts, Filters, FilterAdd
<1>2. k \in RingAdd(added, k, peak).active.keys
  BY <1>1 DEF RingAdd, Ghosts
<1>3. ASSUME NEW h, k \in h.active.keys, h = added \/ h = RingAdd(added, k, peak)
      PROVE  InGhost(Rotate(h), k)
  <2>1. [h EXCEPT !.active = EmptyFilter, !.aging = h.active].aging = h.active
    <3>1. "aging" \in DOMAIN h
      BY <1>3 DEF RingAdd, Ghosts
    <3> QED BY <1>3 DEF RingAdd, Ghosts
  <2> QED BY <1>3, <2>1 DEF Rotate, InGhost
<1> QED BY <1>1, <1>2, <1>3 DEF AddToGhost

\* sendToDeathRow takes a key out of the index only with a note in the ghosts.
LEMMA SendToDeathRowRemembers ==
  ASSUME IInv, NEW e \in Keyed, NEW L, SendToDeathRow(e, L),
         NEW k \in Keys, table[k] # Nil, table'[k] = Nil
  PROVE  InGhost(ghosts', k)
<1> DEFINE old == row[rowPos]
<1>1. table \in [Keys -> Ref] /\ ghosts \in Ghosts
  BY DEF IInv, TypeOK
<1>2. PICK x, peak : /\ table' = [table EXCEPT ![ent[x].key] = Nil]
                     /\ ghosts' = AddToGhost(ghosts, ent[x].key, peak)
  <2>1. CASE ent[e].peak < Threshold(L)
    BY <2>1 DEF SendToDeathRow
  <2>2. CASE ~ (ent[e].peak < Threshold(L))
    BY <2>2 DEF SendToDeathRow
  <2> QED BY <2>1, <2>2
<1>3. k = ent[x].key
  BY <1>1, <1>2
<1> QED BY <1>1, <1>2, <1>3, AddToGhostKnows

-----------------------------------------------------------------------------
(* Theorems *)

\* IInv is inductive: each action of the cache engine preserves it.
THEOREM Inductive == Spec => []IInv
<1>1. IInv /\ [Next]_vars => IInv'
  <2> SUFFICES ASSUME IInv, [Next]_vars PROVE IInv'
    OBVIOUS
  <2>1. ASSUME NEW p \in Procs, Locking(p) PROVE IInv'
    BY <2>1, SetRacedInv, SetBelowCapacityInv, SetAtCapacityInv,
       ResurrectRacedInv, ResurrectInv DEF Locking
  <2>2. ASSUME NEW p \in Procs, Eviction(p) PROVE IInv'
    BY <2>2, MoveInv, PanicInv, EvictInv, RotateInv DEF Eviction
  <2> QED BY <2>1, <2>2, TouchInv, InsertInv, CallInv, DeleteInv, FlushInv, StutterInv
          DEF Next
<1> QED BY <1>1, InitInv, PTL DEF Spec

\* Every variable of the cache keeps its type (s3fifo.go:172-206).
THEOREM TypesHold == Spec => []TypeOK
BY Inductive, PTL DEF IInv

\* totalEntries (s3fifo.go:824) is the sum of the queue lengths and never more
\* than one above the capacity, and that only while a resurrection evicts.
THEOREM CapacityHolds == Spec => []CapacityBound
<1>1. IInv => CapacityBound
  <2> SUFFICES ASSUME IInv PROVE CapacityBound
    OBVIOUS
  <2> DEFINE busy == \E p \in Procs : Resurrecting(p)
  <2>1. /\ total = links.len["small"] + links.len["main"]
        /\ total <= Capacity + 1 /\ (total = Capacity + 1 => busy)
    BY DEF IInv, CountOK
  <2>2. total \in Int /\ Capacity \in Int
    BY S3FIFOConstants DEF IInv, TypeOK
  <2> HIDE DEF busy
  <2>3. total <= IF busy THEN Capacity + 1 ELSE Capacity
    BY <2>1, <2>2
  <2> QED BY <2>1, <2>3 DEF CapacityBound, busy
<1> QED BY <1>1, Inductive, PTL

\* evictOne (s3fifo.go:694-706) always has a queue to work on, so its loop
\* cannot spin without doing anything while it holds the mutex.
THEOREM EvictionAlwaysHasWork == Spec => []EvictionHasWork
<1>1. IInv => EvictionHasWork
  <2> SUFFICES ASSUME IInv, NEW p \in Procs, pc[p] = "evictOne"
               PROVE  \E q \in Queues : links.len[q] > 0
    BY DEF EvictionHasWork
  <2>1. total >= 1 /\ total = links.len["small"] + links.len["main"]
    BY S3FIFOConstants DEF IInv, TypeOK, CountOK, Evicting
  <2>2. links.len["small"] \in Int /\ links.len["main"] \in Int
    BY DEF IInv, TypeOK, Links, Queues
  <2> QED BY <2>1, <2>2 DEF Queues
<1> QED BY <1>1, Inductive, PTL

\* An entry leaves the index by a Delete or a Flush, or is remembered by the
\* ghost filters (sendToDeathRow, s3fifo.go:792-822), from any state, damaged
\* lists included.
THEOREM EvictionRemembers == Spec => EvictedIsRemembered
<1> DEFINE Remembered == \A k \in Keys : table[k] # Nil /\ table'[k] = Nil =>
                           Delete(k) \/ Flush \/ InGhost(ghosts', k)
<1>1. IInv /\ [Next]_vars => [Remembered]_vars
  <2> SUFFICES ASSUME IInv, [Next]_vars, NEW k \in Keys, table[k] # Nil, table'[k] = Nil,
                      ~ Delete(k), ~ Flush
               PROVE  InGhost(ghosts', k)
    OBVIOUS
  <2>1. table \in [Keys -> Ref]
    BY DEF IInv, TypeOK
  <2>2. table' # table
    OBVIOUS
  <2>3. ASSUME NEW p \in Procs, Eviction(p) PROVE InGhost(ghosts', k)
    <3>1. CASE Drop(p)
      <4>1. PICK q \in Queues : /\ links.head[q] # Nil
                                /\ SendToDeathRow(links.head[q], Remove(links, q, links.head[q]))
        BY <3>1 DEF Drop, Queues
      <4> QED BY <4>1, HeadKeyed, SendToDeathRowRemembers
    <3>2. CASE ~ Drop(p)
      BY <2>2, <2>3, <3>2 DEF Eviction, EvictOne, QueueEmpty, Panic, EvictFromSmall, Promote,
                              EvictFromMain, Demote, SecondChance
    <3> QED BY <3>1, <3>2
  <2>4. ASSUME NEW p \in Procs, Locking(p) PROVE InGhost(ghosts', k)
    <3>1. CASE SetBelowCapacity(p)
      BY <2>1, <3>1, NilIsNoEntry DEF SetBelowCapacity, Allocated, Unreferenced
    <3>2. CASE ~ SetBelowCapacity(p)
      BY <2>2, <2>4, <3>2 DEF Locking, SetRaced, SetAtCapacity, ResurrectRaced, Resurrect
    <3> QED BY <3>1, <3>2
  <2>5. ASSUME NEW p \in Procs, Touch(p) \/ Insert(p) PROVE InGhost(ghosts', k)
    <3>1. CASE Insert(p)
      BY <2>1, <3>1 DEF Insert, IInv, LockOK
    <3>2. CASE Touch(p)
      BY <2>2, <3>2 DEF Touch, IncFreq, IncPeakFreq
    <3> QED BY <2>5, <3>1, <3>2
  <2>6. ASSUME NEW p \in Procs, NEW x \in Keys, Call(p, x) PROVE InGhost(ghosts', k)
    BY <2>2, <2>6 DEF Call, GetHit, GetOnDeathRow, SetHit, SetMiss
  <2>7. ASSUME NEW x \in Keys, Delete(x) PROVE InGhost(ghosts', k)
    BY <2>1, <2>7 DEF Delete
  <2>8. CASE UNCHANGED vars
    BY <2>2, <2>8 DEF vars
  <2> QED BY <2>3, <2>4, <2>5, <2>6, <2>7, <2>8 DEF Next
<1> QED BY <1>1, Inductive, PTL DEF Spec, EvictedIsRemembered
=============================================================================
