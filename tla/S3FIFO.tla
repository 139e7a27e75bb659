------------------------------- MODULE S3FIFO -------------------------------
(***************************************************************************)
(* The in-memory cache engine, s3fifo.go: the index, the small and main    *)
(* queues, death row, the ghost queue and the eviction loops, driven by    *)
(* goroutines that read and update entries without the mutex while one     *)
(* holder of the mutex inserts, resurrects and evicts.                     *)
(*                                                                         *)
(* Values and expiry times are left out: they do not influence the queues, *)
(* except that a get of an expired key ends as a miss, which like every    *)
(* miss changes nothing and has no action here.  warmupComplete is left    *)
(* out too: both ways of inserting below capacity do the same.             *)
(***************************************************************************)
EXTENDS EntryList, Ghost, FiniteSetsExt

CONSTANTS
  Procs,        \* the goroutines calling the cache
  Capacity,     \* c.capacity
  SmallThresh,  \* c.smallThresh
  RowSize,      \* len(c.deathRow)
  SampleSize,   \* sampleSize of sampleAvgPeakFreq (5)
  MaxFreq,      \* maxFreq (5)
  FreqMod,      \* freqMask + 1 (16): the freq field of freqFlags is 4 bits
  BoostFreq     \* freq and peakFreq of a resurrected entry (3)

ASSUME S3FIFOConstants ==
  /\ Capacity \in Nat \ {0}
  /\ SmallThresh \in Nat
  /\ RowSize \in Nat \ {0}
  /\ SampleSize \in Nat \ {0}
  /\ MaxFreq \in Nat \ {0}
  /\ FreqMod \in Nat
  /\ MaxFreq < FreqMod
  /\ BoostFreq \in 0..MaxPeak
  /\ BoostFreq < FreqMod
  /\ Nil \notin Procs

VARIABLES
  lock,       \* the holder of c.mu
  pc,         \* where each goroutine is
  ghosts,     \* c.ghostActive, c.ghostAging, c.ghostFreqRng
  table,      \* c.entries: the entry each key maps to
  ent,        \* the fields of every entry struct
  links,      \* c.small and c.main, and the pointers in the entries
  row,        \* c.deathRow
  rowPos,     \* c.deathRowPos
  free,       \* c.freeEntry
  total,      \* c.totalEntries
  arg,        \* the key and the entry each goroutine works on
  panicked,   \* a goroutine has dereferenced nil
  rowDeleted  \* history: since the last Flush, a Delete has hit death row

queueVars == <<links, total>>
evictVars == <<row, rowPos, free, ghosts>>
procVars  == <<lock, pc, arg>>
histVars  == <<panicked, rowDeleted>>
vars == <<table, ent, queueVars, evictVars, procVars, histVars>>

-----------------------------------------------------------------------------
(* Types and the initial state *)

RowSlots == 0 .. RowSize - 1

Fields == [ key : Keys \cup {NoKey}, freq : 0..FreqMod - 1, peak : 0..MaxPeak,
            inSmall : BOOLEAN, onRow : BOOLEAN ]

Evicting == {"evictOne", "evictFromSmall", "evictFromMain", "promotedToMain",
             "dropFromSmall", "dropFromMain"}
Steps    == {"idle", "incFreq", "incPeakFreq", "setLock", "resurrectLock",
             "insert"} \cup Evicting

NoArg == [key |-> NoKey, ent |-> Nil]

TypeOK ==
  /\ table \in [Keys -> Ref]
  /\ ent \in [Entries -> Fields]
  /\ links \in Links
  /\ row \in [RowSlots -> Ref]
  /\ rowPos \in RowSlots
  /\ free \in Ref
  /\ total \in Int
  /\ ghosts \in Ghosts
  /\ lock \in Procs \cup {Nil}
  /\ pc \in [Procs -> Steps]
  /\ arg \in [Procs -> [key : Keys \cup {NoKey}, ent : Ref]]
  /\ panicked \in BOOLEAN
  /\ rowDeleted \in BOOLEAN

\* An entry for key k; setFreqPeak(peak, peak) cuts freq to its 4 bits.
EntryOf(k, peak, inSmall) ==
  [key |-> k, freq |-> peak % FreqMod, peak |-> peak,
   inSmall |-> inSmall, onRow |-> FALSE]

ZeroEntry == EntryOf(NoKey, 0, FALSE)

Init ==
  /\ table = [k \in Keys |-> Nil]
  /\ ent = [e \in Entries |-> ZeroEntry]
  /\ links = NoLinks
  /\ row = [i \in RowSlots |-> Nil]
  /\ rowPos = 0
  /\ free = Nil
  /\ total = 0
  /\ ghosts = NoGhosts
  /\ lock = Nil
  /\ pc = [p \in Procs |-> "idle"]
  /\ arg = [p \in Procs |-> NoArg]
  /\ panicked = FALSE
  /\ rowDeleted = FALSE

-----------------------------------------------------------------------------
(* Helpers *)

QueueOf(e) == IF ent[e].inSmall THEN "small" ELSE "main"

\* p moves on to step s, working on key k and entry e.
Goto(p, s, k, e) ==
  /\ pc' = [pc EXCEPT ![p] = s]
  /\ arg' = [arg EXCEPT ![p] = [key |-> k, ent |-> e]]

Return(p) == Goto(p, "idle", NoKey, Nil)

\* p moves to step s and keeps its key and entry.
Step(p, s) == pc' = [pc EXCEPT ![p] = s] /\ UNCHANGED <<arg, lock>>

\* The update of an existing entry ran under the mutex or without it.
Unlock(p) == lock' = IF lock = p THEN Nil ELSE lock

\* A pointer of L leads to e.
Linked(L, e) ==
  \/ \E q \in Queues : e \in {L.head[q], L.tail[q]}
  \/ \E x \in Entries : e \in {L.next[x], L.prev[x]}

\* An entry struct that nothing refers to: &entry{} may return it.
Unreferenced ==
  Entries \ ( {table[k] : k \in Keys} \cup {row[i] : i \in RowSlots}
              \cup {arg[p].ent : p \in Procs}
              \cup {e \in Entries : Linked(links, e)} )

\* setWithHash takes the recycled entry if there is one, or else any new one.
Allocated ==
  IF free # Nil THEN {free}
  ELSE {e \in Unreferenced : e = CHOOSE x \in Unreferenced : TRUE}

-----------------------------------------------------------------------------
(* Lock-free steps: get and the update of an existing entry *)

\* get finds an entry that is not on death row and goes on to touch it.
GetHit(p, k) ==
  /\ pc[p] = "idle" /\ table[k] # Nil /\ ~ent[table[k]].onRow
  /\ Goto(p, "incFreq", k, table[k])
  /\ UNCHANGED <<table, ent, queueVars, evictVars, lock, histVars>>

\* get finds an entry on death row and goes to lock the cache.
GetOnDeathRow(p, k) ==
  /\ pc[p] = "idle" /\ table[k] # Nil /\ ent[table[k]].onRow
  /\ Goto(p, "resurrectLock", k, Nil)
  /\ UNCHANGED <<table, ent, queueVars, evictVars, lock, histVars>>

\* setWithHash finds an entry, on death row or not, and updates it in place.
SetHit(p, k) ==
  /\ pc[p] = "idle" /\ table[k] # Nil
  /\ Goto(p, "incFreq", k, table[k])
  /\ UNCHANGED <<table, ent, queueVars, evictVars, lock, histVars>>

SetMiss(p, k) ==
  /\ pc[p] = "idle" /\ table[k] = Nil
  /\ Goto(p, "setLock", k, Nil)
  /\ UNCHANGED <<table, ent, queueVars, evictVars, lock, histVars>>

\* incFreq and incPeakFreq are two CAS loops on an entry loaded earlier, which
\* may meanwhile have been evicted or recycled.  A goroutine that holds the
\* mutex writes the same word from what it read before (setFreq(f - 1), the
\* plain stores of setInSmall and setOnDeathRow): an increment that falls in
\* between is lost.
Incremented(p, f, limit) ==
  IF f >= limit THEN {f}
  ELSE IF lock \in {Nil, p} THEN {f + 1} ELSE {f, f + 1}

\* The flags read for freq also decide whether peakFreq is to be incremented.
IncFreq(p) ==
  LET e == arg[p].ent IN
  /\ pc[p] = "incFreq"
  /\ \E f \in Incremented(p, ent[e].freq, MaxFreq) : ent' = [ent EXCEPT ![e].freq = f]
  /\ IF ent[e].peak < MaxPeak
     THEN Step(p, "incPeakFreq")
     ELSE Unlock(p) /\ Return(p)
  /\ UNCHANGED <<table, queueVars, evictVars, histVars>>

IncPeakFreq(p) ==
  LET e == arg[p].ent IN
  /\ pc[p] = "incPeakFreq"
  /\ \E f \in Incremented(p, ent[e].peak, MaxPeak) : ent' = [ent EXCEPT ![e].peak = f]
  /\ Unlock(p) /\ Return(p)
  /\ UNCHANGED <<table, queueVars, evictVars, histVars>>

-----------------------------------------------------------------------------
(* setWithHash under the mutex *)

\* The double check after taking the lock finds the key: update, then unlock.
SetRaced(p) ==
  /\ pc[p] = "setLock" /\ lock = Nil
  /\ table[arg[p].key] # Nil
  /\ lock' = p
  /\ Goto(p, "incFreq", arg[p].key, table[arg[p].key])
  /\ UNCHANGED <<table, ent, queueVars, evictVars, histVars>>

\* Plausible bugs: the cache counts as full one entry too late, and the
\* recycled entry is not taken out of c.freeEntry.
InsertedBelow(p, limit, newFree) ==
  /\ pc[p] = "setLock" /\ lock = Nil
  /\ table[arg[p].key] = Nil /\ total < limit
  /\ \E e \in Allocated :
       /\ ent' = [ent EXCEPT ![e] = EntryOf(arg[p].key, 0, TRUE)]
       /\ links' = PushBack(links, "small", e)
       /\ table' = [table EXCEPT ![arg[p].key] = e]
  /\ free' = newFree
  /\ total' = total + 1
  /\ Return(p)
  /\ UNCHANGED <<row, rowPos, ghosts, lock, histVars>>

SetBelowCapacityLate(p)  == InsertedBelow(p, Capacity + 1, Nil)
SetBelowCapacityReuse(p) == InsertedBelow(p, Capacity, free)

\* Below capacity the new entry goes to the small queue, ghost or not.
SetBelowCapacity(p) ==
  /\ pc[p] = "setLock" /\ lock = Nil
  /\ table[arg[p].key] = Nil /\ total < Capacity
  /\ \E e \in Allocated :
       /\ ent' = [ent EXCEPT ![e] = EntryOf(arg[p].key, 0, TRUE)]
       /\ links' = PushBack(links, "small", e)
       /\ table' = [table EXCEPT ![arg[p].key] = e]
  /\ free' = Nil
  /\ total' = total + 1
  /\ Return(p)
  /\ UNCHANGED <<row, rowPos, ghosts, lock, histVars>>

\* Plausible bug: no second look at the index under the mutex.
SetAtCapacityUnchecked(p) ==
  LET k == arg[p].key IN
  /\ pc[p] = "setLock" /\ lock = Nil /\ total >= Capacity
  /\ \E e \in Allocated :
       /\ ent' = [ent EXCEPT ![e] = EntryOf(k, 0, TRUE)]
       /\ Goto(p, "evictOne", k, e)
  /\ free' = Nil
  /\ lock' = p
  /\ UNCHANGED <<table, queueVars, row, rowPos, ghosts, histVars>>

\* At capacity a key the ghost filters claim to know goes to main, with the
\* peak the ring remembers restored through the 4-bit freq field.  The lock
\* is kept for evictOne; the entry is not yet reachable.
SetAtCapacity(p) ==
  LET k == arg[p].key IN
  /\ pc[p] = "setLock" /\ lock = Nil
  /\ table[k] = Nil /\ total >= Capacity
  /\ \E e \in Allocated, inGhost \in {TRUE, InGhost(ghosts, k)} :
       /\ ent' = [ent EXCEPT ![e] = IF inGhost THEN EntryOf(k, Lookup(ghosts, k), FALSE)
                                    ELSE EntryOf(k, 0, TRUE)]
       /\ Goto(p, "evictOne", k, e)
  /\ free' = Nil
  /\ lock' = p
  /\ UNCHANGED <<table, queueVars, row, rowPos, ghosts, histVars>>

\* The end of setWithHash: queue and publish the entry, unlock.
Insert(p) ==
  LET e == arg[p].ent IN
  /\ pc[p] = "insert"
  /\ links' = PushBack(links, QueueOf(e), e)
  /\ table' = [table EXCEPT ![arg[p].key] = e]
  /\ total' = total + 1
  /\ lock' = Nil
  /\ Return(p)
  /\ UNCHANGED <<ent, evictVars, histVars>>

-----------------------------------------------------------------------------
(* resurrectFromDeathRow, del, flush *)

\* Under the lock the entry is gone or no longer on death row: give up.
ResurrectRaced(p) ==
  LET e == table[arg[p].key] IN
  /\ pc[p] = "resurrectLock" /\ lock = Nil
  /\ e # Nil => ~ent[e].onRow
  /\ Return(p)
  /\ UNCHANGED <<table, ent, queueVars, evictVars, lock, histVars>>

\* The first slot that holds e is cleared.
RowWithout(e) ==
  [i \in RowSlots |->
     IF row[i] = e /\ \A j \in 0..i-1 : row[j] # e THEN Nil ELSE row[i]]

\* Back to the tail of main; above capacity, one entry must be evicted.
Resurrect(p) ==
  LET e == table[arg[p].key] IN
  /\ pc[p] = "resurrectLock" /\ lock = Nil
  /\ e # Nil /\ ent[e].onRow
  /\ row' = RowWithout(e)
  /\ ent' = [ent EXCEPT ![e] = [@ EXCEPT !.onRow = FALSE, !.inSmall = FALSE,
                                         !.freq = BoostFreq, !.peak = BoostFreq]]
  /\ links' = PushBack(links, "main", e)
  /\ total' = total + 1
  /\ IF total + 1 > Capacity
     THEN lock' = p /\ Goto(p, "evictOne", arg[p].key, Nil)
     ELSE Return(p) /\ UNCHANGED lock
  /\ UNCHANGED <<table, rowPos, free, ghosts, histVars>>

\* Plausible bugs: an operation forgets totalEntries.
DeleteUncounted(k) ==
  LET e == table[k] IN
  /\ lock = Nil /\ e # Nil
  /\ links' = Remove(links, QueueOf(e), e)
  /\ table' = [table EXCEPT ![k] = Nil]
  /\ rowDeleted' = (rowDeleted \/ ent[e].onRow)
  /\ UNCHANGED <<ent, total, evictVars, procVars, panicked>>

FlushUncounted ==
  /\ lock = Nil
  /\ table' = [k \in Keys |-> Nil]
  /\ links' = NoLinks
  /\ ghosts' = NoGhosts
  /\ row' = [i \in RowSlots |-> Nil]
  /\ rowPos' = 0
  /\ rowDeleted' = FALSE
  /\ UNCHANGED <<ent, free, total, procVars, panicked>>

\* del unlinks from the queue the inSmall flag names.  It does not look at
\* onDeathRow: an entry there is on no list, and remove then clears the list.
Delete(k) ==
  LET e == table[k] IN
  /\ lock = Nil /\ e # Nil
  /\ links' = Remove(links, QueueOf(e), e)
  /\ table' = [table EXCEPT ![k] = Nil]
  /\ total' = total - 1
  /\ rowDeleted' = (rowDeleted \/ ent[e].onRow)
  /\ UNCHANGED <<ent, evictVars, procVars, panicked>>

\* flush drops every list at once; the entries become garbage, and garbage
\* holds no pointers here.  The recycled entry survives.
Flush ==
  /\ lock = Nil
  /\ table' = [k \in Keys |-> Nil]
  /\ links' = NoLinks
  /\ ghosts' = NoGhosts
  /\ row' = [i \in RowSlots |-> Nil]
  /\ rowPos' = 0
  /\ total' = 0
  /\ rowDeleted' = FALSE
  /\ UNCHANGED <<ent, free, procVars, panicked>>

-----------------------------------------------------------------------------
(* evictOne, evictFromSmall, evictFromMain, sendToDeathRow *)

\* sampleAvgPeakFreq over main as linked in L, rounded up, and at least 1.
Threshold(L) ==
  LET at  == Reached(L, "main", SampleSize - 1)
      idx == {i \in 0 .. SampleSize - 1 : at[i] # Nil}
      n   == Cardinality(idx)
      sum == MapThenSumSet(LAMBDA i : ent[at[i]].peak, idx)
  IN IF idx = {} \/ sum = 0 THEN 1 ELSE (sum + n - 1) \div n

\* e, which L no longer links, is dropped for good or displaces the oldest
\* entry of death row.  The dropped entry is kept for reuse.
SendToDeathRow(e, L) ==
  LET old == row[rowPos] IN
  /\ total' = total - 1
  /\ links' = L
  /\ IF ent[e].peak < Threshold(L)
     THEN /\ table' = [table EXCEPT ![ent[e].key] = Nil]
          /\ ghosts' = AddToGhost(ghosts, ent[e].key, ent[e].peak)
          /\ free' = e
          /\ UNCHANGED <<ent, row, rowPos>>
     ELSE /\ row' = [row EXCEPT ![rowPos] = e]
          /\ rowPos' = (rowPos + 1) % RowSize
          /\ IF old = Nil
             THEN /\ ent' = [ent EXCEPT ![e].onRow = TRUE]
                  /\ UNCHANGED <<table, ghosts, free>>
             ELSE /\ ent' = [ent EXCEPT ![old].onRow = FALSE, ![e].onRow = TRUE]
                  /\ table' = [table EXCEPT ![ent[old].key] = Nil]
                  /\ ghosts' = AddToGhost(ghosts, ent[old].key, ent[old].peak)
                  /\ free' = old

\* An eviction succeeded.  setWithHash still has its entry to insert;
\* resurrectFromDeathRow has nothing left to do but unlock.
Evicted(p) ==
  IF arg[p].ent # Nil THEN Step(p, "insert") ELSE lock' = Nil /\ Return(p)

\* One turn of the loop of evictOne.  With both queues empty no branch is
\* taken and the loop spins: no step is enabled.
EvictOne(p) ==
  /\ pc[p] = "evictOne"
  /\ \/ /\ links.len["main"] > 0 /\ links.len["small"] <= SmallThresh
        /\ Step(p, "evictFromMain")
     \/ /\ links.len["main"] <= 0 \/ links.len["small"] > SmallThresh
        /\ links.len["small"] > 0
        /\ Step(p, "evictFromSmall")
  /\ UNCHANGED <<table, ent, queueVars, evictVars, histVars>>

\* Where a false result of evictFromMain takes its caller.
AfterMain(p) == IF pc[p] = "evictFromMain" THEN "evictOne" ELSE "evictFromSmall"
InMain(p)    == pc[p] \in {"evictFromMain", "promotedToMain"}

\* A queue that counts entries but has no head: e.freq() dereferences nil.
Panic(p) ==
  LET q == IF InMain(p) THEN "main" ELSE "small" IN
  /\ pc[p] = "evictFromSmall" \/ InMain(p)
  /\ links.len[q] > 0 /\ links.head[q] = Nil
  /\ panicked' = TRUE
  /\ UNCHANGED <<table, ent, queueVars, evictVars, procVars, rowDeleted>>

\* The queue of the loop is empty: return false.
QueueEmpty(p) ==
  LET q == IF InMain(p) THEN "main" ELSE "small" IN
  /\ pc[p] = "evictFromSmall" \/ InMain(p)
  /\ links.len[q] <= 0
  /\ Step(p, IF InMain(p) THEN AfterMain(p) ELSE "evictOne")
  /\ UNCHANGED <<table, ent, queueVars, evictVars, histVars>>

\* evictFromSmall, head accessed less than twice: evict it.
EvictFromSmall(p) ==
  LET e == links.head["small"] IN
  /\ pc[p] = "evictFromSmall" /\ links.len["small"] > 0 /\ e # Nil
  /\ ent[e].freq < 2
  /\ Step(p, "dropFromSmall")
  /\ UNCHANGED <<table, ent, queueVars, evictVars, histVars>>

\* evictFromSmall, warm head: promote it, and evict from main when that
\* leaves main with more than nine tenths of the capacity.
Promote(p) ==
  LET e == links.head["small"]
      L == PushBack(Remove(links, "small", e), "main", e)
  IN
  /\ pc[p] = "evictFromSmall" /\ links.len["small"] > 0 /\ e # Nil
  /\ ent[e].freq >= 2
  /\ links' = L
  /\ ent' = [ent EXCEPT ![e] = [@ EXCEPT !.freq = 0, !.inSmall = FALSE]]
  /\ Step(p, IF L.len["main"] > (Capacity * 9) \div 10
             THEN "promotedToMain" ELSE "evictFromSmall")
  /\ UNCHANGED <<table, total, evictVars, histVars>>

\* evictFromMain, cold head never accessed: evict it.
EvictFromMain(p) ==
  LET e == links.head["main"] IN
  /\ InMain(p) /\ links.len["main"] > 0 /\ e # Nil
  /\ ent[e].freq = 0 /\ ent[e].peak = 0
  /\ Step(p, "dropFromMain")
  /\ UNCHANGED <<table, ent, queueVars, evictVars, histVars>>

\* The head is removed and sent to death row.  Its peak is read again there:
\* gets may have raised it since, and an entry never accessed before, from main
\* even, may come to death row.
Drop(p) ==
  LET q == IF pc[p] = "dropFromMain" THEN "main" ELSE "small"
      e == links.head[q]
  IN
  /\ pc[p] \in {"dropFromSmall", "dropFromMain"} /\ links.len[q] > 0 /\ e # Nil
  /\ SendToDeathRow(e, Remove(links, q, e))
  /\ Evicted(p)
  /\ UNCHANGED histVars

\* Plausible bugs: a demoted entry is not flagged as back in small, and a
\* second chance costs nothing.
DemoteUnflagged(p) ==
  LET e == links.head["main"] IN
  /\ InMain(p) /\ links.len["main"] > 0 /\ e # Nil
  /\ ent[e].freq = 0 /\ ent[e].peak >= 1
  /\ links' = PushBack(Remove(links, "main", e), "small", e)
  /\ ent' = [ent EXCEPT ![e].freq = 1]
  /\ Step(p, AfterMain(p))
  /\ UNCHANGED <<table, total, evictVars, histVars>>

SecondChanceFree(p) ==
  LET e == links.head["main"] IN
  /\ InMain(p) /\ links.len["main"] > 0 /\ e # Nil
  /\ ent[e].freq > 0
  /\ links' = PushBack(Remove(links, "main", e), "main", e)
  /\ UNCHANGED <<table, ent, total, evictVars, procVars, histVars>>

\* evictFromMain, cold head accessed before: back to small, return false.
Demote(p) ==
  LET e == links.head["main"] IN
  /\ InMain(p) /\ links.len["main"] > 0 /\ e # Nil
  /\ ent[e].freq = 0 /\ ent[e].peak >= 1
  /\ links' = PushBack(Remove(links, "main", e), "small", e)
  /\ ent' = [ent EXCEPT ![e] = [@ EXCEPT !.freq = 1, !.inSmall = TRUE]]
  /\ Step(p, AfterMain(p))
  /\ UNCHANGED <<table, total, evictVars, histVars>>

\* evictFromMain, warm head: to the tail with one access less.
SecondChance(p) ==
  LET e == links.head["main"] IN
  /\ InMain(p) /\ links.len["main"] > 0 /\ e # Nil
  /\ ent[e].freq > 0
  /\ links' = PushBack(Remove(links, "main", e), "main", e)
  /\ ent' = [ent EXCEPT ![e].freq = @ - 1]
  /\ UNCHANGED <<table, total, evictVars, procVars, histVars>>

-----------------------------------------------------------------------------
(* Specification *)

Eviction(p) ==
  \/ EvictOne(p) \/ QueueEmpty(p) \/ Panic(p)
  \/ EvictFromSmall(p) \/ Promote(p)
  \/ EvictFromMain(p) \/ Demote(p) \/ SecondChance(p) \/ Drop(p)

Touch(p) == IncFreq(p) \/ IncPeakFreq(p)

Locking(p) ==
  \/ SetRaced(p) \/ SetBelowCapacity(p) \/ SetAtCapacity(p)
  \/ ResurrectRaced(p) \/ Resurrect(p)

Call(p, k) == GetHit(p, k) \/ GetOnDeathRow(p, k) \/ SetHit(p, k) \/ SetMiss(p, k)

\* A nil dereference ends the program.
Next ==
  \/ /\ ~panicked
     /\ \/ \E p \in Procs : \/ Locking(p) \/ Touch(p) \/ Eviction(p) \/ Insert(p)
                            \/ \E k \in Keys : Call(p, k)
        \/ \E k \in Keys : Delete(k)
        \/ Flush
  \/ panicked /\ UNCHANGED vars

\* A goroutine that holds the mutex, or is in the middle of touching an
\* entry, is not blocked by anyone and is scheduled sooner or later.
Fairness ==
  \A p \in Procs : WF_vars(~panicked /\ (Touch(p) \/ Eviction(p) \/ Insert(p)))

Spec     == Init /\ [][Next]_vars
FairSpec == Spec /\ Fairness

-----------------------------------------------------------------------------
(* Properties *)

Live(k)    == table[k] # Nil /\ ~ent[table[k]].onRow
Members(q) == {table[k] : k \in {x \in Keys : Live(x) /\ QueueOf(table[x]) = q}}

\* Each queue, walked from head to tail and back, holds exactly the entries of
\* the index that are flagged as its own, each once, whatever sequence of
\* promotions, demotions, resurrections and deletions led here - as long as no
\* Delete has hit death row (del, s3fifo.go:658-675).
QueuesIntact ==
  ~rowDeleted =>
    \A q \in Queues :
      LET n  == links.len[q]
          at == Reached(links, q, n)
      IN /\ n = Cardinality(Members(q))
         /\ {at[i] : i \in 0 .. n - 1} = Members(q)
         /\ \A i \in 0 .. n - 1 :
              links.prev[at[i]] = IF i = 0 THEN Nil ELSE at[i - 1]
         /\ at[n] = Nil
         /\ links.tail[q] = IF n = 0 THEN Nil ELSE at[n - 1]

\* The flag of an entry and the slots of death row agree, and no entry has two
\* slots: resurrectFromDeathRow clears only the first it finds.
RowIntact ==
  ~rowDeleted =>
    /\ \A k \in Keys : table[k] # Nil =>
         (ent[table[k]].onRow <=> \E i \in RowSlots : row[i] = table[k])
    /\ \A i, j \in RowSlots : row[i] # Nil =>
         /\ table[ent[row[i]].key] = row[i]
         /\ row[i] = row[j] => i = j

\* The index never hands out an entry that carries another key, is waiting to
\* be recycled, or is being filled by a setWithHash that has not published it.
IndexIntact ==
  \A k \in Keys : table[k] # Nil =>
    /\ ent[table[k]].key = k
    /\ table[k] # free
    /\ \A p \in Procs : pc[p] \in Evicting \cup {"insert"} => arg[p].ent # table[k]

\* p makes room for an entry it is to insert.
Inserting(p) == pc[p] \in Evicting \cup {"insert"} /\ arg[p].ent # Nil

\* What p is to insert: an entry already filled in for a key that no other
\* goroutine has meanwhile inserted, marked neither as on death row nor as
\* waiting to be recycled.
InsertIntact ==
  ~rowDeleted =>
    \A p \in Procs : Inserting(p) =>
      /\ arg[p].key \in Keys /\ table[arg[p].key] = Nil
      /\ ent[arg[p].ent].key = arg[p].key /\ ~ent[arg[p].ent].onRow
      /\ arg[p].ent # free

\* p makes room for an entry it has put back, not for one it is to insert.
Resurrecting(p) == pc[p] \in Evicting /\ arg[p].ent = Nil

\* totalEntries counts what the queues count, and exceeds the capacity by at
\* most the entry for which a resurrection is still evicting another.
CapacityBound ==
  /\ total = links.len["small"] + links.len["main"]
  /\ total <= IF \E p \in Procs : Resurrecting(p) THEN Capacity + 1 ELSE Capacity

\* Len() is the number of keys that a get would find in a queue.
LenExact ==
  ~rowDeleted => total = Cardinality({k \in Keys : Live(k)})

\* All of these: what a get, a set or an eviction relies on when it takes the
\* mutex.
Consistent == QueuesIntact /\ RowIntact /\ IndexIntact /\ InsertIntact /\ LenExact

\* The loop of evictOne never runs with both queues empty: it would spin
\* forever with the mutex held.
EvictionHasWork ==
  \A p \in Procs : pc[p] = "evictOne" => \E q \in Queues : links.len[q] > 0

\* No nil dereference, unless a Delete has hit death row.
PanicOnlyAfterRowDelete == panicked => rowDeleted

\* A key leaves the index by Delete, by Flush, or by an eviction that leaves it
\* known to the ghost filters (sendToDeathRow), even when they rotate on it.
EvictedIsRemembered ==
  [][ \A k \in Keys : table[k] # Nil /\ table'[k] = Nil =>
        Delete(k) \/ Flush \/ InGhost(ghosts', k) ]_vars

\* evictOne terminates, though promotion, demotion and second chances only
\* rotate entries, unless hits keep raising frequencies all the time.
EvictionTerminates ==
  <>[][~\E p \in Procs : IncFreq(p)]_vars =>
    \A p \in Procs : (lock = p) ~> (lock # p \/ rowDeleted \/ panicked)

(* What makes CapacityBound and EvictionHasWork inductive *)

\* A goroutine at a step reserved to the holder of the mutex holds it, and
\* every goroutine has the key or the entry its step works on.
LockOK ==
  \A p \in Procs :
    /\ pc[p] \in Evicting \cup {"insert"} => lock = p
    /\ lock = p => pc[p] \in Evicting \cup {"insert", "incFreq", "incPeakFreq"}
    /\ pc[p] # "idle" => arg[p].key \in Keys
    /\ pc[p] \in {"insert", "incFreq", "incPeakFreq"} => arg[p].ent # Nil

\* All pointers of L lead to entries of S.
Within(L, S) ==
  /\ \A q \in Queues : L.head[q] \in S \cup {Nil} /\ L.tail[q] \in S \cup {Nil}
  /\ \A e \in Entries : L.next[e] \in S \cup {Nil} /\ L.prev[e] \in S \cup {Nil}

\* Whatever can be evicted or displaced has a key to remember.
Keyed   == {e \in Entries : ent[e].key \in Keys}
KeyedOK ==
  /\ Within(links, Keyed)
  /\ \A k \in Keys : table[k] \in Keyed \cup {Nil}
  /\ \A i \in RowSlots : row[i] \in Keyed \cup {Nil}
  /\ \A p \in Procs : arg[p].ent \in Keyed \cup {Nil}

\* The room there is when nobody, an inserter or a resurrector holds the mutex.
CountOK ==
  /\ total = links.len["small"] + links.len["main"]
  /\ total <= Capacity + 1
  /\ total = Capacity + 1 => \E p \in Procs : Resurrecting(p)
  /\ \A p \in Procs :
       /\ pc[p] \in Evicting => total >= Capacity
       /\ pc[p] = "insert" => total < Capacity

IInv == TypeOK /\ LockOK /\ KeyedOK /\ CountOK

(* What comments and documentation promise and the code does not keep *)

\* memory.go:24: "All operations are synchronous and infallible."
Infallible == ~panicked
=============================================================================
