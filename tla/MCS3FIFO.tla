------------------------------ MODULE MCS3FIFO ------------------------------
(***************************************************************************)
(* S3FIFO on small instances.  Keys and goroutines are interchangeable: no *)
(* action and no property orders them.  Entries are interchangeable too,   *)
(* but there are too many of them to permute: two states are compared by   *)
(* View, which names an entry by what refers to it and leaves out the      *)
(* entries nothing refers to, and the fields of a recycled entry, which    *)
(* setWithHash overwrites.                                                 *)
(***************************************************************************)
EXTENDS S3FIFO, TLC

Symmetry == Permutations(Keys) \cup Permutations(Procs)

Users(e) == {p \in Procs : arg[p].ent = e}

\* An entry that is only linked, or an end of a list, keeps its identity.
Referents(e) ==
  LET keys  == {k \in Keys : table[k] = e}
      slots == {i \in RowSlots : row[i] = e}
  IN << keys, slots, Users(e), free = e,
        IF keys = {} /\ slots = {} /\ Users(e) = {} /\ free # e THEN e ELSE Nil >>

\* What of e anything but a touch reads before it is overwritten: freq not on
\* death row, as resurrectFromDeathRow sets it, and out of the index only the
\* peak, which decides how a touch goes on.
Told(e) ==
  CASE e = free /\ Users(e) = {} -> ZeroEntry
    [] rowDeleted -> ent[e]
    [] e \in {table[k] : k \in Keys} -> IF ent[e].onRow THEN [ent[e] EXCEPT !.freq = 0]
                                        ELSE ent[e]
    [] \E p \in Users(e) : lock = p -> ent[e]
    [] OTHER -> [ZeroEntry EXCEPT !.peak = ent[e].peak]

\* A touch has no use for the key, nor has the eviction of a resurrection.
KeyToldOf(p) ==
  IF pc[p] \in {"incFreq", "incPeakFreq"} \/ (pc[p] \in Evicting /\ arg[p].ent = Nil)
  THEN NoKey ELSE arg[p].key

View ==
  LET name == [e \in Entries |-> Referents(e)]
      Name(r) == IF r = Nil THEN Nil ELSE name[r]
      used == Entries \ (Unreferenced \ {free})
  IN << total, rowPos, ghosts, lock, pc, panicked, rowDeleted,
        [p \in Procs |-> KeyToldOf(p)], links.len,
        [q \in Queues |-> << Name(links.head[q]), Name(links.tail[q]) >>],
        { << name[e], Told(e), Name(links.next[e]), Name(links.prev[e]) >> : e \in used } >>

\* Bounds.  Stop where a Delete has hit death row,
RowNotDeleted == ~rowDeleted

\* or follow what that does to the small queue alone, with five entries in use,
\* none of them touched or recycled, and a free slot on death row.
DamagedSmallQueue ==
  rowDeleted => /\ links.len["main"] = 0 /\ total >= -1
                /\ free = Nil /\ \E i \in RowSlots : row[i] = Nil
                /\ \A p \in Procs : pc[p] \notin {"incFreq", "incPeakFreq"}
                /\ Cardinality(Entries \ Unreferenced) <= 5
                /\ Cardinality({e \in Entries : links.next[e] # Nil}) <= 2
=============================================================================
