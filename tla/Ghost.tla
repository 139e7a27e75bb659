-------------------------------- MODULE Ghost --------------------------------
(***************************************************************************)
(* The ghost queue of s3fifo.go: the keys evicted recently, remembered in  *)
(* two rotating bloom filters (bloom.go), and the peak frequency of the    *)
(* last evictions, in a fixed ring (ghostFreqRing).                        *)
(*                                                                         *)
(* A bloom filter is the set of keys added to it and the count of Add      *)
(* calls: it never answers no for a member; where it may answer yes for a  *)
(* key it does not hold, its user chooses either answer.  Distinct keys    *)
(* have distinct hashes.                                                   *)
(***************************************************************************)
EXTENDS Integers, FiniteSets

CONSTANTS
  Keys,
  NoKey,      \* the content of a ring slot never written
  GhostCap,   \* Add calls after which the filters rotate
  RingSize,   \* slots of the frequency ring (256)
  MaxPeak     \* highest peak frequency an entry reports (21)

ASSUME GhostConstants ==
  /\ NoKey \notin Keys
  /\ GhostCap \in Nat
  /\ RingSize \in Nat \ {0}
  /\ MaxPeak \in Nat

Slots   == 0 .. RingSize - 1
Filters == [keys : SUBSET Keys, entries : Nat]
Ghosts  == [ active : Filters, aging : Filters,
             ring : [Slots -> [key : Keys \cup {NoKey}, freq : 0..MaxPeak]],
             pos  : Slots ]

EmptyFilter == [keys |-> {}, entries |-> 0]

NoGhosts == [ active |-> EmptyFilter, aging |-> EmptyFilter,
              ring |-> [i \in Slots |-> [key |-> NoKey, freq |-> 0]],
              pos  |-> 0 ]

FilterAdd(f, k) == [keys |-> f.keys \cup {k}, entries |-> f.entries + 1]

RingAdd(g, k, freq) ==
  [g EXCEPT !.ring[g.pos] = [key |-> k, freq |-> freq],
            !.pos         = (g.pos + 1) % RingSize]

\* Plausible bug: the filters are reset but not swapped.
RotateForgets(g) ==
  IF g.active.entries >= GhostCap
  THEN [g EXCEPT !.active = EmptyFilter, !.aging = EmptyFilter]
  ELSE g

\* Swap the filters once the active one has taken ghostCap keys.
Rotate(g) ==
  IF g.active.entries >= GhostCap
  THEN [g EXCEPT !.active = EmptyFilter, !.aging = g.active]
  ELSE g

AddToGhost(g, k, peak) ==
  LET added == [g EXCEPT !.active = FilterAdd(@, k)]
  IN Rotate(IF peak >= 1 THEN RingAdd(added, k, peak) ELSE added)

InGhost(g, k) == k \in g.active.keys \cup g.aging.keys

\* lookup scans the ring from slot 0, whatever the write position is.
RingSlots(g, k) == {i \in Slots : g.ring[i].key = k}

\* The peak restored to a returning key: 0 when the ring does not know it.
Lookup(g, k) ==
  IF RingSlots(g, k) = {} THEN 0
  ELSE g.ring[CHOOSE i \in RingSlots(g, k) : \A j \in RingSlots(g, k) : i <= j].freq
=============================================================================
