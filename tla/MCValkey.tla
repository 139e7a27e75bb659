------------------------------ MODULE MCValkey ------------------------------
(***************************************************************************)
(* The Valkey store on a small instance: a key that all operations use,    *)
(* and a second one so that the walks have more than one batch.            *)
(***************************************************************************)
EXTENDS Valkey, TLC

CONSTANTS TheKey, TheValue

Symmetry == Permutations(Procs)

\* What no property looks at any more: the expiry of a Set that is over, of a Get
\* whose key has changed, the way of a command without expiry, and what the keys
\* somebody has touched have to do with a walk.
CallSeen(p) ==
  LET a == arg[p] IN
  CASE a.op = "set" /\ pc[p] = "return" -> Call("set", a.key, a.val, 0, 0, 0)
    [] a.op = "get" /\ p \in moved -> Call("get", a.key, a.val, 0, 0, 0)
    [] a.asked = 0 \/ a.ms = NoAnswer -> [a EXCEPT !.late = 0]
    [] OTHER -> a

WalkSeen(p) ==
  LET w == walk[p] IN
  [w EXCEPT !.sent = @ \cap w.must, !.got = @ \cap w.must,
            !.failed = (@ \cap w.must) \ w.got]

View ==
  << [k \in Keys |-> IF db[k].asked = 0 THEN [db[k] EXCEPT !.late = 0] ELSE db[k]],
     [p \in Procs |-> CallSeen(p)], [p \in Procs |-> WalkSeen(p)], now, pc, moved >>

\* Bounds.  One walk at a time; the second key is there for the walks: it holds
\* one value without expiry, is got by none of the Gets and is set while nothing
\* else goes on but a walk.  The other value is set without expiry.
Quiet ==
  /\ \A p, q \in Procs : arg[p].op \in Walks /\ arg[q].op \in Walks => p = q
  /\ \A p \in Procs : arg[p].key \notin {None, TheKey} =>
       /\ arg[p].op \in {"set", "range"}
       /\ arg[p].val = TheValue /\ arg[p].asked = 0
       /\ arg[p].op = "set" =>
            \A q \in Procs \ {p} : pc[q] = "idle" \/ arg[q].op \in Walks
  /\ \A p \in Procs :
       arg[p].op = "set" /\ arg[p].val # TheValue => arg[p].asked = 0
=============================================================================
