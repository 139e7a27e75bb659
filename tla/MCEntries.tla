----------------------------- MODULE MCEntries -----------------------------
(***************************************************************************)
(* The values of the engine on a small instance.  As in MCS3FIFO, entries  *)
(* are names without meaning: View names one by what refers to it and      *)
(* drops those that nothing refers to.                                     *)
(***************************************************************************)
EXTENDS Entries, TLC

CONSTANTS k1, k2, a1, a2, b1

MCKeyOf == (a1 :> k1) @@ (a2 :> k1) @@ (b1 :> k2)

Symmetry == Permutations(Procs)

View ==
  LET Name(e) == << {k \in Keys : table[k] = e}, e \in queued, e \in row,
                    free = e, Holders(e) >>
      \* setWithHash overwrites a recycled entry that nobody holds
      Value(e) == IF e = free /\ Holders(e) = {} THEN << ent[e].key >>
                  ELSE << ent[e], e \in clobbered, e \in mixed >>
  IN << { << Name(e), Value(e) >> : e \in Entries \ Unreferenced },
        lock, late, pc, seen, dead, rowDeleted,
        [p \in Procs |-> [arg[p] EXCEPT !.ent = Nil]] >>

\* Bounds: stop where a Delete has hit death row (S3FIFO follows that), and
\* where two entries are exempt from the properties; one iteration at a time,
\* as iterations only read.
RowNotDeleted == ~rowDeleted
OneRange      == \A p, q \in Procs : arg[p].via = "range" /\ arg[q].via = "range" => p = q
OneSpoilt     == Cardinality(clobbered \cup mixed) <= 1
Bounded       == RowNotDeleted /\ OneRange /\ OneSpoilt
=============================================================================
