----------------------------- MODULE MCCloudRun -----------------------------
(***************************************************************************)
(* Both stores on a small instance: two keys in one subdirectory.  Inodes  *)
(* are names without meaning: View names one by what refers to it and      *)
(* drops the data of those nothing refers to.                              *)
(***************************************************************************)
EXTENDS CloudRun, TLC

CONSTANTS TheDir, k1, k2

MCSubDir == [k \in Keys |-> TheDir]

\* Keys "a" and "-", and the extension ".s", between the two in byte order.
MCRest == (k1 :> << 97 >>) @@ (k2 :> << 45 >>)
MCExt  == << 46, 115 >>

Symmetry == Permutations(Procs)

View ==
  LET Name(i) == << {k \in Keys : file[k] = i}, {k \in Keys : tmp[k] = i},
                    Holders(i) >>
      used == Inodes \ Unused
  IN << { << Name(i), data[i], i \in spoilt >> : i \in used },
        expired, pc, walk, seen, backend, dsVars,
        [p \in Procs |-> << arg[p].op, arg[p].key, arg[p].val >>] >>

\* Bounds.  One walk at a time.  In the file store the second key is there for
\* the walks, as keys share nothing but a subdirectory: it is set and got while
\* nothing else goes on, and while it is there nothing is left behind, spoilt
\* or got.  A walk on which something has failed goes on alone.
Alone(p)  == \A q \in Procs \ {p} : pc[q] = "idle"
Second(p) == arg[p].key = k2 /\ arg[p].op \in {"set", "get"}

Quiet ==
  /\ \A p, q \in Procs : Walking(p) /\ Walking(q) => p = q
  /\ \A p, q \in Procs : dsArg[p].op \in DS!Walks /\ dsArg[q].op \in DS!Walks => p = q
  /\ \A p \in Procs : walk[p].failed # {} => Alone(p)
  /\ \A p \in Procs : Second(p) => Alone(p) /\ arg[p].val \in Timed \cup {None}
  /\ file[k2] # None \/ tmp[k2] # None =>
       /\ spoilt \subseteq Unused
       /\ \A k \in Keys : tmp[k] # None => Holders(tmp[k]) # {}
       /\ \A p \in Procs : arg[p].op = "get" => Alone(p)
=============================================================================
