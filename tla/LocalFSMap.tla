----------------------------- MODULE LocalFSMap -----------------------------
(***************************************************************************)
(* The file store as a Store, for CloudRun: a Get, and a Range for each    *)
(* key it yields, returns an entry the key held, or a Set was writing,     *)
(* while it looked the key up.  seen, a history variable, collects those.  *)
(***************************************************************************)
EXTENDS LocalFS

VARIABLE seen

mapVars == <<vars, seen>>

\* An entry that has expired, or that cannot be decoded, is no value.
Entry(i) == IF data[i] \in Values \ expired THEN data[i] ELSE None
Shown    == [k \in Keys |-> IF file[k] = None THEN None ELSE Entry(file[k])]

Looking(p) ==
  arg[p].op \in {"get", "range"} /\ pc[p] = "read"

\* A Get that could not decode what it read will return an error.
Fails(p) == arg[p].val = Garbage

\* What becomes, in a step, of the entries that are read of a key: of its file
\* as they were opened, which may have no name any more.
Changes(k) ==
  {Entry(i)' : i \in {j \in Inodes :
     /\ Entry(j)' # Entry(j)
     /\ \E p \in Procs : Looking(p)' /\ arg'[p].key = k /\ arg'[p].fd = j}}

MapInit == Init /\ seen = [p \in Procs |-> {}]

MapNext ==
  /\ Next
  /\ seen' =
       [p \in Procs |->
          LET k == arg'[p].key IN
          IF ~Looking(p)' THEN {}
          ELSE (IF Looking(p) THEN seen[p] ELSE {Shown[k]})
               \cup {Shown'[k]} \cup Changes(k)]

MapSpec == MapInit /\ [][MapNext]_mapVars

CallOf(p) ==
  LET call(op, s) == [op |-> op, key |-> arg[p].key, seen |-> s] IN
  CASE arg[p].op = "set" -> call("put", {arg[p].val})
    [] Looking(p)        -> call("get", seen[p])
    [] pc[p] = "yield" \/ (pc[p] \in {"unlink", "return"} /\ arg[p].op = "get"
                           /\ ~Fails(p)) -> call("got", {arg[p].val})
    [] OTHER -> [op |-> "idle", key |-> None, seen |-> {}]

-----------------------------------------------------------------------------

\* An inode is one key's: of its names, or held by a goroutine for the key.
Leads(i, k) ==
  \/ file[k] = i \/ tmp[k] = i
  \/ \E p \in Procs : arg[p].fd = i /\ arg[p].key = k

OneKey ==
  \A i \in Inodes : \A k, l \in Keys : Leads(i, k) /\ Leads(i, l) => k = l

\* What a Set may rename is the entry of a Set of that key that is under way.
OneIsPutting ==
  \A p \in Procs : Writing(p) =>
    LET k == arg[p].key IN
    tmp[k] # None /\ data[tmp[k]] \in Values =>
      \E q \in Procs : /\ pc[q] \in {"rename", "untmp"}
                       /\ arg[q].key = k /\ arg[q].val = data[tmp[k]]

\* A Get may return what it reads, and what the key holds.
SeenOK(p) ==
  Looking(p) => Entry(arg[p].fd) \in seen[p] /\ Shown[arg[p].key] \in seen[p]

MapInv == WalkInv /\ OneKey /\ OneIsPutting /\ \A p \in Procs : SeenOK(p)
=============================================================================
