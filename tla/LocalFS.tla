------------------------------ MODULE LocalFS ------------------------------
(***************************************************************************)
(* The file store of localfs.go: one file per key, which Set replaces by   *)
(* renaming a temporary file over it, and which Get and the walks of       *)
(* Cleanup, Flush, Len and Range open, read and unlink by its name.        *)
(*                                                                         *)
(* A file is an inode with a content; names lead to inodes, and an open    *)
(* file keeps its inode when the name goes.  Its content is a whole entry  *)
(* (value and expiry), or it is truncated or mixed and cannot be decoded.  *)
(*                                                                         *)
(* subdirsMade has no part here: nothing removes a subdirectory, so it     *)
(* makes no difference whether a Set creates it once more.                 *)
(***************************************************************************)
EXTENDS Naturals, FiniteSets

CONSTANTS
  Keys,
  Values,   \* an entry: value and expiry
  Timed,    \* the entries that expire at some time
  Procs,    \* goroutines using the store
  Inodes,
  Dirs,
  SubDir,   \* the subdirectory of each key: the first byte of its hash
  None,
  Garbage   \* what cannot be decoded

ASSUME LocalFSConstants ==
  /\ Timed \subseteq Values /\ SubDir \in [Keys -> Dirs]
  /\ None \notin Keys \cup Values \cup Inodes
  /\ Garbage \notin Values \cup {None}

VARIABLES
  file,     \* the inode of each key's file
  tmp,      \* the inode of its temporary file
  data,     \* the content of each inode
  expired,  \* the entries whose expiry has passed
  pc, arg,  \* where each goroutine is, and what it holds
  walk,     \* the walk it is on
  spoilt    \* history: the inodes that two Sets have had in hand, or whose
            \* data a power failure took

disk == <<file, tmp, data>>
vars == <<disk, expired, pc, arg, walk, spoilt>>

Walks    == {"cleanup", "flush", "len", "range"}
Ops      == {"set", "get"} \cup Walks
Contents == Values \cup {Garbage}

NoArg  == [op |-> "none", key |-> None, val |-> None, fd |-> None]
NoWalk == [dirs |-> {}, todo |-> {}, hits |-> {}, failed |-> {},
           cutoff |-> {}, due |-> {}, touched |-> {}]

States == {"idle", "open", "write", "rename", "untmp", "read", "unlink",
           "yield", "walk", "return"}

Arguments == [op : Ops \cup {"none"}, key : Keys \cup {None},
              val : Values \cup {None, Garbage}, fd : Inodes \cup {None}]

Walkings == [dirs : SUBSET Dirs, todo : SUBSET Keys, hits : SUBSET Keys,
             failed : SUBSET Keys, cutoff : SUBSET Values, due : SUBSET Keys,
             touched : SUBSET Keys]

TypeOK ==
  /\ file \in [Keys -> Inodes \cup {None}]
  /\ tmp \in [Keys -> Inodes \cup {None}]
  /\ data \in [Inodes -> Contents]
  /\ expired \subseteq Timed
  /\ pc \in [Procs -> States]
  /\ arg \in [Procs -> Arguments]
  /\ walk \in [Procs -> Walkings]
  /\ spoilt \subseteq Inodes

Init ==
  /\ file = [k \in Keys |-> None] /\ tmp = [k \in Keys |-> None]
  /\ data = [i \in Inodes |-> Garbage]
  /\ expired = {}
  /\ pc = [p \in Procs |-> "idle"]
  /\ arg = [p \in Procs |-> NoArg]
  /\ walk = [p \in Procs |-> NoWalk]
  /\ spoilt = {}

-----------------------------------------------------------------------------
(* Files *)

\* What the file of a key holds; os.ReadFile of an inode gives its data.
Content(k) == IF file[k] = None THEN None ELSE data[file[k]]

Holders(i) == {p \in Procs : arg[p].fd = i}

Unused == {i \in Inodes : /\ Holders(i) = {}
                          /\ \A k \in Keys : file[k] # i /\ tmp[k] # i}

Created == {i \in Unused : i = CHOOSE j \in Unused : TRUE}

Goto(p, s) == pc' = [pc EXCEPT ![p] = s]

Hold(p, op, k, v, i) ==
  arg' = [arg EXCEPT ![p] = [op |-> op, key |-> k, val |-> v, fd |-> i]]

Walking(p) == pc[p] # "idle" /\ arg[p].op \in Walks

\* A walk of somebody else sees the file of a key in K change.
Touched(p, K) ==
  [q \in Procs |-> IF q # p /\ Walking(q)
                   THEN [walk[q] EXCEPT !.touched = @ \cup K] ELSE walk[q]]

\* os.Remove(fn), of whatever has that name now.
RemoveFile(k) ==
  /\ file' = [file EXCEPT ![k] = None]
  /\ UNCHANGED <<tmp, data, expired, spoilt>>

Return(p) ==
  /\ pc[p] = "return"
  /\ Goto(p, "idle")
  /\ arg' = [arg EXCEPT ![p] = NoArg]
  /\ walk' = [walk EXCEPT ![p] = NoWalk]
  /\ UNCHANGED <<disk, expired, spoilt>>

-----------------------------------------------------------------------------
(* Set *)

Set(p, k, v) ==
  /\ pc[p] = "idle"
  /\ Goto(p, "open")
  /\ Hold(p, "set", k, v, None)
  /\ UNCHANGED <<disk, expired, walk, spoilt>>

\* Plausible bug: no temporary file, the entry is written in place.
OpenInPlace(p) ==
  LET k == arg[p].key IN
  /\ pc[p] = "open"
  /\ \E i \in (IF file[k] = None THEN Created ELSE {file[k]}) :
       /\ file' = [file EXCEPT ![k] = i]
       /\ data' = [data EXCEPT ![i] = Garbage]
       /\ Hold(p, "set", k, arg[p].val, i)
  /\ Goto(p, "write")
  /\ UNCHANGED <<tmp, expired, walk, spoilt>>

\* os.WriteFile opens the temporary file with O_CREATE and O_TRUNC.
OpenTmp(p) ==
  LET k == arg[p].key IN
  /\ pc[p] = "open"
  /\ \E i \in (IF tmp[k] = None THEN Created ELSE {tmp[k]}) :
       /\ tmp' = [tmp EXCEPT ![k] = i]
       /\ data' = [data EXCEPT ![i] = Garbage]
       /\ spoilt' = IF Holders(i) = {} THEN spoilt \ {i} ELSE spoilt \cup {i}
       /\ Hold(p, "set", k, arg[p].val, i)
  /\ Goto(p, "write")
  /\ UNCHANGED <<file, expired, walk>>

\* The write; over the longer entry of another Set its tail stays behind.
WriteTmp(p) ==
  LET i == arg[p].fd IN
  /\ pc[p] = "write"
  /\ \/ data' = [data EXCEPT ![i] = arg[p].val]
     \/ i \in spoilt /\ data' = [data EXCEPT ![i] = Garbage]
  /\ Goto(p, "rename")
  /\ walk' = Touched(p, {k \in Keys : file[k] = i})
  /\ UNCHANGED <<file, tmp, expired, arg, spoilt>>

\* Plausible bug: a failed write goes on to the rename.
WriteFailsUnseen(p) ==
  /\ pc[p] = "write"
  /\ data' = [data EXCEPT ![arg[p].fd] = Garbage]
  /\ Goto(p, "rename")
  /\ UNCHANGED <<file, tmp, expired, arg, walk, spoilt>>

\* Set returns an error, and leaves the temporary file where it is.
WriteFails(p) ==
  /\ pc[p] = "write"
  /\ data' = [data EXCEPT ![arg[p].fd] = Garbage]
  /\ Goto(p, "return")
  /\ Hold(p, "set", arg[p].key, arg[p].val, None)
  /\ walk' = Touched(p, {k \in Keys : file[k] = arg[p].fd})
  /\ UNCHANGED <<file, tmp, expired, spoilt>>

\* The rename puts in place what has the temporary name now.
Rename(p) ==
  LET k == arg[p].key IN
  /\ pc[p] = "rename" /\ tmp[k] # None
  /\ file' = [file EXCEPT ![k] = tmp[k]]
  /\ tmp' = [tmp EXCEPT ![k] = None]
  /\ spoilt' = IF tmp[k] = arg[p].fd THEN spoilt ELSE spoilt \cup {tmp[k]}
  /\ Goto(p, "return")
  /\ Hold(p, "set", k, arg[p].val, None)
  /\ walk' = Touched(p, {k})
  /\ UNCHANGED <<data, expired>>

\* It fails, because another Set has renamed the file or for other reasons.
RenameFails(p) ==
  /\ pc[p] = "rename"
  /\ Goto(p, "untmp")
  /\ Hold(p, "set", arg[p].key, arg[p].val, None)
  /\ UNCHANGED <<disk, expired, walk, spoilt>>

RemoveTmp(p) ==
  /\ pc[p] = "untmp"
  /\ tmp' = [tmp EXCEPT ![arg[p].key] = None]
  /\ Goto(p, "idle")
  /\ arg' = [arg EXCEPT ![p] = NoArg]
  /\ UNCHANGED <<file, data, expired, walk, spoilt>>

-----------------------------------------------------------------------------
(* Get and Delete *)

\* A Get that finds no file returns at once and changes nothing.
Get(p, k) ==
  /\ pc[p] = "idle" /\ file[k] # None
  /\ Goto(p, "read")
  /\ Hold(p, "get", k, None, file[k])
  /\ UNCHANGED <<disk, expired, walk, spoilt>>

Decodes(p)  == data[arg[p].fd] \in Values
Current(p)  == Decodes(p) /\ data[arg[p].fd] \notin expired

\* Plausible bug: an expired entry is returned.
GetOkExpired(p) ==
  /\ pc[p] = "read" /\ arg[p].op = "get" /\ Decodes(p)
  /\ Goto(p, "return")
  /\ Hold(p, "get", arg[p].key, data[arg[p].fd], None)
  /\ UNCHANGED <<disk, expired, walk, spoilt>>

GetOk(p) ==
  /\ pc[p] = "read" /\ arg[p].op = "get" /\ Current(p)
  /\ Goto(p, "return")
  /\ Hold(p, "get", arg[p].key, data[arg[p].fd], None)
  /\ UNCHANGED <<disk, expired, walk, spoilt>>

\* An expired entry or one that cannot be decoded: the name is unlinked next.
GetStale(p) ==
  /\ pc[p] = "read" /\ arg[p].op = "get" /\ ~Current(p)
  /\ Goto(p, "unlink")
  /\ Hold(p, "get", arg[p].key, IF Decodes(p) THEN None ELSE Garbage, arg[p].fd)
  /\ UNCHANGED <<disk, expired, walk, spoilt>>

GetUnlink(p) ==
  /\ pc[p] = "unlink" /\ arg[p].op = "get"
  /\ RemoveFile(arg[p].key)
  /\ Goto(p, "return")
  /\ Hold(p, "get", arg[p].key, arg[p].val, None)
  /\ walk' = Touched(p, {arg[p].key})

\* The file cannot be read, or one that is to go not removed: Get returns an
\* error.
GetFails(p) ==
  /\ pc[p] \in {"read", "unlink"} /\ arg[p].op = "get"
  /\ Goto(p, "return")
  /\ Hold(p, "get", arg[p].key, Garbage, None)
  /\ UNCHANGED <<disk, expired, walk, spoilt>>

Delete(p, k) ==
  /\ pc[p] = "idle"
  /\ RemoveFile(k)
  /\ walk' = Touched(p, {k})
  /\ UNCHANGED <<pc, arg>>

-----------------------------------------------------------------------------
(* The walks.  filepath.Walk reads the names of a subdirectory and then    *)
(* visits one after the other; the temporary files are no cache files.     *)

\* The keys a walk that nobody disturbs acts on; old: what Cleanup removes.
Due(op, old) ==
  {k \in Keys :
     CASE op \in {"flush", "len"} -> file[k] # None
       [] op = "range"   -> Content(k) \in Values \ expired
       [] op = "cleanup" -> Content(k) \in old}

StartWalk(p, op) ==
  /\ pc[p] = "idle"
  /\ walk' = [walk EXCEPT ![p] =
                [NoWalk EXCEPT !.dirs = Dirs, !.due = Due(op, expired),
                               !.cutoff = IF op = "cleanup" THEN expired ELSE {}]]
  /\ Goto(p, "walk")
  /\ Hold(p, op, None, None, None)
  /\ UNCHANGED <<disk, expired, spoilt>>

ReadNames(p, dir) ==
  /\ pc[p] = "walk" /\ walk[p].todo = {} /\ dir \in walk[p].dirs
  /\ walk' = [walk EXCEPT ![p].dirs = @ \ {dir},
                ![p].todo = {k \in Keys : SubDir[k] = dir /\ file[k] # None}]
  /\ UNCHANGED <<disk, expired, pc, arg, spoilt>>

\* A subdirectory that cannot be read is left out.
NamesFail(p, dir) ==
  /\ pc[p] = "walk" /\ walk[p].todo = {} /\ dir \in walk[p].dirs
  /\ walk' = [walk EXCEPT ![p].dirs = @ \ {dir},
                ![p].failed = @ \cup {k \in Keys : SubDir[k] = dir}]
  /\ UNCHANGED <<disk, expired, pc, arg, spoilt>>

Visits(p, k) == pc[p] = "walk" /\ k \in walk[p].todo

\* The visit of k is over; the walk has acted on the keys in K.
Visited(p, k, K, w) ==
  /\ Goto(p, "walk")
  /\ Hold(p, arg[p].op, None, None, None)
  /\ walk' = [w EXCEPT ![p].todo = @ \ {k}, ![p].hits = @ \cup K]

\* The file has gone since its name was read.
VisitGone(p, k) ==
  /\ Visits(p, k) /\ file[k] = None
  /\ Visited(p, k, {}, walk)
  /\ UNCHANGED <<disk, expired, spoilt>>

VisitLen(p, k) ==
  /\ Visits(p, k) /\ arg[p].op = "len" /\ file[k] # None
  /\ Visited(p, k, {k}, walk)
  /\ UNCHANGED <<disk, expired, spoilt>>

\* Removing a file that has gone counts as well.
VisitFlush(p, k) ==
  /\ Visits(p, k) /\ arg[p].op = "flush"
  /\ RemoveFile(k)
  /\ Visited(p, k, {k}, Touched(p, {k}))

\* Cleanup and Range open the file,
VisitOpen(p, k) ==
  /\ Visits(p, k) /\ arg[p].op \in {"cleanup", "range"} /\ file[k] # None
  /\ Goto(p, "read")
  /\ Hold(p, arg[p].op, k, None, file[k])
  /\ UNCHANGED <<disk, expired, walk, spoilt>>

\* read it, and leave it alone if it is not for them,
VisitSkip(p) ==
  LET v == data[arg[p].fd] IN
  /\ pc[p] = "read"
  /\ \/ arg[p].op = "cleanup" /\ v \notin walk[p].cutoff
     \/ arg[p].op = "range" /\ ~Current(p)
  /\ Visited(p, arg[p].key, {}, walk)
  /\ UNCHANGED <<disk, expired, spoilt>>

\* yield it,
Yield(p) ==
  /\ pc[p] = "read" /\ arg[p].op = "range" /\ Current(p)
  /\ Goto(p, "yield")
  /\ Hold(p, "range", arg[p].key, data[arg[p].fd], None)
  /\ UNCHANGED <<disk, expired, walk, spoilt>>

Yielded(p) ==
  /\ pc[p] = "yield"
  /\ Visited(p, arg[p].key, {arg[p].key}, walk)
  /\ UNCHANGED <<disk, expired, spoilt>>

\* Plausible bug: Cleanup compares with the wrong sign.
CleanupOldUnchecked(p) ==
  /\ pc[p] = "read" /\ arg[p].op = "cleanup"
  /\ Goto(p, "unlink")
  /\ UNCHANGED <<disk, expired, arg, walk, spoilt>>

\* or unlink the name if it had expired when the walk began.
CleanupOld(p) ==
  /\ pc[p] = "read" /\ arg[p].op = "cleanup"
  /\ data[arg[p].fd] \in walk[p].cutoff
  /\ Goto(p, "unlink")
  /\ UNCHANGED <<disk, expired, arg, walk, spoilt>>

CleanupUnlink(p) ==
  LET k == arg[p].key IN
  /\ pc[p] = "unlink" /\ arg[p].op = "cleanup"
  /\ RemoveFile(k)
  /\ Visited(p, k, {k}, Touched(p, {k}))

\* A file cannot be looked at, read or removed.  The walk goes on; Cleanup,
\* Flush and Len put the failure into the error they return, and Range does not
\* tell anybody.
VisitFails(p, k) ==
  /\ Visits(p, k) \/ (pc[p] = "unlink" /\ arg[p].op = "cleanup" /\ arg[p].key = k)
  /\ Visited(p, k, {}, [walk EXCEPT ![p].failed = @ \cup {k}])
  /\ UNCHANGED <<disk, expired, spoilt>>

\* The walk ends, or its context does.
EndWalk(p) ==
  /\ pc[p] = "walk"
  /\ Goto(p, "return")
  /\ UNCHANGED <<disk, expired, arg, walk, spoilt>>

-----------------------------------------------------------------------------
(* Time and failures *)

Expire(v) ==
  /\ v \in Timed \ expired
  /\ expired' = expired \cup {v}
  /\ walk' = [p \in Procs |->
                IF Walking(p)
                THEN [walk[p] EXCEPT !.touched =
                        @ \cup {k \in Keys : Content(k) = v}]
                ELSE walk[p]]
  /\ UNCHANGED <<disk, pc, arg, spoilt>>

\* The process dies; with the power also the data of the inodes in lost, as
\* nothing is ever synced.
Crash(lost) ==
  /\ pc' = [p \in Procs |-> "idle"]
  /\ arg' = [p \in Procs |-> NoArg]
  /\ walk' = [p \in Procs |-> NoWalk]
  /\ data' = [i \in Inodes |-> IF i \in lost THEN Garbage ELSE data[i]]
  /\ spoilt' = spoilt \cup lost
  /\ UNCHANGED <<file, tmp, expired>>

Linked == {i \in Inodes : \E k \in Keys : file[k] = i \/ tmp[k] = i}

Run(p) ==
  \/ OpenTmp(p) \/ WriteTmp(p) \/ WriteFails(p)
  \/ Rename(p) \/ RenameFails(p) \/ RemoveTmp(p)
  \/ GetOk(p) \/ GetStale(p) \/ GetUnlink(p) \/ GetFails(p)
  \/ \E dir \in Dirs : ReadNames(p, dir) \/ NamesFail(p, dir)
  \/ \E k \in Keys : \/ VisitGone(p, k) \/ VisitLen(p, k) \/ VisitFlush(p, k)
                     \/ VisitOpen(p, k) \/ VisitFails(p, k)
  \/ VisitSkip(p) \/ Yield(p) \/ Yielded(p) \/ CleanupOld(p) \/ CleanupUnlink(p)
  \/ EndWalk(p) \/ Return(p)

Call(p) ==
  \/ \E k \in Keys : Get(p, k) \/ Delete(p, k) \/ \E v \in Values : Set(p, k, v)
  \/ \E op \in Walks : StartWalk(p, op)

Next ==
  \/ \E p \in Procs : Run(p) \/ Call(p)
  \/ \E v \in Timed : Expire(v)
  \/ \E lost \in SUBSET Linked : Crash(lost)

Spec == Init /\ [][Next]_vars

-----------------------------------------------------------------------------
(* Properties *)

\* What a key's name leads to can be decoded, whatever failed or died on the
\* way, unless two Sets had hold of its inode or a power failure took its data.
FilesWhole ==
  \A k \in Keys : Content(k) = Garbage => file[k] \in spoilt

\* Why: a temporary file is nobody else's file, and a Set is alone with what it
\* writes, and finds there what it wrote, or the inode is spoilt.
Apart ==
  \A k, l \in Keys : tmp[k] # None =>
    /\ file[l] # tmp[k]
    /\ tmp[l] = tmp[k] => k = l

Writing(p) == pc[p] \in {"write", "rename"}

CallOK(p) ==
  /\ pc[p] = "idle" => arg[p] = NoArg
  /\ pc[p] \in {"open", "write", "rename", "untmp"} =>
       arg[p].op = "set" /\ arg[p].key \in Keys /\ arg[p].val \in Values
  /\ pc[p] \in {"read", "unlink", "yield"} => arg[p].key \in Keys
  /\ pc[p] \in {"walk", "yield"} => arg[p].op \in Walks

AloneOrSpoilt(p) ==
  Writing(p) =>
    LET i == arg[p].fd IN
    /\ i \in Inodes
    /\ i \notin spoilt =>
         /\ \A k \in Keys : file[k] # i
         /\ \A q \in Procs \ {p} : Writing(q) => arg[q].fd # i
         /\ pc[p] = "rename" => data[i] = arg[p].val

IInv ==
  /\ TypeOK
  /\ FilesWhole
  /\ Apart
  /\ \A p \in Procs : CallOK(p) /\ AloneOrSpoilt(p)

\* What a goroutine reads, or unlinks after it has, nobody writes to, and what
\* it unlinks had expired or could not be decoded, or its inode is spoilt.
StaleOrSpoilt(p) ==
  pc[p] \in {"read", "unlink"} =>
    LET i == arg[p].fd IN
    /\ i \in Inodes
    /\ i \notin spoilt =>
         /\ \A q \in Procs : Writing(q) => arg[q].fd # i
         /\ pc[p] = "unlink" => data[i] \notin Values \ expired

\* A walk has acted on nothing that it was not meant to, what it was meant to
\* act on is behind it, where it may have failed, or ahead of it, and what it has
\* not acted on is as it found it, leaving aside what others touched.
WalkKept(p) ==
  Walking(p) =>
    LET w == walk[p]
        k == arg[p].key
        ahead == w.todo \cup {l \in Keys : SubDir[l] \in w.dirs}
    IN
    /\ w.cutoff \subseteq expired
    /\ \A l \in Keys \ w.touched :
         /\ l \in w.hits => l \in w.due
         /\ l \in w.due => l \in w.hits \cup w.failed \cup ahead
         /\ l \notin w.hits =>
              /\ l \in w.due <=> l \in Due(arg[p].op, w.cutoff)
              /\ l \in w.todo => file[l] # None
    /\ k \in Keys \ w.touched =>
         /\ pc[p] \in {"read", "unlink"} => file[k] = arg[p].fd
         /\ pc[p] \in {"unlink", "yield"} => k \in w.due

WalkInv == IInv /\ \A p \in Procs : StaleOrSpoilt(p) /\ WalkKept(p)

\* A Set that is alone with its temporary file puts its own entry in place.
SetInstalls ==
  [][\A p \in Procs : Rename(p) =>
       \/ tmp[arg[p].key] \in spoilt'
       \/ data[tmp[arg[p].key]] = arg[p].val]_vars

Unlinks(p, k) == pc[p] = "unlink" /\ arg[p].key = k

\* An entry that has not expired is removed by a Delete, by a Flush, or because
\* it has replaced, between the read and the unlink of a Get or a Cleanup, one
\* that had: the name is unlinked and not the file that was read.
FreshStays ==
  [][\A k \in Keys :
       Content(k) \in Values \ expired /\ file'[k] = None =>
         \E p \in Procs :
           \/ Delete(p, k)
           \/ Visits(p, k) /\ arg[p].op = "flush"
           \/ Unlinks(p, k) /\ (arg[p].fd # file[k] \/ file[k] \in spoilt)]_vars

\* A walk that is not cancelled removes (Flush, Cleanup), counts (Len) or
\* yields (Range) no file that it is not meant for, and all that it is meant for
\* but those on which it failed, leaving aside the keys that others change while
\* it is under way.
WalkExact ==
  \A p \in Procs :
    Walking(p) /\ pc[p] = "return" /\ walk[p].dirs \cup walk[p].todo = {} =>
      LET w == walk[p] IN
      /\ w.hits \ w.touched \subseteq w.due
      /\ w.due \ w.touched \subseteq w.hits \cup w.failed
=============================================================================
