--------------------------- MODULE CloudRunProofs ---------------------------
(***************************************************************************)
(* Both stores for any number of keys, entries, goroutines, inodes and     *)
(* subdirectories, whatever fails or crashes: what a key's file holds,     *)
(* what the walks do, what may remove an entry, and that the store that    *)
(* New picks is a register per key that may lose its value.                *)
(***************************************************************************)
EXTENDS CloudRun, TLAPS

\* No file and no call.
LEMMA Initial == Init => IInv
<1> HAVE Init
<1> USE LocalFSConstants DEF Init, NoArg, NoWalk
<1>1. TypeOK
  <2>1. NoArg \in Arguments /\ NoWalk \in Walkings
    BY DEF Arguments, Walkings
  <2> QED
    BY <2>1 DEF TypeOK, States, Contents
<1>2. FilesWhole /\ Apart
  BY DEF FilesWhole, Apart, Content
<1>3. \A p \in Procs : CallOK(p) /\ AloneOrSpoilt(p)
  BY DEF CallOK, AloneOrSpoilt, Writing
<1> QED
  BY <1>1, <1>2, <1>3 DEF IInv

-----------------------------------------------------------------------------
(* Types *)

\* A goroutine goes to a state s and holds what it names.
LEMMA HoldTyped ==
  ASSUME TypeOK, NEW p \in Procs, NEW s \in States,
         NEW op \in Ops \cup {"none"},
         NEW k \in Keys \cup {None}, NEW v \in Values \cup {None, Garbage},
         NEW i \in Inodes \cup {None}, Goto(p, s), Hold(p, op, k, v, i)
  PROVE  pc' \in [Procs -> States] /\ arg' \in [Procs -> Arguments]
BY DEF TypeOK, Goto, Hold, Arguments

LEMMA TouchedTyped ==
  ASSUME TypeOK, NEW p \in Procs, NEW K \in SUBSET Keys
  PROVE  Touched(p, K) \in [Procs -> Walkings]
<1>1. \A q \in Procs : [walk[q] EXCEPT !.touched = @ \cup K] \in Walkings
  BY DEF TypeOK, Walkings
<1> QED
  BY <1>1 DEF TypeOK, Touched

LEMMA VisitedTyped ==
  ASSUME TypeOK, NEW p \in Procs, NEW k \in Keys, NEW K \in SUBSET Keys,
         NEW w \in [Procs -> Walkings], Visited(p, k, K, w)
  PROVE  /\ pc' \in [Procs -> States] /\ arg' \in [Procs -> Arguments]
         /\ walk' \in [Procs -> Walkings]
<1>1. pc' \in [Procs -> States] /\ arg' \in [Procs -> Arguments]
  BY HoldTyped DEF TypeOK, Visited, States, Arguments
<1>2. [w[p] EXCEPT !.todo = @ \ {k}, !.hits = @ \cup K] \in Walkings
  BY Zenon DEF Walkings
<1>3. walk' = [w EXCEPT ![p] =
                  [w[p] EXCEPT !.todo = @ \ {k}, !.hits = @ \cup K]]
  BY DEF Visited
<1>4. walk' \in [Procs -> Walkings]
  BY <1>2, <1>3, Zenon
<1> QED
  BY <1>1, <1>4

LEMMA CallTyped ==
  ASSUME TypeOK, NEW p \in Procs, Call(p)
  PROVE  TypeOK'
<1> USE LocalFSConstants, HoldTyped, TouchedTyped DEF disk, States
<1>1. ASSUME NEW k \in Keys, Get(p, k)
      PROVE  TypeOK'
  BY <1>1 DEF TypeOK, Get, Ops
<1>2. ASSUME NEW k \in Keys, Delete(p, k)
      PROVE  TypeOK'
  BY <1>2 DEF TypeOK, Delete, RemoveFile
<1>3. ASSUME NEW k \in Keys, NEW v \in Values, Set(p, k, v)
      PROVE  TypeOK'
  BY <1>3 DEF TypeOK, Set, Ops
<1>4. ASSUME NEW op \in Walks, StartWalk(p, op)
      PROVE  TypeOK'
  <2>1. Due(op, expired) \subseteq Keys
    BY DEF Due
  <2>2. [NoWalk EXCEPT !.dirs = Dirs, !.due = Due(op, expired),
                       !.cutoff = IF op = "cleanup" THEN expired ELSE {}]
          \in Walkings
    <3>1. (IF op = "cleanup" THEN expired ELSE {}) \in SUBSET Values
      BY DEF TypeOK
    <3>2. NoWalk \in Walkings
      BY DEF NoWalk, Walkings
    <3> QED
      BY <2>1, <3>1, <3>2, Zenon DEF Walkings
  <2>3. walk' \in [Procs -> Walkings]
    BY <1>4, <2>2 DEF TypeOK, StartWalk
  <2> QED
    BY <1>4, <2>3 DEF TypeOK, StartWalk, Ops
<1> QED
  BY <1>1, <1>2, <1>3, <1>4 DEF Call

LEMMA RunTyped ==
  ASSUME IInv, NEW p \in Procs, Run(p)
  PROVE  TypeOK'
<1> USE LocalFSConstants, HoldTyped, TouchedTyped, VisitedTyped
        DEF IInv, disk, States
<1>0. /\ arg[p] \in Arguments
      /\ arg[p].fd \in Inodes => data[arg[p].fd] \in Contents
  BY DEF TypeOK, Arguments
<1>1. CASE OpenTmp(p)
  BY <1>0, <1>1 DEF TypeOK, OpenTmp, CallOK, Created, Unused, Ops, Contents
<1>2. CASE WriteTmp(p)
  BY <1>0, <1>2 DEF TypeOK, WriteTmp, Goto, CallOK, Contents
<1>3. CASE WriteFails(p)
  BY <1>0, <1>3 DEF TypeOK, WriteFails, CallOK, Ops, Contents
<1>4. CASE Rename(p)
  BY <1>0, <1>4 DEF TypeOK, Rename, CallOK, Ops
<1>5. CASE RenameFails(p)
  BY <1>0, <1>5 DEF TypeOK, RenameFails, CallOK, Ops
<1>6. CASE RemoveTmp(p)
  BY <1>0, <1>6 DEF TypeOK, RemoveTmp, Goto, NoArg, Arguments
<1>7. CASE GetOk(p)
  BY <1>0, <1>7 DEF TypeOK, GetOk, Current, Decodes, Arguments, Ops
<1>8. CASE GetStale(p)
  BY <1>0, <1>8 DEF TypeOK, GetStale, Arguments, Ops
<1>9. CASE GetUnlink(p)
  BY <1>0, <1>9 DEF TypeOK, CallOK, GetUnlink, RemoveFile, Arguments, Ops
<1>10. ASSUME NEW dir \in Dirs, ReadNames(p, dir)
       PROVE  TypeOK'
  <2> DEFINE found == {k \in Keys : SubDir[k] = dir /\ file[k] # None}
  <2>1. [walk[p] EXCEPT !.dirs = @ \ {dir}, !.todo = found] \in Walkings
    <3>1. walk[p] \in Walkings
      BY DEF TypeOK
    <3> QED
      BY <3>1, Zenon DEF Walkings
  <2>2. walk' = [walk EXCEPT ![p] =
                   [walk[p] EXCEPT !.dirs = @ \ {dir}, !.todo = found]]
    BY <1>10 DEF ReadNames
  <2>3. walk' \in [Procs -> Walkings]
    BY <2>1, <2>2, Zenon DEF TypeOK
  <2> QED
    BY <1>10, <2>3 DEF TypeOK, ReadNames
<1>11. ASSUME NEW k \in Keys, VisitGone(p, k)
       PROVE  TypeOK'
  BY <1>11 DEF TypeOK, VisitGone
<1>12. ASSUME NEW k \in Keys, VisitLen(p, k)
       PROVE  TypeOK'
  BY <1>12 DEF TypeOK, VisitLen
<1>13. ASSUME NEW k \in Keys, VisitFlush(p, k)
       PROVE  TypeOK'
  BY <1>13 DEF TypeOK, VisitFlush, RemoveFile
<1>14. ASSUME NEW k \in Keys, VisitOpen(p, k)
       PROVE  TypeOK'
  BY <1>0, <1>14 DEF TypeOK, VisitOpen, Arguments
<1>15. CASE VisitSkip(p)
  BY <1>0, <1>15 DEF TypeOK, CallOK, VisitSkip, Arguments
<1>16. CASE Yield(p)
  <2>1. /\ Goto(p, "yield") /\ Hold(p, "range", arg[p].key, data[arg[p].fd], None)
        /\ UNCHANGED <<disk, expired, walk, spoilt>> /\ data[arg[p].fd] \in Values
    BY <1>16 DEF Yield, Current, Decodes
  <2>2. pc' \in [Procs -> States] /\ arg' \in [Procs -> Arguments]
    <3>1. /\ "range" \in Ops \cup {"none"} /\ "yield" \in States
          /\ arg[p].key \in Keys \cup {None} /\ None \in Inodes \cup {None}
          /\ data[arg[p].fd] \in Values \cup {None, Garbage}
      BY <1>0, <2>1 DEF Arguments, Ops, Walks
    <3> QED
      BY <2>1, <3>1, HoldTyped
  <2> QED
    BY <2>1, <2>2 DEF TypeOK
<1>17. CASE Yielded(p)
  <2>1. arg[p].key \in Keys /\ walk \in [Procs -> Walkings] /\ TypeOK
    BY <1>17 DEF CallOK, Yielded, TypeOK
  <2>2. /\ pc' \in [Procs -> States] /\ arg' \in [Procs -> Arguments]
        /\ walk' \in [Procs -> Walkings]
    BY <1>17, <2>1, VisitedTyped DEF Yielded
  <2> QED
    BY <1>17, <2>2 DEF TypeOK, Yielded
<1>18. CASE CleanupOld(p)
  BY <1>18 DEF TypeOK, CleanupOld, Goto
<1>19. CASE CleanupUnlink(p)
  <2>1. arg[p].key \in Keys
    BY <1>19 DEF CallOK, CleanupUnlink
  <2>2. Touched(p, {arg[p].key}) \in [Procs -> Walkings]
    BY <2>1
  <2>3. /\ pc' \in [Procs -> States] /\ arg' \in [Procs -> Arguments]
        /\ walk' \in [Procs -> Walkings]
    BY <1>19, <2>1, <2>2 DEF CleanupUnlink
  <2> QED
    BY <1>19, <2>3 DEF TypeOK, CleanupUnlink, RemoveFile
<1>20. CASE EndWalk(p)
  BY <1>20 DEF TypeOK, EndWalk, Goto
<1>21. CASE Return(p)
  <2>1. NoArg \in Arguments /\ NoWalk \in Walkings
    BY DEF NoArg, NoWalk, Arguments, Walkings
  <2> QED
    BY <1>21, <2>1 DEF TypeOK, Return, Goto
<1>22. CASE GetFails(p)
  BY <1>0, <1>22 DEF TypeOK, GetFails, Arguments, Ops
<1>23. ASSUME NEW dir \in Dirs, NamesFail(p, dir)
       PROVE  TypeOK'
  <2> DEFINE lost == {k \in Keys : SubDir[k] = dir}
  <2>1. [walk[p] EXCEPT !.dirs = @ \ {dir}, !.failed = @ \cup lost] \in Walkings
    <3>1. walk[p] \in Walkings
      BY DEF TypeOK
    <3> QED
      BY <3>1, Zenon DEF Walkings
  <2>2. walk' = [walk EXCEPT ![p] =
                   [walk[p] EXCEPT !.dirs = @ \ {dir}, !.failed = @ \cup lost]]
    BY <1>23 DEF NamesFail
  <2>3. walk' \in [Procs -> Walkings]
    BY <2>1, <2>2, Zenon DEF TypeOK
  <2> QED
    BY <1>23, <2>3 DEF TypeOK, NamesFail
<1>24. ASSUME NEW k \in Keys, VisitFails(p, k)
       PROVE  TypeOK'
  <2>1. walk[p] \in Walkings /\ TypeOK
    BY DEF TypeOK
  <2>2. [walk EXCEPT ![p].failed = @ \cup {k}] \in [Procs -> Walkings]
    <3>1. [walk[p] EXCEPT !.failed = @ \cup {k}] \in Walkings
      BY <2>1, Zenon DEF Walkings
    <3> QED
      BY <3>1 DEF TypeOK
  <2>3. /\ pc' \in [Procs -> States] /\ arg' \in [Procs -> Arguments]
        /\ walk' \in [Procs -> Walkings]
    BY <1>24, <2>1, <2>2, VisitedTyped DEF VisitFails
  <2> QED
    BY <1>24, <2>3 DEF TypeOK, VisitFails
<1> QED
  BY <1>1, <1>2, <1>3, <1>4, <1>5, <1>6, <1>7, <1>8, <1>9, <1>10, <1>11,
     <1>12, <1>13, <1>14, <1>15, <1>16, <1>17, <1>18, <1>19, <1>20, <1>21,
     <1>22, <1>23, <1>24 DEF Run

\* Time and crashes.
LEMMA FateTyped ==
  ASSUME TypeOK,
         \/ \E v \in Timed : Expire(v)
         \/ \E lost \in SUBSET Linked : Crash(lost)
  PROVE  TypeOK'
<1> USE LocalFSConstants DEF disk
<1>1. ASSUME NEW v \in Timed, Expire(v)
      PROVE  TypeOK'
  <2>1. \A p \in Procs :
          [walk[p] EXCEPT !.touched = @ \cup {k \in Keys : Content(k) = v}]
            \in Walkings
    BY DEF TypeOK, Walkings
  <2>2. walk' \in [Procs -> Walkings]
    BY <1>1, <2>1 DEF TypeOK, Expire
  <2> QED
    BY <1>1, <2>2 DEF TypeOK, Expire
<1>2. ASSUME NEW lost \in SUBSET Linked, Crash(lost)
      PROVE  TypeOK'
  <2>1. NoArg \in Arguments /\ NoWalk \in Walkings
    BY DEF NoArg, NoWalk, Arguments, Walkings
  <2> QED
    BY <1>2, <2>1 DEF TypeOK, Crash, States, Contents, Linked
<1> QED
  BY <1>1, <1>2

-----------------------------------------------------------------------------
(* Files *)

\* The invariant without the types.
Whole == FilesWhole /\ Apart /\ \A p \in Procs : CallOK(p) /\ AloneOrSpoilt(p)

\* A goroutine that goes on, and to a state in which it writes nothing.
GoesOn(p) ==
  /\ \E s \in States \ {"open", "write", "rename", "untmp"} : Goto(p, s)
  /\ pc'[p] = "idle" => arg'[p] = NoArg
  /\ pc'[p] \in {"read", "unlink", "yield"} => arg'[p].key \in Keys
  /\ pc'[p] \in {"walk", "yield"} => arg'[p].op \in Walks
  /\ \A q \in Procs \ {p} : arg'[q] = arg[q]

\* As long as the files stay as they are,
LEMMA ReadKeeps ==
  ASSUME IInv, NEW p \in Procs, GoesOn(p), UNCHANGED <<disk, spoilt>>
  PROVE  Whole'
<1> USE DEF IInv, GoesOn, Goto, disk
<1>1. FilesWhole' /\ Apart'
  BY DEF FilesWhole, Apart, Content
<1>2. \A q \in Procs : CallOK(q)' /\ AloneOrSpoilt(q)'
  BY DEF TypeOK, CallOK, AloneOrSpoilt, Writing
<1> QED
  BY <1>1, <1>2 DEF Whole

\* or one of them goes, nothing changes for the others.
LEMMA RemoveKeeps ==
  ASSUME IInv, NEW p \in Procs, NEW k \in Keys, RemoveFile(k),
         GoesOn(p) \/ UNCHANGED <<pc, arg>>
  PROVE  Whole'
<1> USE LocalFSConstants DEF IInv, GoesOn, Goto, RemoveFile
<1>1. FilesWhole' /\ Apart'
  BY DEF TypeOK, FilesWhole, Apart, Content, Contents
<1>2. \A q \in Procs : CallOK(q)' /\ AloneOrSpoilt(q)'
  BY DEF TypeOK, CallOK, AloneOrSpoilt, Writing
<1> QED
  BY <1>1, <1>2 DEF Whole

LEMMA SetKeeps ==
  ASSUME IInv, NEW p \in Procs, NEW k \in Keys, NEW v \in Values, Set(p, k, v)
  PROVE  Whole'
<1> USE DEF IInv, Set, Goto, Hold, disk
<1>1. FilesWhole' /\ Apart'
  BY DEF FilesWhole, Apart, Content
<1>2. \A q \in Procs : CallOK(q)' /\ AloneOrSpoilt(q)'
  BY DEF TypeOK, CallOK, AloneOrSpoilt, Writing
<1> QED
  BY <1>1, <1>2 DEF Whole

\* The inode of a temporary file is no key's file, so nothing is truncated; who
\* finds somebody in it spoils it.
LEMMA OpenTmpKeeps ==
  ASSUME IInv, NEW p \in Procs, OpenTmp(p)
  PROVE  Whole'
<1> DEFINE k == arg[p].key
<1>1. PICK i \in (IF tmp[k] = None THEN Created ELSE {tmp[k]}) :
        /\ tmp' = [tmp EXCEPT ![k] = i]
        /\ data' = [data EXCEPT ![i] = Garbage]
        /\ spoilt' = IF Holders(i) = {} THEN spoilt \ {i} ELSE spoilt \cup {i}
        /\ Hold(p, "set", k, arg[p].val, i)
  BY DEF OpenTmp
<1>2. /\ k \in Keys /\ pc[p] = "open" /\ Goto(p, "write") /\ file' = file
      /\ arg[p].val \in Values
  BY DEF IInv, CallOK, OpenTmp
<1>3. i \in Inodes /\ \A l \in Keys : file[l] # i /\ (tmp[l] = i => l = k)
  BY <1>1, <1>2, LocalFSConstants DEF IInv, TypeOK, Apart, Created, Unused
<1>4. FilesWhole'
  BY <1>1, <1>2, <1>3 DEF IInv, TypeOK, FilesWhole, Content
<1>5. Apart'
  BY <1>1, <1>2, <1>3 DEF IInv, TypeOK, Apart
<1>6. ASSUME NEW q \in Procs
      PROVE  CallOK(q)' /\ AloneOrSpoilt(q)'
  <2>1. CASE q = p
    BY <1>1, <1>2, <1>3, <2>1
       DEF IInv, TypeOK, Goto, Hold, Holders, CallOK, AloneOrSpoilt, Writing
  <2>2. CASE q # p
    BY <1>1, <1>2, <1>3, <2>2
       DEF IInv, TypeOK, Goto, Hold, Holders, CallOK, AloneOrSpoilt, Writing
  <2> QED
    BY <2>1, <2>2
<1> QED
  BY <1>4, <1>5, <1>6 DEF Whole

\* Who writes has the inode to itself and to no key's name, or it is spoilt.
LEMMA WriteKeeps ==
  ASSUME IInv, NEW p \in Procs, WriteTmp(p) \/ WriteFails(p)
  PROVE  Whole'
<1> USE LocalFSConstants DEF IInv
<1>1. CASE WriteTmp(p)
  <2> USE <1>1 DEF WriteTmp, Goto
  <2>1. FilesWhole' /\ Apart'
    BY DEF TypeOK, FilesWhole, Apart, Content, AloneOrSpoilt, Writing, CallOK
  <2>2. \A q \in Procs : CallOK(q)' /\ AloneOrSpoilt(q)'
    BY DEF TypeOK, CallOK, AloneOrSpoilt, Writing
  <2> QED
    BY <2>1, <2>2 DEF Whole
<1>2. CASE WriteFails(p)
  <2> USE <1>2 DEF WriteFails, Goto, Hold
  <2>1. FilesWhole' /\ Apart'
    BY DEF TypeOK, FilesWhole, Apart, Content, AloneOrSpoilt, Writing, CallOK
  <2>2. \A q \in Procs : CallOK(q)' /\ AloneOrSpoilt(q)'
    BY DEF TypeOK, CallOK, AloneOrSpoilt, Writing
  <2> QED
    BY <2>1, <2>2 DEF Whole
<1> QED
  BY <1>1, <1>2

\* What is renamed is what the Set wrote, or is spoilt.
LEMMA RenameKeeps ==
  ASSUME IInv, NEW p \in Procs, Rename(p)
  PROVE  Whole'
<1> USE LocalFSConstants DEF IInv, Rename, Goto, Hold
<1>0. /\ arg[p].key \in Keys /\ arg[p].val \in Values
      /\ tmp[arg[p].key] \in Inodes
  BY DEF TypeOK, CallOK
<1>1. FilesWhole'
  BY <1>0 DEF TypeOK, FilesWhole, Content, AloneOrSpoilt, Writing
<1>2. Apart'
  BY <1>0 DEF TypeOK, Apart
<1>3. \A q \in Procs : CallOK(q)' /\ AloneOrSpoilt(q)'
  BY <1>0 DEF TypeOK, CallOK, AloneOrSpoilt, Writing
<1> QED
  BY <1>1, <1>2, <1>3 DEF Whole

LEMMA UndoKeeps ==
  ASSUME IInv, NEW p \in Procs, RenameFails(p) \/ RemoveTmp(p)
  PROVE  Whole'
<1> USE LocalFSConstants DEF IInv, Goto, Hold, NoArg, disk
<1>1. CASE RenameFails(p)
  <2> USE <1>1 DEF RenameFails
  <2>1. FilesWhole' /\ Apart'
    BY DEF FilesWhole, Apart, Content
  <2>2. \A q \in Procs : CallOK(q)' /\ AloneOrSpoilt(q)'
    BY DEF TypeOK, CallOK, AloneOrSpoilt, Writing
  <2> QED
    BY <2>1, <2>2 DEF Whole
<1>2. CASE RemoveTmp(p)
  <2> USE <1>2 DEF RemoveTmp
  <2>1. FilesWhole' /\ Apart'
    BY DEF TypeOK, FilesWhole, Apart, Content
  <2>2. \A q \in Procs : CallOK(q)' /\ AloneOrSpoilt(q)'
    BY DEF TypeOK, CallOK, AloneOrSpoilt, Writing
  <2> QED
    BY <2>1, <2>2 DEF Whole
<1> QED
  BY <1>1, <1>2

\* After a crash nobody writes, and what was lost is spoilt.
LEMMA FateKeeps ==
  ASSUME IInv,
         \/ \E v \in Timed : Expire(v)
         \/ \E lost \in SUBSET Linked : Crash(lost)
  PROVE  Whole'
<1>1. ASSUME NEW v \in Timed, Expire(v)
      PROVE  Whole'
  BY <1>1 DEF IInv, Expire, disk, Whole, FilesWhole, Apart, Content, CallOK,
              AloneOrSpoilt, Writing
<1>2. ASSUME NEW lost \in SUBSET Linked, Crash(lost)
      PROVE  Whole'
  <2>1. FilesWhole' /\ Apart'
    BY <1>2, LocalFSConstants
       DEF IInv, TypeOK, Crash, FilesWhole, Apart, Content
  <2>2. \A q \in Procs : CallOK(q)' /\ AloneOrSpoilt(q)'
    BY <1>2 DEF Crash, CallOK, AloneOrSpoilt, Writing
  <2> QED
    BY <2>1, <2>2 DEF Whole
<1> QED
  BY <1>1, <1>2

-----------------------------------------------------------------------------

LEMMA CallKeeps ==
  ASSUME IInv, NEW p \in Procs, Call(p)
  PROVE  Whole'
<1>1. ASSUME NEW k \in Keys, Get(p, k)
      PROVE  Whole'
  <2>1. GoesOn(p) /\ UNCHANGED <<disk, spoilt>>
    BY <1>1 DEF GoesOn, Get, Goto, Hold, States, IInv, TypeOK
  <2> QED
    BY <2>1, ReadKeeps
<1>2. ASSUME NEW k \in Keys, Delete(p, k)
      PROVE  Whole'
  BY <1>2, RemoveKeeps DEF Delete
<1>3. ASSUME NEW k \in Keys, NEW v \in Values, Set(p, k, v)
      PROVE  Whole'
  BY <1>3, SetKeeps
<1>4. ASSUME NEW op \in Walks, StartWalk(p, op)
      PROVE  Whole'
  <2>1. GoesOn(p) /\ UNCHANGED <<disk, spoilt>>
    BY <1>4 DEF GoesOn, StartWalk, Goto, Hold, States, IInv, TypeOK
  <2> QED
    BY <2>1, ReadKeeps
<1> QED
  BY <1>1, <1>2, <1>3, <1>4 DEF Call

LEMMA RunKeeps ==
  ASSUME IInv, NEW p \in Procs, Run(p)
  PROVE  Whole'
<1> USE DEF IInv, TypeOK, Goto, Hold, States
<1>1. CASE OpenTmp(p) \/ WriteTmp(p) \/ WriteFails(p) \/ Rename(p)
           \/ RenameFails(p) \/ RemoveTmp(p)
  BY <1>1, OpenTmpKeeps, WriteKeeps, RenameKeeps, UndoKeeps
<1>2. CASE GetOk(p) \/ GetFails(p)
  <2>1. GoesOn(p) /\ UNCHANGED <<disk, spoilt>>
    BY <1>2 DEF GoesOn, GetOk, GetFails
  <2> QED
    BY <2>1, ReadKeeps
<1>3. CASE GetStale(p)
  <2>1. GoesOn(p) /\ UNCHANGED <<disk, spoilt>>
    BY <1>3 DEF GoesOn, GetStale, CallOK
  <2> QED
    BY <2>1, ReadKeeps
<1>4. CASE GetUnlink(p)
  <2>1. GoesOn(p) /\ arg[p].key \in Keys
    BY <1>4 DEF GoesOn, GetUnlink, CallOK
  <2> QED
    BY <1>4, <2>1, RemoveKeeps DEF GetUnlink
<1>5. ASSUME NEW dir \in Dirs, ReadNames(p, dir) \/ NamesFail(p, dir)
      PROVE  Whole'
  <2>1. GoesOn(p) /\ UNCHANGED <<disk, spoilt>>
    <3>1. pc[p] = "walk" /\ UNCHANGED <<disk, expired, pc, arg, spoilt>>
      BY <1>5, Zenon DEF ReadNames, NamesFail
    <3> QED
      BY <3>1 DEF GoesOn, CallOK
  <2> QED
    BY <2>1, ReadKeeps
<1>6. ASSUME NEW k \in Keys, VisitGone(p, k) \/ VisitLen(p, k) \/ VisitFails(p, k)
      PROVE  Whole'
  <2>1. GoesOn(p) /\ UNCHANGED <<disk, spoilt>>
    <3>1. arg[p].op \in Walks
      BY <1>6 DEF VisitGone, VisitLen, VisitFails, Visits, CallOK, Walks
    <3>2. \E K, w : Visited(p, k, K, w)
      BY <1>6 DEF VisitGone, VisitLen, VisitFails
    <3>3. Goto(p, "walk") /\ Hold(p, arg[p].op, None, None, None)
      BY <3>2 DEF Visited
    <3>4. GoesOn(p)
      BY <3>1, <3>3 DEF GoesOn
    <3> QED
      BY <1>6, <3>4 DEF VisitGone, VisitLen, VisitFails
  <2> QED
    BY <2>1, ReadKeeps
<1>7. ASSUME NEW k \in Keys, VisitFlush(p, k)
      PROVE  Whole'
  <2>1. GoesOn(p)
    BY <1>7 DEF GoesOn, VisitFlush, Visits, Visited, CallOK
  <2> QED
    BY <1>7, <2>1, RemoveKeeps DEF VisitFlush
<1>8. ASSUME NEW k \in Keys, VisitOpen(p, k)
      PROVE  Whole'
  <2>1. GoesOn(p) /\ UNCHANGED <<disk, spoilt>>
    BY <1>8 DEF GoesOn, VisitOpen
  <2> QED
    BY <2>1, ReadKeeps
<1>9. CASE VisitSkip(p) \/ Yielded(p)
  <2>1. GoesOn(p) /\ UNCHANGED <<disk, spoilt>>
    BY <1>9 DEF GoesOn, VisitSkip, Yielded, Visited, CallOK, Walks
  <2> QED
    BY <2>1, ReadKeeps
<1>10. CASE Yield(p) \/ CleanupOld(p)
  <2>1. GoesOn(p) /\ UNCHANGED <<disk, spoilt>>
    BY <1>10 DEF GoesOn, Yield, CleanupOld, CallOK, Walks
  <2> QED
    BY <2>1, ReadKeeps
<1>11. CASE CleanupUnlink(p)
  <2>1. GoesOn(p) /\ arg[p].key \in Keys
    BY <1>11 DEF GoesOn, CleanupUnlink, Visited, CallOK, Walks
  <2> QED
    BY <1>11, <2>1, RemoveKeeps DEF CleanupUnlink
<1>12. CASE EndWalk(p) \/ Return(p)
  <2>1. GoesOn(p) /\ UNCHANGED <<disk, spoilt>>
    BY <1>12 DEF GoesOn, EndWalk, Return
  <2> QED
    BY <2>1, ReadKeeps
<1> QED
  BY <1>1, <1>2, <1>3, <1>4, <1>5, <1>6, <1>7, <1>8, <1>9, <1>10, <1>11,
     <1>12 DEF Run

LEMMA NextKeeps ==
  ASSUME IInv, [Next]_vars
  PROVE  IInv'
<1>1. ASSUME NEW p \in Procs, Run(p) \/ Call(p)
      PROVE  IInv'
  <2>1. TypeOK'
    BY <1>1, RunTyped, CallTyped DEF IInv
  <2>2. Whole'
    BY <1>1, RunKeeps, CallKeeps
  <2> QED
    BY <2>1, <2>2 DEF IInv, Whole
<1>2. CASE \/ \E v \in Timed : Expire(v)
           \/ \E lost \in SUBSET Linked : Crash(lost)
  <2>1. TypeOK'
    BY <1>2, FateTyped DEF IInv
  <2>2. Whole'
    BY <1>2, FateKeeps
  <2> QED
    BY <2>1, <2>2 DEF IInv, Whole
<1>3. CASE UNCHANGED vars
  BY <1>3 DEF vars, disk, IInv, TypeOK, FilesWhole, Apart, Content, CallOK,
              AloneOrSpoilt, Writing
<1> QED
  BY <1>1, <1>2, <1>3 DEF Next

\* The separation of temporary files, files and the goroutines that write them,
\* through every interleaving, failure and crash.
THEOREM Separation == Spec => []IInv
BY Initial, NextKeeps, PTL DEF Spec

\* Every file that a key's name leads to is a whole entry, unless two Sets had
\* hold of its inode or a power failure took its data (localfs.go:201-213).
THEOREM FilesAreWhole == Spec => []FilesWhole
<1>1. IInv => FilesWhole
  BY DEF IInv
<1> QED
  BY <1>1, Separation, PTL

\* A Set that nobody shared the temporary file with renames its own entry into
\* place, and not one of another Set (localfs.go:208).
THEOREM OwnEntryInstalled == Spec => SetInstalls
<1>1. ASSUME IInv, NEW p \in Procs, Rename(p)
      PROVE  \/ tmp[arg[p].key] \in spoilt'
             \/ data[tmp[arg[p].key]] = arg[p].val
  <2>1. arg[p].key \in Keys /\ tmp[arg[p].key] \in Inodes
    BY <1>1, LocalFSConstants DEF IInv, TypeOK, CallOK, Rename
  <2>2. spoilt' = IF tmp[arg[p].key] = arg[p].fd THEN spoilt
                  ELSE spoilt \cup {tmp[arg[p].key]}
    BY <1>1 DEF Rename
  <2> QED
    BY <1>1, <2>1, <2>2 DEF IInv, AloneOrSpoilt, Writing, Rename
<1>2. IInv => \A p \in Procs : Rename(p) =>
        \/ tmp[arg[p].key] \in spoilt'
        \/ data[tmp[arg[p].key]] = arg[p].val
  BY <1>1
<1> QED
  BY <1>2, Separation, PTL DEF SetInstalls

-----------------------------------------------------------------------------
(* What is unlinked *)

\* Who only reads, or holds nothing, changes nothing for the others.
LEMMA NextStale ==
  ASSUME WalkInv, [Next]_vars
  PROVE  \A p \in Procs : StaleOrSpoilt(p)'
<1> USE LocalFSConstants DEF WalkInv
<1>0. /\ IInv /\ TypeOK /\ \A p \in Procs : CallOK(p) /\ StaleOrSpoilt(p)
      /\ \A p \in Procs : AloneOrSpoilt(p) /\ WalkKept(p)
      /\ TypeOK'
  BY NextKeeps DEF IInv
<1> SUFFICES ASSUME NEW q \in Procs PROVE StaleOrSpoilt(q)'
  OBVIOUS
<1> USE DEF StaleOrSpoilt, Writing, Goto, Hold, NoArg, disk
<1>1. ASSUME NEW p \in Procs, OpenTmp(p)
      PROVE  StaleOrSpoilt(q)'
  <2> DEFINE k == arg[p].key
  <2>1. PICK i \in (IF tmp[k] = None THEN Created ELSE {tmp[k]}) :
          /\ data' = [data EXCEPT ![i] = Garbage]
          /\ spoilt' = IF Holders(i) = {} THEN spoilt \ {i} ELSE spoilt \cup {i}
          /\ Hold(p, "set", k, arg[p].val, i)
    BY <1>1 DEF OpenTmp
  <2>2. i \in Inodes
    BY <1>0, <1>1, <2>1 DEF TypeOK, Created, Unused, CallOK, OpenTmp
  <2> QED
    BY <1>0, <1>1, <2>1, <2>2 DEF TypeOK, OpenTmp, Holders
<1>2. ASSUME NEW p \in Procs,
             \/ WriteTmp(p) \/ WriteFails(p) \/ Rename(p) \/ RenameFails(p)
             \/ RemoveTmp(p)
      PROVE  StaleOrSpoilt(q)'
  BY <1>0, <1>2
     DEF TypeOK, WriteTmp, WriteFails, Rename, RenameFails, RemoveTmp
<1>3. ASSUME NEW p \in Procs, GetOk(p) \/ GetUnlink(p) \/ GetFails(p) \/ Return(p)
      PROVE  StaleOrSpoilt(q)'
  BY <1>0, <1>3 DEF TypeOK, GetOk, GetUnlink, GetFails, Return, RemoveFile
<1>4. ASSUME NEW p \in Procs, GetStale(p)
      PROVE  StaleOrSpoilt(q)'
  BY <1>0, <1>4 DEF TypeOK, GetStale, Current, Decodes
<1>5. ASSUME NEW p \in Procs, NEW k \in Keys, Get(p, k) \/ VisitOpen(p, k)
      PROVE  StaleOrSpoilt(q)'
  BY <1>0, <1>5 DEF TypeOK, Get, VisitOpen, Visits, AloneOrSpoilt
<1>6. ASSUME NEW p \in Procs, NEW k \in Keys,
             Delete(p, k) \/ \E v \in Values : Set(p, k, v)
      PROVE  StaleOrSpoilt(q)'
  BY <1>0, <1>6 DEF TypeOK, Delete, RemoveFile, Set
<1>7. ASSUME NEW p \in Procs, NEW k \in Keys,
             \/ VisitGone(p, k) \/ VisitLen(p, k) \/ VisitFlush(p, k)
             \/ VisitFails(p, k)
      PROVE  StaleOrSpoilt(q)'
  BY <1>0, <1>7
     DEF TypeOK, VisitGone, VisitLen, VisitFlush, VisitFails, Visited, RemoveFile
<1>8. ASSUME NEW p \in Procs,
             \/ \E op \in Walks : StartWalk(p, op)
             \/ \E dir \in Dirs : ReadNames(p, dir) \/ NamesFail(p, dir)
             \/ Yield(p) \/ EndWalk(p)
      PROVE  StaleOrSpoilt(q)'
  <2>1. /\ UNCHANGED <<data, spoilt, expired>>
        /\ \E s \in {"walk", "yield", "return"} : pc' = [pc EXCEPT ![p] = s]
        /\ \A r \in Procs \ {p} : arg'[r] = arg[r]
    <3>1. CASE \E op \in Walks : StartWalk(p, op)
      <4>1. \E op \in Walks : Goto(p, "walk") /\ Hold(p, op, None, None, None)
                             /\ UNCHANGED <<disk, expired, spoilt>>
        BY <3>1, Zenon DEF StartWalk
      <4> QED
        BY <1>0, <4>1 DEF TypeOK
    <3>2. CASE \E dir \in Dirs : ReadNames(p, dir) \/ NamesFail(p, dir)
      <4>1. pc[p] = "walk" /\ UNCHANGED <<disk, expired, pc, arg, spoilt>>
        BY <3>2, Zenon DEF ReadNames, NamesFail
      <4> QED
        BY <1>0, <4>1 DEF TypeOK
    <3>3. CASE Yield(p) \/ EndWalk(p)
      BY <1>0, <3>3 DEF TypeOK, Yield, EndWalk
    <3> QED
      BY <1>8, <3>1, <3>2, <3>3
  <2> QED
    BY <1>0, <2>1 DEF TypeOK
<1>13. ASSUME NEW p \in Procs, VisitSkip(p) \/ Yielded(p) \/ CleanupUnlink(p)
       PROVE  StaleOrSpoilt(q)'
  BY <1>0, <1>13
     DEF TypeOK, VisitSkip, Yielded, CleanupUnlink, Visited, RemoveFile
<1>9. ASSUME NEW p \in Procs, CleanupOld(p)
      PROVE  StaleOrSpoilt(q)'
  <2>1. walk[p].cutoff \subseteq expired
    BY <1>0, <1>9 DEF CleanupOld, WalkKept, Walking, Walks
  <2> QED
    BY <1>0, <1>9, <2>1 DEF TypeOK, CleanupOld
<1>10. ASSUME NEW v \in Timed, Expire(v)
       PROVE  StaleOrSpoilt(q)'
  BY <1>0, <1>10 DEF TypeOK, Expire
<1>11. ASSUME NEW lost \in SUBSET Linked, Crash(lost)
       PROVE  StaleOrSpoilt(q)'
  BY <1>11 DEF Crash
<1>12. CASE UNCHANGED vars
  BY <1>0, <1>12 DEF vars
<1> QED
  BY <1>1, <1>2, <1>3, <1>4, <1>5, <1>6, <1>7, <1>8, <1>9, <1>10, <1>11,
     <1>12, <1>13 DEF Next, Run, Call

-----------------------------------------------------------------------------
(* The walks of the file store *)

\* The walk of q goes on as it was, but that it sees the keys in K touched.
Sees(q, K) ==
  /\ walk'[q].dirs = walk[q].dirs /\ walk'[q].todo = walk[q].todo
  /\ walk'[q].hits = walk[q].hits /\ walk'[q].cutoff = walk[q].cutoff
  /\ walk'[q].due = walk[q].due /\ walk'[q].failed = walk[q].failed
  /\ walk'[q].touched = walk[q].touched \cup K

\* A step of somebody else that changes nothing but the files of the keys in K.
LEMMA OtherWalkKept ==
  ASSUME TypeOK, NEW q \in Procs, WalkKept(q), NEW K,
         Walking(q)' => Walking(q) /\ Sees(q, K),
         pc'[q] = pc[q], arg'[q] = arg[q], expired \subseteq expired',
         \A k \in Keys \ K :
           /\ file'[k] = file[k] /\ Content(k)' = Content(k)
           /\ Content(k) \in Values =>
                (Content(k) \in expired' <=> Content(k) \in expired)
  PROVE  WalkKept(q)'
<1> SUFFICES ASSUME Walking(q)'
             PROVE  WalkKept(q)'
  BY DEF WalkKept
<1> DEFINE w == walk[q]
<1>1. Walking(q) /\ Sees(q, K)
  OBVIOUS
<1>2. w.cutoff \subseteq Values
  BY DEF TypeOK, Walkings
<1>3. \A l \in Keys \ K :
        l \in Due(arg[q].op, w.cutoff) <=> l \in Due(arg[q].op, w.cutoff)'
  <2> SUFFICES ASSUME NEW l \in Keys \ K
               PROVE  l \in Due(arg[q].op, w.cutoff)
                        <=> l \in Due(arg[q].op, w.cutoff)'
    OBVIOUS
  <2>1. /\ arg'[q].op = arg[q].op /\ walk'[q].cutoff = w.cutoff
        /\ file'[l] = file[l] /\ Content(l)' = Content(l)
        /\ Content(l) \in Values \ expired <=> Content(l)' \in Values \ expired'
    BY <1>1 DEF Sees
  <2>2. arg[q].op \in Walks
    BY <1>1 DEF Walking
  <2> QED
    BY <2>1, <2>2 DEF Due, Walks
<1> QED
  BY <1>1, <1>3 DEF WalkKept, Sees, Walking

\* Touched says so.
LEMMA TouchedSees ==
  ASSUME TypeOK, NEW p \in Procs, NEW q \in Procs \ {p}, NEW K, Walking(q),
         walk'[q] = Touched(p, K)[q] \/ (K = {} /\ walk'[q] = walk[q])
  PROVE  Sees(q, K)
<1>1. walk[q] \in Walkings
  BY DEF TypeOK
<1>2. CASE walk'[q] = Touched(p, K)[q]
  <2>1. walk'[q] = [walk[q] EXCEPT !.touched = @ \cup K]
    BY <1>2 DEF Touched
  <2> QED
    BY <1>1, <2>1 DEF Walkings, Sees
<1>3. CASE K = {} /\ walk'[q] = walk[q]
  BY <1>3 DEF Sees
<1> QED
  BY <1>2, <1>3

\* A step of p that changes the files of the keys in K, as the other walks see.
LEMMA OthersKept ==
  ASSUME TypeOK, NEW p \in Procs, \A q \in Procs : WalkKept(q), NEW K,
         \A q \in Procs \ {p} :
           /\ pc'[q] = pc[q] /\ arg'[q] = arg[q]
           /\ walk'[q] = Touched(p, K)[q] \/ (K = {} /\ walk'[q] = walk[q]),
         expired' = expired,
         \A k \in Keys \ K : file'[k] = file[k] /\ Content(k)' = Content(k)
  PROVE  \A q \in Procs \ {p} : WalkKept(q)'
<1> SUFFICES ASSUME NEW q \in Procs \ {p}
             PROVE  WalkKept(q)'
  OBVIOUS
<1>1. Walking(q)' => Walking(q)
  BY DEF Walking
<1>2. Walking(q) => Sees(q, K)
  BY TouchedSees
<1> QED
  BY <1>1, <1>2, OtherWalkKept

\* Nobody's walk is disturbed when no file changes.
LEMMA QuietKept ==
  ASSUME TypeOK, NEW p \in Procs, \A q \in Procs : WalkKept(q),
         \A q \in Procs \ {p} :
           pc'[q] = pc[q] /\ arg'[q] = arg[q] /\ walk'[q] = walk[q],
         UNCHANGED <<file, expired>>,
         \A k \in Keys : Content(k)' = Content(k)
  PROVE  \A q \in Procs \ {p} : WalkKept(q)'
BY OthersKept

\* Steps of p that are none of a walk.
LEMMA NoWalkKept ==
  ASSUME IInv, NEW p \in Procs, \A q \in Procs : WalkKept(q),
         \/ OpenTmp(p) \/ WriteTmp(p) \/ WriteFails(p) \/ Rename(p)
         \/ RenameFails(p) \/ RemoveTmp(p) \/ GetOk(p) \/ GetStale(p)
         \/ GetUnlink(p) \/ GetFails(p) \/ Return(p)
         \/ \E k \in Keys : Get(p, k) \/ Delete(p, k) \/ \E v \in Values : Set(p, k, v)
  PROVE  \A q \in Procs : WalkKept(q)'
<1>0. TypeOK /\ CallOK(p) /\ AloneOrSpoilt(p) /\ Apart
  BY DEF IInv
<1>1. ASSUME ~Walking(p)', \A q \in Procs \ {p} : WalkKept(q)'
      PROVE  \A q \in Procs : WalkKept(q)'
  BY <1>1 DEF WalkKept
<1> USE DEF Goto, Hold, NoArg, Walking, Walks
<1>2. CASE OpenTmp(p)
  <2>1. arg[p].key \in Keys /\ tmp \in [Keys -> Inodes \cup {None}]
    BY <1>0, <1>2 DEF TypeOK, CallOK, OpenTmp
  <2>2. PICK i \in Inodes : /\ data' = [data EXCEPT ![i] = Garbage]
                            /\ \A k \in Keys : file[k] # i
    <3>1. PICK i \in (IF tmp[arg[p].key] = None THEN Created
                     ELSE {tmp[arg[p].key]}) : data' = [data EXCEPT ![i] = Garbage]
      BY <1>2 DEF OpenTmp
    <3>2. i \in Inodes /\ \A k \in Keys : file[k] # i
      BY <1>0, <2>1 DEF Created, Unused, Apart
    <3> QED
      BY <3>1, <3>2
  <2>3. \A k \in Keys : Content(k)' = Content(k)
    BY <1>0, <1>2, <2>2 DEF TypeOK, OpenTmp, Content
  <2>4. \A q \in Procs \ {p} : pc'[q] = pc[q] /\ arg'[q] = arg[q]
    BY <1>0, <1>2 DEF TypeOK, OpenTmp
  <2>5. ~Walking(p)'
    BY <1>0, <1>2 DEF TypeOK, OpenTmp
  <2> QED
    BY <1>0, <1>1, <1>2, <2>3, <2>4, <2>5, QuietKept DEF OpenTmp
<1>3. CASE WriteTmp(p) \/ WriteFails(p)
  <2> DEFINE K == {k \in Keys : file[k] = arg[p].fd}
  <2>1. walk' = Touched(p, K) /\ file' = file /\ expired' = expired
    BY <1>3 DEF WriteTmp, WriteFails
  <2>2. \A k \in Keys \ K : Content(k)' = Content(k)
    BY <1>0, <1>3 DEF TypeOK, WriteTmp, WriteFails, Content
  <2>3. \A q \in Procs \ {p} : pc'[q] = pc[q] /\ arg'[q] = arg[q]
    BY <1>0, <1>3 DEF TypeOK, WriteTmp, WriteFails
  <2>4. ~Walking(p)'
    BY <1>0, <1>3 DEF TypeOK, WriteTmp, WriteFails, CallOK
  <2> HIDE DEF K
  <2>5. \A q \in Procs \ {p} : WalkKept(q)'
    BY <1>0, <2>1, <2>2, <2>3, OthersKept
  <2> QED
    BY <1>1, <2>4, <2>5
<1>4. CASE Rename(p)
  <2> DEFINE K == {arg[p].key}
  <2>1. walk' = Touched(p, K) /\ expired' = expired
    BY <1>4 DEF Rename
  <2>2. \A k \in Keys \ K : file'[k] = file[k] /\ Content(k)' = Content(k)
    BY <1>0, <1>4 DEF TypeOK, Rename, Content
  <2>3. \A q \in Procs \ {p} : pc'[q] = pc[q] /\ arg'[q] = arg[q]
    BY <1>0, <1>4 DEF TypeOK, Rename
  <2>4. ~Walking(p)'
    BY <1>0, <1>4 DEF TypeOK, Rename
  <2> HIDE DEF K
  <2>5. \A q \in Procs \ {p} : WalkKept(q)'
    BY <1>0, <2>1, <2>2, <2>3, OthersKept
  <2> QED
    BY <1>1, <2>4, <2>5
<1>5. CASE RenameFails(p) \/ GetOk(p) \/ GetStale(p) \/ GetFails(p)
           \/ \E k \in Keys : Get(p, k) \/ \E v \in Values : Set(p, k, v)
  <2>1. \A k \in Keys : Content(k)' = Content(k)
    BY <1>5 DEF RenameFails, GetOk, GetStale, GetFails, Get, Set, disk, Content
  <2>2. \A q \in Procs \ {p} : pc'[q] = pc[q] /\ arg'[q] = arg[q]
    BY <1>0, <1>5 DEF TypeOK, RenameFails, GetOk, GetStale, GetFails, Get, Set
  <2>3. ~Walking(p)'
    BY <1>0, <1>5 DEF TypeOK, RenameFails, GetOk, GetStale, GetFails, Get, Set
  <2>4. UNCHANGED <<file, expired, walk>>
    BY <1>5 DEF RenameFails, GetOk, GetStale, GetFails, Get, Set, disk
  <2> QED
    BY <1>0, <1>1, <2>1, <2>2, <2>3, <2>4, QuietKept
<1>6. CASE RemoveTmp(p) \/ Return(p)
  <2>1. \A k \in Keys : Content(k)' = Content(k)
    BY <1>6 DEF RemoveTmp, Return, disk, Content
  <2>2. \A q \in Procs \ {p} :
          pc'[q] = pc[q] /\ arg'[q] = arg[q] /\ walk'[q] = walk[q]
    BY <1>0, <1>6 DEF TypeOK, RemoveTmp, Return
  <2>3. ~Walking(p)'
    BY <1>0, <1>6 DEF TypeOK, RemoveTmp, Return
  <2>4. UNCHANGED <<file, expired>>
    BY <1>6 DEF RemoveTmp, Return, disk
  <2> QED
    BY <1>0, <1>1, <2>1, <2>2, <2>3, <2>4, QuietKept
<1>7. CASE GetUnlink(p)
  <2> DEFINE K == {arg[p].key}
  <2>1. walk' = Touched(p, K) /\ expired' = expired
    BY <1>7 DEF GetUnlink, RemoveFile
  <2>2. \A k \in Keys \ K : file'[k] = file[k] /\ Content(k)' = Content(k)
    BY <1>0, <1>7 DEF TypeOK, GetUnlink, RemoveFile, Content
  <2>3. \A q \in Procs \ {p} : pc'[q] = pc[q] /\ arg'[q] = arg[q]
    BY <1>0, <1>7 DEF TypeOK, GetUnlink
  <2>4. ~Walking(p)'
    BY <1>0, <1>7 DEF TypeOK, GetUnlink
  <2> HIDE DEF K
  <2>5. \A q \in Procs \ {p} : WalkKept(q)'
    BY <1>0, <2>1, <2>2, <2>3, OthersKept
  <2> QED
    BY <1>1, <2>4, <2>5
<1>8. ASSUME NEW k \in Keys, Delete(p, k)
      PROVE  \A q \in Procs : WalkKept(q)'
  <2>1. walk' = Touched(p, {k}) /\ expired' = expired
    BY <1>8 DEF Delete, RemoveFile
  <2>2. \A l \in Keys \ {k} : file'[l] = file[l] /\ Content(l)' = Content(l)
    BY <1>0, <1>8 DEF TypeOK, Delete, RemoveFile, Content
  <2>3. \A q \in Procs \ {p} : pc'[q] = pc[q] /\ arg'[q] = arg[q]
    BY <1>8 DEF Delete
  <2>4. ~Walking(p)'
    BY <1>8 DEF Delete
  <2>5. \A q \in Procs \ {p} : WalkKept(q)'
    BY <1>0, <2>1, <2>2, <2>3, OthersKept
  <2> QED
    BY <1>1, <2>4, <2>5
<1> QED
  BY <1>2, <1>3, <1>4, <1>5, <1>6, <1>7, <1>8

\* The visit of k is over: the walk of p has acted on it, as it was meant to, or
\* has left it as it is, not being meant to act on it.
LEMMA VisitKept ==
  ASSUME TypeOK, NEW p \in Procs, WalkKept(p), Walking(p), NEW k \in Keys,
         NEW K \in SUBSET {k}, NEW w \in [Procs -> Walkings], w[p] = walk[p],
         Visited(p, k, K, w), expired' = expired,
         \A l \in Keys \ K : file'[l] = file[l] /\ Content(l)' = Content(l),
         k \notin walk[p].touched \cup walk[p].hits =>
           (k \in walk[p].due <=> K = {k})
  PROVE  WalkKept(p)'
<1> DEFINE ww == walk[p]
<1>1. /\ pc'[p] = "walk" /\ arg'[p].op = arg[p].op
      /\ walk' = [w EXCEPT ![p] = [ww EXCEPT !.todo = @ \ {k}, !.hits = @ \cup K]]
  BY DEF Visited, Goto, Hold, TypeOK
<1>2. walk'[p] = [ww EXCEPT !.todo = @ \ {k}, !.hits = @ \cup K]
  BY <1>1
<1>3. /\ walk'[p].dirs = ww.dirs /\ walk'[p].todo = ww.todo \ {k}
      /\ walk'[p].hits = ww.hits \cup K /\ walk'[p].cutoff = ww.cutoff
      /\ walk'[p].due = ww.due /\ walk'[p].touched = ww.touched
      /\ walk'[p].failed = ww.failed
  BY <1>2 DEF TypeOK, Walkings
<1>4. \A l \in Keys \ K :
        l \in Due(arg[p].op, ww.cutoff) <=> l \in Due(arg[p].op, ww.cutoff)'
  <2> SUFFICES ASSUME NEW l \in Keys \ K
               PROVE  l \in Due(arg[p].op, ww.cutoff)
                        <=> l \in Due(arg[p].op, ww.cutoff)'
    OBVIOUS
  <2>1. /\ arg'[p].op = arg[p].op /\ walk'[p].cutoff = ww.cutoff
        /\ file'[l] = file[l] /\ Content(l)' = Content(l)
        /\ Content(l) \in Values \ expired <=> Content(l)' \in Values \ expired'
    BY <1>1, <1>3
  <2>2. arg[p].op \in Walks
    BY DEF Walking
  <2> QED
    BY <2>1, <2>2 DEF Due, Walks
<1> QED
  BY <1>1, <1>3, <1>4 DEF WalkKept, Walking

\* The walk of p drops the keys in F as failed; D and T are left to do.
Drops(p, F, D, T) ==
  /\ walk' = [walk EXCEPT ![p] = [walk[p] EXCEPT !.dirs = D, !.todo = T,
                                                !.failed = @ \cup F]]
  /\ D \subseteq walk[p].dirs /\ T \subseteq walk[p].todo
  /\ walk[p].todo \ T \subseteq F
  /\ \A k \in Keys : SubDir[k] \in walk[p].dirs \ D => k \in F
  /\ pc'[p] = "walk" /\ arg'[p].op = arg[p].op
  /\ \A q \in Procs \ {p} : pc'[q] = pc[q] /\ arg'[q] = arg[q]

\* The walk of p fails on a file, or on a subdirectory, and goes on without.
LEMMA FailsKept ==
  ASSUME IInv, NEW p \in Procs, \A q \in Procs : WalkKept(q),
         \/ \E k \in Keys : VisitFails(p, k)
         \/ \E dir \in Dirs : NamesFail(p, dir)
  PROVE  \A q \in Procs : WalkKept(q)'
<1> DEFINE w == walk[p]
<1>0. TypeOK /\ WalkKept(p) /\ CallOK(p) /\ w \in Walkings
  BY DEF IInv, TypeOK
<1>1. UNCHANGED <<disk, expired>>
  BY Zenon DEF VisitFails, NamesFail
<1>2. \A k \in Keys : Content(k)' = Content(k)
  BY <1>1 DEF Content, disk
<1>3. Walking(p)
  <2>1. ASSUME NEW dir \in Dirs, NamesFail(p, dir)
        PROVE  pc[p] = "walk"
    BY <2>1 DEF NamesFail
  <2>2. ASSUME NEW k \in Keys, VisitFails(p, k)
        PROVE  pc[p] = "walk" \/ (pc[p] = "unlink" /\ arg[p].op = "cleanup")
    BY <2>2 DEF VisitFails, Visits
  <2> QED
    BY <1>0, <2>1, <2>2 DEF Walking, Walks, CallOK
<1>4. \E F \in SUBSET Keys, D \in SUBSET Dirs, T \in SUBSET Keys : Drops(p, F, D, T)
  <2>1. ASSUME NEW k \in Keys, VisitFails(p, k)
        PROVE  /\ walk' = [walk EXCEPT ![p] =
                    [w EXCEPT !.dirs = w.dirs, !.todo = w.todo \ {k},
                              !.failed = @ \cup {k}]]
               /\ pc'[p] = "walk" /\ arg'[p].op = arg[p].op
               /\ \A q \in Procs \ {p} : pc'[q] = pc[q] /\ arg'[q] = arg[q]
    <3> DEFINE f == [walk EXCEPT ![p].failed = @ \cup {k}]
    <3>1. /\ walk' = [f EXCEPT ![p].todo = @ \ {k}, ![p].hits = @ \cup {}]
          /\ Goto(p, "walk") /\ Hold(p, arg[p].op, None, None, None)
      BY <2>1 DEF VisitFails, Visited
    <3>2. f[p] = [w EXCEPT !.failed = @ \cup {k}] /\ walk \in [Procs -> Walkings]
      BY <1>0 DEF TypeOK
    <3>3. [f[p] EXCEPT !.todo = @ \ {k}, !.hits = @ \cup {}]
            = [w EXCEPT !.dirs = w.dirs, !.todo = w.todo \ {k},
                        !.failed = @ \cup {k}]
      BY <1>0, <3>2 DEF Walkings
    <3>4. walk' = [walk EXCEPT ![p] = [f[p] EXCEPT !.todo = @ \ {k}, !.hits = @ \cup {}]]
      <4> DEFINE g == [f[p] EXCEPT !.todo = @ \ {k}, !.hits = @ \cup {}]
      <4>1. f \in [Procs -> Walkings]
        BY <1>0, <3>2 DEF Walkings
      <4>2. walk' = [f EXCEPT ![p] = g]
        BY <3>1, <4>1, Zenon DEF Walkings
      <4> HIDE DEF g
      <4>3. [f EXCEPT ![p] = g] = [walk EXCEPT ![p] = g]
        BY <3>2
      <4> QED
        BY <4>2, <4>3 DEF g
    <3> QED
      BY <1>0, <3>1, <3>3, <3>4 DEF Goto, Hold, TypeOK
  <2>2. ASSUME NEW dir \in Dirs, NamesFail(p, dir)
        PROVE  LET F == {k \in Keys : SubDir[k] = dir} IN
               /\ walk' = [walk EXCEPT ![p] =
                    [w EXCEPT !.dirs = w.dirs \ {dir}, !.todo = w.todo,
                              !.failed = @ \cup F]]
               /\ pc[p] = "walk" /\ UNCHANGED <<pc, arg>>
    <3> DEFINE F == {k \in Keys : SubDir[k] = dir}
    <3>1. /\ walk' = [walk EXCEPT ![p].dirs = @ \ {dir}, ![p].failed = @ \cup F]
          /\ pc[p] = "walk" /\ UNCHANGED <<pc, arg>>
      BY <2>2, Zenon DEF NamesFail
    <3> HIDE DEF F
    <3>2. [w EXCEPT !.dirs = @ \ {dir}, !.failed = @ \cup F]
            = [w EXCEPT !.dirs = w.dirs \ {dir}, !.todo = w.todo,
                        !.failed = @ \cup F]
      BY <1>0 DEF Walkings
    <3> QED
      BY <1>0, <3>1, <3>2 DEF F, TypeOK
  <2>3. w.dirs \subseteq Dirs /\ w.todo \subseteq Keys
    BY <1>0 DEF Walkings
  <2>4. ASSUME NEW k \in Keys, VisitFails(p, k)
        PROVE  Drops(p, {k}, w.dirs, w.todo \ {k})
    BY <2>1, <2>3, <2>4 DEF Drops
  <2>5. ASSUME NEW dir \in Dirs, NamesFail(p, dir)
        PROVE  Drops(p, {k \in Keys : SubDir[k] = dir}, w.dirs \ {dir}, w.todo)
    <3> DEFINE F == {k \in Keys : SubDir[k] = dir}
    <3>1. \A k \in Keys : SubDir[k] \in w.dirs \ (w.dirs \ {dir}) => k \in F
      OBVIOUS
    <3>2. /\ walk' = [walk EXCEPT ![p] =
                [w EXCEPT !.dirs = w.dirs \ {dir}, !.todo = w.todo,
                          !.failed = @ \cup F]]
          /\ pc'[p] = "walk" /\ arg'[p].op = arg[p].op
          /\ \A q \in Procs \ {p} : pc'[q] = pc[q] /\ arg'[q] = arg[q]
      BY <2>2, <2>5
    <3> HIDE DEF F
    <3> DEFINE D == w.dirs \ {dir}
    <3>3. D \subseteq w.dirs /\ w.todo \subseteq w.todo /\ w.todo \ w.todo \subseteq F
      OBVIOUS
    <3>4. Drops(p, F, D, w.todo)
      BY <3>1, <3>2, <3>3 DEF Drops
    <3> QED
      BY <3>4 DEF F
  <2>6. CASE \E k \in Keys : VisitFails(p, k)
    <3>1. PICK k \in Keys : VisitFails(p, k)
      BY <2>6
    <3>2. {k} \in SUBSET Keys /\ w.dirs \in SUBSET Dirs /\ w.todo \ {k} \in SUBSET Keys
      BY <2>3
    <3> QED
      BY <2>4, <3>1, <3>2
  <2>7. CASE \E dir \in Dirs : NamesFail(p, dir)
    <3>1. PICK dir \in Dirs : NamesFail(p, dir)
      BY <2>7
    <3>2. /\ {k \in Keys : SubDir[k] = dir} \in SUBSET Keys
          /\ w.dirs \ {dir} \in SUBSET Dirs /\ w.todo \in SUBSET Keys
      BY <2>3
    <3> QED
      BY <2>5, <3>1, <3>2
  <2> QED
    BY <2>6, <2>7
<1>5. PICK F \in SUBSET Keys, D \in SUBSET Dirs, T \in SUBSET Keys : Drops(p, F, D, T)
  BY <1>4
<1>6. \A q \in Procs \ {p} :
        walk'[q] = walk[q] /\ pc'[q] = pc[q] /\ arg'[q] = arg[q]
  BY <1>5 DEF Drops
<1>7. /\ walk'[p].dirs = D /\ walk'[p].todo = T /\ walk'[p].hits = w.hits
      /\ walk'[p].failed = w.failed \cup F /\ walk'[p].cutoff = w.cutoff
      /\ walk'[p].due = w.due /\ walk'[p].touched = w.touched
  BY <1>0, <1>5 DEF Drops, TypeOK, Walkings
<1>8. /\ D \subseteq w.dirs /\ T \subseteq w.todo /\ w.todo \ T \subseteq F
      /\ \A k \in Keys : SubDir[k] \in w.dirs \ D => k \in F
      /\ pc'[p] = "walk" /\ arg'[p].op = arg[p].op
  BY <1>5 DEF Drops
<1>9. \A q \in Procs \ {p} : WalkKept(q)'
  BY <1>0, <1>1, <1>2, <1>6, QuietKept DEF disk
<1>10. Due(arg[p].op, w.cutoff) = Due(arg[p].op, walk[p].cutoff)'
  BY <1>1, <1>2, <1>3, <1>7, <1>8 DEF Due, Walking, Walks, disk
<1>11. WalkKept(p)'
  BY <1>0, <1>1, <1>3, <1>7, <1>8, <1>10 DEF WalkKept, Walking, disk
<1> QED
  BY <1>9, <1>11

\* A walk of p begins, goes on to another file, or ends.
LEMMA WalkStepKept ==
  ASSUME IInv, NEW p \in Procs, \A q \in Procs : WalkKept(q),
         \/ \E op \in Walks : StartWalk(p, op)
         \/ \E dir \in Dirs : ReadNames(p, dir)
         \/ EndWalk(p)
  PROVE  \A q \in Procs : WalkKept(q)'
<1>0. TypeOK /\ WalkKept(p)
  BY DEF IInv
<1> DEFINE w == walk[p]
<1>1. ASSUME NEW op \in Walks, StartWalk(p, op)
      PROVE  \A q \in Procs : WalkKept(q)'
  <2>1. /\ UNCHANGED <<disk, expired, spoilt>> /\ pc[p] = "idle"
        /\ Goto(p, "walk") /\ Hold(p, op, None, None, None)
        /\ walk' = [walk EXCEPT ![p] =
             [NoWalk EXCEPT !.dirs = Dirs, !.due = Due(op, expired),
                            !.cutoff = IF op = "cleanup" THEN expired ELSE {}]]
    BY <1>1, Zenon DEF StartWalk
  <2>2. \A k \in Keys : Content(k)' = Content(k)
    BY <2>1 DEF Content, disk
  <2>3. \A q \in Procs \ {p} : WalkKept(q)'
    BY <1>0, <2>1, <2>2, QuietKept DEF TypeOK, Goto, Hold, disk
  <2>4. /\ walk'[p].dirs = Dirs /\ walk'[p].todo = {} /\ walk'[p].hits = {}
        /\ walk'[p].cutoff = (IF op = "cleanup" THEN expired ELSE {})
        /\ walk'[p].due = Due(op, expired) /\ walk'[p].touched = {}
    BY <1>0, <2>1 DEF TypeOK, NoWalk
  <2>5. pc'[p] = "walk" /\ arg'[p].op = op
    BY <1>0, <2>1 DEF TypeOK, Goto, Hold
  <2>6. Due(op, expired) = Due(op, walk[p].cutoff)'
    BY <2>1, <2>2, <2>4 DEF Due, Walks, disk
  <2>7. \A l \in Keys : SubDir[l] \in Dirs
    BY LocalFSConstants
  <2>8. WalkKept(p)'
    BY <2>1, <2>4, <2>5, <2>6, <2>7 DEF WalkKept, disk
  <2> QED
    BY <2>3, <2>8
<1>2. ASSUME NEW dir \in Dirs, ReadNames(p, dir)
      PROVE  \A q \in Procs : WalkKept(q)'
  <2> DEFINE names == {k \in Keys : SubDir[k] = dir /\ file[k] # None}
  <2>1. /\ UNCHANGED <<disk, expired, pc, arg, spoilt>> /\ pc[p] = "walk"
        /\ w.todo = {} /\ dir \in w.dirs
        /\ walk' = [walk EXCEPT ![p] =
             [walk[p] EXCEPT !.dirs = @ \ {dir}, !.todo = names]]
    BY <1>2 DEF ReadNames
  <2>2. \A k \in Keys : Content(k)' = Content(k)
    BY <2>1 DEF Content, disk
  <2>3. \A q \in Procs \ {p} : WalkKept(q)'
    BY <1>0, <2>1, <2>2, QuietKept DEF TypeOK, disk
  <2>4. /\ walk'[p].dirs = w.dirs \ {dir} /\ walk'[p].todo = names
        /\ walk'[p].hits = w.hits /\ walk'[p].cutoff = w.cutoff
        /\ walk'[p].failed = w.failed
        /\ walk'[p].due = w.due /\ walk'[p].touched = w.touched
    BY <1>0, <2>1 DEF TypeOK, Walkings
  <2>5. ASSUME Walking(p)
        PROVE  Due(arg[p].op, w.cutoff) = Due(arg[p].op, w.cutoff)'
    BY <2>1, <2>2, <2>4, <2>5 DEF Due, Walking, Walks, disk
  <2>6. ASSUME Walking(p), NEW l \in Due(arg[p].op, w.cutoff)
        PROVE  l \in Keys /\ file[l] # None
    BY <1>0, <2>6, LocalFSConstants
       DEF Due, Walking, Walks, Content, TypeOK, Walkings
  <2>7. WalkKept(p)'
    BY <1>0, <2>1, <2>4, <2>5, <2>6 DEF WalkKept, Walking, disk
  <2> QED
    BY <2>3, <2>7
<1>3. ASSUME EndWalk(p)
      PROVE  \A q \in Procs : WalkKept(q)'
  <2>1. \A k \in Keys : Content(k)' = Content(k)
    BY <1>3 DEF EndWalk, Content, disk
  <2>2. \A q \in Procs \ {p} : WalkKept(q)'
    BY <1>0, <1>3, <2>1, QuietKept DEF TypeOK, EndWalk, Goto, disk
  <2>3. Walking(p) => Due(arg[p].op, w.cutoff) = Due(arg[p].op, w.cutoff)'
    BY <1>3, <2>1 DEF Due, Walking, Walks, EndWalk, disk
  <2>4. WalkKept(p)'
    BY <1>0, <1>3, <2>3 DEF TypeOK, WalkKept, Walking, EndWalk, Goto, disk
  <2> QED
    BY <2>2, <2>4
<1> QED
  BY <1>1, <1>2, <1>3

\* The walk of p visits a file.
LEMMA VisitsKept ==
  ASSUME IInv, NEW p \in Procs, \A q \in Procs : WalkKept(q),
         \/ \E k \in Keys : \/ VisitGone(p, k) \/ VisitLen(p, k)
                            \/ VisitFlush(p, k)
         \/ VisitSkip(p) \/ Yielded(p) \/ CleanupUnlink(p)
  PROVE  \A q \in Procs : WalkKept(q)'
<1>0. TypeOK /\ WalkKept(p) /\ CallOK(p) /\ walk \in [Procs -> Walkings]
  BY DEF IInv, TypeOK
<1>1. ASSUME NEW k \in Keys, NEW w, Visited(p, k, {}, w) \/ Visited(p, k, {k}, w),
             w = walk \/ w = Touched(p, {k}), w \in [Procs -> Walkings]
      PROVE  /\ w[p] = walk[p]
             /\ \A q \in Procs \ {p} : /\ pc'[q] = pc[q] /\ arg'[q] = arg[q]
                                      /\ walk'[q] = w[q]
  <2>1. w[p] = walk[p]
    BY <1>1 DEF Touched
  <2>2. walk' = [w EXCEPT ![p].todo = @ \ {k}, ![p].hits = @ \cup {}]
        \/ walk' = [w EXCEPT ![p].todo = @ \ {k}, ![p].hits = @ \cup {k}]
    BY <1>1 DEF Visited
  <2>3. \A q \in Procs \ {p} : walk'[q] = w[q]
    BY <1>1, <2>2
  <2> QED
    BY <1>0, <1>1, <2>1, <2>3 DEF Visited, Goto, Hold, TypeOK
<1>2. ASSUME NEW k \in Keys, NEW K \in {{}, {k}}, Visited(p, k, K, walk),
             UNCHANGED <<disk, expired>>, Walking(p),
             k \notin walk[p].touched \cup walk[p].hits =>
               (k \in walk[p].due <=> K = {k})
      PROVE  \A q \in Procs : WalkKept(q)'
  <2>1. \A l \in Keys : file'[l] = file[l] /\ Content(l)' = Content(l)
    BY <1>2 DEF disk, Content
  <2>2. \A q \in Procs \ {p} :
          pc'[q] = pc[q] /\ arg'[q] = arg[q] /\ walk'[q] = walk[q]
    <3>1. Visited(p, k, {}, walk) \/ Visited(p, k, {k}, walk)
      BY <1>2
    <3> QED
      BY <1>0, <1>1, <3>1
  <2>3. \A q \in Procs \ {p} : WalkKept(q)'
    BY <1>0, <1>2, <2>1, <2>2, QuietKept DEF disk
  <2>4. WalkKept(p)'
    BY <1>0, <1>2, <2>1, VisitKept
  <2> QED
    BY <2>3, <2>4
<1>3. ASSUME NEW k \in Keys, Visited(p, k, {k}, Touched(p, {k})),
             RemoveFile(k), Walking(p),
             k \notin walk[p].touched \cup walk[p].hits => k \in walk[p].due
      PROVE  \A q \in Procs : WalkKept(q)'
  <2>0. Touched(p, {k}) \in [Procs -> Walkings]
    BY <1>0, TouchedTyped
  <2>1. \A l \in Keys \ {k} : file'[l] = file[l] /\ Content(l)' = Content(l)
    BY <1>0, <1>3 DEF RemoveFile, TypeOK, Content
  <2>2. /\ Touched(p, {k})[p] = walk[p]
        /\ \A q \in Procs \ {p} : /\ pc'[q] = pc[q] /\ arg'[q] = arg[q]
                                 /\ walk'[q] = Touched(p, {k})[q]
    BY <1>1, <1>3, <2>0
  <2>3. \A q \in Procs \ {p} : WalkKept(q)'
    BY <1>0, <1>3, <2>1, <2>2, OthersKept DEF RemoveFile
  <2>4. WalkKept(p)'
    BY <1>0, <1>3, <2>0, <2>1, <2>2, VisitKept DEF RemoveFile
  <2> QED
    BY <2>3, <2>4
<1>4. ASSUME NEW k \in Keys, VisitGone(p, k)
      PROVE  \A q \in Procs : WalkKept(q)'
  <2>0. Walking(p)
    BY <1>0, <1>4 DEF VisitGone, Visits, Walking, CallOK
  <2>1. k \notin Due(arg[p].op, walk[p].cutoff)
    BY <1>0, <1>4, <2>0, LocalFSConstants
       DEF VisitGone, Due, Walking, Walks, Content, TypeOK, Walkings
  <2>2. k \notin walk[p].touched \cup walk[p].hits => k \notin walk[p].due
    BY <1>0, <1>4, <2>0, <2>1 DEF WalkKept
  <2> QED
    BY <1>2, <1>4, <2>0, <2>2 DEF VisitGone
<1>5. ASSUME NEW k \in Keys, VisitLen(p, k)
      PROVE  \A q \in Procs : WalkKept(q)'
  <2>1. Walking(p)
    BY <1>5 DEF VisitLen, Visits, Walking, Walks
  <2>2. k \in Due(arg[p].op, walk[p].cutoff)
    BY <1>5 DEF VisitLen, Due
  <2>3. k \notin walk[p].touched \cup walk[p].hits => k \in walk[p].due
    BY <1>0, <2>1, <2>2 DEF WalkKept
  <2> QED
    BY <1>2, <1>5, <2>1, <2>3 DEF VisitLen
<1>6. ASSUME NEW k \in Keys, VisitFlush(p, k)
      PROVE  \A q \in Procs : WalkKept(q)'
  <2>1. Walking(p)
    BY <1>6 DEF VisitFlush, Visits, Walking, Walks
  <2>2. file[k] # None => k \in Due(arg[p].op, walk[p].cutoff)
    BY <1>6 DEF VisitFlush, Due
  <2>3. k \notin walk[p].touched \cup walk[p].hits => k \in walk[p].due
    BY <1>0, <1>6, <2>1, <2>2 DEF WalkKept, VisitFlush, Visits
  <2> QED
    BY <1>3, <1>6, <2>1, <2>3 DEF VisitFlush
<1>7. ASSUME VisitSkip(p)
      PROVE  \A q \in Procs : WalkKept(q)'
  <2> DEFINE k == arg[p].key
  <2>1. Walking(p) /\ k \in Keys
    BY <1>0, <1>7 DEF VisitSkip, Walking, Walks, CallOK
  <2>2. file[k] = arg[p].fd => k \notin Due(arg[p].op, walk[p].cutoff)
    BY <1>0, <1>7, LocalFSConstants
       DEF VisitSkip, Due, Current, Decodes, Content, TypeOK, Walkings
  <2>3. k \notin walk[p].touched \cup walk[p].hits => k \notin walk[p].due
    BY <1>0, <1>7, <2>1, <2>2 DEF WalkKept, VisitSkip
  <2> QED
    BY <1>2, <1>7, <2>1, <2>3 DEF VisitSkip
<1>8. ASSUME Yielded(p)
      PROVE  \A q \in Procs : WalkKept(q)'
  <2> DEFINE k == arg[p].key
  <2>1. Walking(p) /\ k \in Keys
    BY <1>0, <1>8 DEF Yielded, Walking, CallOK
  <2>2. k \notin walk[p].touched \cup walk[p].hits => k \in walk[p].due
    BY <1>0, <1>8, <2>1 DEF WalkKept, Yielded
  <2> QED
    BY <1>2, <1>8, <2>1, <2>2 DEF Yielded
<1>9. ASSUME CleanupUnlink(p)
      PROVE  \A q \in Procs : WalkKept(q)'
  <2> DEFINE k == arg[p].key
  <2>1. Walking(p) /\ k \in Keys
    BY <1>0, <1>9 DEF CleanupUnlink, Walking, Walks, CallOK
  <2>2. k \notin walk[p].touched \cup walk[p].hits => k \in walk[p].due
    BY <1>0, <1>9, <2>1 DEF WalkKept, CleanupUnlink
  <2> QED
    BY <1>3, <1>9, <2>1, <2>2 DEF CleanupUnlink
<1> QED
  BY <1>4, <1>5, <1>6, <1>7, <1>8, <1>9

\* The walk of p opens a file, and yields or unlinks what it has read.
LEMMA ReadsKept ==
  ASSUME WalkInv, NEW p \in Procs,
         \/ \E k \in Keys : VisitOpen(p, k)
         \/ Yield(p) \/ CleanupOld(p)
  PROVE  \A q \in Procs : WalkKept(q)'
<1> DEFINE w == walk[p]
<1>0. /\ TypeOK /\ CallOK(p) /\ StaleOrSpoilt(p)
      /\ \A q \in Procs : WalkKept(q)
  BY DEF IInv, WalkInv
<1>1. UNCHANGED <<disk, expired, walk>>
  BY DEF VisitOpen, Yield, CleanupOld
<1>2. \A k \in Keys : Content(k)' = Content(k)
  BY <1>1 DEF Content, disk
<1>3. \A q \in Procs \ {p} : pc'[q] = pc[q] /\ arg'[q] = arg[q]
  BY <1>0 DEF TypeOK, VisitOpen, Yield, CleanupOld, Goto, Hold
<1>4. \A q \in Procs \ {p} : WalkKept(q)'
  BY <1>0, <1>1, <1>2, <1>3, QuietKept DEF disk
<1>5. Walking(p) /\ Walking(p)' /\ arg'[p].op = arg[p].op
  BY <1>0 DEF TypeOK, VisitOpen, Visits, Yield, CleanupOld, Goto, Hold,
              Walking, Walks, CallOK
<1>6. Due(arg[p].op, w.cutoff) = Due(arg[p].op, w.cutoff)'
  BY <1>1, <1>2, <1>5 DEF Due, Walking, Walks, disk
<1>7. ASSUME arg'[p].key \in Keys \ w.touched
      PROVE  /\ pc'[p] \in {"read", "unlink"} => file[arg'[p].key] = arg'[p].fd
             /\ pc'[p] \in {"unlink", "yield"} => arg'[p].key \in w.due
  <2>1. ASSUME NEW k \in Keys, VisitOpen(p, k)
        PROVE  pc'[p] = "read" /\ file[arg'[p].key] = arg'[p].fd
    BY <1>0, <2>1 DEF TypeOK, VisitOpen, Goto, Hold
  <2>2. ASSUME Yield(p) \/ CleanupOld(p)
        PROVE  /\ arg[p].key \in Keys /\ arg'[p].key = arg[p].key
               /\ pc[p] = "read"
               /\ pc'[p] = "yield" \/ (pc'[p] = "unlink" /\ arg'[p].fd = arg[p].fd)
    BY <1>0, <2>2 DEF TypeOK, Yield, CleanupOld, Goto, Hold, CallOK
  <2>3. ASSUME Yield(p) \/ CleanupOld(p), file[arg[p].key] = arg[p].fd
        PROVE  arg[p].key \in Due(arg[p].op, w.cutoff)
    <3>1. arg[p].key \in Keys
      BY <2>2, <2>3
    <3>2. Content(arg[p].key) = data[arg[p].fd]
      BY <1>0, <2>2, <2>3, LocalFSConstants DEF Content, StaleOrSpoilt
    <3> QED
      BY <2>3, <3>1, <3>2 DEF Yield, CleanupOld, Current, Decodes, Due
  <2>4. ASSUME Yield(p) \/ CleanupOld(p)
        PROVE  arg[p].key \in w.due /\ file[arg[p].key] = arg[p].fd
    BY <1>0, <1>5, <1>7, <2>2, <2>3, <2>4 DEF WalkKept
  <2> QED
    BY <2>1, <2>2, <2>4
<1>8. WalkKept(p)'
  BY <1>0, <1>1, <1>5, <1>6, <1>7 DEF WalkKept, disk
<1> QED
  BY <1>4, <1>8

\* Time passes, or the process dies.
LEMMA FateKept ==
  ASSUME IInv, \A q \in Procs : WalkKept(q),
         \/ \E v \in Timed : Expire(v)
         \/ \E lost \in SUBSET Linked : Crash(lost)
  PROVE  \A q \in Procs : WalkKept(q)'
<1>1. ASSUME NEW v \in Timed, Expire(v), NEW q \in Procs
      PROVE  WalkKept(q)'
  <2> DEFINE K == {k \in Keys : Content(k) = v}
  <2>1. /\ pc'[q] = pc[q] /\ arg'[q] = arg[q] /\ expired' = expired \cup {v}
        /\ \A k \in Keys : file'[k] = file[k] /\ Content(k)' = Content(k)
    BY <1>1 DEF Expire, disk, Content
  <2>2. Walking(q) => walk'[q] = [walk[q] EXCEPT !.touched = @ \cup K]
    BY <1>1 DEF Expire
  <2>3. walk[q] \in Walkings
    BY DEF IInv, TypeOK
  <2> HIDE DEF K
  <2>4. Walking(q)' => Walking(q) /\ Sees(q, K)
    BY <2>1, <2>2, <2>3 DEF Walking, Walkings, Sees
  <2>5. \A k \in Keys \ K : Content(k) # v
    BY DEF K
  <2> QED
    BY <2>1, <2>4, <2>5, OtherWalkKept DEF IInv
<1>2. ASSUME NEW lost \in SUBSET Linked, Crash(lost), NEW q \in Procs
      PROVE  WalkKept(q)'
  BY <1>2 DEF Crash, WalkKept, Walking
<1> QED
  BY <1>1, <1>2

LEMMA NextWalkInv ==
  ASSUME WalkInv, [Next]_vars
  PROVE  WalkInv'
<1>1. IInv /\ IInv' /\ \A q \in Procs : StaleOrSpoilt(q)' /\ WalkKept(q)
  BY NextKeeps, NextStale DEF WalkInv
<1>2. ASSUME NEW p \in Procs, Run(p) \/ Call(p)
      PROVE  \A q \in Procs : WalkKept(q)'
  BY <1>1, <1>2, NoWalkKept, WalkStepKept, VisitsKept, ReadsKept, FailsKept
     DEF Run, Call, WalkInv
<1>3. CASE \/ \E v \in Timed : Expire(v)
           \/ \E lost \in SUBSET Linked : Crash(lost)
  BY <1>1, <1>3, FateKept DEF WalkInv
<1>4. ASSUME UNCHANGED vars, NEW q \in Procs
      PROVE  WalkKept(q)'
  <2>1. UNCHANGED <<disk, expired, pc, arg, walk>>
    BY <1>4 DEF vars
  <2>2. Walking(q) => Due(arg[q].op, walk[q].cutoff)
                        = Due(arg[q].op, walk[q].cutoff)'
    BY <2>1 DEF Due, Walking, Walks, Content, disk
  <2> QED
    BY <1>1, <2>1, <2>2 DEF WalkKept, Walking, disk
<1> QED
  BY <1>1, <1>2, <1>3, <1>4 DEF Next, WalkInv

\* A walk that has nothing ahead of it has acted on what it was meant to, or has
\* failed there.
LEMMA WalksEndExact == WalkInv => WalkExact
<1> SUFFICES ASSUME WalkInv, NEW p \in Procs, Walking(p),
                    walk[p].dirs \cup walk[p].todo = {}
             PROVE  LET w == walk[p] IN
                    /\ w.hits \ w.touched \subseteq w.due
                    /\ w.due \ w.touched \subseteq w.hits \cup w.failed
  BY DEF WalkExact
<1>1. walk[p].hits \subseteq Keys /\ walk[p].due \subseteq Keys
  BY DEF WalkInv, IInv, TypeOK, Walkings
<1>2. \A l \in Keys \ walk[p].touched :
        /\ l \in walk[p].hits => l \in walk[p].due
        /\ l \in walk[p].due => l \in walk[p].hits \cup walk[p].failed
  BY DEF WalkInv, WalkKept
<1> QED
  BY <1>1, <1>2

\* A file goes by name, and its entry had been read and found to be stale, or is
\* not the one that was read.
LEMMA FreshRemoved ==
  ASSUME WalkInv, [Next]_vars, NEW k \in Keys,
         Content(k) \in Values \ expired, file'[k] = None
  PROVE  \E p \in Procs :
           \/ Delete(p, k)
           \/ Visits(p, k) /\ arg[p].op = "flush"
           \/ Unlinks(p, k) /\ (arg[p].fd # file[k] \/ file[k] \in spoilt)
<1>0. /\ TypeOK /\ file[k] # None /\ Content(k) = data[file[k]]
      /\ \A p \in Procs : CallOK(p) /\ StaleOrSpoilt(p)
  BY LocalFSConstants DEF WalkInv, IInv, Content
<1>1. file' # file
  BY <1>0
<1>2. ASSUME NEW p \in Procs, OpenTmp(p) \/ WriteTmp(p) \/ WriteFails(p)
             \/ RenameFails(p) \/ RemoveTmp(p) \/ GetOk(p) \/ GetStale(p)
             \/ GetFails(p) \/ VisitSkip(p) \/ Yield(p) \/ Yielded(p) \/ CleanupOld(p)
             \/ EndWalk(p) \/ Return(p)
      PROVE  FALSE
  BY <1>1, <1>2 DEF OpenTmp, WriteTmp, WriteFails, RenameFails, RemoveTmp,
                    GetOk, GetStale, GetFails, VisitSkip, Yield, Yielded,
                    CleanupOld, EndWalk, Return, disk
<1>3. ASSUME NEW p \in Procs, NEW l \in Keys,
             \/ VisitGone(p, l) \/ VisitLen(p, l) \/ VisitOpen(p, l)
             \/ VisitFails(p, l) \/ Get(p, l) \/ \E v \in Values : Set(p, l, v)
      PROVE  FALSE
  BY <1>1, <1>3 DEF VisitGone, VisitLen, VisitOpen, VisitFails, Get, Set, disk
<1>4. ASSUME NEW p \in Procs, NEW dir \in Dirs,
             ReadNames(p, dir) \/ NamesFail(p, dir)
      PROVE  FALSE
  BY <1>1, <1>4, Zenon DEF ReadNames, NamesFail, disk
<1>5. ASSUME NEW p \in Procs, NEW op \in Walks, StartWalk(p, op)
      PROVE  FALSE
  BY <1>1, <1>5, Zenon DEF StartWalk, disk
<1>6. ASSUME NEW p \in Procs, Rename(p)
      PROVE  FALSE
  BY <1>0, <1>6, LocalFSConstants DEF Rename, TypeOK, CallOK
<1>7. ASSUME (\E v \in Timed : Expire(v)) \/ (\E lost \in SUBSET Linked : Crash(lost))
             \/ UNCHANGED vars
      PROVE  FALSE
  BY <1>1, <1>7 DEF Expire, Crash, vars, disk
<1>8. ASSUME NEW p \in Procs, NEW l \in Keys, Delete(p, l)
      PROVE  Delete(p, k)
  BY <1>0, <1>8 DEF Delete, RemoveFile, TypeOK
<1>9. ASSUME NEW p \in Procs, NEW l \in Keys, VisitFlush(p, l)
      PROVE  Visits(p, k) /\ arg[p].op = "flush"
  BY <1>0, <1>9 DEF VisitFlush, RemoveFile, TypeOK
<1>10. ASSUME NEW p \in Procs, GetUnlink(p) \/ CleanupUnlink(p)
       PROVE  Unlinks(p, k) /\ (arg[p].fd # file[k] \/ file[k] \in spoilt)
  <2>1. Unlinks(p, k)
    BY <1>0, <1>10 DEF GetUnlink, CleanupUnlink, RemoveFile, TypeOK, Unlinks,
                       CallOK
  <2> QED
    BY <1>0, <2>1 DEF Unlinks, StaleOrSpoilt
<1> QED
  BY <1>2, <1>3, <1>4, <1>5, <1>6, <1>7, <1>8, <1>9, <1>10 DEF Next, Run, Call

-----------------------------------------------------------------------------
(* Who has an inode in hand *)

\* Whatever gets hold of an inode has it from the names of its own key.
LEMMA NextOneKey ==
  ASSUME WalkInv, OneKey, [Next]_vars
  PROVE  OneKey'
<1>0. TypeOK /\ \A p \in Procs : CallOK(p)
  BY DEF WalkInv, IInv
<1>1. ASSUME \A i \in Inodes : \A k \in Keys : Leads(i, k)' => Leads(i, k)
      PROVE  OneKey'
  BY <1>1 DEF OneKey
<1> SUFFICES ASSUME ~OneKey'
             PROVE  FALSE
  OBVIOUS
<1>2. PICK i \in Inodes, k \in Keys : Leads(i, k)' /\ ~Leads(i, k)
  BY <1>1
<1> USE DEF Goto, Hold, NoArg, disk
<1>3. ASSUME NEW p \in Procs, OpenTmp(p)
      PROVE  FALSE
  <2> DEFINE l == arg[p].key
  <2>1. l \in Keys
    BY <1>0, <1>3 DEF OpenTmp, CallOK
  <2>2. PICK j \in (IF tmp[l] = None THEN Created ELSE {tmp[l]}) :
          tmp' = [tmp EXCEPT ![l] = j] /\ Hold(p, "set", l, arg[p].val, j)
    BY <1>3 DEF OpenTmp
  <2>3. \A h \in Inodes : \A m \in Keys : Leads(h, m)' => Leads(h, m) \/ (h = j /\ m = l)
    BY <1>0, <1>3, <2>1, <2>2 DEF TypeOK, OpenTmp, Leads
  <2>4. ASSUME tmp[l] = None, NEW m \in Keys
        PROVE  ~Leads(j, m)
    <3>1. j \in Unused
      BY <2>2, <2>4 DEF Created
    <3> QED
      BY <3>1 DEF Unused, Holders, Leads
  <2>5. tmp[l] # None => Leads(j, l)
    BY <2>2 DEF Leads
  <2> QED
    BY <2>1, <2>3, <2>4, <2>5 DEF OneKey
<1>4. ASSUME NEW p \in Procs, WriteTmp(p) \/ WriteFails(p) \/ RenameFails(p)
             \/ RemoveTmp(p)
      PROVE  FALSE
  BY <1>0, <1>2, <1>4, LocalFSConstants
     DEF TypeOK, WriteTmp, WriteFails, RenameFails, RemoveTmp, Leads
<1>5. ASSUME NEW p \in Procs, Rename(p)
      PROVE  FALSE
  BY <1>0, <1>2, <1>5, LocalFSConstants DEF TypeOK, CallOK, Rename, Leads
<1>6. ASSUME NEW p \in Procs, GetOk(p) \/ GetStale(p) \/ GetUnlink(p)
             \/ GetFails(p) \/ Yield(p)
      PROVE  FALSE
  BY <1>0, <1>2, <1>6, LocalFSConstants
     DEF TypeOK, GetOk, GetStale, GetUnlink, GetFails, Yield, RemoveFile, Leads
<1>7. ASSUME NEW p \in Procs, VisitSkip(p) \/ Yielded(p) \/ CleanupUnlink(p)
      PROVE  FALSE
  BY <1>0, <1>2, <1>7, LocalFSConstants
     DEF TypeOK, VisitSkip, Yielded, CleanupUnlink, Visited, RemoveFile, Leads
<1>8. ASSUME NEW p \in Procs, CleanupOld(p) \/ EndWalk(p) \/ Return(p)
      PROVE  FALSE
  BY <1>0, <1>2, <1>8, LocalFSConstants
     DEF TypeOK, CleanupOld, EndWalk, Return, Leads
<1>9. ASSUME NEW p \in Procs, NEW l \in Keys, Get(p, l) \/ VisitOpen(p, l)
      PROVE  FALSE
  BY <1>0, <1>2, <1>9, LocalFSConstants DEF TypeOK, Get, VisitOpen, Leads
<1>10. ASSUME NEW p \in Procs, NEW l \in Keys,
              \/ VisitGone(p, l) \/ VisitLen(p, l) \/ VisitFlush(p, l)
              \/ VisitFails(p, l) \/ Delete(p, l) \/ \E v \in Values : Set(p, l, v)
       PROVE  FALSE
  BY <1>0, <1>2, <1>10, LocalFSConstants
     DEF TypeOK, VisitGone, VisitLen, VisitFlush, VisitFails, Visited, Delete,
         Set, RemoveFile, Leads
<1>11. ASSUME NEW p \in Procs, NEW dir \in Dirs,
              ReadNames(p, dir) \/ NamesFail(p, dir)
       PROVE  FALSE
  <2>1. UNCHANGED <<disk, arg>>
    BY <1>11, Zenon DEF ReadNames, NamesFail
  <2> QED
    BY <1>2, <2>1 DEF Leads
<1>12. ASSUME NEW p \in Procs, NEW op \in Walks, StartWalk(p, op)
       PROVE  FALSE
  <2>1. UNCHANGED disk /\ Hold(p, op, None, None, None)
    BY <1>12, Zenon DEF StartWalk
  <2> QED
    BY <1>0, <1>2, <2>1, LocalFSConstants DEF TypeOK, Leads
<1>13. ASSUME (\E v \in Timed : Expire(v)) \/ (\E lost \in SUBSET Linked : Crash(lost))
              \/ UNCHANGED vars
       PROVE  FALSE
  BY <1>2, <1>13, LocalFSConstants DEF Expire, Crash, vars, Leads
<1> QED
  BY <1>3, <1>4, <1>5, <1>6, <1>7, <1>8, <1>9, <1>10, <1>11, <1>12, <1>13
     DEF Next, Run, Call

\* As long as nobody begins to write, or ends a Set, nothing comes of it.
LEMMA PuttingStays ==
  ASSUME OneIsPutting, UNCHANGED <<tmp, data>>,
         \A p \in Procs :
           /\ Writing(p)' => Writing(p) /\ arg'[p].key = arg[p].key
           /\ pc[p] \in {"rename", "untmp"} =>
                /\ pc'[p] \in {"rename", "untmp"}
                /\ arg'[p].key = arg[p].key /\ arg'[p].val = arg[p].val
  PROVE  OneIsPutting'
<1> SUFFICES ASSUME NEW p \in Procs, Writing(p)', tmp'[arg'[p].key] # None,
                    data'[tmp'[arg'[p].key]] \in Values
             PROVE  \E q \in Procs :
                      /\ pc'[q] \in {"rename", "untmp"}
                      /\ arg'[q].key = arg'[p].key
                      /\ arg'[q].val = data'[tmp'[arg'[p].key]]
  BY DEF OneIsPutting
<1>1. PICK q \in Procs : /\ pc[q] \in {"rename", "untmp"}
                         /\ arg[q].key = arg[p].key
                         /\ arg[q].val = data[tmp[arg[p].key]]
  BY DEF OneIsPutting
<1> QED
  BY <1>1

\* What is in a temporary file is what the last Set in it wrote, and that one
\* takes the name away when it goes.
LEMMA NextOneIsPutting ==
  ASSUME WalkInv, OneKey, OneIsPutting, [Next]_vars
  PROVE  OneIsPutting'
<1>0. TypeOK /\ \A p \in Procs : CallOK(p) /\ AloneOrSpoilt(p)
  BY DEF WalkInv, IInv
<1> USE DEF Goto, Hold, NoArg, disk, Writing
<1>1. ASSUME NEW p \in Procs, OpenTmp(p)
      PROVE  OneIsPutting'
  <2> DEFINE l == arg[p].key
  <2>1. l \in Keys
    BY <1>0, <1>1 DEF OpenTmp, CallOK
  <2>2. PICK j \in (IF tmp[l] = None THEN Created ELSE {tmp[l]}) :
          /\ tmp' = [tmp EXCEPT ![l] = j] /\ data' = [data EXCEPT ![j] = Garbage]
          /\ Hold(p, "set", l, arg[p].val, j)
    BY <1>1 DEF OpenTmp
  <2>3. j \in Inodes /\ \A m \in Keys \ {l} : tmp[m] # j
    BY <1>0, <2>1, <2>2 DEF TypeOK, Created, Unused, WalkInv, IInv, Apart
  <2>4. \A q \in Procs \ {p} : pc'[q] = pc[q] /\ arg'[q] = arg[q]
    BY <1>0, <1>1, <2>2 DEF TypeOK, OpenTmp
  <2>5. arg'[p].key = l /\ pc[p] = "open"
    BY <1>0, <1>1, <2>2 DEF TypeOK, OpenTmp
  <2>6. ASSUME NEW q \in Procs, Writing(q)', tmp'[arg'[q].key] # None,
               data'[tmp'[arg'[q].key]] \in Values
        PROVE  \E r \in Procs : /\ pc'[r] \in {"rename", "untmp"}
                                /\ arg'[r].key = arg'[q].key
                                /\ arg'[r].val = data'[tmp'[arg'[q].key]]
    <3> DEFINE m == arg'[q].key
    <3>1. m \in Keys
      BY <1>0, <2>1, <2>4, <2>5, <2>6 DEF CallOK
    <3>2. m # l
      BY <1>0, <2>1, <2>2, <2>3, <2>6, LocalFSConstants DEF TypeOK
    <3>3. Writing(q) /\ arg[q].key = m
      BY <2>4, <2>5, <2>6, <3>2
    <3>4. tmp'[m] = tmp[m] /\ data'[tmp[m]] = data[tmp[m]] /\ tmp[m] # None
      BY <1>0, <2>1, <2>2, <2>3, <2>6, <3>1, <3>2 DEF TypeOK
    <3>5. PICK r \in Procs : /\ pc[r] \in {"rename", "untmp"}
                             /\ arg[r].key = m /\ arg[r].val = data[tmp[m]]
      BY <2>6, <3>3, <3>4 DEF OneIsPutting
    <3> QED
      BY <2>4, <2>5, <3>4, <3>5
  <2> QED
    BY <2>6 DEF OneIsPutting
<1>2. ASSUME NEW p \in Procs, WriteTmp(p) \/ WriteFails(p)
      PROVE  OneIsPutting'
  <2> DEFINE i == arg[p].fd
  <2>1. /\ pc[p] = "write" /\ i \in Inodes /\ tmp' = tmp
        /\ arg[p].key \in Keys
    BY <1>0, <1>2 DEF WriteTmp, WriteFails, CallOK, AloneOrSpoilt
  <2>2. /\ \A j \in Inodes \ {i} : data'[j] = data[j]
        /\ \A q \in Procs \ {p} : pc'[q] = pc[q] /\ arg'[q] = arg[q]
        /\ arg'[p].key = arg[p].key /\ arg'[p].val = arg[p].val
    BY <1>0, <1>2, <2>1 DEF TypeOK, WriteTmp, WriteFails
  <2>3. data'[i] \in Values => data'[i] = arg[p].val /\ pc'[p] = "rename"
    BY <1>0, <1>2, <2>1, LocalFSConstants DEF TypeOK, WriteTmp, WriteFails
  <2>4. ASSUME NEW q \in Procs, Writing(q)', tmp'[arg'[q].key] # None,
               data'[tmp'[arg'[q].key]] \in Values
        PROVE  \E r \in Procs : /\ pc'[r] \in {"rename", "untmp"}
                                /\ arg'[r].key = arg'[q].key
                                /\ arg'[r].val = data'[tmp'[arg'[q].key]]
    <3> DEFINE m == arg'[q].key
    <3>1. Writing(q) /\ arg[q].key = m /\ m \in Keys
      BY <1>0, <2>1, <2>2, <2>4 DEF CallOK
    <3>2. tmp'[m] = tmp[m] /\ tmp[m] \in Inodes
      BY <1>0, <2>1, <2>4, <3>1 DEF TypeOK
    <3>3. CASE tmp[m] = i
      <4>1. Leads(i, m) /\ Leads(i, arg[p].key)
        BY <3>3 DEF Leads
      <4>2. m = arg[p].key
        BY <2>1, <3>1, <4>1 DEF OneKey
      <4> QED
        BY <2>2, <2>3, <2>4, <3>2, <3>3, <4>2
    <3>4. CASE tmp[m] # i
      <4>1. data'[tmp[m]] = data[tmp[m]]
        BY <2>2, <3>2, <3>4
      <4>2. PICK r \in Procs : /\ pc[r] \in {"rename", "untmp"}
                               /\ arg[r].key = m /\ arg[r].val = data[tmp[m]]
        BY <2>4, <3>1, <3>2, <4>1 DEF OneIsPutting
      <4> QED
        BY <2>1, <2>2, <3>2, <4>1, <4>2
    <3> QED
      BY <3>3, <3>4
  <2> QED
    BY <2>4 DEF OneIsPutting
<1>3. ASSUME NEW p \in Procs, Rename(p) \/ RemoveTmp(p)
      PROVE  OneIsPutting'
  <2> DEFINE l == arg[p].key
  <2>1. /\ l \in Keys /\ tmp' = [tmp EXCEPT ![l] = None] /\ data' = data
        /\ pc[p] \in {"rename", "untmp"} /\ ~Writing(p)'
        /\ \A q \in Procs \ {p} : pc'[q] = pc[q] /\ arg'[q] = arg[q]
    BY <1>0, <1>3 DEF TypeOK, Rename, RemoveTmp, CallOK
  <2>2. ASSUME NEW q \in Procs, Writing(q)', tmp'[arg'[q].key] # None,
               data'[tmp'[arg'[q].key]] \in Values
        PROVE  \E r \in Procs : /\ pc'[r] \in {"rename", "untmp"}
                                /\ arg'[r].key = arg'[q].key
                                /\ arg'[r].val = data'[tmp'[arg'[q].key]]
    <3>1. q # p /\ Writing(q) /\ arg'[q] = arg[q] /\ arg[q].key \in Keys
      BY <1>0, <2>1, <2>2 DEF CallOK
    <3>2. arg[q].key # l /\ tmp'[arg[q].key] = tmp[arg[q].key]
      BY <1>0, <2>1, <2>2, <3>1 DEF TypeOK
    <3>3. PICK r \in Procs : /\ pc[r] \in {"rename", "untmp"}
                             /\ arg[r].key = arg[q].key
                             /\ arg[r].val = data[tmp[arg[q].key]]
      BY <2>1, <2>2, <3>1, <3>2 DEF OneIsPutting
    <3> QED
      BY <2>1, <3>1, <3>2, <3>3
  <2> QED
    BY <2>2 DEF OneIsPutting
<1>4. ASSUME NEW p \in Procs, RenameFails(p) \/ GetOk(p) \/ GetStale(p)
             \/ GetFails(p) \/ Yield(p) \/ CleanupOld(p) \/ EndWalk(p) \/ Return(p)
      PROVE  OneIsPutting'
  BY <1>0, <1>4, PuttingStays DEF TypeOK, RenameFails, GetOk, GetStale, GetFails,
     Yield, CleanupOld, EndWalk, Return
<1>5. ASSUME NEW p \in Procs, GetUnlink(p)
      PROVE  OneIsPutting'
  BY <1>0, <1>5, PuttingStays DEF TypeOK, GetUnlink, RemoveFile
<1>6. ASSUME NEW p \in Procs, VisitSkip(p) \/ Yielded(p) \/ CleanupUnlink(p)
      PROVE  OneIsPutting'
  BY <1>0, <1>6, PuttingStays
     DEF TypeOK, VisitSkip, Yielded, CleanupUnlink, Visited, RemoveFile
<1>7. ASSUME NEW p \in Procs, NEW k \in Keys, Get(p, k) \/ VisitOpen(p, k)
             \/ \E v \in Values : Set(p, k, v)
      PROVE  OneIsPutting'
  BY <1>0, <1>7, PuttingStays DEF TypeOK, Get, VisitOpen, Visits, Set
<1>8. ASSUME NEW p \in Procs, NEW k \in Keys,
             \/ VisitGone(p, k) \/ VisitLen(p, k) \/ VisitFlush(p, k)
             \/ VisitFails(p, k) \/ Delete(p, k)
      PROVE  OneIsPutting'
  BY <1>0, <1>8, PuttingStays DEF TypeOK, VisitGone, VisitLen, VisitFlush,
     VisitFails, Visits, Visited, Delete, RemoveFile
<1>9. ASSUME NEW p \in Procs, NEW dir \in Dirs,
             ReadNames(p, dir) \/ NamesFail(p, dir)
      PROVE  OneIsPutting'
  <2>1. UNCHANGED <<disk, pc, arg>>
    BY <1>9, Zenon DEF ReadNames, NamesFail
  <2> QED
    BY <2>1, PuttingStays
<1>10. ASSUME NEW p \in Procs, NEW op \in Walks, StartWalk(p, op)
       PROVE  OneIsPutting'
  <2>1. /\ pc[p] = "idle" /\ UNCHANGED disk
        /\ Goto(p, "walk") /\ Hold(p, op, None, None, None)
    BY <1>10, Zenon DEF StartWalk
  <2> QED
    BY <1>0, <2>1, PuttingStays DEF TypeOK
<1>11. ASSUME (\E v \in Timed : Expire(v)) \/ UNCHANGED vars
       PROVE  OneIsPutting'
  BY <1>11, PuttingStays DEF Expire, vars
<1>12. ASSUME NEW lost \in SUBSET Linked, Crash(lost)
       PROVE  OneIsPutting'
  BY <1>12 DEF Crash, OneIsPutting
<1> QED
  BY <1>1, <1>2, <1>3, <1>4, <1>5, <1>6, <1>7, <1>8, <1>9, <1>10, <1>11,
     <1>12 DEF Next, Run, Call

-----------------------------------------------------------------------------
(* What a Get may return *)

\* Who reads a file did so before, or has just opened it.
LEMMA ReadsOn ==
  ASSUME WalkInv, [Next]_vars, NEW p \in Procs, pc'[p] = "read"
  PROVE  \/ pc[p] = "read" /\ arg'[p] = arg[p]
         \/ \E k \in Keys : Get(p, k) \/ VisitOpen(p, k)
<1>0. TypeOK
  BY DEF WalkInv, IInv
<1> USE DEF Goto, Hold, NoArg
<1>1. ASSUME NEW q \in Procs,
             \/ OpenTmp(q) \/ WriteTmp(q) \/ WriteFails(q) \/ Rename(q)
             \/ RenameFails(q) \/ RemoveTmp(q)
      PROVE  pc[p] = "read" /\ arg'[p] = arg[p]
  BY <1>0, <1>1 DEF TypeOK, OpenTmp, WriteTmp, WriteFails, Rename, RenameFails,
                    RemoveTmp
<1>2. ASSUME NEW q \in Procs,
             \/ GetOk(q) \/ GetStale(q) \/ GetUnlink(q) \/ GetFails(q)
             \/ Yield(q) \/ CleanupOld(q) \/ EndWalk(q) \/ Return(q)
      PROVE  pc[p] = "read" /\ arg'[p] = arg[p]
  BY <1>0, <1>2 DEF TypeOK, GetOk, GetStale, GetUnlink, GetFails, Yield,
                    CleanupOld, EndWalk, Return
<1>3. ASSUME NEW q \in Procs, VisitSkip(q) \/ Yielded(q) \/ CleanupUnlink(q)
      PROVE  pc[p] = "read" /\ arg'[p] = arg[p]
  BY <1>0, <1>3 DEF TypeOK, VisitSkip, Yielded, CleanupUnlink, Visited
<1>4. ASSUME NEW q \in Procs, NEW k \in Keys,
             \/ VisitGone(q, k) \/ VisitLen(q, k) \/ VisitFlush(q, k)
             \/ VisitFails(q, k) \/ Delete(q, k) \/ \E v \in Values : Set(q, k, v)
      PROVE  pc[p] = "read" /\ arg'[p] = arg[p]
  BY <1>0, <1>4 DEF TypeOK, VisitGone, VisitLen, VisitFlush, VisitFails, Visited,
                    Delete, Set
<1>5. ASSUME NEW q \in Procs, NEW k \in Keys, Get(q, k) \/ VisitOpen(q, k)
      PROVE  p # q => pc[p] = "read" /\ arg'[p] = arg[p]
  BY <1>0, <1>5 DEF TypeOK, Get, VisitOpen
<1>6. ASSUME NEW q \in Procs, NEW dir \in Dirs,
             ReadNames(q, dir) \/ NamesFail(q, dir)
      PROVE  pc[p] = "read" /\ arg'[p] = arg[p]
  <2>1. UNCHANGED <<pc, arg>>
    BY <1>6, Zenon DEF ReadNames, NamesFail
  <2> QED
    BY <2>1
<1>7. ASSUME NEW q \in Procs, NEW op \in Walks, StartWalk(q, op)
      PROVE  pc[p] = "read" /\ arg'[p] = arg[p]
  <2>1. Goto(q, "walk") /\ Hold(q, op, None, None, None)
    BY <1>7, Zenon DEF StartWalk
  <2> QED
    BY <1>0, <2>1 DEF TypeOK
<1>8. ASSUME (\E v \in Timed : Expire(v)) \/ UNCHANGED vars
      PROVE  pc[p] = "read" /\ arg'[p] = arg[p]
  BY <1>8 DEF Expire, vars
<1>9. ASSUME NEW lost \in SUBSET Linked, Crash(lost)
      PROVE  FALSE
  BY <1>9 DEF Crash
<1> QED
  BY <1>1, <1>2, <1>3, <1>4, <1>5, <1>6, <1>7, <1>8, <1>9 DEF Next, Run, Call

\* What seen collects.
LEMMA SeenGrows ==
  ASSUME MapNext, NEW p \in Procs, Looking(p)'
  PROVE  seen'[p] = (IF Looking(p) THEN seen[p] ELSE {Shown[arg'[p].key]})
                    \cup {Shown'[arg'[p].key]} \cup Changes(arg'[p].key)
BY DEF MapNext

LEMMA NextSeen ==
  ASSUME MapInv, MapNext
  PROVE  \A p \in Procs : SeenOK(p)'
<1> SUFFICES ASSUME NEW p \in Procs, Looking(p)'
             PROVE  Entry(arg[p].fd)' \in seen'[p] /\ Shown'[arg'[p].key] \in seen'[p]
  BY DEF SeenOK
<1>1. seen'[p] = (IF Looking(p) THEN seen[p] ELSE {Shown[arg'[p].key]})
                 \cup {Shown'[arg'[p].key]} \cup Changes(arg'[p].key)
  BY SeenGrows
<1>2. /\ WalkInv /\ [Next]_vars /\ TypeOK
      /\ StaleOrSpoilt(p) /\ CallOK(p) /\ SeenOK(p)
  BY DEF MapInv, WalkInv, IInv, MapNext
<1>3. CASE pc[p] = "read" /\ arg'[p] = arg[p]
  <2>1. Looking(p) /\ arg[p].fd \in Inodes
    BY <1>2, <1>3 DEF Looking, StaleOrSpoilt
  <2>2. CASE Entry(arg[p].fd)' = Entry(arg[p].fd)
    BY <1>1, <1>2, <2>1, <2>2 DEF SeenOK
  <2>3. CASE Entry(arg[p].fd)' # Entry(arg[p].fd)
    <3>1. Entry(arg[p].fd)' \in Changes(arg'[p].key)
      BY <1>3, <2>1, <2>3 DEF Changes
    <3> QED
      BY <1>1, <3>1
  <2> QED
    BY <2>2, <2>3
<1>4. ASSUME NEW k \in Keys, Get(p, k) \/ VisitOpen(p, k)
      PROVE  Entry(arg[p].fd)' \in seen'[p] /\ Shown'[arg'[p].key] \in seen'[p]
  <2>1. /\ arg'[p].key = k /\ arg'[p].fd = file[k] /\ file[k] # None
        /\ UNCHANGED <<disk, expired>>
    BY <1>2, <1>4 DEF TypeOK, Get, VisitOpen, Goto, Hold
  <2>2. Entry(arg[p].fd)' = Shown'[k]
    BY <2>1 DEF Entry, Shown, disk
  <2> QED
    BY <1>1, <2>1, <2>2
<1> QED
  BY <1>2, <1>3, <1>4, ReadsOn DEF Looking

LEMMA NextMapInv ==
  ASSUME MapInv, MapNext
  PROVE  MapInv'
BY NextWalkInv, NextOneKey, NextOneIsPutting, NextSeen DEF MapInv, MapNext

-----------------------------------------------------------------------------
(* Datastore *)

DSWalkings == [todo : SUBSET Keys, hits : SUBSET Keys, cutoff : SUBSET Values,
               due : SUBSET Keys, touched : SUBSET Keys, failed : SUBSET Keys,
               done : BOOLEAN]

\* The query of q goes on as it was, but that it sees the keys in K touched.
DSSees(q, K) ==
  /\ dsWalk'[q].todo = dsWalk[q].todo /\ dsWalk'[q].hits = dsWalk[q].hits
  /\ dsWalk'[q].cutoff = dsWalk[q].cutoff /\ dsWalk'[q].due = dsWalk[q].due
  /\ dsWalk'[q].done = dsWalk[q].done /\ dsWalk'[q].failed = dsWalk[q].failed
  /\ dsWalk'[q].touched = dsWalk[q].touched \cup K

LEMMA DSTouchedTyped ==
  ASSUME DS!TypeOK, NEW p \in Procs, NEW K \in SUBSET Keys
  PROVE  /\ DS!Touched(p, K) \in [Procs -> DSWalkings]
         /\ DS!Touched(p, K)[p] = dsWalk[p]
         /\ \A q \in Procs \ {p} :
              DS!Touched(p, K)[q] = IF dsArg[q].op \in DS!Walks
                                    THEN [dsWalk[q] EXCEPT !.touched = @ \cup K]
                                    ELSE dsWalk[q]
<1>1. \A q \in Procs : [dsWalk[q] EXCEPT !.touched = @ \cup K] \in DSWalkings
  BY DEF DS!TypeOK, DSWalkings
<1> QED
  BY <1>1 DEF DS!TypeOK, DS!Touched, DSWalkings

\* A step of somebody else that changes nothing but the entities of the keys in K.
LEMMA DSOtherKept ==
  ASSUME DS!TypeOK, NEW q \in Procs, DS!WalkKept(q), NEW K,
         dsArg[q].op \in DS!Walks => DSSees(q, K),
         dsPc'[q] = dsPc[q], dsArg'[q] = dsArg[q], expired \subseteq expired',
         \A k \in Keys \ K :
           /\ db'[k] = db[k]
           /\ db[k] \in Values => (db[k] \in expired' <=> db[k] \in expired)
  PROVE  DS!WalkKept(q)'
<1> SUFFICES ASSUME dsArg[q].op \in DS!Walks
             PROVE  DS!WalkKept(q)'
  BY DEF DS!WalkKept
<1> DEFINE w == dsWalk[q]
<1>1. DSSees(q, K)
  OBVIOUS
<1>2. \A l \in Keys \ K :
        l \in DS!Due(dsArg[q].op, w.cutoff) <=> l \in DS!Due(dsArg[q].op, w.cutoff)'
  <2> SUFFICES ASSUME NEW l \in Keys \ K
               PROVE  l \in DS!Due(dsArg[q].op, w.cutoff)
                        <=> l \in DS!Due(dsArg[q].op, w.cutoff)'
    OBVIOUS
  <2>1. /\ dsArg'[q].op = dsArg[q].op /\ dsWalk'[q].cutoff = w.cutoff
        /\ db'[l] = db[l] /\ DS!Live(l)' = DS!Live(l)
    BY <1>1 DEF DSSees, DS!Live
  <2> QED
    BY <2>1 DEF DS!Due, DS!Walks
<1>3. w.todo \subseteq Keys
  BY DEF DS!TypeOK
<1>4. DS!LeftOut(q)' = DS!LeftOut(q)
  <2>1. dsWalk'[q].hits = w.hits /\ dsArg'[q].op = dsArg[q].op
    BY <1>1 DEF DSSees
  <2> QED
    BY <2>1 DEF DS!LeftOut, DS!InRange, DS!Less
<1> QED
  BY <1>1, <1>2, <1>3, <1>4 DEF DS!WalkKept, DSSees

\* A step of p that changes the entities of the keys in K, as the others see it.
LEMMA DSOthersKept ==
  ASSUME DS!TypeOK, NEW p \in Procs, \A q \in Procs : DS!WalkKept(q),
         NEW K \in SUBSET Keys,
         \A q \in Procs \ {p} :
           /\ dsPc'[q] = dsPc[q] /\ dsArg'[q] = dsArg[q]
           /\ dsWalk'[q] = DS!Touched(p, K)[q] \/ (K = {} /\ dsWalk'[q] = dsWalk[q]),
         expired' = expired, \A k \in Keys \ K : db'[k] = db[k]
  PROVE  \A q \in Procs \ {p} : DS!WalkKept(q)'
<1> SUFFICES ASSUME NEW q \in Procs \ {p}
             PROVE  DS!WalkKept(q)'
  OBVIOUS
<1>1. dsWalk[q] \in DSWalkings
  BY DEF DS!TypeOK, DSWalkings
<1>2. ASSUME dsArg[q].op \in DS!Walks
      PROVE  DSSees(q, K)
  <2>1. CASE dsWalk'[q] = DS!Touched(p, K)[q]
    <3>1. dsWalk'[q] = [dsWalk[q] EXCEPT !.touched = @ \cup K]
      BY <1>2, <2>1, DSTouchedTyped
    <3> QED
      BY <1>1, <3>1 DEF DSWalkings, DSSees
  <2>2. CASE K = {} /\ dsWalk'[q] = dsWalk[q]
    BY <2>2 DEF DSSees
  <2> QED
    BY <2>1, <2>2
<1> QED
  BY <1>2, DSOtherKept

LEMMA DSQuietKept ==
  ASSUME DS!TypeOK, NEW p \in Procs, \A q \in Procs : DS!WalkKept(q),
         \A q \in Procs \ {p} :
           dsPc'[q] = dsPc[q] /\ dsArg'[q] = dsArg[q] /\ dsWalk'[q] = dsWalk[q],
         expired' = expired, db' = db
  PROVE  \A q \in Procs \ {p} : DS!WalkKept(q)'
<1>1. {} \in SUBSET Keys
  OBVIOUS
<1> QED
  BY <1>1, DSOthersKept

LEMMA DSHoldTyped ==
  ASSUME DS!TypeOK, NEW p \in Procs,
         NEW s \in {"idle", "put", "read", "query", "delete", "next", "return"},
         NEW op \in {"none", "set", "get"} \cup DS!Walks,
         NEW k \in Keys \cup {None}, NEW v \in Values \cup {None},
         DS!Goto(p, s), DS!Hold(p, op, k, v) \/ dsArg' = dsArg
  PROVE  /\ dsPc' \in [Procs -> {"idle", "put", "read", "query", "delete",
                                 "next", "return"}]
         /\ dsArg' \in [Procs -> [op : {"none", "set", "get"} \cup DS!Walks,
                                  key : Keys \cup {None}, val : Values \cup {None}]]
         /\ dsPc'[p] = s
         /\ DS!Hold(p, op, k, v) => dsArg'[p] = [op |-> op, key |-> k, val |-> v]
         /\ \A q \in Procs \ {p} : dsPc'[q] = dsPc[q] /\ dsArg'[q] = dsArg[q]
BY DEF DS!TypeOK, DS!Goto, DS!Hold

\* Steps of p that are none of a walk.
LEMMA DSCallKept ==
  ASSUME DS!IInv, NEW p \in Procs,
         \/ \E k \in Keys : \/ DS!Get(p, k) \/ DS!Delete(p, k)
                            \/ \E v \in Values : DS!Set(p, k, v)
         \/ DS!GetCheck(p)
         \/ DS!Put(p) \/ DS!PutFails(p)
  PROVE  DS!IInv'
<1>0. /\ DS!TypeOK /\ \A q \in Procs : DS!CallOK(q) /\ DS!WalkKept(q)
      /\ dsWalk \in [Procs -> DSWalkings]
  BY DEF DS!IInv, DS!TypeOK, DSWalkings
<1> USE LocalFSConstants
<1>1. ASSUME DS!TypeOK', DS!CallOK(p)', dsArg'[p].op \notin DS!Walks,
             \A q \in Procs \ {p} :
               dsPc'[q] = dsPc[q] /\ dsArg'[q] = dsArg[q] /\ DS!WalkKept(q)'
      PROVE  DS!IInv'
  <2>1. \A q \in Procs \ {p} : DS!CallOK(q)'
    BY <1>0, <1>1 DEF DS!CallOK, DS!NoArg
  <2>2. DS!WalkKept(p)'
    BY <1>1 DEF DS!WalkKept
  <2> QED
    BY <1>1, <2>1, <2>2 DEF DS!IInv
<1>2. ASSUME NEW k \in Keys, NEW v \in Values, NEW s \in {"read", "put"},
             NEW op \in {"get", "set"}, s = "read" <=> op = "get",
             UNCHANGED <<db, expired, dsWalk>>,
             DS!Goto(p, s), DS!Hold(p, op, k, v)
      PROVE  DS!IInv'
  <2>1. /\ dsPc'[p] = s /\ dsArg'[p] = [op |-> op, key |-> k, val |-> v]
        /\ \A q \in Procs \ {p} : dsPc'[q] = dsPc[q] /\ dsArg'[q] = dsArg[q]
    BY <1>0, <1>2, DSHoldTyped
  <2>2. DS!TypeOK'
    <3>1. /\ dsPc' \in [Procs -> {"idle", "put", "read", "query", "delete",
                                "next", "return"}]
          /\ dsArg' \in [Procs -> [op : {"none", "set", "get"} \cup DS!Walks,
                                  key : Keys \cup {None}, val : Values \cup {None}]]
      BY <1>0, <1>2, DSHoldTyped
    <3> QED
      BY <1>0, <1>2, <3>1 DEF DS!TypeOK
  <2>3. DS!CallOK(p)'
    BY <1>2, <2>1 DEF DS!CallOK
  <2>4. \A q \in Procs \ {p} : DS!WalkKept(q)'
    BY <1>0, <1>2, <2>1, DSQuietKept
  <2> QED
    BY <1>1, <1>2, <2>1, <2>2, <2>3, <2>4 DEF DS!Walks
<1>3. ASSUME NEW k \in Keys, DS!Get(p, k) \/ \E v \in Values : DS!Set(p, k, v)
      PROVE  DS!IInv'
  BY <1>2, <1>3 DEF DS!Get, DS!Live, DS!Set
<1>4. ASSUME NEW k \in Keys, DS!Delete(p, k)
      PROVE  DS!IInv'
  <2>1. /\ db' = [db EXCEPT ![k] = None] /\ dsPc[p] = "idle"
        /\ dsWalk' = DS!Touched(p, {k}) /\ UNCHANGED <<expired, dsPc, dsArg>>
    BY <1>4 DEF DS!Delete
  <2>2. dsWalk' \in [Procs -> DSWalkings]
    BY <1>0, <2>1, DSTouchedTyped
  <2>3. DS!TypeOK' /\ DS!CallOK(p)'
    BY <1>0, <2>1, <2>2 DEF DS!TypeOK, DS!CallOK, DS!NoArg, DSWalkings
  <2>4. \A l \in Keys \ {k} : db'[l] = db[l]
    BY <1>0, <2>1 DEF DS!TypeOK
  <2>5. \A q \in Procs \ {p} : DS!WalkKept(q)'
    BY <1>0, <2>1, <2>4, DSOthersKept
  <2> QED
    BY <1>0, <1>1, <2>1, <2>3, <2>5 DEF DS!CallOK, DS!NoArg, DS!Walks
<1>5. ASSUME DS!GetCheck(p)
      PROVE  DS!IInv'
  <2> DEFINE v == IF dsArg[p].val \in expired THEN None ELSE dsArg[p].val
  <2>1. /\ UNCHANGED <<db, expired, dsWalk>> /\ dsPc[p] = "read"
        /\ DS!Goto(p, "return") /\ DS!Hold(p, "get", dsArg[p].key, v)
    BY <1>5 DEF DS!GetCheck
  <2>2. dsArg[p].key \in Keys /\ v \in Values \cup {None}
    BY <1>0, <2>1 DEF DS!CallOK
  <2> HIDE DEF v
  <2>3. /\ dsPc'[p] = "return"
        /\ dsArg'[p] = [op |-> "get", key |-> dsArg[p].key, val |-> v]
        /\ \A q \in Procs \ {p} : dsPc'[q] = dsPc[q] /\ dsArg'[q] = dsArg[q]
    BY <1>0, <2>1, <2>2, DSHoldTyped
  <2>4. DS!TypeOK'
    BY <1>0, <2>1, <2>2, DSHoldTyped DEF DS!TypeOK
  <2>5. DS!CallOK(p)'
    BY <2>3 DEF DS!CallOK
  <2>6. \A q \in Procs \ {p} : DS!WalkKept(q)'
    BY <1>0, <2>1, <2>3, DSQuietKept
  <2> QED
    BY <1>1, <2>3, <2>4, <2>5, <2>6 DEF DS!Walks
<1>6. ASSUME DS!Put(p)
      PROVE  DS!IInv'
  <2>1. /\ db' = [db EXCEPT ![dsArg[p].key] = dsArg[p].val] /\ dsPc[p] = "put"
        /\ dsWalk' = DS!Touched(p, {dsArg[p].key}) /\ UNCHANGED <<expired, dsArg>>
        /\ DS!Goto(p, "return")
    BY <1>6 DEF DS!Put
  <2>2. dsArg[p].op = "set" /\ dsArg[p].key \in Keys /\ dsArg[p].val \in Values
    BY <1>0, <2>1 DEF DS!CallOK
  <2>3. dsWalk' \in [Procs -> DSWalkings]
    BY <1>0, <2>1, <2>2, DSTouchedTyped
  <2>4. /\ DS!TypeOK' /\ DS!CallOK(p)'
        /\ \A q \in Procs \ {p} : dsPc'[q] = dsPc[q] /\ dsArg'[q] = dsArg[q]
    BY <1>0, <2>1, <2>2, <2>3 DEF DS!Goto, DS!TypeOK, DS!CallOK, DSWalkings
  <2>5. \A k \in Keys \ {dsArg[p].key} : db'[k] = db[k]
    BY <1>0, <2>1 DEF DS!TypeOK
  <2>6. \A q \in Procs \ {p} : DS!WalkKept(q)'
    <3>1. {dsArg[p].key} \in SUBSET Keys
      BY <2>2
    <3> QED
      BY <1>0, <2>1, <2>4, <2>5, <3>1, DSOthersKept
  <2> QED
    BY <1>1, <2>1, <2>2, <2>4, <2>6 DEF DS!Walks
<1>7. ASSUME DS!PutFails(p)
      PROVE  DS!IInv'
  <2>1. /\ dsPc[p] = "put" /\ UNCHANGED <<db, expired, dsArg, dsWalk>>
        /\ DS!Goto(p, "return")
    BY <1>7 DEF DS!PutFails
  <2>2. /\ DS!TypeOK' /\ DS!CallOK(p)'
        /\ \A q \in Procs \ {p} : dsPc'[q] = dsPc[q] /\ dsArg'[q] = dsArg[q]
    BY <1>0, <2>1 DEF DS!Goto, DS!TypeOK, DS!CallOK
  <2>3. \A q \in Procs \ {p} : DS!WalkKept(q)'
    BY <1>0, <2>1, <2>2, DSQuietKept
  <2> QED
    BY <1>0, <1>1, <2>1, <2>2, <2>3 DEF DS!CallOK, DS!Walks
<1> QED
  BY <1>3, <1>4, <1>5, <1>6, <1>7

\* A step of p that keeps what is known of its own request.
LEMMA DSStepKept ==
  ASSUME DS!IInv, NEW p \in Procs, NEW K \in SUBSET Keys,
         DS!TypeOK', DS!CallOK(p)', DS!WalkKept(p)',
         \A q \in Procs \ {p} :
           /\ dsPc'[q] = dsPc[q] /\ dsArg'[q] = dsArg[q]
           /\ dsWalk'[q] = DS!Touched(p, K)[q] \/ (K = {} /\ dsWalk'[q] = dsWalk[q]),
         expired' = expired, \A k \in Keys \ K : db'[k] = db[k]
  PROVE  DS!IInv'
<1>1. DS!TypeOK /\ \A q \in Procs : DS!CallOK(q) /\ DS!WalkKept(q)
  BY DEF DS!IInv
<1>2. \A q \in Procs \ {p} : DS!WalkKept(q)'
  BY <1>1, DSOthersKept
<1>3. \A q \in Procs \ {p} : DS!CallOK(q)'
  BY <1>1 DEF DS!CallOK, DS!NoArg
<1> QED
  BY <1>2, <1>3 DEF DS!IInv

\* A step of p that changes no entity.
LEMMA DSOwnKept ==
  ASSUME DS!IInv, NEW p \in Procs, NEW w \in DSWalkings,
         NEW s \in {"idle", "put", "read", "query", "delete", "next", "return"},
         NEW a \in [op : {"none", "set", "get"} \cup DS!Walks,
                    key : Keys \cup {None}, val : Values \cup {None}],
         UNCHANGED <<db, expired>>, dsWalk' = [dsWalk EXCEPT ![p] = w],
         dsPc' = [dsPc EXCEPT ![p] = s], dsArg' = [dsArg EXCEPT ![p] = a],
         dsPc'[p] = s /\ dsArg'[p] = a /\ dsWalk'[p] = w
           => DS!CallOK(p)' /\ DS!WalkKept(p)'
  PROVE  DS!IInv'
<1>1. DS!TypeOK
  BY DEF DS!IInv
<1>2. /\ dsPc'[p] = s /\ dsArg'[p] = a /\ dsWalk'[p] = w
      /\ \A q \in Procs \ {p} :
           dsPc'[q] = dsPc[q] /\ dsArg'[q] = dsArg[q] /\ dsWalk'[q] = dsWalk[q]
  BY <1>1 DEF DS!TypeOK
<1>3. dsWalk' \in [Procs -> DSWalkings]
  BY <1>1 DEF DS!TypeOK, DSWalkings
<1>4. DS!TypeOK'
  BY <1>1, <1>3 DEF DS!TypeOK, DSWalkings
<1>5. {} \in SUBSET Keys
  OBVIOUS
<1> QED
  BY <1>2, <1>4, <1>5, DSStepKept

\* A query begins, and when it is over its goroutine holds nothing.
LEMMA DSStartKept ==
  ASSUME DS!IInv, NEW p \in Procs,
         DS!Return(p) \/ \E op \in DS!Walks : DS!StartWalk(p, op)
  PROVE  DS!IInv'
<1>0. DS!TypeOK /\ DS!CallOK(p) /\ DS!WalkKept(p)
  BY DEF DS!IInv
<1>1. CASE DS!Return(p)
  <2>1. DS!NoWalk \in DSWalkings
    BY DEF DS!NoWalk, DSWalkings
  <2>2. DS!NoArg \in [op : {"none", "set", "get"} \cup DS!Walks,
                      key : Keys \cup {None}, val : Values \cup {None}]
    BY DEF DS!NoArg
  <2>3. ASSUME dsPc'[p] = "idle", dsArg'[p] = DS!NoArg
        PROVE  DS!CallOK(p)' /\ DS!WalkKept(p)'
    BY <2>3 DEF DS!CallOK, DS!WalkKept, DS!NoArg, DS!Walks
  <2> QED
    BY <1>1, <2>1, <2>2, <2>3, DSOwnKept DEF DS!Return, DS!Goto
<1>2. ASSUME NEW op \in DS!Walks, DS!StartWalk(p, op)
      PROVE  DS!IInv'
  <2> DEFINE listed == op \in {"keys", "range"}
             s == IF listed THEN "next" ELSE "query"
             a == [op |-> op, key |-> None, val |-> None]
             due == DS!Due(op, expired)
             todo == IF listed THEN {k \in Keys : DS!InRange(k)} ELSE {}
             w == [DS!NoWalk EXCEPT !.cutoff = expired, !.due = due, !.todo = todo]
  <2>1. /\ dsWalk' = [dsWalk EXCEPT ![p] = w] /\ dsPc' = [dsPc EXCEPT ![p] = s]
        /\ dsArg' = [dsArg EXCEPT ![p] = a] /\ UNCHANGED <<db, expired>>
    BY <1>2, Zenon DEF DS!StartWalk, DS!Goto, DS!Hold
  <2>2. due \subseteq Keys /\ todo \subseteq Keys /\ expired \subseteq Values
    BY <1>0, LocalFSConstants DEF DS!Due, DS!TypeOK
  <2>3. /\ w \in DSWalkings /\ w.todo = todo /\ w.due = due /\ w.cutoff = expired
        /\ w.hits = {} /\ w.touched = {} /\ ~w.done
    <3> HIDE DEF due, todo
    <3> QED
      BY <2>2 DEF DS!NoWalk, DSWalkings
  <2>6. ASSUME dsPc'[p] = s, dsArg'[p] = a, dsWalk'[p] = w
        PROVE  DS!CallOK(p)' /\ DS!WalkKept(p)'
    <3>1. DS!CallOK(p)'
      BY <2>6 DEF DS!CallOK, DS!Walks
    <3>2. dsArg'[p].op = op /\ dsWalk'[p].cutoff = expired
      BY <2>3, <2>6
    <3>3. \A k \in Keys : k \in DS!Due(dsArg[p].op, dsWalk[p].cutoff)' <=> k \in due
      BY <2>1, <3>2 DEF DS!Due, DS!Live
    <3>4. \A k \in todo : DS!InRange(k)'
      BY DEF DS!InRange, DS!Less
    <3>5. \A k \in Keys : listed => k \in todo \cup DS!LeftOut(p)'
      BY <3>2 DEF DS!LeftOut, DS!InRange, DS!Less
    <3> HIDE DEF due, w, todo
    <3> QED
      BY <2>1, <2>2, <2>3, <2>6, <3>1, <3>3, <3>4, <3>5 DEF DS!WalkKept
  <2> QED
    BY <2>1, <2>3, <2>6, DSOwnKept DEF DS!Walks
<1> QED
  BY <1>1, <1>2

\* The one query of Len, and that of Cleanup and Flush before they delete.
LEMMA DSQueryKept ==
  ASSUME DS!IInv, NEW p \in Procs, DS!Count(p) \/ DS!Query(p)
  PROVE  DS!IInv'
<1>0. DS!TypeOK /\ DS!CallOK(p) /\ DS!WalkKept(p) /\ dsWalk[p] \in DSWalkings
  BY DEF DS!IInv, DS!TypeOK, DSWalkings
<1> DEFINE op == dsArg[p].op
           old == dsWalk[p]
<1>1. dsArg' = [dsArg EXCEPT ![p] = dsArg[p]] /\ UNCHANGED <<db, expired>>
  BY <1>0 DEF DS!TypeOK, DS!Count, DS!Query
<1>2. dsArg[p] \in [op : {"none", "set", "get"} \cup DS!Walks,
                    key : Keys \cup {None}, val : Values \cup {None}]
  BY <1>0 DEF DS!TypeOK
<1>3. /\ dsPc[p] = "query" /\ op \in {"cleanup", "flush", "len"}
      /\ old.cutoff \subseteq expired /\ old.hits = {}
      /\ \A k \in Keys \ old.touched : k \in old.due <=> k \in DS!Due(op, old.cutoff)
  BY <1>0 DEF DS!Count, DS!Query, DS!CallOK, DS!WalkKept, DS!Walks
<1>4. \A k \in Keys : k \in DS!Due(op, old.cutoff)
                        <=> IF op = "len" THEN db[k] # None ELSE DS!Matches(p, k)
  <2>1. old.cutoff \subseteq Values
    BY <1>0 DEF DSWalkings
  <2> QED
    BY <1>3, <2>1, LocalFSConstants DEF DS!Due, DS!Matches
<1>5. CASE DS!Count(p)
  <2> DEFINE K == {k \in Keys : db[k] # None}
             w == [old EXCEPT !.hits = K, !.done = TRUE]
  <2>1. op = "len" /\ dsPc' = [dsPc EXCEPT ![p] = "return"]
    BY <1>5 DEF DS!Count, DS!Goto
  <2>2. dsWalk' = [dsWalk EXCEPT ![p] = w]
    BY <1>0, <1>5 DEF DS!Count, DS!TypeOK
  <2>3. w \in DSWalkings /\ w.hits = K /\ w.cutoff = old.cutoff
        /\ w.touched = old.touched /\ w.due = old.due
    BY <1>0 DEF DSWalkings
  <2>4. \A k \in Keys \ old.touched : k \in K <=> k \in old.due
    BY <1>3, <1>4, <2>1
  <2> HIDE DEF w, K
  <2>5. ASSUME dsPc'[p] = "return", dsArg'[p] = dsArg[p], dsWalk'[p] = w
        PROVE  DS!CallOK(p)' /\ DS!WalkKept(p)'
    BY <1>1, <1>3, <2>3, <2>4, <2>5 DEF DS!CallOK, DS!WalkKept
  <2> QED
    BY <1>1, <1>2, <2>1, <2>2, <2>3, <2>5, DSOwnKept
<1>6. CASE DS!Query(p)
  <2> DEFINE found == {k \in Keys : DS!Matches(p, k)}
  <2>1. PICK K \in {found, {}} :
          /\ op = "flush" => K = found
          /\ dsWalk' = [dsWalk EXCEPT ![p].todo = K, ![p].done = TRUE]
          /\ DS!Goto(p, IF K = {} THEN "return" ELSE "delete")
    BY <1>6 DEF DS!Query
  <2> DEFINE s == IF K = {} THEN "return" ELSE "delete"
             w == [old EXCEPT !.todo = K, !.done = TRUE]
  <2>2. op \in {"cleanup", "flush"} /\ dsPc' = [dsPc EXCEPT ![p] = s]
    BY <1>6, <2>1 DEF DS!Query, DS!Goto
  <2>3. dsWalk' = [dsWalk EXCEPT ![p] = w]
    BY <1>0, <2>1 DEF DS!TypeOK
  <2>4. K \subseteq found /\ found \subseteq Keys
    OBVIOUS
  <2>5. \A k \in Keys \ old.touched : k \in found <=> k \in old.due
    BY <1>3, <1>4, <2>2
  <2>6. \A k \in Keys : k \in found => k \in DS!Due(op, old.cutoff)
    BY <1>4, <2>2
  <2> HIDE DEF found
  <2>7. /\ w \in DSWalkings /\ w.hits = {} /\ w.cutoff = old.cutoff /\ w.todo = K
        /\ w.touched = old.touched /\ w.due = old.due
    BY <1>0, <1>3, <2>4 DEF DSWalkings
  <2> HIDE DEF w
  <2>8. ASSUME dsPc'[p] = s, dsArg'[p] = dsArg[p], dsWalk'[p] = w
        PROVE  DS!CallOK(p)' /\ DS!WalkKept(p)'
    <3>1. DS!CallOK(p)'
      BY <1>1, <2>2, <2>8 DEF DS!CallOK
    <3>2. \A k \in Keys : k \in DS!Due(dsArg[p].op, dsWalk[p].cutoff)'
                            <=> k \in DS!Due(op, old.cutoff)
      BY <1>1, <2>7, <2>8 DEF DS!Due, DS!Live
    <3>3. K = {} => \A k \in Keys \ old.touched : k \in old.due => k \in DS!LeftOut(p)'
      <4>1. op = "cleanup" => \A k \in Keys : k \in DS!LeftOut(p)'
        BY <1>1, <2>7, <2>8 DEF DS!LeftOut
      <4> QED
        BY <2>1, <2>2, <2>5, <4>1
    <3> QED
      BY <1>1, <1>3, <2>1, <2>4, <2>5, <2>6, <2>7, <2>8, <3>1, <3>2, <3>3
         DEF DS!WalkKept
  <2>9. s \in {"return", "delete"}
    OBVIOUS
  <2> HIDE DEF s
  <2> QED
    BY <1>1, <1>2, <2>2, <2>3, <2>7, <2>8, <2>9, DSOwnKept
<1> QED
  BY <1>5, <1>6

\* The deletes of Cleanup and Flush.
LEMMA DSDeleteKept ==
  ASSUME DS!IInv, NEW p \in Procs, DS!DeleteMulti(p) \/ DS!DeleteMultiFails(p)
  PROVE  DS!IInv'
<1>0. /\ DS!TypeOK /\ DS!CallOK(p) /\ DS!WalkKept(p)
      /\ dsWalk[p] \in DSWalkings /\ dsWalk \in [Procs -> DSWalkings]
  BY DEF DS!IInv, DS!TypeOK, DSWalkings
<1> DEFINE old == dsWalk[p]
<1>1. PICK K \in SUBSET old.todo, w \in DSWalkings :
        /\ dsPc[p] = "delete"
        /\ db' = [k \in Keys |-> IF k \in K THEN None ELSE db[k]]
        /\ dsWalk' = [DS!Touched(p, K) EXCEPT ![p] = w]
        /\ w.cutoff = old.cutoff /\ w.touched = old.touched /\ w.due = old.due
        /\ w.done => w.hits = old.todo /\ old.done
        /\ DS!Goto(p, "return") /\ UNCHANGED <<expired, dsArg>>
  <2>1. old.todo \subseteq Keys
    BY <1>0 DEF DSWalkings
  <2>2. \A K \in SUBSET Keys : DS!Touched(p, K) \in [Procs -> DSWalkings]
                               /\ DS!Touched(p, K)[p] = old
    BY <1>0, DSTouchedTyped
  <2>3. CASE DS!DeleteMulti(p)
    <3> DEFINE K == old.todo
               w == [old EXCEPT !.todo = {}, !.hits = K]
    <3>1. /\ w \in DSWalkings /\ w.cutoff = old.cutoff /\ w.touched = old.touched
          /\ w.due = old.due /\ w.hits = K /\ w.done = old.done
      BY <1>0, <2>1 DEF DSWalkings
    <3>2. dsWalk' = [DS!Touched(p, K) EXCEPT ![p] = w]
      BY <2>1, <2>2, <2>3 DEF DS!DeleteMulti
    <3> QED
      BY <2>3, <3>1, <3>2 DEF DS!DeleteMulti
  <2>4. CASE DS!DeleteMultiFails(p)
    <3> DEFINE w == [old EXCEPT !.done = FALSE]
    <3>1. PICK K \in SUBSET old.todo :
            /\ db' = [k \in Keys |-> IF k \in K THEN None ELSE db[k]]
            /\ dsWalk' = [DS!Touched(p, K) EXCEPT ![p].done = FALSE]
      BY <2>4 DEF DS!DeleteMultiFails
    <3>2. /\ w \in DSWalkings /\ w.cutoff = old.cutoff /\ w.touched = old.touched
          /\ w.due = old.due /\ ~w.done
      BY <1>0 DEF DSWalkings
    <3>3. dsWalk' = [DS!Touched(p, K) EXCEPT ![p] = w]
      BY <2>1, <2>2, <3>1
    <3> QED
      BY <2>4, <3>1, <3>2, <3>3 DEF DS!DeleteMultiFails
  <2> QED
    BY <2>3, <2>4
<1>2. /\ dsPc' = [dsPc EXCEPT ![p] = "return"] /\ dsArg[p].op \in DS!Walks
      /\ old.todo \subseteq Keys /\ K \in SUBSET Keys
  BY <1>0, <1>1 DEF DS!Goto, DS!CallOK, DS!Walks, DSWalkings
<1>3. DS!Touched(p, K) \in [Procs -> DSWalkings]
  BY <1>0, <1>2, DSTouchedTyped
<1>4. /\ dsWalk' \in [Procs -> DSWalkings] /\ dsWalk'[p] = w
      /\ \A q \in Procs \ {p} : dsWalk'[q] = DS!Touched(p, K)[q]
  BY <1>1, <1>3
<1>5. /\ DS!TypeOK' /\ dsPc'[p] = "return" /\ dsArg' = dsArg
      /\ \A q \in Procs \ {p} : dsPc'[q] = dsPc[q]
  BY <1>0, <1>1, <1>2, <1>4 DEF DS!TypeOK, DSWalkings
<1>6. DS!CallOK(p)'
  BY <1>5 DEF DS!CallOK
<1>7. \A k \in Keys \ old.touched : old.done => (k \in old.due <=> k \in old.todo)
  BY <1>0, <1>1, <1>2 DEF DS!WalkKept
<1>8. DS!WalkKept(p)'
  BY <1>0, <1>1, <1>2, <1>4, <1>5, <1>7 DEF DS!WalkKept
<1>9. \A k \in Keys \ K : db'[k] = db[k]
  BY <1>1
<1> QED
  BY <1>1, <1>2, <1>4, <1>5, <1>6, <1>8, <1>9, DSStepKept

\* The iterator of Keys and Range.
LEMMA DSVisitedKept ==
  ASSUME DS!IInv, NEW p \in Procs, NEW k \in dsWalk[p].todo, NEW hits \in SUBSET {k},
         NEW failed \in SUBSET {k},
         dsPc[p] \in {"next", "read"}, dsArg[p].op \in DS!Walks,
         DS!Visited(p, k, hits, failed), dsArg[p].op \in {"keys", "range"},
         k \notin dsWalk[p].touched =>
           /\ k \in hits => k \in DS!Due(dsArg[p].op, dsWalk[p].cutoff)
           /\ k \in DS!Due(dsArg[p].op, dsWalk[p].cutoff) => k \in hits \cup failed
  PROVE  DS!IInv'
<1> DEFINE old == dsWalk[p]
           w == [old EXCEPT !.todo = @ \ {k}, !.hits = @ \cup hits,
                            !.failed = @ \cup failed]
           a == [op |-> dsArg[p].op, key |-> None, val |-> None]
<1>0. /\ DS!TypeOK /\ DS!CallOK(p) /\ DS!WalkKept(p) /\ old \in DSWalkings
      /\ k \in Keys
  BY DEF DS!IInv, DS!TypeOK, DSWalkings
<1>1. /\ dsPc' = [dsPc EXCEPT ![p] = "next"] /\ dsArg' = [dsArg EXCEPT ![p] = a]
      /\ UNCHANGED <<db, expired>>
  BY DEF DS!Visited, DS!Goto, DS!Hold
<1>2. dsWalk' = [dsWalk EXCEPT ![p] = w]
  BY <1>0 DEF DS!Visited, DS!TypeOK
<1>3. /\ w \in DSWalkings /\ w.todo = old.todo \ {k} /\ w.hits = old.hits \cup hits
      /\ w.cutoff = old.cutoff /\ w.touched = old.touched /\ w.due = old.due
      /\ w.failed = old.failed \cup failed
  BY <1>0 DEF DSWalkings
<1>4. a \in [op : {"none", "set", "get"} \cup DS!Walks,
             key : Keys \cup {None}, val : Values \cup {None}]
  OBVIOUS
<1>5. /\ old.cutoff \subseteq expired /\ \A l \in old.todo : DS!InRange(l)
      /\ \A l \in Keys \ old.touched :
           /\ l \in old.hits => l \in old.due
           /\ l \in old.due => l \in old.hits \cup old.todo \cup DS!LeftOut(p)
           /\ l \in old.todo =>
                (l \in old.due <=> l \in DS!Due(dsArg[p].op, old.cutoff))
  BY <1>0 DEF DS!WalkKept
<1> HIDE DEF w
<1>6. ASSUME dsPc'[p] = "next", dsArg'[p] = a, dsWalk'[p] = w
      PROVE  DS!CallOK(p)' /\ DS!WalkKept(p)'
  <2>1. DS!CallOK(p)'
    BY <1>6 DEF DS!CallOK
  <2>2. \A l \in Keys : l \in DS!Due(dsArg[p].op, dsWalk[p].cutoff)'
                          <=> l \in DS!Due(dsArg[p].op, old.cutoff)
    BY <1>1, <1>3, <1>6 DEF DS!Due, DS!Live
  <2>3. \A l \in old.todo : DS!InRange(l)'
    BY <1>5 DEF DS!InRange, DS!Less
  <2>4. DS!LeftOut(p)' = DS!LeftOut(p) \cup failed
    <3>1. \A l \in Keys : DS!InRange(l)' <=> DS!InRange(l)
      BY DEF DS!InRange, DS!Less
    <3>2. /\ dsArg'[p].op = dsArg[p].op
          /\ dsWalk'[p].failed = dsWalk[p].failed \cup failed
      BY <1>3, <1>6
    <3> QED
      BY <3>1, <3>2 DEF DS!LeftOut
  <2> QED
    BY <1>0, <1>1, <1>3, <1>5, <1>6, <2>1, <2>2, <2>3, <2>4 DEF DS!WalkKept
<1> QED
  BY <1>1, <1>2, <1>3, <1>4, <1>6, DSOwnKept

LEMMA DSNextKept ==
  ASSUME DS!IInv, NEW p \in Procs,
         \/ \E k \in Keys : \/ DS!NextKey(p, k) \/ DS!NextSkipped(p, k)
                            \/ DS!NextEntity(p, k)
         \/ DS!SkipExpired(p) \/ DS!SkipUndecoded(p) \/ DS!Yield(p) \/ DS!EndWalk(p)
  PROVE  DS!IInv'
<1> DEFINE old == dsWalk[p]
           op == dsArg[p].op
<1>0. /\ DS!TypeOK /\ DS!CallOK(p) /\ DS!WalkKept(p) /\ old \in DSWalkings
  BY DEF DS!IInv, DS!TypeOK, DSWalkings
<1>1. ASSUME NEW k \in Keys, DS!NextKey(p, k) \/ DS!NextSkipped(p, k)
      PROVE  DS!IInv'
  <2>1. /\ k \in old.todo /\ dsPc[p] = "next" /\ op \in {"keys", "range"}
    BY <1>1 DEF DS!NextKey, DS!NextSkipped
  <2>2. DS!InRange(k) /\ op \in DS!Walks
    BY <1>0, <2>1 DEF DS!WalkKept, DS!Walks
  <2>3. CASE DS!NextKey(p, k)
    <3> DEFINE hits == IF db[k] = None THEN {} ELSE {k}
    <3>1. DS!Visited(p, k, hits, {}) /\ hits \in SUBSET {k} /\ op = "keys"
      BY <2>3 DEF DS!NextKey
    <3>2. k \in hits <=> k \in DS!Due(op, old.cutoff)
      BY <2>2, <3>1 DEF DS!Due
    <3> HIDE DEF hits
    <3> QED
      BY <2>1, <2>2, <3>1, <3>2, DSVisitedKept
  <2>4. CASE DS!NextSkipped(p, k)
    <3>1. DS!Visited(p, k, {}, {}) /\ {} \in SUBSET {k} /\ op = "range" /\ ~DS!Live(k)
      BY <2>4 DEF DS!NextSkipped
    <3>2. k \notin DS!Due(op, old.cutoff)
      BY <3>1 DEF DS!Due
    <3> QED
      BY <2>1, <2>2, <3>1, <3>2, DSVisitedKept
  <2> QED
    BY <1>1, <2>3, <2>4
<1>2. ASSUME DS!SkipExpired(p) \/ DS!SkipUndecoded(p) \/ DS!Yield(p)
      PROVE  DS!IInv'
  <2> DEFINE k == dsArg[p].key
  <2>1. PICK hits \in SUBSET {k}, failed \in SUBSET {k} :
          /\ dsPc[p] = "read" /\ op = "range" /\ DS!Visited(p, k, hits, failed)
          /\ IF dsArg[p].val \in expired THEN hits = {} ELSE hits \cup failed = {k}
    BY <1>2 DEF DS!SkipExpired, DS!SkipUndecoded, DS!Yield
  <2>2. /\ op \in DS!Walks /\ k \in old.todo /\ k \in Keys /\ dsArg[p].val \in Values
        /\ DS!InRange(k) /\ (k \notin old.touched => db[k] = dsArg[p].val)
    BY <1>0, <2>1 DEF DS!WalkKept, DS!CallOK, DS!Walks
  <2>3. k \notin old.touched =>
          /\ k \in hits => k \in DS!Due(op, old.cutoff)
          /\ k \in DS!Due(op, old.cutoff) => k \in hits \cup failed
    BY <2>1, <2>2, LocalFSConstants DEF DS!Due, DS!Live
  <2> QED
    BY <2>1, <2>2, <2>3, DSVisitedKept
<1>3. ASSUME NEW k \in Keys, DS!NextEntity(p, k)
      PROVE  DS!IInv'
  <2> DEFINE a == [op |-> "range", key |-> k, val |-> db[k]]
  <2>1. /\ k \in old.todo /\ dsPc[p] = "next" /\ op = "range" /\ DS!Live(k)
        /\ dsPc' = [dsPc EXCEPT ![p] = "read"] /\ dsArg' = [dsArg EXCEPT ![p] = a]
        /\ UNCHANGED <<db, expired, dsWalk>>
    BY <1>3 DEF DS!NextEntity, DS!Goto, DS!Hold
  <2>2. /\ a \in [op : {"none", "set", "get"} \cup DS!Walks,
                  key : Keys \cup {None}, val : Values \cup {None}]
        /\ dsWalk' = [dsWalk EXCEPT ![p] = old] /\ db[k] \in Values
    BY <1>0, <2>1 DEF DS!TypeOK, DS!Live, DS!Walks
  <2>3. ASSUME dsPc'[p] = "read", dsArg'[p] = a, dsWalk'[p] = old
        PROVE  DS!CallOK(p)' /\ DS!WalkKept(p)'
    <3>1. DS!CallOK(p)'
      BY <2>2, <2>3 DEF DS!CallOK
    <3>2. \A l \in Keys : l \in DS!Due(dsArg[p].op, dsWalk[p].cutoff)'
                            <=> l \in DS!Due(op, old.cutoff)
      BY <2>1, <2>3 DEF DS!Due, DS!Live
    <3>3. \A l \in old.todo : DS!InRange(l)'
      BY <1>0, <2>1 DEF DS!InRange, DS!Less, DS!WalkKept, DS!Walks
    <3>4. DS!LeftOut(p)' = DS!LeftOut(p)
      <4>1. \A l \in Keys : DS!InRange(l)' <=> DS!InRange(l)
        BY DEF DS!InRange, DS!Less
      <4>2. /\ dsArg'[p].op = "range" /\ dsArg[p].op = "range"
            /\ dsWalk'[p].failed = dsWalk[p].failed
        BY <2>1, <2>3
      <4> QED
        BY <4>1, <4>2 DEF DS!LeftOut
    <3> QED
      BY <1>0, <2>1, <2>2, <2>3, <3>1, <3>2, <3>3, <3>4 DEF DS!WalkKept, DS!Walks
  <2> QED
    BY <1>0, <2>1, <2>2, <2>3, DSOwnKept
<1>4. ASSUME DS!EndWalk(p)
      PROVE  DS!IInv'
  <2> DEFINE done == dsPc[p] = "next" /\ old.todo = {}
             w == [old EXCEPT !.done = done]
  <2>1. /\ dsPc[p] \in {"query", "next"} /\ dsPc' = [dsPc EXCEPT ![p] = "return"]
        /\ dsArg' = [dsArg EXCEPT ![p] = dsArg[p]] /\ UNCHANGED <<db, expired>>
        /\ dsWalk' = [dsWalk EXCEPT ![p] = w]
    BY <1>0, <1>4 DEF DS!EndWalk, DS!Goto, DS!TypeOK
  <2>2. /\ dsArg[p] \in [op : {"none", "set", "get"} \cup DS!Walks,
                  key : Keys \cup {None}, val : Values \cup {None}]
    BY <1>0 DEF DS!TypeOK
  <2>3. /\ w \in DSWalkings /\ w.hits = old.hits /\ w.done = done
        /\ w.cutoff = old.cutoff /\ w.touched = old.touched /\ w.due = old.due
        /\ w.failed = old.failed
    BY <1>0 DEF DSWalkings
  <2> HIDE DEF w
  <2>4. ASSUME dsPc'[p] = "return", dsArg'[p] = dsArg[p], dsWalk'[p] = w
        PROVE  DS!CallOK(p)' /\ DS!WalkKept(p)'
    <3>1. DS!LeftOut(p)' = DS!LeftOut(p)
      BY <2>3, <2>4 DEF DS!LeftOut, DS!InRange, DS!Less
    <3> QED
      BY <1>0, <2>1, <2>3, <2>4, <3>1 DEF DS!WalkKept, DS!CallOK
  <2> QED
    BY <2>1, <2>2, <2>3, <2>4, DSOwnKept
<1> QED
  BY <1>1, <1>2, <1>3, <1>4

\* An entity expires.
LEMMA DSExpireKept ==
  ASSUME DS!IInv, NEW v \in Timed, DS!Expire(v)
  PROVE  DS!IInv'
<1> DEFINE K == {k \in Keys : db[k] = v}
           W(p) == [dsWalk[p] EXCEPT !.touched =
                      IF dsArg[p].op \in DS!Walks THEN @ \cup K ELSE @]
<1>0. /\ DS!TypeOK /\ dsWalk \in [Procs -> DSWalkings]
      /\ \A p \in Procs : DS!CallOK(p) /\ DS!WalkKept(p)
  BY DEF DS!IInv, DS!TypeOK, DSWalkings
<1>1. /\ expired' = expired \cup {v} /\ UNCHANGED <<db, dsPc, dsArg>>
      /\ dsWalk' = [p \in Procs |-> W(p)]
  BY DEF DS!Expire
<1>2. K \in SUBSET Keys
  OBVIOUS
<1>3. ASSUME NEW k \in Keys \ K
      PROVE  db'[k] = db[k] /\ (db[k] \in expired' <=> db[k] \in expired)
  BY <1>1
<1> HIDE DEF K
<1>4. ASSUME NEW p \in Procs
      PROVE  W(p) \in DSWalkings
  BY <1>0, <1>2 DEF DSWalkings
<1>5. ASSUME NEW p \in Procs, dsArg[p].op \in DS!Walks
      PROVE  DSSees(p, K)
  <2>1. dsWalk[p] \in DSWalkings /\ dsWalk'[p] = W(p)
    BY <1>0, <1>1
  <2> QED
    BY <1>5, <2>1 DEF DSSees, DSWalkings
<1>6. DS!TypeOK'
  <2>1. dsWalk' \in [Procs -> DSWalkings]
    BY <1>1, <1>4
  <2> HIDE DEF W
  <2> QED
    BY <1>0, <1>1, <2>1 DEF DS!TypeOK, DSWalkings
<1> HIDE DEF W
<1>7. \A p \in Procs : DS!CallOK(p)'
  BY <1>0, <1>1 DEF DS!CallOK
<1>8. \A p \in Procs : DS!WalkKept(p)'
  BY <1>0, <1>1, <1>3, <1>5, DSOtherKept
<1> QED
  BY <1>6, <1>7, <1>8 DEF DS!IInv

LEMMA DSNextKeeps == DS!IInv /\ [DS!Next]_(DS!vars) => DS!IInv'
<1> SUFFICES ASSUME DS!IInv, [DS!Next]_(DS!vars)
             PROVE  DS!IInv'
  OBVIOUS
<1>1. CASE UNCHANGED DS!vars
  <2>1. UNCHANGED <<db, expired, dsPc, dsArg, dsWalk>>
    BY <1>1 DEF DS!vars
  <2>2. DS!TypeOK'
    BY <2>1 DEF DS!IInv, DS!TypeOK
  <2>3. \A p \in Procs : DS!WalkKept(p)'
    <3>1. /\ {} \in SUBSET Keys /\ DS!TypeOK
          /\ \A p \in Procs : DS!WalkKept(p) /\ DSSees(p, {})
      BY <2>1 DEF DS!IInv, DSSees
    <3> QED
      BY <2>1, <3>1, DSOtherKept
  <2>4. \A p \in Procs : DS!CallOK(p)'
    BY <2>1 DEF DS!IInv, DS!CallOK
  <2> QED
    BY <2>2, <2>3, <2>4 DEF DS!IInv
<1>2. ASSUME NEW p \in Procs, NEW k \in Keys,
             \/ DS!Get(p, k) \/ DS!Delete(p, k) \/ \E v \in Values : DS!Set(p, k, v)
             \/ DS!NextKey(p, k) \/ DS!NextSkipped(p, k) \/ DS!NextEntity(p, k)
      PROVE  DS!IInv'
  BY <1>2, DSCallKept, DSNextKept
<1>3. ASSUME NEW p \in Procs,
             \/ DS!GetCheck(p) \/ DS!Put(p) \/ DS!PutFails(p)
             \/ DS!Count(p) \/ DS!Query(p)
             \/ DS!DeleteMulti(p) \/ DS!DeleteMultiFails(p)
             \/ DS!SkipExpired(p) \/ DS!SkipUndecoded(p) \/ DS!Yield(p) \/ DS!EndWalk(p)
             \/ DS!Return(p) \/ \E op \in DS!Walks : DS!StartWalk(p, op)
      PROVE  DS!IInv'
  BY <1>3, DSCallKept, DSQueryKept, DSDeleteKept, DSNextKept, DSStartKept
<1>4. ASSUME NEW v \in Timed, DS!Expire(v)
      PROVE  DS!IInv'
  BY <1>4, DSExpireKept
<1> QED
  BY <1>1, <1>2, <1>3, <1>4 DEF DS!Next

\* No entity and no call.
LEMMA DSInitial == DS!Init => DS!IInv
<1> HAVE DS!Init
<1>1. DS!NoWalk \in DSWalkings
  BY DEF DS!NoWalk, DSWalkings
<1>2. DS!TypeOK
  BY <1>1, LocalFSConstants DEF DS!Init, DS!TypeOK, DS!NoArg, DSWalkings
<1>3. \A p \in Procs : DS!CallOK(p) /\ DS!WalkKept(p)
  BY DEF DS!Init, DS!CallOK, DS!WalkKept, DS!NoArg, DS!Walks
<1> QED
  BY <1>2, <1>3 DEF DS!IInv

\* What a query that ends was meant for it has found, or it is left out.
LEMMA DSWalksEndExact == DS!IInv => DS!WalkExact
<1> SUFFICES ASSUME DS!IInv, NEW p \in Procs, dsArg[p].op \in DS!Walks,
                    dsPc[p] = "return", dsWalk[p].done
             PROVE  LET w == dsWalk[p] IN
                    /\ w.hits \ w.touched \subseteq w.due
                    /\ w.due \ w.touched \subseteq w.hits \cup DS!LeftOut(p)
  BY DEF DS!WalkExact
<1>1. /\ dsWalk[p].hits \subseteq Keys /\ dsWalk[p].due \subseteq Keys
      /\ DS!WalkKept(p)
  BY DEF DS!IInv, DS!TypeOK
<1> QED
  BY <1>1 DEF DS!WalkKept

\* Only a Delete and a delete of the found keys remove an entity.
LEMMA DSFreshRemoved ==
  ASSUME DS!IInv, DS!Next, NEW k \in Keys,
         db[k] \in Values \ expired, db'[k] = None
  PROVE  \E p \in Procs :
           \/ DS!Delete(p, k)
           \/ dsPc[p] = "delete" /\ k \in dsWalk[p].todo
              /\ (dsArg[p].op = "flush" \/ k \in dsWalk[p].touched)
<1> USE LocalFSConstants
<1>0. /\ DS!TypeOK /\ \A p \in Procs : DS!CallOK(p) /\ DS!WalkKept(p)
      /\ db[k] # None
  BY DEF DS!IInv
<1>1. PICK p \in Procs : \/ \E l \in Keys : DS!Delete(p, l)
                         \/ DS!Put(p) \/ DS!DeleteMulti(p) \/ DS!DeleteMultiFails(p)
  <2>1. db' # db
    BY <1>0
  <2>2. ASSUME NEW p \in Procs, NEW l \in Keys,
               \/ DS!Get(p, l) \/ \E v \in Values : DS!Set(p, l, v)
               \/ DS!NextKey(p, l) \/ DS!NextSkipped(p, l) \/ DS!NextEntity(p, l)
        PROVE  FALSE
    BY <2>1, <2>2 DEF DS!Get, DS!Set, DS!NextKey, DS!NextSkipped, DS!NextEntity,
                      DS!Visited
  <2>3. ASSUME NEW p \in Procs,
               \/ DS!GetCheck(p) \/ DS!PutFails(p) \/ DS!Count(p) \/ DS!Query(p)
               \/ DS!SkipExpired(p) \/ DS!SkipUndecoded(p) \/ DS!Yield(p)
               \/ DS!EndWalk(p) \/ DS!Return(p)
        PROVE  FALSE
    BY <2>1, <2>3 DEF DS!GetCheck, DS!PutFails, DS!Count, DS!Query, DS!SkipExpired,
                      DS!SkipUndecoded, DS!Yield, DS!Visited, DS!EndWalk, DS!Return
  <2>4. ASSUME NEW p \in Procs, NEW op \in DS!Walks, DS!StartWalk(p, op)
        PROVE  FALSE
    BY <2>1, <2>4, Zenon DEF DS!StartWalk
  <2>5. ASSUME NEW v \in Timed, DS!Expire(v)
        PROVE  FALSE
    BY <2>1, <2>5, Zenon DEF DS!Expire
  <2> QED
    BY <2>2, <2>3, <2>4, <2>5 DEF DS!Next
<1>2. ASSUME NEW l \in Keys, DS!Delete(p, l)
      PROVE  l = k
  BY <1>0, <1>2 DEF DS!Delete, DS!TypeOK
<1>3. ~DS!Put(p)
  <2> SUFFICES ASSUME DS!Put(p)
               PROVE  FALSE
    OBVIOUS
  <2>1. dsArg[p].key \in Keys /\ dsArg[p].val \in Values
        /\ db' = [db EXCEPT ![dsArg[p].key] = dsArg[p].val]
    BY <1>0 DEF DS!Put, DS!CallOK
  <2> QED
    BY <1>0, <2>1 DEF DS!TypeOK
<1>4. ASSUME DS!DeleteMulti(p) \/ DS!DeleteMultiFails(p)
      PROVE  /\ dsPc[p] = "delete" /\ k \in dsWalk[p].todo
             /\ (dsArg[p].op = "flush" \/ k \in dsWalk[p].touched)
  <2>1. dsPc[p] = "delete" /\ k \in dsWalk[p].todo
    BY <1>0, <1>4 DEF DS!DeleteMulti, DS!DeleteMultiFails
  <2>2. dsArg[p].op \in {"cleanup", "flush"} /\ dsArg[p].op \in DS!Walks
    BY <1>0, <2>1 DEF DS!CallOK, DS!Walks
  <2>3. CASE dsArg[p].op = "cleanup" /\ k \notin dsWalk[p].touched
    <3>1. k \in DS!Due("cleanup", dsWalk[p].cutoff)
          /\ dsWalk[p].cutoff \subseteq expired
      BY <1>0, <2>1, <2>2, <2>3 DEF DS!WalkKept
    <3> QED
      BY <3>1 DEF DS!Due
  <2> QED
    BY <2>1, <2>2, <2>3
<1> QED
  BY <1>1, <1>2, <1>3, <1>4

-----------------------------------------------------------------------------
(* The store that New picked, and the other one, which nobody calls *)

LEMMA MapInitial == MapInit => MapInv
<1> HAVE MapInit
<1>1. IInv /\ \A p \in Procs : pc[p] = "idle" /\ arg[p] = NoArg
  BY Initial DEF MapInit, Init
<1>2. WalkInv
  BY <1>1 DEF WalkInv, StaleOrSpoilt, WalkKept, Walking
<1>3. OneKey
  BY LocalFSConstants DEF MapInit, Init, OneKey, Leads, NoArg
<1>4. OneIsPutting /\ \A p \in Procs : SeenOK(p)
  BY <1>1 DEF OneIsPutting, Writing, SeenOK, Looking
<1> QED
  BY <1>2, <1>3, <1>4 DEF MapInv

\* Time passes for the entities of a store that nobody calls.
LEMMA DSIdleKept ==
  ASSUME DS!IInv, UNCHANGED dsVars, expired' \subseteq Timed,
         \A p \in Procs : dsPc[p] = "idle"
  PROVE  DS!IInv'
<1>1. DS!TypeOK /\ \A p \in Procs : DS!CallOK(p)
  BY DEF DS!IInv
<1>2. DS!TypeOK'
  BY <1>1 DEF DS!TypeOK, dsVars
<1>3. \A p \in Procs : DS!CallOK(p)' /\ DS!WalkKept(p)'
  BY <1>1 DEF dsVars, DS!CallOK, DS!WalkKept, DS!NoArg, DS!Walks
<1> QED
  BY <1>2, <1>3 DEF DS!IInv

\* And for its files.
LEMMA MapIdleKept ==
  ASSUME MapInv, UNCHANGED <<disk, pc, arg, walk, spoilt, seen>>,
         expired' \subseteq Timed, \A p \in Procs : pc[p] = "idle"
  PROVE  MapInv'
<1>1. /\ TypeOK /\ FilesWhole /\ Apart /\ OneKey
      /\ \A p \in Procs : CallOK(p) /\ AloneOrSpoilt(p)
  BY DEF MapInv, WalkInv, IInv
<1>2. TypeOK' /\ FilesWhole' /\ Apart' /\ OneKey'
  BY <1>1 DEF disk, TypeOK, FilesWhole, Content, Apart, OneKey, Leads
<1>3. \A p \in Procs : CallOK(p)' /\ AloneOrSpoilt(p)' /\ StaleOrSpoilt(p)'
                       /\ WalkKept(p)' /\ SeenOK(p)'
  BY <1>1 DEF CallOK, AloneOrSpoilt, Writing, StaleOrSpoilt, WalkKept, Walking,
              SeenOK, Looking
<1>4. OneIsPutting'
  BY DEF OneIsPutting, Writing
<1> QED
  BY <1>2, <1>3, <1>4 DEF MapInv, WalkInv, IInv

LEMMA CloudInitial == CloudInit => StoresIntact
<1> HAVE CloudInit
<1>1. MapInv /\ DS!IInv
  BY MapInitial, DSInitial DEF CloudInit
<1>2. \A p \in Procs : pc[p] = "idle" /\ dsPc[p] = "idle"
  BY DEF CloudInit, MapInit, Init, DS!Init
<1> QED
  BY <1>1, <1>2 DEF StoresIntact

\* A step is one of the store that New picked.
LEMMA CloudStep ==
  ASSUME StoresIntact, [CloudNext]_cloudVars
  PROVE  /\ backend' = backend /\ MapInv /\ DS!IInv
         /\ \/ /\ backend # "datastore" /\ \A p \in Procs : dsPc[p] = "idle"
               /\ MapNext /\ UNCHANGED dsVars
            \/ /\ backend = "datastore" /\ \A p \in Procs : pc[p] = "idle"
               /\ DS!Next /\ UNCHANGED <<disk, pc, arg, walk, spoilt, seen>>
            \/ UNCHANGED cloudVars
BY DEF StoresIntact, CloudNext, cloudVars

LEMMA CloudNextKeeps == StoresIntact /\ [CloudNext]_cloudVars => StoresIntact'
<1> SUFFICES ASSUME StoresIntact, [CloudNext]_cloudVars
             PROVE  StoresIntact'
  OBVIOUS
<1>1. backend' = backend /\ MapInv /\ DS!IInv
  BY CloudStep
<1>2. CASE /\ backend # "datastore" /\ \A p \in Procs : dsPc[p] = "idle"
           /\ MapNext /\ UNCHANGED dsVars
  <2>1. MapInv'
    BY <1>1, <1>2, NextMapInv
  <2>2. expired' \subseteq Timed
    BY <2>1 DEF MapInv, WalkInv, IInv, TypeOK
  <2>3. DS!IInv'
    BY <1>1, <1>2, <2>2, DSIdleKept
  <2> QED
    BY <1>1, <1>2, <2>1, <2>3 DEF StoresIntact, dsVars
<1>3. CASE /\ backend = "datastore" /\ \A p \in Procs : pc[p] = "idle"
           /\ DS!Next /\ UNCHANGED <<disk, pc, arg, walk, spoilt, seen>>
  <2>1. DS!IInv'
    BY <1>1, <1>3, DSNextKeeps
  <2>2. expired' \subseteq Timed
    BY <2>1 DEF DS!IInv, DS!TypeOK
  <2>3. MapInv'
    BY <1>1, <1>3, <2>2, MapIdleKept
  <2> QED
    BY <1>1, <1>3, <2>1, <2>3 DEF StoresIntact
<1>4. CASE UNCHANGED cloudVars
  <2>1. /\ UNCHANGED <<disk, pc, arg, walk, spoilt, seen, expired, backend, dsVars>>
    BY <1>4 DEF cloudVars, mapVars, vars
  <2>2. /\ UNCHANGED <<file, tmp, data, db, dsPc, dsArg, dsWalk>>
    BY <2>1 DEF disk, dsVars
  <2>3. DS!IInv'
    BY <1>1, <2>1, <2>2, DSNextKeeps DEF DS!vars
  <2>4. WalkInv'
    BY <1>1, <2>1, NextWalkInv DEF MapInv, vars
  <2>5. OneKey' /\ OneIsPutting' /\ \A p \in Procs : SeenOK(p)'
    BY <1>1, <2>1, <2>2 DEF MapInv, OneKey, Leads, OneIsPutting, Writing, SeenOK,
                            Looking, Entry, Shown
  <2> QED
    BY <2>1, <2>2, <2>3, <2>4, <2>5 DEF StoresIntact, MapInv
<1> QED
  BY <1>2, <1>3, <1>4, CloudStep

\* Whichever store New picks, each goroutine's call of it is in the order that
\* its properties rest on, with whatever the others do meanwhile, and what
\* fails and crashes; the other store is left alone (cloudrun.go:33-40).
THEOREM StoresStayIntact == CloudSpec => []StoresIntact
BY CloudInitial, CloudNextKeeps, PTL DEF CloudSpec

\* A walk that comes to its end has removed, counted or yielded what it was
\* meant for and nothing else, whatever the others did to other keys meanwhile
\* (localfs.go:239-443, datastore.go:162-311).
THEOREM WalksAreExact == CloudSpec => []WalksExact
<1>1. StoresIntact => WalksExact
  BY WalksEndExact, DSWalksEndExact DEF StoresIntact, MapInv, WalksExact
<1> QED
  BY <1>1, StoresStayIntact, PTL

\* An entry that has not expired is removed by a Delete or a Flush, or when it
\* replaced an expired one between the look at that one and the removal of
\* whatever has its name (localfs.go:152-156 and 281-287, datastore.go:171-180).
THEOREM FreshStaysKept == CloudSpec => FreshKept
<1> DEFINE A ==
      \A k \in Keys :
        Content(k) \in Values \ expired /\ file'[k] = None =>
          \E p \in Procs :
            \/ Delete(p, k)
            \/ Visits(p, k) /\ arg[p].op = "flush"
            \/ Unlinks(p, k) /\ (arg[p].fd # file[k] \/ file[k] \in spoilt)
           B ==
      \A k \in Keys :
        db[k] \in Values \ expired /\ db'[k] = None =>
          \E p \in Procs :
            \/ DS!Delete(p, k)
            \/ dsPc[p] = "delete" /\ k \in dsWalk[p].todo
               /\ (dsArg[p].op = "flush" \/ k \in dsWalk[p].touched)
<1>1. StoresIntact /\ [CloudNext]_cloudVars => A /\ B
  <2> SUFFICES ASSUME StoresIntact, [CloudNext]_cloudVars, NEW k \in Keys
               PROVE  /\ Content(k) \in Values \ expired /\ file'[k] = None =>
                           \E p \in Procs :
                             \/ Delete(p, k)
                             \/ Visits(p, k) /\ arg[p].op = "flush"
                             \/ Unlinks(p, k) /\ (arg[p].fd # file[k]
                                                  \/ file[k] \in spoilt)
                      /\ db[k] \in Values \ expired /\ db'[k] = None =>
                           \E p \in Procs :
                             \/ DS!Delete(p, k)
                             \/ dsPc[p] = "delete" /\ k \in dsWalk[p].todo
                                /\ (dsArg[p].op = "flush" \/ k \in dsWalk[p].touched)
    OBVIOUS
  <2>1. MapInv /\ DS!IInv
    BY CloudStep
  <2>2. None \notin Values
    BY LocalFSConstants
  <2>3. CASE MapNext /\ UNCHANGED dsVars
    <3>1. [Next]_vars /\ WalkInv /\ db' = db
      BY <2>1, <2>3 DEF MapNext, MapInv, dsVars
    <3> QED
      BY <2>2, <3>1, FreshRemoved
  <2>4. CASE DS!Next /\ UNCHANGED <<disk, pc, arg, walk, spoilt, seen>>
    <3>1. Content(k) \in Values => file'[k] # None
      BY <2>2, <2>4 DEF Content, disk
    <3> QED
      BY <2>1, <2>4, <3>1, DSFreshRemoved
  <2>5. CASE UNCHANGED cloudVars
    <3>1. UNCHANGED <<file, db>>
      BY <2>5 DEF cloudVars, mapVars, vars, disk, dsVars
    <3> QED
      BY <2>2, <3>1 DEF Content
  <2> QED
    BY <2>3, <2>4, <2>5, CloudStep
<1>2. [][A]_vars => FreshStays
  BY PTL DEF FreshStays
<1>3. [][B]_(DS!vars) => DS!FreshStays
  BY PTL DEF DS!FreshStays
<1> QED
  BY <1>1, <1>2, <1>3, StoresStayIntact, PTL DEF CloudSpec, FreshKept

-----------------------------------------------------------------------------
(* What the chosen store looks like from outside *)

Registers == IF backend = "datastore" THEN DS!Shown ELSE Shown
Calls == [p \in Procs |->
            IF backend = "datastore" THEN DS!CallOf(p) ELSE CallOf(p)]

LEMMA Stutters ==
  ASSUME Registers' = Registers, Calls' = Calls
  PROVE  Chosen!Next
BY DEF Chosen!Next, Chosen!vars, Registers, Calls

LEMMA Enters ==
  ASSUME NEW p \in Procs, NEW k \in Keys, Calls[p] = Chosen!Idle,
         Registers' = Registers,
         \/ \E v \in Values :
              Calls' = [Calls EXCEPT ![p] = [op |-> "put", key |-> k, seen |-> {v}]]
         \/ \E op \in {"get", "got"} :
              Calls' = [Calls EXCEPT ![p] =
                          [op |-> op, key |-> k, seen |-> {Registers[k]}]]
  PROVE  Chosen!Next
BY DEF Chosen!Next, Chosen!Put, Chosen!Get, Chosen!Enter, Registers, Calls

LEMMA Leaves ==
  ASSUME NEW p \in Procs, Registers' = Registers,
         Calls' = [Calls EXCEPT ![p] = Chosen!Idle]
  PROVE  Chosen!Next
<1>1. CASE Calls[p] = Chosen!Idle
  <2>1. Calls' = Calls
    BY <1>1 DEF Calls
  <2> QED
    BY <2>1, Stutters
<1>2. CASE Calls[p] # Chosen!Idle
  <2>1. Chosen!Return(p)
    BY <1>2 DEF Chosen!Return, Registers, Calls
  <2> QED
    BY <2>1 DEF Chosen!Next
<1> QED
  BY <1>1, <1>2

LEMMA Answers ==
  ASSUME NEW p \in Procs, Registers' = Registers, NEW r,
         \/ Calls[p].op = "get" /\ r \in Calls[p].seen
         \/ Calls[p].op = "got" /\ r = None,
         Calls' = [Calls EXCEPT ![p] =
                     [op |-> "got", key |-> Calls[p].key, seen |-> {r}]]
  PROVE  Chosen!Next
<1>1. Chosen!Answer(p) \/ Chosen!Drop(p)
  BY DEF Chosen!Answer, Chosen!Drop, Chosen!Enter, Registers, Calls
<1> QED
  BY <1>1 DEF Chosen!Next

\* What those who get one of the keys in K are shown.
ShownToo(K, r) ==
  \A q \in Procs :
    Calls'[q] = IF Calls[q].op = "get" /\ Calls[q].key \in K
                THEN [Calls[q] EXCEPT !.seen = @ \cup {r}] ELSE Calls[q]

LEMMA ShownTooIs ==
  ASSUME NEW K, NEW r, ShownToo(K, r)
  PROVE  Chosen!Show(K, r)
<1>1. Calls' = [q \in Procs |-> Calls'[q]]
  BY DEF Calls
<1>2. Calls' = [q \in Procs |->
                  IF Calls[q].op = "get" /\ Calls[q].key \in K
                  THEN [Calls[q] EXCEPT !.seen = @ \cup {r}] ELSE Calls[q]]
  BY <1>1 DEF ShownToo
<1> QED
  BY <1>2 DEF Chosen!Show, Calls

LEMMA Loses ==
  ASSUME NEW K \in SUBSET Keys, NEW L \in SUBSET K, ShownToo(K, None),
         Registers' = [k \in Keys |-> IF k \in L THEN None ELSE Registers[k]]
  PROVE  Chosen!Next
<1>1. Chosen!Lost(L)
  BY DEF Chosen!Lost, Registers
<1>2. Chosen!Lose(K)
  BY <1>1, ShownTooIs DEF Chosen!Lose
<1> QED
  BY <1>2 DEF Chosen!Next

LEMMA Writes ==
  ASSUME NEW k \in Keys, NEW v \in Values, ShownToo({k}, v),
         \E p \in Procs : Calls[p] = [op |-> "put", key |-> k, seen |-> {v}],
         Registers' = [Registers EXCEPT ![k] = v] \/ Registers' = Registers
  PROVE  Chosen!Next
<1>1. Chosen!Putting(k, v)
  BY DEF Chosen!Putting, Calls
<1>2. Chosen!Write(k, v)
  BY <1>1, ShownTooIs DEF Chosen!Write, Registers
<1> QED
  BY <1>2 DEF Chosen!Next

LEMMA Crashes ==
  ASSUME NEW K \in SUBSET Keys, \A p \in Procs : Calls'[p] = Chosen!Idle,
         Registers' = [k \in Keys |-> IF k \in K THEN None ELSE Registers[k]]
  PROVE  Chosen!Next
<1>1. Chosen!Lost(K)
  BY DEF Chosen!Lost, Registers
<1>2. Calls' = [p \in Procs |-> Chosen!Idle]
  BY DEF Calls
<1>3. Chosen!Crash(K)
  BY <1>1, <1>2 DEF Chosen!Crash, Calls
<1> QED
  BY <1>3 DEF Chosen!Next

-----------------------------------------------------------------------------
(* Datastore implements the store *)

LEMMA DSSeen ==
  ASSUME backend = "datastore", backend' = backend
  PROVE  /\ Registers = DS!Shown /\ Registers' = DS!Shown'
         /\ Calls = [p \in Procs |-> DS!CallOf(p)]
         /\ Calls' = [p \in Procs |-> DS!CallOf(p)']
BY DEF Registers, Calls

LEMMA DSCallIs ==
  ASSUME NEW p \in Procs
  PROVE  /\ dsArg[p].op = "set" => DS!CallOf(p)
              = [op |-> "put", key |-> dsArg[p].key, seen |-> {dsArg[p].val}]
         /\ dsArg[p].op = "get" \/ (dsArg[p].op = "range" /\ dsPc[p] = "read") =>
              DS!CallOf(p)
                = [op |-> "got", key |-> dsArg[p].key, seen |-> {dsArg[p].val}]
         /\ dsArg[p].op \notin {"set", "get", "range"}
            \/ (dsArg[p].op = "range" /\ dsPc[p] # "read") =>
              DS!CallOf(p) = Chosen!Idle
BY DEF DS!CallOf, Chosen!Idle

LEMMA DSCallIsNext ==
  ASSUME NEW p \in Procs
  PROVE  /\ dsArg'[p].op = "set" => DS!CallOf(p)'
              = [op |-> "put", key |-> dsArg'[p].key, seen |-> {dsArg'[p].val}]
         /\ dsArg'[p].op = "get" \/ (dsArg'[p].op = "range" /\ dsPc'[p] = "read") =>
              DS!CallOf(p)'
                = [op |-> "got", key |-> dsArg'[p].key, seen |-> {dsArg'[p].val}]
         /\ dsArg'[p].op \notin {"set", "get", "range"}
            \/ (dsArg'[p].op = "range" /\ dsPc'[p] # "read") =>
              DS!CallOf(p)' = Chosen!Idle
BY DEF DS!CallOf, Chosen!Idle

\* A step of p that changes no entity.
LEMMA DSOneCalls ==
  ASSUME backend = "datastore", backend' = backend, DS!TypeOK, NEW p \in Procs,
         UNCHANGED <<db, expired>>, NEW s, dsPc' = [dsPc EXCEPT ![p] = s],
         NEW a, dsArg' = [dsArg EXCEPT ![p] = a]
  PROVE  /\ Registers' = Registers /\ dsPc'[p] = s /\ dsArg'[p] = a
         /\ Calls' = [Calls EXCEPT ![p] = DS!CallOf(p)']
<1>1. /\ dsPc'[p] = s /\ dsArg'[p] = a
      /\ \A q \in Procs \ {p} : dsPc'[q] = dsPc[q] /\ dsArg'[q] = dsArg[q]
  BY DEF DS!TypeOK
<1>2. DS!Shown' = DS!Shown
  BY DEF DS!Shown, DS!Live
<1>3. \A q \in Procs \ {p} : DS!CallOf(q)' = DS!CallOf(q)
  BY <1>1 DEF DS!CallOf
<1> QED
  BY <1>1, <1>2, <1>3, DSSeen

\* A step that changes nobody's call loses the keys in K.
LEMMA DSLoses ==
  ASSUME backend = "datastore", backend' = backend, NEW K \in SUBSET Keys,
         \A q \in Procs : DS!CallOf(q)' = DS!CallOf(q),
         \A k \in Keys : DS!Shown'[k] = IF k \in K THEN None ELSE DS!Shown[k]
  PROVE  Chosen!Next
<1>1. ShownToo({}, None)
  BY DSSeen DEF ShownToo
<1>2. \A q \in Procs : Calls[q].op # "get"
  BY DSSeen DEF DS!CallOf
<1>3. ShownToo(K, None)
  BY <1>1, <1>2 DEF ShownToo
<1>4. Registers' = [k \in Keys |-> IF k \in K THEN None ELSE Registers[k]]
  BY DSSeen DEF DS!Shown
<1> QED
  BY <1>3, <1>4, Loses

\* The calls, seen from outside.
LEMMA DSCallImplements ==
  ASSUME backend = "datastore", backend' = backend, DS!IInv, NEW p \in Procs,
         \/ \E k \in Keys : DS!Get(p, k) \/ \E v \in Values : DS!Set(p, k, v)
         \/ DS!GetCheck(p) \/ DS!Return(p)
  PROVE  Chosen!Next
<1>0. DS!TypeOK /\ DS!CallOK(p)
  BY DEF DS!IInv
<1> USE DEF DS!Goto, DS!Hold
<1>1. dsPc[p] = "idle" => Calls[p] = Chosen!Idle
  BY <1>0, DSSeen, DSCallIs DEF DS!CallOK, DS!NoArg
<1>2. ASSUME NEW k \in Keys, DS!Get(p, k)
      PROVE  Chosen!Next
  <2>1. /\ Registers' = Registers /\ dsArg'[p] = [op |-> "get", key |-> k, val |-> db[k]]
        /\ Calls' = [Calls EXCEPT ![p] = DS!CallOf(p)'] /\ dsPc[p] = "idle"
    <3> DEFINE a == [op |-> "get", key |-> k, val |-> db[k]]
    <3>1. /\ UNCHANGED <<db, expired>> /\ dsPc' = [dsPc EXCEPT ![p] = "read"]
          /\ dsArg' = [dsArg EXCEPT ![p] = a] /\ dsPc[p] = "idle"
      BY <1>2 DEF DS!Get
    <3> HIDE DEF a
    <3>2. /\ Registers' = Registers /\ dsArg'[p] = a
          /\ Calls' = [Calls EXCEPT ![p] = DS!CallOf(p)']
      BY <1>0, <3>1, DSOneCalls
    <3> QED
      BY <3>1, <3>2 DEF a
  <2>2. DS!CallOf(p)' = [op |-> "got", key |-> k, seen |-> {db[k]}]
    BY <2>1, DSCallIsNext
  <2>3. Registers[k] = db[k]
    BY <1>2, DSSeen DEF DS!Get, DS!Shown
  <2> QED
    BY <1>1, <2>1, <2>2, <2>3, Enters
<1>3. ASSUME NEW k \in Keys, NEW v \in Values, DS!Set(p, k, v)
      PROVE  Chosen!Next
  <2>1. /\ Registers' = Registers /\ dsArg'[p] = [op |-> "set", key |-> k, val |-> v]
        /\ Calls' = [Calls EXCEPT ![p] = DS!CallOf(p)'] /\ dsPc[p] = "idle"
    BY <1>0, <1>3, DSOneCalls DEF DS!Set
  <2>2. DS!CallOf(p)' = [op |-> "put", key |-> k, seen |-> {v}]
    BY <2>1, DSCallIsNext
  <2> QED
    BY <1>1, <2>1, <2>2, Enters
<1>4. ASSUME DS!GetCheck(p)
      PROVE  Chosen!Next
  <2> DEFINE v == IF dsArg[p].val \in expired THEN None ELSE dsArg[p].val
             k == dsArg[p].key
  <2>1. /\ Registers' = Registers /\ dsArg'[p] = [op |-> "get", key |-> k, val |-> v]
        /\ Calls' = [Calls EXCEPT ![p] = DS!CallOf(p)'] /\ dsArg[p].op = "get"
    <3>1. /\ UNCHANGED <<db, expired>> /\ dsPc' = [dsPc EXCEPT ![p] = "return"]
          /\ dsArg' = [dsArg EXCEPT ![p] = [op |-> "get", key |-> k, val |-> v]]
          /\ dsArg[p].op = "get"
      BY <1>4 DEF DS!GetCheck
    <3> HIDE DEF k, v
    <3> QED
      BY <1>0, <3>1, DSOneCalls
  <2>2. /\ DS!CallOf(p)' = [op |-> "got", key |-> k, seen |-> {v}]
        /\ DS!CallOf(p) = [op |-> "got", key |-> k, seen |-> {dsArg[p].val}]
    BY <2>1, DSCallIs, DSCallIsNext
  <2>3. Calls[p] = [op |-> "got", key |-> k, seen |-> {dsArg[p].val}]
    BY <2>2, DSSeen
  <2>4. CASE v = None
    <3> HIDE DEF k, v
    <3>1. /\ Calls[p].op = "got"
          /\ Calls' = [Calls EXCEPT ![p] =
                         [op |-> "got", key |-> Calls[p].key, seen |-> {None}]]
      BY <2>1, <2>2, <2>3, <2>4
    <3> QED
      BY <2>1, <3>1, Answers
  <2>5. CASE v = dsArg[p].val
    <3>1. Calls' = Calls
      BY <2>1, <2>2, <2>3, <2>5 DEF Calls
    <3> QED
      BY <2>1, <3>1, Stutters
  <2> QED
    BY <2>4, <2>5
<1>5. ASSUME DS!Return(p)
      PROVE  Chosen!Next
  <2>1. /\ Registers' = Registers /\ dsArg'[p] = DS!NoArg
        /\ Calls' = [Calls EXCEPT ![p] = DS!CallOf(p)']
    BY <1>0, <1>5, DSOneCalls DEF DS!Return
  <2>2. DS!CallOf(p)' = Chosen!Idle
    BY <2>1, DSCallIsNext DEF DS!NoArg
  <2> QED
    BY <2>1, <2>2, Leaves
<1> QED
  BY <1>2, <1>3, <1>4, <1>5

\* What writes to the database.
LEMMA DSWriteImplements ==
  ASSUME backend = "datastore", backend' = backend, DS!IInv,
         \/ \E p \in Procs : \/ \E k \in Keys : DS!Delete(p, k)
                             \/ DS!Put(p) \/ DS!PutFails(p)
                             \/ DS!DeleteMulti(p) \/ DS!DeleteMultiFails(p)
         \/ \E v \in Timed : DS!Expire(v)
  PROVE  Chosen!Next
<1>0. DS!TypeOK /\ \A q \in Procs : DS!CallOK(q)
  BY DEF DS!IInv
<1> USE LocalFSConstants
<1>1. \A q \in Procs : DS!CallOf(q)' = DS!CallOf(q)
  <2>1. CASE dsArg' = dsArg /\ dsPc' = dsPc
    BY <2>1 DEF DS!CallOf
  <2>2. ASSUME NEW p \in Procs, dsArg' = dsArg, DS!Goto(p, "return"),
               dsPc[p] \in {"put", "delete"}
        PROVE  \A q \in Procs : DS!CallOf(q)' = DS!CallOf(q)
    <3>1. \A q \in Procs : dsPc'[q] = dsPc[q] \/ (dsPc[q] # "read" /\ dsPc'[q] # "read")
      BY <1>0, <2>2 DEF DS!Goto, DS!TypeOK
    <3> QED
      BY <2>2, <3>1 DEF DS!CallOf
  <2> QED
    BY <2>1, <2>2 DEF DS!Delete, DS!Put, DS!PutFails, DS!DeleteMulti,
                      DS!DeleteMultiFails, DS!Expire
<1>2. ASSUME NEW K \in SUBSET Keys, expired' = expired,
             db' = [k \in Keys |-> IF k \in K THEN None ELSE db[k]]
      PROVE  Chosen!Next
  <2>1. \A k \in Keys : DS!Shown'[k] = IF k \in K THEN None ELSE DS!Shown[k]
    BY <1>2 DEF DS!Shown, DS!Live
  <2> QED
    BY <1>1, <2>1, DSLoses
<1>3. ASSUME NEW p \in Procs, NEW k \in Keys, DS!Delete(p, k)
      PROVE  Chosen!Next
  <2>1. {k} \in SUBSET Keys /\ expired' = expired
        /\ db' = [l \in Keys |-> IF l \in {k} THEN None ELSE db[l]]
    BY <1>0, <1>3 DEF DS!Delete, DS!TypeOK
  <2> QED
    BY <1>2, <2>1
<1>4. ASSUME NEW p \in Procs, DS!DeleteMulti(p) \/ DS!DeleteMultiFails(p)
      PROVE  Chosen!Next
  <2>1. dsWalk[p].todo \subseteq Keys
    BY <1>0 DEF DS!TypeOK
  <2>2. \E K \in SUBSET Keys :
          expired' = expired /\ db' = [k \in Keys |-> IF k \in K THEN None ELSE db[k]]
    BY <1>4, <2>1 DEF DS!DeleteMulti, DS!DeleteMultiFails
  <2> QED
    BY <1>2, <2>2
<1>5. ASSUME NEW v \in Timed, DS!Expire(v)
      PROVE  Chosen!Next
  <2> DEFINE K == {k \in Keys : db[k] = v}
  <2>1. \A k \in Keys : DS!Shown'[k] = IF k \in K THEN None ELSE DS!Shown[k]
    BY <1>5 DEF DS!Expire, DS!Shown, DS!Live
  <2>2. K \in SUBSET Keys
    OBVIOUS
  <2> HIDE DEF K
  <2> QED
    BY <1>1, <2>1, <2>2, DSLoses
<1>6. ASSUME NEW p \in Procs, DS!PutFails(p)
      PROVE  Chosen!Next
  <2>1. Registers' = Registers /\ Calls' = Calls
    BY <1>1, <1>6, DSSeen DEF DS!PutFails, DS!Shown, DS!Live
  <2> QED
    BY <2>1, Stutters
<1>7. ASSUME NEW p \in Procs, DS!Put(p)
      PROVE  Chosen!Next
  <2> DEFINE k == dsArg[p].key
             v == dsArg[p].val
  <2>1. /\ dsArg[p].op = "set" /\ k \in Keys /\ v \in Values /\ expired' = expired
        /\ db' = [db EXCEPT ![k] = v]
    BY <1>0, <1>7 DEF DS!Put, DS!CallOK
  <2>2. Calls[p] = [op |-> "put", key |-> k, seen |-> {v}]
    BY <2>1, DSSeen, DSCallIs
  <2>3. CASE v \in expired
    <3>1. \A l \in Keys : DS!Shown'[l] = IF l \in {k} THEN None ELSE DS!Shown[l]
      BY <1>0, <2>1, <2>3 DEF DS!Shown, DS!Live, DS!TypeOK
    <3>2. {k} \in SUBSET Keys
      BY <2>1
    <3> QED
      BY <1>1, <3>1, <3>2, DSLoses
  <2>4. CASE v \notin expired
    <3>1. DS!Shown' = [DS!Shown EXCEPT ![k] = v]
      BY <1>0, <2>1, <2>4 DEF DS!Shown, DS!Live, DS!TypeOK
    <3>2. \A q \in Procs : Calls'[q] = Calls[q] /\ Calls[q].op # "get"
      <4>1. \A q \in Procs : DS!CallOf(q).op # "get"
        BY DEF DS!CallOf
      <4> QED
        BY <1>1, <4>1, DSSeen
    <3>3. ShownToo({k}, v)
      BY <3>2 DEF ShownToo
    <3>4. Registers' = [Registers EXCEPT ![k] = v]
      BY <3>1, DSSeen
    <3> QED
      BY <2>1, <2>2, <3>3, <3>4, Writes
  <2> QED
    BY <2>3, <2>4
<1> QED
  BY <1>3, <1>4, <1>5, <1>6, <1>7

\* The iterator of Range, and what is no Get.
LEMMA DSNextImplements ==
  ASSUME backend = "datastore", backend' = backend, DS!IInv, NEW p \in Procs,
         \/ \E k \in Keys : \/ DS!NextKey(p, k) \/ DS!NextSkipped(p, k)
                            \/ DS!NextEntity(p, k)
         \/ DS!SkipExpired(p) \/ DS!SkipUndecoded(p) \/ DS!Yield(p)
         \/ DS!Count(p) \/ DS!Query(p) \/ DS!EndWalk(p)
         \/ \E op \in DS!Walks : DS!StartWalk(p, op)
  PROVE  Chosen!Next
<1>0. DS!TypeOK /\ DS!CallOK(p)
  BY DEF DS!IInv
<1>1. ASSUME NEW k, NEW hits, NEW failed, DS!Visited(p, k, hits, failed),
             dsArg[p].op \in DS!Walks
      PROVE  Chosen!Next
  <2> DEFINE a == [op |-> dsArg[p].op, key |-> None, val |-> None]
  <2>1. /\ dsPc' = [dsPc EXCEPT ![p] = "next"] /\ dsArg' = [dsArg EXCEPT ![p] = a]
        /\ UNCHANGED <<db, expired>>
    BY <1>1 DEF DS!Visited, DS!Goto, DS!Hold
  <2>2. /\ Registers' = Registers /\ dsPc'[p] = "next" /\ dsArg'[p] = a
        /\ Calls' = [Calls EXCEPT ![p] = DS!CallOf(p)']
    BY <1>0, <2>1, DSOneCalls
  <2>3. DS!CallOf(p)' = Chosen!Idle
    BY <1>1, <2>2, DSCallIsNext DEF DS!Walks
  <2> QED
    BY <2>2, <2>3, Leaves
<1>2. ASSUME NEW k \in Keys, DS!NextEntity(p, k)
      PROVE  Chosen!Next
  <2> DEFINE a == [op |-> "range", key |-> k, val |-> db[k]]
  <2>1. /\ dsPc' = [dsPc EXCEPT ![p] = "read"] /\ dsArg' = [dsArg EXCEPT ![p] = a]
        /\ UNCHANGED <<db, expired>> /\ dsPc[p] = "next" /\ dsArg[p].op = "range"
        /\ DS!Live(k)
    BY <1>2 DEF DS!NextEntity, DS!Goto, DS!Hold
  <2>2. /\ Registers' = Registers /\ dsPc'[p] = "read" /\ dsArg'[p] = a
        /\ Calls' = [Calls EXCEPT ![p] = DS!CallOf(p)']
    BY <1>0, <2>1, DSOneCalls
  <2>3. DS!CallOf(p)' = [op |-> "got", key |-> k, seen |-> {db[k]}]
    BY <2>2, DSCallIsNext
  <2>4. Calls[p] = Chosen!Idle /\ Registers[k] = db[k]
    BY <2>1, DSSeen, DSCallIs DEF DS!Shown
  <2> QED
    BY <2>2, <2>3, <2>4, Enters
<1>3. ASSUME DS!Count(p) \/ DS!Query(p) \/ DS!EndWalk(p)
      PROVE  Chosen!Next
  <2>1. /\ dsPc[p] \in {"query", "next"} /\ UNCHANGED <<db, expired, dsArg>>
        /\ \E s \in {"return", "delete"} : dsPc' = [dsPc EXCEPT ![p] = s]
    BY <1>3 DEF DS!Count, DS!Query, DS!EndWalk, DS!Goto
  <2>2. \A q \in Procs : dsPc'[q] = dsPc[q] \/ (dsPc[q] # "read" /\ dsPc'[q] # "read")
    BY <1>0, <2>1 DEF DS!TypeOK
  <2>3. Registers' = Registers /\ \A q \in Procs : DS!CallOf(q)' = DS!CallOf(q)
    BY <2>1, <2>2, DSSeen DEF DS!CallOf, DS!Shown, DS!Live
  <2>4. Calls' = Calls
    BY <2>3, DSSeen
  <2> QED
    BY <2>3, <2>4, Stutters
<1>4. ASSUME NEW op \in DS!Walks, DS!StartWalk(p, op)
      PROVE  Chosen!Next
  <2> DEFINE s == IF op \in {"keys", "range"} THEN "next" ELSE "query"
             a == [op |-> op, key |-> None, val |-> None]
  <2>1. /\ dsPc' = [dsPc EXCEPT ![p] = s] /\ dsArg' = [dsArg EXCEPT ![p] = a]
        /\ UNCHANGED <<db, expired>>
    BY <1>4, Zenon DEF DS!StartWalk, DS!Goto, DS!Hold
  <2>2. s # "read"
    OBVIOUS
  <2> HIDE DEF s
  <2>3. /\ Registers' = Registers /\ dsPc'[p] = s /\ dsArg'[p] = a
        /\ Calls' = [Calls EXCEPT ![p] = DS!CallOf(p)']
    BY <1>0, <2>1, DSOneCalls
  <2>4. DS!CallOf(p)' = Chosen!Idle
    BY <2>2, <2>3, DSCallIsNext DEF DS!Walks
  <2> QED
    BY <2>3, <2>4, Leaves
<1>5. ASSUME NEW k \in Keys, DS!NextKey(p, k) \/ DS!NextSkipped(p, k)
      PROVE  Chosen!Next
  BY <1>1, <1>5 DEF DS!NextKey, DS!NextSkipped, DS!Walks
<1>6. ASSUME DS!SkipExpired(p) \/ DS!SkipUndecoded(p) \/ DS!Yield(p)
      PROVE  Chosen!Next
  BY <1>1, <1>6 DEF DS!SkipExpired, DS!SkipUndecoded, DS!Yield, DS!Walks
<1> QED
  BY <1>2, <1>3, <1>4, <1>5, <1>6

LEMMA DSImplements ==
  ASSUME backend = "datastore", backend' = backend, DS!IInv, DS!Next
  PROVE  Chosen!Next
<1>1. ASSUME NEW p \in Procs, NEW k \in Keys,
             \/ DS!Get(p, k) \/ DS!Delete(p, k) \/ \E v \in Values : DS!Set(p, k, v)
             \/ DS!NextKey(p, k) \/ DS!NextSkipped(p, k) \/ DS!NextEntity(p, k)
      PROVE  Chosen!Next
  BY <1>1, DSCallImplements, DSWriteImplements, DSNextImplements
<1>2. ASSUME NEW p \in Procs,
             \/ DS!GetCheck(p) \/ DS!Put(p) \/ DS!PutFails(p)
             \/ DS!Count(p) \/ DS!Query(p)
             \/ DS!DeleteMulti(p) \/ DS!DeleteMultiFails(p)
             \/ DS!SkipExpired(p) \/ DS!SkipUndecoded(p) \/ DS!Yield(p) \/ DS!EndWalk(p)
             \/ DS!Return(p) \/ \E op \in DS!Walks : DS!StartWalk(p, op)
      PROVE  Chosen!Next
  BY <1>2, DSCallImplements, DSWriteImplements, DSNextImplements
<1>3. ASSUME NEW v \in Timed, DS!Expire(v)
      PROVE  Chosen!Next
  BY <1>3, DSWriteImplements
<1> QED
  BY <1>1, <1>2, <1>3 DEF DS!Next

-----------------------------------------------------------------------------
(* The file store implements the store *)

LEMMA FileSeen ==
  ASSUME backend # "datastore", backend' = backend
  PROVE  /\ Registers = Shown /\ Registers' = Shown'
         /\ Calls = [p \in Procs |-> CallOf(p)]
         /\ Calls' = [p \in Procs |-> CallOf(p)']
BY DEF Registers, Calls

\* A Get, or a Range that has yielded an entry, knows what it returns.
Got(p) == pc[p] = "yield" \/ (pc[p] \in {"unlink", "return"} /\ arg[p].op = "get"
                              /\ ~Fails(p))

LEMMA CallIs ==
  ASSUME NEW p \in Procs
  PROVE  /\ arg[p].op = "set" /\ pc[p] # "yield" => CallOf(p)
              = [op |-> "put", key |-> arg[p].key, seen |-> {arg[p].val}]
         /\ Looking(p) => CallOf(p)
              = [op |-> "get", key |-> arg[p].key, seen |-> seen[p]]
         /\ Got(p) /\ arg[p].op # "set" => CallOf(p)
              = [op |-> "got", key |-> arg[p].key, seen |-> {arg[p].val}]
         /\ arg[p].op # "set" /\ ~Looking(p) /\ ~Got(p) => CallOf(p) = Chosen!Idle
<1>1. CASE arg[p].op = "set"
  <2>1. pc[p] # "yield" =>
          CallOf(p) = [op |-> "put", key |-> arg[p].key, seen |-> {arg[p].val}]
    BY <1>1 DEF CallOf, Looking
  <2> QED
    BY <1>1, <2>1 DEF Looking
<1>2. CASE Looking(p)
  BY <1>2 DEF CallOf, Looking, Got, Fails
<1>3. CASE arg[p].op # "set" /\ ~Looking(p)
  BY <1>3 DEF CallOf, Got, Fails, Chosen!Idle
<1> QED
  BY <1>1, <1>2, <1>3

LEMMA CallIsNext ==
  ASSUME NEW p \in Procs
  PROVE  /\ arg'[p].op = "set" /\ pc'[p] # "yield" => CallOf(p)'
              = [op |-> "put", key |-> arg'[p].key, seen |-> {arg'[p].val}]
         /\ Looking(p)' => CallOf(p)'
              = [op |-> "get", key |-> arg'[p].key, seen |-> seen'[p]]
         /\ Got(p)' /\ arg'[p].op # "set" => CallOf(p)'
              = [op |-> "got", key |-> arg'[p].key, seen |-> {arg'[p].val}]
         /\ arg'[p].op # "set" /\ ~Looking(p)' /\ ~Got(p)'
              => CallOf(p)' = Chosen!Idle
<1>1. CASE arg'[p].op = "set"
  <2>1. pc'[p] # "yield" =>
          CallOf(p)' = [op |-> "put", key |-> arg'[p].key, seen |-> {arg'[p].val}]
    BY <1>1 DEF CallOf, Looking
  <2> QED
    BY <1>1, <2>1 DEF Looking
<1>2. CASE Looking(p)'
  BY <1>2 DEF CallOf, Looking, Got, Fails
<1>3. CASE arg'[p].op # "set" /\ ~Looking(p)'
  BY <1>3 DEF CallOf, Got, Fails, Chosen!Idle
<1> QED
  BY <1>1, <1>2, <1>3

\* A step of p that changes no file.
LEMMA OneCalls ==
  ASSUME backend # "datastore", backend' = backend, MapInv, MapNext, NEW p \in Procs,
         UNCHANGED <<file, data, expired>>,
         \A q \in Procs \ {p} : pc'[q] = pc[q] /\ arg'[q] = arg[q]
  PROVE  /\ Registers' = Registers
         /\ Calls' = [Calls EXCEPT ![p] = CallOf(p)']
         /\ Looking(p)' =>
              seen'[p] = (IF Looking(p) THEN seen[p] ELSE {Shown[arg'[p].key]})
                         \cup {Shown[arg'[p].key]}
<1>1. Shown' = Shown /\ \A i \in Inodes : Entry(i)' = Entry(i)
  BY DEF Shown, Entry
<1>2. \A k : Changes(k) = {}
  BY <1>1 DEF Changes
<1>3. \A q \in Procs : Looking(q)' =>
        seen'[q] = (IF Looking(q) THEN seen[q] ELSE {Shown[arg'[q].key]})
                   \cup {Shown[arg'[q].key]}
  BY <1>1, <1>2, SeenGrows
<1>4. ASSUME NEW q \in Procs \ {p}
      PROVE  CallOf(q)' = CallOf(q)
  <2>1. pc'[q] = pc[q] /\ arg'[q] = arg[q] /\ SeenOK(q)
    BY DEF MapInv
  <2>2. CASE Looking(q)
    <3>1. Looking(q)' /\ seen'[q] = seen[q]
      <4>1. Looking(q)'
        BY <2>1, <2>2 DEF Looking
      <4> QED
        BY <1>3, <2>1, <2>2, <4>1 DEF SeenOK
    <3> QED
      BY <2>1, <3>1 DEF CallOf, Looking, Fails
  <2>3. CASE ~Looking(q)
    BY <2>1, <2>3 DEF CallOf, Looking, Fails
  <2> QED
    BY <2>2, <2>3
<1> QED
  BY <1>1, <1>3, <1>4, FileSeen

\* The call of q goes on.
CallGoesOn(q) ==
  /\ Looking(q) => Looking(q)' /\ arg'[q] = arg[q]
  /\ ~Looking(q) => ~Looking(q)' /\ CallOf(q)' = CallOf(q)

LEMMA OtherGoesOn ==
  ASSUME NEW q \in Procs, pc'[q] = pc[q], arg'[q] = arg[q]
  PROVE  CallGoesOn(q)
<1>1. CASE Looking(q)
  BY <1>1 DEF CallGoesOn, Looking
<1>2. CASE ~Looking(q)
  <2>1. ~Looking(q)'
    BY <1>2 DEF Looking
  <2>2. CallOf(q)' = CallOf(q)
    BY <1>2, <2>1 DEF CallOf, Fails
  <2> QED
    BY <1>2, <2>1, <2>2 DEF CallGoesOn
<1> QED
  BY <1>1, <1>2

\* Who looks at a key is shown what it holds, and what became of what they read.
LEMMA GoesOnShown ==
  ASSUME backend # "datastore", backend' = backend, MapInv, MapNext,
         \A q \in Procs : CallGoesOn(q), NEW K \in SUBSET Keys, NEW r,
         \A k \in K : {Shown'[k]} \cup Changes(k) \subseteq {Shown[k], r},
         \A k \in K : r \in {Shown'[k]} \cup Changes(k),
         \A k \in Keys \ K : Shown'[k] = Shown[k] /\ Changes(k) = {}
  PROVE  ShownToo(K, r)
<1> SUFFICES ASSUME NEW q \in Procs
             PROVE  CallOf(q)' = IF CallOf(q).op = "get" /\ CallOf(q).key \in K
                                 THEN [CallOf(q) EXCEPT !.seen = @ \cup {r}]
                                 ELSE CallOf(q)
  BY FileSeen DEF ShownToo
<1>1. CallGoesOn(q) /\ SeenOK(q) /\ CallOK(q)
  BY DEF MapInv, WalkInv, IInv
<1>2. CASE Looking(q)
  <2> DEFINE k == arg[q].key
  <2>1. k \in Keys /\ Shown[k] \in seen[q]
    BY <1>1, <1>2 DEF CallOK, SeenOK, Looking
  <2>2. seen'[q] = seen[q] \cup {Shown'[k]} \cup Changes(k)
    BY <1>1, <1>2, SeenGrows DEF CallGoesOn
  <2>3. /\ CallOf(q) = [op |-> "get", key |-> k, seen |-> seen[q]]
        /\ CallOf(q)' = [op |-> "get", key |-> k, seen |-> seen'[q]]
    BY <1>1, <1>2, CallIs, CallIsNext DEF CallGoesOn
  <2> HIDE DEF k
  <2>4. CASE k \in K
    <3>1. seen'[q] = seen[q] \cup {r}
      BY <2>1, <2>2, <2>4
    <3>2. \A s : [[op |-> "get", key |-> k, seen |-> s] EXCEPT !.seen = @ \cup {r}]
                 = [op |-> "get", key |-> k, seen |-> s \cup {r}]
      OBVIOUS
    <3>3. CallOf(q)' = [CallOf(q) EXCEPT !.seen = @ \cup {r}]
      BY <2>3, <3>1, <3>2, Zenon
    <3>4. CallOf(q).op = "get" /\ CallOf(q).key = k
      BY <2>3
    <3> QED
      BY <2>4, <3>3, <3>4, Zenon
  <2>5. CASE k \notin K
    <3>1. seen'[q] = seen[q]
      BY <2>1, <2>2, <2>5
    <3> QED
      BY <2>3, <2>5, <3>1
  <2> QED
    BY <2>4, <2>5
<1>3. CASE ~Looking(q)
  <2>1. CallOf(q)' = CallOf(q)
    BY <1>1, <1>3 DEF CallGoesOn
  <2>2. CallOf(q).op # "get"
    BY <1>3 DEF CallOf, Looking
  <2> QED
    BY <2>1, <2>2
<1> QED
  BY <1>2, <1>3

\* Entries go.
LEMMA FileLoses ==
  ASSUME backend # "datastore", backend' = backend, MapInv, MapNext,
         \A q \in Procs : CallGoesOn(q),
         \A i \in Inodes : Entry(i)' \in {Entry(i), None},
         \A k \in Keys : Shown'[k] \in {Shown[k], None}
  PROVE  Chosen!Next
<1> DEFINE L == {k \in Keys : Shown'[k] # Shown[k]}
           K == L \cup {k \in Keys : Changes(k) # {}}
<1>1. \A k \in Keys : Changes(k) \subseteq {None}
  BY DEF Changes
<1>2. ShownToo(K, None)
  <2>1. \A k \in K : /\ {Shown'[k]} \cup Changes(k) \subseteq {Shown[k], None}
                     /\ None \in {Shown'[k]} \cup Changes(k)
    BY <1>1
  <2>2. \A k \in Keys \ K : Shown'[k] = Shown[k] /\ Changes(k) = {}
    OBVIOUS
  <2>3. K \in SUBSET Keys
    OBVIOUS
  <2> HIDE DEF K, L
  <2> QED
    BY <2>1, <2>2, <2>3, GoesOnShown
<1>3. Shown' = [k \in Keys |-> IF k \in L THEN None ELSE Shown[k]]
  BY DEF Shown
<1>4. K \in SUBSET Keys /\ L \in SUBSET K
  OBVIOUS
<1> HIDE DEF K, L
<1>5. Registers' = [k \in Keys |-> IF k \in L THEN None ELSE Registers[k]]
  BY <1>3, FileSeen
<1> QED
  BY <1>2, <1>4, <1>5, Loses

\* The entry v that a Set of k is putting appears.
LEMMA FileWrites ==
  ASSUME backend # "datastore", backend' = backend, MapInv, MapNext,
         \A q \in Procs : CallGoesOn(q), NEW k \in Keys, NEW v \in Values,
         \E p \in Procs : /\ arg[p].op = "set" /\ pc[p] # "yield"
                         /\ arg[p].key = k /\ arg[p].val = v,
         Changes(k) \subseteq {v}, Shown'[k] \in {Shown[k], v},
         \A l \in Keys \ {k} : Shown'[l] = Shown[l] /\ Changes(l) = {}
  PROVE  Chosen!Next
<1>1. PICK p \in Procs : Calls[p] = [op |-> "put", key |-> k, seen |-> {v}]
  BY FileSeen, CallIs
<1>2. CASE v \in {Shown'[k]} \cup Changes(k)
  <2>1. ShownToo({k}, v)
    <3>1. {k} \in SUBSET Keys
      OBVIOUS
    <3> QED
      BY <1>2, <3>1, GoesOnShown
  <2>2. Shown' = [Shown EXCEPT ![k] = v] \/ Shown' = Shown
    BY DEF Shown
  <2>3. Registers' = [Registers EXCEPT ![k] = v] \/ Registers' = Registers
    BY <2>2, FileSeen
  <2> QED
    BY <1>1, <2>1, <2>3, Writes
<1>3. CASE v \notin {Shown'[k]} \cup Changes(k)
  <2>1. \A l \in Keys : Shown'[l] = Shown[l] /\ Changes(l) = {}
    BY <1>3
  <2>2. Shown' = Shown
    BY <2>1 DEF Shown
  <2>3. ShownToo({}, v)
    <3>1. {} \in SUBSET Keys
      OBVIOUS
    <3> QED
      BY <2>1, <3>1, GoesOnShown
  <2>4. Calls' = Calls
    <3>1. \A q \in Procs : Calls'[q] = Calls[q]
      BY <2>3 DEF ShownToo
    <3> QED
      BY <3>1, FileSeen
  <2> QED
    BY <2>2, <2>4, FileSeen, Stutters
<1> QED
  BY <1>2, <1>3

\* What a Set writes.
LEMMA FileSetImplements ==
  ASSUME backend # "datastore", backend' = backend, MapInv, MapNext, NEW p \in Procs,
         OpenTmp(p) \/ WriteTmp(p) \/ WriteFails(p)
  PROVE  Chosen!Next
<1> DEFINE k == arg[p].key
<1>0. /\ TypeOK /\ Apart /\ CallOK(p) /\ AloneOrSpoilt(p) /\ OneKey
      /\ \A q \in Procs : StaleOrSpoilt(q)
  BY DEF MapInv, WalkInv, IInv
<1> USE LocalFSConstants
<1>1. /\ pc[p] \in {"open", "write"} /\ arg[p].op = "set" /\ k \in Keys
      /\ arg[p].val \in Values
  BY <1>0 DEF OpenTmp, WriteTmp, WriteFails, CallOK
<1>2. /\ arg'[p].op = "set" /\ arg'[p].key = k /\ arg'[p].val = arg[p].val
      /\ pc'[p] # "yield"
      /\ \A q \in Procs \ {p} : pc'[q] = pc[q] /\ arg'[q] = arg[q]
  BY <1>0, <1>1 DEF OpenTmp, WriteTmp, WriteFails, Goto, Hold, TypeOK
<1>3. \A q \in Procs : CallGoesOn(q)
  <2>1. CallGoesOn(p)
    <3>1. ~Looking(p) /\ ~Looking(p)'
      BY <1>1, <1>2 DEF Looking
    <3>2. CallOf(p)' = CallOf(p)
      BY <1>1, <1>2, CallIs, CallIsNext
    <3> QED
      BY <3>1, <3>2 DEF CallGoesOn
  <2>2. ASSUME NEW q \in Procs \ {p}
        PROVE  CallGoesOn(q)
    BY <1>2, OtherGoesOn
  <2> QED
    BY <2>1, <2>2
<1>4. PICK i \in Inodes :
        /\ data'[i] = Garbage \/ (i = arg[p].fd /\ data'[i] = arg[p].val)
        /\ \A j \in Inodes \ {i} : data'[j] = data[j]
        /\ UNCHANGED <<file, expired>>
  <2>1. ASSUME OpenTmp(p)
        PROVE  \E i \in Inodes : data' = [data EXCEPT ![i] = Garbage]
    BY <1>0, <1>1, <2>1 DEF OpenTmp, Created, Unused, TypeOK
  <2>2. ASSUME WriteTmp(p) \/ WriteFails(p)
        PROVE  \/ data' = [data EXCEPT ![arg[p].fd] = Garbage]
               \/ data' = [data EXCEPT ![arg[p].fd] = arg[p].val]
    BY <2>2 DEF WriteTmp, WriteFails
  <2>3. ASSUME WriteTmp(p) \/ WriteFails(p)
        PROVE  arg[p].fd \in Inodes
    BY <1>0, <2>3 DEF WriteTmp, WriteFails, AloneOrSpoilt, Writing
  <2>4. UNCHANGED <<file, expired>>
    BY DEF OpenTmp, WriteTmp, WriteFails
  <2>5. CASE OpenTmp(p)
    BY <1>0, <2>1, <2>4, <2>5 DEF TypeOK
  <2>6. CASE WriteTmp(p) \/ WriteFails(p)
    BY <1>0, <2>2, <2>3, <2>4, <2>6 DEF TypeOK
  <2> QED
    BY <2>5, <2>6
<1>5. \A j \in Inodes \ {i} : Entry(j)' = Entry(j)
  BY <1>4 DEF Entry
<1>6. \A l \in Keys : Shown'[l] = IF file[l] = None THEN None ELSE Entry(file[l])'
  BY <1>4 DEF Shown
<1>7. \A l \in Keys : /\ Shown[l] = IF file[l] = None THEN None ELSE Entry(file[l])
                      /\ file[l] \in Inodes \cup {None}
  BY <1>0 DEF Shown, TypeOK
<1>8. CASE Entry(i)' = None
  <2>1. \A j \in Inodes : Entry(j)' \in {Entry(j), None}
    BY <1>5, <1>8
  <2>2. \A l \in Keys : Shown'[l] \in {Shown[l], None}
    BY <1>4, <1>6, <1>7, <2>1
  <2> QED
    BY <1>3, <2>1, <2>2, FileLoses
<1>9. CASE Entry(i)' # None
  <2> DEFINE v == arg[p].val
  <2>1. i = arg[p].fd /\ Entry(i)' = v
    BY <1>4, <1>9 DEF Entry
  <2>2. \A l \in Keys : Leads(i, l) => l = k
    <3>1. Leads(i, k)
      BY <2>1 DEF Leads
    <3> QED
      BY <1>0, <1>1, <3>1 DEF OneKey
  <2>3. \A l \in Keys : file[l] = i => l = k
    BY <2>2 DEF Leads
  <2>4. Shown'[k] \in {Shown[k], v}
    BY <1>1, <1>4, <1>5, <1>6, <1>7, <2>1
  <2>5. ASSUME NEW l \in Keys \ {k}
        PROVE  Shown'[l] = Shown[l] /\ Changes(l) = {}
    <3>1. Shown'[l] = Shown[l]
      BY <1>4, <1>5, <1>6, <1>7, <2>3
    <3>2. ASSUME NEW q \in Procs, Looking(q)', arg'[q].key = l, arg'[q].fd = i
          PROVE  FALSE
      <4>1. arg'[q] = arg[q]
        BY <1>2, <3>2
      <4> QED
        BY <2>2, <3>2, <4>1 DEF Leads
    <3> QED
      BY <1>5, <3>1, <3>2 DEF Changes
  <2>6. Changes(k) \subseteq {v}
    BY <1>5, <2>1 DEF Changes
  <2>7. \E q \in Procs : /\ arg[q].op = "set" /\ pc[q] # "yield"
                        /\ arg[q].key = k /\ arg[q].val = v
    BY <1>1
  <2> QED
    BY <1>1, <1>3, <2>4, <2>5, <2>6, <2>7, FileWrites
<1> QED
  BY <1>8, <1>9

\* What a Set puts in place.
LEMMA FileRenameImplements ==
  ASSUME backend # "datastore", backend' = backend, MapInv, MapNext, NEW p \in Procs,
         Rename(p)
  PROVE  Chosen!Next
<1> DEFINE k == arg[p].key
           i == tmp[k]
<1>0. TypeOK /\ \A q \in Procs : CallOK(q)
  BY DEF MapInv, WalkInv, IInv
<1> USE LocalFSConstants
<1>1. /\ pc[p] = "rename" /\ arg[p].op = "set" /\ k \in Keys /\ i \in Inodes
      /\ file' = [file EXCEPT ![k] = i] /\ UNCHANGED <<data, expired>>
  BY <1>0 DEF Rename, CallOK, TypeOK
<1>2. /\ arg'[p].op = "set" /\ arg'[p].key = k /\ arg'[p].val = arg[p].val
      /\ pc'[p] = "return"
      /\ \A q \in Procs \ {p} : pc'[q] = pc[q] /\ arg'[q] = arg[q]
  BY <1>0, <1>1 DEF Rename, Goto, Hold, TypeOK
<1>3. \A q \in Procs : CallGoesOn(q)
  <2>1. ~Looking(p) /\ ~Looking(p)'
    BY <1>1, <1>2 DEF Looking
  <2>2. CallOf(p)' = CallOf(p)
    BY <1>1, <1>2, CallIs, CallIsNext
  <2>3. CallGoesOn(p)
    BY <2>1, <2>2 DEF CallGoesOn
  <2> QED
    BY <1>2, <2>3, OtherGoesOn
<1>4. \A j : Entry(j)' = Entry(j)
  BY <1>1 DEF Entry
<1>5. \A l : Changes(l) = {}
  BY <1>4 DEF Changes
<1>6. Shown'[k] = Entry(i) /\ \A l \in Keys \ {k} : Shown'[l] = Shown[l]
  BY <1>0, <1>1, <1>4 DEF Shown, Entry, TypeOK
<1>7. CASE Entry(i) = None
  <2>1. \A j \in Inodes : Entry(j)' \in {Entry(j), None}
    BY <1>4
  <2>2. \A l \in Keys : Shown'[l] \in {Shown[l], None}
    BY <1>6, <1>7
  <2> QED
    BY <1>3, <2>1, <2>2, FileLoses
<1>8. CASE Entry(i) # None
  <2>1. Entry(i) = data[i] /\ data[i] \in Values
    BY <1>8 DEF Entry
  <2>2. \E q \in Procs : /\ pc[q] \in {"rename", "untmp"}
                         /\ arg[q].key = k /\ arg[q].val = data[i]
    <3>1. OneIsPutting /\ Writing(p) /\ i # None
      BY <1>1 DEF MapInv, Writing
    <3> QED
      BY <2>1, <3>1 DEF OneIsPutting
  <2>3. \E q \in Procs : /\ arg[q].op = "set" /\ pc[q] # "yield"
                         /\ arg[q].key = k /\ arg[q].val = data[i]
    BY <1>0, <2>2 DEF CallOK
  <2> QED
    BY <1>1, <1>3, <1>5, <1>6, <2>1, <2>3, FileWrites
<1> QED
  BY <1>7, <1>8

\* What removes a file.
LEMMA FileRemoveImplements ==
  ASSUME backend # "datastore", backend' = backend, MapInv, MapNext,
         NEW p \in Procs, NEW k \in Keys, RemoveFile(k),
         CallGoesOn(p),
         \A q \in Procs \ {p} : pc'[q] = pc[q] /\ arg'[q] = arg[q]
  PROVE  Chosen!Next
<1>0. TypeOK
  BY DEF MapInv, WalkInv, IInv
<1>1. file' = [file EXCEPT ![k] = None] /\ UNCHANGED <<data, expired>>
  BY DEF RemoveFile
<1>2. \A j : Entry(j)' = Entry(j)
  BY <1>1 DEF Entry
<1>3. \A l \in Keys : Shown'[l] \in {Shown[l], None}
  BY <1>0, <1>1 DEF Shown, Entry, TypeOK
<1>4. \A q \in Procs : CallGoesOn(q)
  BY OtherGoesOn
<1> QED
  BY <1>2, <1>3, <1>4, FileLoses

LEMMA FileRemovesImplement ==
  ASSUME backend # "datastore", backend' = backend, MapInv, MapNext, NEW p \in Procs,
         \/ GetUnlink(p) \/ CleanupUnlink(p)
         \/ \E k \in Keys : Delete(p, k) \/ VisitFlush(p, k)
  PROVE  Chosen!Next
<1>0. TypeOK /\ CallOK(p)
  BY DEF MapInv, WalkInv, IInv
<1> USE LocalFSConstants
<1>1. ASSUME NEW k \in Keys, Delete(p, k)
      PROVE  Chosen!Next
  <2>1. RemoveFile(k) /\ \A q \in Procs : pc'[q] = pc[q] /\ arg'[q] = arg[q]
    BY <1>1 DEF Delete
  <2> QED
    BY <2>1, OtherGoesOn, FileRemoveImplements
<1>2. ASSUME NEW k \in Keys, NEW K, NEW w, RemoveFile(k), Visited(p, k, K, w),
             arg[p].op \in {"flush", "cleanup"}, pc[p] # "yield"
      PROVE  Chosen!Next
  <2>1. /\ arg'[p].op = arg[p].op /\ pc'[p] = "walk"
        /\ \A q \in Procs \ {p} : pc'[q] = pc[q] /\ arg'[q] = arg[q]
    BY <1>0, <1>2 DEF Visited, Goto, Hold, TypeOK
  <2>2. ~Looking(p) /\ ~Looking(p)' /\ ~Got(p) /\ ~Got(p)'
    BY <1>2, <2>1 DEF Looking, Got
  <2>3. CallOf(p) = Chosen!Idle /\ CallOf(p)' = Chosen!Idle
    BY <1>2, <2>1, <2>2, CallIs, CallIsNext
  <2>4. CallGoesOn(p)
    BY <2>2, <2>3 DEF CallGoesOn
  <2> QED
    BY <1>2, <2>1, <2>4, FileRemoveImplements
<1>3. ASSUME NEW k \in Keys, VisitFlush(p, k)
      PROVE  Chosen!Next
  BY <1>2, <1>3 DEF VisitFlush, Visits
<1>4. ASSUME CleanupUnlink(p)
      PROVE  Chosen!Next
  BY <1>0, <1>2, <1>4 DEF CleanupUnlink, CallOK
<1>5. ASSUME GetUnlink(p)
      PROVE  Chosen!Next
  <2> DEFINE k == arg[p].key
  <2>1. /\ pc[p] = "unlink" /\ arg[p].op = "get" /\ k \in Keys /\ RemoveFile(k)
        /\ Goto(p, "return") /\ Hold(p, "get", k, arg[p].val, None)
    BY <1>0, <1>5 DEF GetUnlink, CallOK
  <2>2. /\ pc'[p] = "return" /\ arg'[p].op = "get" /\ arg'[p].key = k
        /\ arg'[p].val = arg[p].val
        /\ \A q \in Procs \ {p} : pc'[q] = pc[q] /\ arg'[q] = arg[q]
    BY <1>0, <2>1 DEF Goto, Hold, TypeOK
  <2>3. ~Looking(p) /\ ~Looking(p)'
    BY <2>1, <2>2 DEF Looking
  <2>4. Got(p)' <=> Got(p)
    BY <2>1, <2>2 DEF Got, Fails
  <2>5. CallOf(p)' = CallOf(p)
    BY <2>1, <2>2, <2>3, <2>4, CallIs, CallIsNext
  <2>6. CallGoesOn(p)
    BY <2>3, <2>5 DEF CallGoesOn
  <2> QED
    BY <2>1, <2>2, <2>6, FileRemoveImplements
<1> QED
  BY <1>1, <1>3, <1>4, <1>5

\* What the time and a crash take.
LEMMA FileFateImplements ==
  ASSUME backend # "datastore", backend' = backend, MapInv, MapNext,
         (\E v \in Timed : Expire(v)) \/ (\E lost \in SUBSET Linked : Crash(lost))
  PROVE  Chosen!Next
<1>0. TypeOK
  BY DEF MapInv, WalkInv, IInv
<1> USE LocalFSConstants
<1>1. /\ \A j \in Inodes : Entry(j)' \in {Entry(j), None}
      /\ file' = file
  BY <1>0 DEF Expire, Crash, Entry, TypeOK, disk
<1>2. \A l \in Keys : Shown'[l] \in {Shown[l], None}
  <2>1. \A l \in Keys : /\ Shown'[l] = IF file[l] = None THEN None ELSE Entry(file[l])'
                        /\ Shown[l] = IF file[l] = None THEN None ELSE Entry(file[l])
                        /\ file[l] \in Inodes \cup {None}
    BY <1>0, <1>1 DEF Shown, TypeOK
  <2> QED
    BY <1>1, <2>1
<1>3. ASSUME NEW v \in Timed, Expire(v)
      PROVE  Chosen!Next
  <2>1. \A q \in Procs : CallGoesOn(q)
    BY <1>3, OtherGoesOn DEF Expire
  <2> QED
    BY <1>1, <1>2, <2>1, FileLoses
<1>4. ASSUME NEW lost \in SUBSET Linked, Crash(lost)
      PROVE  Chosen!Next
  <2> DEFINE K == {k \in Keys : Shown'[k] # Shown[k]}
  <2>1. \A q \in Procs : pc'[q] = "idle" /\ arg'[q] = NoArg
    BY <1>4 DEF Crash
  <2>2. ASSUME NEW q \in Procs
        PROVE  CallOf(q)' = Chosen!Idle
    <3>1. arg'[q].op # "set" /\ ~Looking(q)' /\ ~Got(q)'
      BY <2>1 DEF NoArg, Looking, Got
    <3> QED
      BY <3>1, CallIsNext
  <2>3. Shown' = [k \in Keys |-> IF k \in K THEN None ELSE Shown[k]]
    BY <1>2 DEF Shown
  <2>4. K \in SUBSET Keys
    OBVIOUS
  <2> HIDE DEF K
  <2>5. /\ Registers' = [k \in Keys |-> IF k \in K THEN None ELSE Registers[k]]
        /\ \A q \in Procs : Calls'[q] = Chosen!Idle
    BY <2>2, <2>3, FileSeen
  <2> QED
    BY <2>4, <2>5, Crashes
<1> QED
  BY <1>3, <1>4

\* A call returns, or a walk goes on that has nothing in hand to yield.
LEMMA FileLeaves ==
  ASSUME backend # "datastore", backend' = backend, MapInv, MapNext, NEW p \in Procs,
         \/ RemoveTmp(p) \/ Return(p) \/ Yielded(p) \/ VisitSkip(p) \/ CleanupOld(p)
         \/ EndWalk(p) \/ \E dir \in Dirs : ReadNames(p, dir) \/ NamesFail(p, dir)
         \/ \E op \in Walks : StartWalk(p, op)
         \/ \E k \in Keys : VisitGone(p, k) \/ VisitLen(p, k) \/ VisitFails(p, k)
         \/ GetFails(p)
  PROVE  Chosen!Next
<1>0. TypeOK /\ CallOK(p)
  BY DEF MapInv, WalkInv, IInv
<1>1. ASSUME UNCHANGED <<file, data, expired>>,
             \A q \in Procs \ {p} : pc'[q] = pc[q] /\ arg'[q] = arg[q],
             arg'[p].op \in Walks \cup {"none"},
             pc'[p] # "yield", pc'[p] = "read" => arg'[p].op # "range"
      PROVE  Chosen!Next
  <2>1. Registers' = Registers /\ Calls' = [Calls EXCEPT ![p] = CallOf(p)']
    BY <1>1, OneCalls
  <2>2. arg'[p].op # "set" /\ ~Looking(p)' /\ ~Got(p)'
    BY <1>1 DEF Walks, Looking, Got
  <2>3. CallOf(p)' = Chosen!Idle
    BY <2>2, CallIsNext
  <2> QED
    BY <2>1, <2>3, Leaves
<1>2. ASSUME NEW s, NEW op, NEW k, NEW v, NEW i, Goto(p, s), Hold(p, op, k, v, i)
      PROVE  /\ pc'[p] = s /\ arg'[p].op = op
             /\ \A q \in Procs \ {p} : pc'[q] = pc[q] /\ arg'[q] = arg[q]
  BY <1>0, <1>2 DEF Goto, Hold, TypeOK
<1>3. ASSUME RemoveTmp(p) \/ Return(p)
      PROVE  Chosen!Next
  <2>1. /\ UNCHANGED <<file, data, expired>>
        /\ Goto(p, "idle") /\ arg' = [arg EXCEPT ![p] = NoArg]
    BY <1>3 DEF RemoveTmp, Return, disk
  <2>2. /\ pc'[p] = "idle" /\ arg'[p].op = "none"
        /\ \A q \in Procs \ {p} : pc'[q] = pc[q] /\ arg'[q] = arg[q]
    BY <1>0, <2>1 DEF Goto, NoArg, TypeOK
  <2> QED
    BY <1>1, <2>1, <2>2
<1>4. ASSUME NEW k, NEW K, NEW w, Visited(p, k, K, w), arg[p].op \in Walks,
             UNCHANGED <<disk, expired>>
      PROVE  Chosen!Next
  <2>1. /\ Goto(p, "walk") /\ Hold(p, arg[p].op, None, None, None)
        /\ UNCHANGED <<file, data, expired>>
    BY <1>4 DEF Visited, disk
  <2>2. /\ pc'[p] = "walk" /\ arg'[p].op = arg[p].op
        /\ \A q \in Procs \ {p} : pc'[q] = pc[q] /\ arg'[q] = arg[q]
    BY <1>2, <2>1
  <2> QED
    BY <1>1, <1>4, <2>1, <2>2
<1>5. CASE Yielded(p) \/ VisitSkip(p)
           \/ \E k \in Keys : VisitGone(p, k) \/ VisitLen(p, k) \/ VisitFails(p, k)
  BY <1>0, <1>4, <1>5 DEF Yielded, VisitSkip, VisitGone, VisitLen, VisitFails,
                          Visits, CallOK, Walks
<1>6. ASSUME CleanupOld(p) \/ EndWalk(p)
      PROVE  Chosen!Next
  <2>1. /\ UNCHANGED <<file, data, expired, arg>> /\ arg[p].op \in Walks
        /\ \E s \in {"unlink", "return"} : Goto(p, s)
    BY <1>0, <1>6 DEF CleanupOld, EndWalk, CallOK, Walks, disk
  <2>2. /\ pc'[p] \in {"unlink", "return"} /\ arg'[p].op = arg[p].op
        /\ \A q \in Procs \ {p} : pc'[q] = pc[q] /\ arg'[q] = arg[q]
    BY <1>0, <2>1 DEF Goto, TypeOK
  <2> QED
    BY <1>1, <2>1, <2>2
<1>7. ASSUME NEW dir \in Dirs, ReadNames(p, dir) \/ NamesFail(p, dir)
      PROVE  Chosen!Next
  <2>1. /\ UNCHANGED <<disk, expired, pc, arg>> /\ pc[p] = "walk"
    BY <1>7, Zenon DEF ReadNames, NamesFail
  <2> QED
    BY <1>0, <1>1, <2>1 DEF disk, CallOK
<1>8. ASSUME NEW op \in Walks, StartWalk(p, op)
      PROVE  Chosen!Next
  <2>1. /\ UNCHANGED <<disk, expired>> /\ Goto(p, "walk")
        /\ Hold(p, op, None, None, None)
    BY <1>8, Zenon DEF StartWalk
  <2>2. UNCHANGED <<file, data, expired>>
    BY <2>1 DEF disk
  <2> QED
    BY <1>1, <1>2, <2>1, <2>2
<1>9. ASSUME GetFails(p)
      PROVE  Chosen!Next
  <2>1. /\ UNCHANGED <<file, data, expired>> /\ Goto(p, "return")
        /\ Hold(p, "get", arg[p].key, Garbage, None)
    BY <1>9 DEF GetFails, disk
  <2>2. /\ pc'[p] = "return" /\ arg'[p].op = "get" /\ arg'[p].val = Garbage
        /\ \A q \in Procs \ {p} : pc'[q] = pc[q] /\ arg'[q] = arg[q]
    BY <1>0, <2>1 DEF Goto, Hold, TypeOK
  <2>3. Registers' = Registers /\ Calls' = [Calls EXCEPT ![p] = CallOf(p)']
    BY <2>1, <2>2, OneCalls
  <2>4. ~Looking(p)' /\ ~Got(p)'
    BY <2>2 DEF Looking, Got, Fails
  <2>5. CallOf(p)' = Chosen!Idle
    BY <2>2, <2>4, CallIsNext
  <2> QED
    BY <2>3, <2>5, Leaves
<1> QED
  BY <1>3, <1>5, <1>6, <1>7, <1>8, <1>9

\* A Set or a Get begins; a Range opens a file.
LEMMA FileEnters ==
  ASSUME backend # "datastore", backend' = backend, MapInv, MapNext, NEW p \in Procs,
         NEW k \in Keys,
         Get(p, k) \/ VisitOpen(p, k) \/ \E v \in Values : Set(p, k, v)
  PROVE  Chosen!Next
<1>0. TypeOK /\ CallOK(p)
  BY DEF MapInv, WalkInv, IInv
<1>1. ASSUME NEW s, NEW op, NEW v, NEW i, Goto(p, s), Hold(p, op, k, v, i),
             UNCHANGED <<disk, expired>>
      PROVE  /\ pc'[p] = s /\ arg'[p] = [op |-> op, key |-> k, val |-> v, fd |-> i]
             /\ Registers' = Registers /\ Calls' = [Calls EXCEPT ![p] = CallOf(p)']
             /\ Looking(p)' =>
                  seen'[p] = (IF Looking(p) THEN seen[p] ELSE {Shown[k]})
                             \cup {Shown[k]}
  <2>1. /\ pc'[p] = s /\ arg'[p] = [op |-> op, key |-> k, val |-> v, fd |-> i]
        /\ \A q \in Procs \ {p} : pc'[q] = pc[q] /\ arg'[q] = arg[q]
    BY <1>0, <1>1 DEF Goto, Hold, TypeOK
  <2>2. UNCHANGED <<file, data, expired>>
    BY <1>1 DEF disk
  <2>3. /\ Registers' = Registers /\ Calls' = [Calls EXCEPT ![p] = CallOf(p)']
        /\ Looking(p)' =>
             seen'[p] = (IF Looking(p) THEN seen[p] ELSE {Shown[arg'[p].key]})
                        \cup {Shown[arg'[p].key]}
    BY <2>1, <2>2, OneCalls
  <2>4. arg'[p].key = k
    BY <2>1
  <2> QED
    BY <2>1, <2>3, <2>4
<1>2. pc[p] \in {"idle", "walk"}
  BY DEF Get, VisitOpen, Visits, Set
<1>3. Calls[p] = Chosen!Idle /\ ~Looking(p)
  <2>1. arg[p].op # "set" /\ ~Looking(p) /\ ~Got(p)
    BY <1>0, <1>2 DEF CallOK, NoArg, Walks, Looking, Got
  <2> QED
    BY <2>1, CallIs, FileSeen
<1>4. ASSUME NEW op \in {"get", "range"}, Goto(p, "read"), Hold(p, op, k, None, file[k]),
             UNCHANGED <<disk, expired>>
      PROVE  Chosen!Next
  <2>1. /\ pc'[p] = "read"
        /\ arg'[p] = [op |-> op, key |-> k, val |-> None, fd |-> file[k]]
        /\ Registers' = Registers /\ Calls' = [Calls EXCEPT ![p] = CallOf(p)']
        /\ Looking(p)' => seen'[p] = {Shown[k]}
    BY <1>1, <1>3, <1>4
  <2>2. Looking(p)'
    BY <2>1 DEF Looking
  <2>3. CallOf(p)' = [op |-> "get", key |-> k, seen |-> {Registers[k]}]
    BY <2>1, <2>2, CallIsNext, FileSeen
  <2> QED
    BY <1>3, <2>1, <2>3, Enters
<1>5. CASE Get(p, k)
  BY <1>4, <1>5 DEF Get
<1>6. CASE VisitOpen(p, k)
  <2>1. CASE arg[p].op = "range"
    BY <1>4, <1>6, <2>1 DEF VisitOpen
  <2>2. CASE arg[p].op = "cleanup"
    <3>1. /\ pc'[p] = "read" /\ arg'[p].op = "cleanup"
          /\ Registers' = Registers /\ Calls' = [Calls EXCEPT ![p] = CallOf(p)']
      <4>1. /\ Goto(p, "read") /\ Hold(p, "cleanup", k, None, file[k])
            /\ UNCHANGED <<disk, expired>>
        BY <1>6, <2>2 DEF VisitOpen
      <4>2. /\ pc'[p] = "read"
            /\ arg'[p] = [op |-> "cleanup", key |-> k, val |-> None, fd |-> file[k]]
            /\ Registers' = Registers /\ Calls' = [Calls EXCEPT ![p] = CallOf(p)']
        BY <1>1, <4>1
      <4> QED
        BY <4>2
    <3>2. ~Looking(p)' /\ ~Got(p)'
      BY <3>1 DEF Looking, Got
    <3>3. CallOf(p)' = Chosen!Idle
      BY <3>1, <3>2, CallIsNext
    <3> QED
      BY <3>1, <3>3, Leaves
  <2> QED
    BY <1>6, <2>1, <2>2 DEF VisitOpen
<1>7. ASSUME NEW v \in Values, Set(p, k, v)
      PROVE  Chosen!Next
  <2>1. /\ pc'[p] = "open" /\ arg'[p] = [op |-> "set", key |-> k, val |-> v, fd |-> None]
        /\ Registers' = Registers /\ Calls' = [Calls EXCEPT ![p] = CallOf(p)']
    BY <1>1, <1>7 DEF Set
  <2>2. CallOf(p)' = [op |-> "put", key |-> k, seen |-> {v}]
    BY <2>1, CallIsNext
  <2> QED
    BY <1>3, <2>1, <2>2, Enters
<1> QED
  BY <1>5, <1>6, <1>7

\* What a Get or a Range has read, and a rename that fails.
LEMMA FileAnswers ==
  ASSUME backend # "datastore", backend' = backend, MapInv, MapNext, NEW p \in Procs,
         GetOk(p) \/ GetStale(p) \/ Yield(p) \/ RenameFails(p)
  PROVE  Chosen!Next
<1> DEFINE k == arg[p].key
           v == data[arg[p].fd]
<1>0. TypeOK /\ CallOK(p) /\ SeenOK(p)
  BY DEF MapInv, WalkInv, IInv
<1> USE LocalFSConstants
<1>1. ASSUME NEW s, NEW op, NEW r, NEW i, Goto(p, s), Hold(p, op, k, r, i),
             UNCHANGED <<disk, expired>>
      PROVE  /\ pc'[p] = s /\ arg'[p] = [op |-> op, key |-> k, val |-> r, fd |-> i]
             /\ Registers' = Registers /\ Calls' = [Calls EXCEPT ![p] = CallOf(p)']
  <2>1. /\ pc'[p] = s /\ arg'[p] = [op |-> op, key |-> k, val |-> r, fd |-> i]
        /\ \A q \in Procs \ {p} : pc'[q] = pc[q] /\ arg'[q] = arg[q]
    BY <1>0, <1>1 DEF Goto, Hold, TypeOK
  <2>2. UNCHANGED <<file, data, expired>>
    BY <1>1 DEF disk
  <2> QED
    BY <2>1, <2>2, OneCalls
<1>2. ASSUME NEW s \in {"return", "unlink", "yield"}, NEW op \in {"get", "range"},
             NEW i, Goto(p, s), Hold(p, op, k, Entry(arg[p].fd), i), Looking(p),
             UNCHANGED <<disk, expired>>, s = "yield" <=> op = "range"
      PROVE  Chosen!Next
  <2> DEFINE r == Entry(arg[p].fd)
  <2>1. r # Garbage
    BY DEF Entry
  <2> HIDE DEF r
  <2>2. /\ pc'[p] = s /\ arg'[p] = [op |-> op, key |-> k, val |-> r, fd |-> i]
        /\ Registers' = Registers /\ Calls' = [Calls EXCEPT ![p] = CallOf(p)']
    BY <1>1, <1>2 DEF r
  <2>3. Got(p)' /\ arg'[p].op # "set"
    BY <1>2, <2>1, <2>2 DEF Got, Fails
  <2>4. CallOf(p)' = [op |-> "got", key |-> k, seen |-> {r}]
    BY <2>2, <2>3, CallIsNext
  <2>5. Calls[p] = [op |-> "get", key |-> k, seen |-> seen[p]] /\ r \in seen[p]
    BY <1>0, <1>2, CallIs, FileSeen DEF SeenOK, r
  <2>6. Calls' = [Calls EXCEPT ![p] =
                    [op |-> "got", key |-> Calls[p].key, seen |-> {r}]]
    BY <2>2, <2>4, <2>5
  <2>7. Calls[p].op = "get" /\ r \in Calls[p].seen /\ Registers' = Registers
    BY <2>2, <2>5
  <2> QED
    BY <2>6, <2>7, Answers
<1>3. CASE GetOk(p) \/ Yield(p)
  <2>1. Looking(p) /\ v = Entry(arg[p].fd)
    BY <1>3 DEF GetOk, Yield, Looking, Current, Decodes, Entry
  <2> QED
    BY <1>2, <1>3, <2>1 DEF GetOk, Yield
<1>4. CASE GetStale(p)
  <2>1. Looking(p) /\ Entry(arg[p].fd) = None
    BY <1>4 DEF GetStale, Looking, Current, Decodes, Entry
  <2>2. CASE Decodes(p)
    BY <1>2, <1>4, <2>1, <2>2 DEF GetStale
  <2>3. CASE ~Decodes(p)
    <3>1. /\ pc'[p] = "unlink" /\ arg'[p].op = "get" /\ arg'[p].val = Garbage
          /\ Registers' = Registers /\ Calls' = [Calls EXCEPT ![p] = CallOf(p)']
      <4>1. /\ Goto(p, "unlink") /\ Hold(p, "get", k, Garbage, arg[p].fd)
            /\ UNCHANGED <<disk, expired>>
        BY <1>4, <2>3 DEF GetStale
      <4>2. /\ pc'[p] = "unlink"
            /\ arg'[p] = [op |-> "get", key |-> k, val |-> Garbage, fd |-> arg[p].fd]
            /\ Registers' = Registers /\ Calls' = [Calls EXCEPT ![p] = CallOf(p)']
        BY <1>1, <4>1
      <4> QED
        BY <4>2
    <3>2. ~Looking(p)' /\ ~Got(p)'
      BY <3>1 DEF Looking, Got, Fails
    <3>3. CallOf(p)' = Chosen!Idle
      BY <3>1, <3>2, CallIsNext
    <3> QED
      BY <3>1, <3>3, Leaves
  <2> QED
    BY <2>2, <2>3
<1>5. CASE RenameFails(p)
  <2>1. /\ pc[p] = "rename" /\ arg[p].op = "set"
        /\ pc'[p] = "untmp" /\ Registers' = Registers
        /\ arg'[p] = [op |-> "set", key |-> k, val |-> arg[p].val, fd |-> None]
        /\ Calls' = [Calls EXCEPT ![p] = CallOf(p)']
    BY <1>0, <1>1, <1>5 DEF RenameFails, CallOK
  <2>2. CallOf(p)' = CallOf(p)
    <3>1. CallOf(p) = [op |-> "put", key |-> k, seen |-> {arg[p].val}]
      BY <2>1, CallIs
    <3>2. CallOf(p)' = [op |-> "put", key |-> k, seen |-> {arg[p].val}]
      <4>1. /\ arg'[p].op = "set" /\ arg'[p].key = k /\ arg'[p].val = arg[p].val
            /\ pc'[p] # "yield"
        BY <2>1
      <4> HIDE DEF k
      <4> QED
        BY <4>1, CallIsNext
    <3> QED
      BY <3>1, <3>2
  <2>3. Calls' = Calls
    BY <2>1, <2>2, FileSeen
  <2> QED
    BY <2>1, <2>3, Stutters
<1> QED
  BY <1>3, <1>4, <1>5

LEMMA FileImplements ==
  ASSUME backend # "datastore", backend' = backend, MapInv, MapNext
  PROVE  Chosen!Next
<1>1. ASSUME NEW p \in Procs, Run(p)
      PROVE  Chosen!Next
  BY <1>1, FileSetImplements, FileRenameImplements, FileRemovesImplement,
     FileLeaves, FileEnters, FileAnswers DEF Run
<1>2. ASSUME NEW p \in Procs, Call(p)
      PROVE  Chosen!Next
  BY <1>2, FileRemovesImplement, FileLeaves, FileEnters DEF Call
<1> QED
  BY <1>1, <1>2, FileFateImplements DEF MapNext, Next

-----------------------------------------------------------------------------

\* Whichever store New picks, a Get and a Range return only what their key held,
\* or a Set in progress was putting, while they looked it up, and the store may
\* lose what it holds but never shows an entry that nobody put for the key
\* (cloudrun.go:33-40, localfs.go:127-215, datastore.go:91-150).
THEOREM StoreIsImplemented == CloudSpec => StoreImplemented
<1>1. CloudInit => Chosen!Init
  <2> SUFFICES ASSUME CloudInit PROVE Chosen!Init
    OBVIOUS
  <2>1. StoresIntact /\ \A p \in Procs : arg[p] = NoArg /\ dsArg[p] = DS!NoArg
    BY CloudInitial DEF CloudInit, MapInit, Init, DS!Init
  <2>2. ASSUME NEW p \in Procs
        PROVE  CallOf(p) = Chosen!Idle /\ DS!CallOf(p) = Chosen!Idle
    <3>1. pc[p] = "idle" /\ arg[p].op = "none" /\ dsArg[p].op = "none"
      BY <2>1 DEF NoArg, DS!NoArg, CloudInit, MapInit, Init
    <3> QED
      BY <3>1, CallIs, DSCallIs DEF Looking, Got
  <2>3. Registers \in [Keys -> Values \cup {None}]
    BY DEF Registers, Shown, Entry, DS!Shown, DS!Live
  <2> QED
    BY <2>2, <2>3 DEF Chosen!Init, Registers
<1>2. StoresIntact /\ [CloudNext]_cloudVars => [Chosen!Next]_(Chosen!vars)
  <2> SUFFICES ASSUME StoresIntact, [CloudNext]_cloudVars
               PROVE  Chosen!Next \/ UNCHANGED Chosen!vars
    OBVIOUS
  <2>1. backend' = backend /\ MapInv /\ DS!IInv
    BY CloudStep
  <2>2. CASE backend # "datastore" /\ MapNext
    BY <2>1, <2>2, FileImplements
  <2>3. CASE backend = "datastore" /\ DS!Next
    BY <2>1, <2>3, DSImplements
  <2>4. CASE UNCHANGED cloudVars
    <3>1. /\ UNCHANGED <<file, data, expired, pc, arg, seen, backend>>
          /\ UNCHANGED <<db, dsPc, dsArg>>
      BY <2>4 DEF cloudVars, mapVars, vars, disk, dsVars
    <3>2. Registers' = Registers
      BY <3>1 DEF Registers, Shown, Entry, DS!Shown, DS!Live
    <3>3. Calls' = Calls
      BY <3>1 DEF Calls, CallOf, Looking, Fails, DS!CallOf
    <3> QED
      BY <3>2, <3>3, Stutters
  <2> QED
    BY <2>2, <2>3, <2>4, CloudStep
<1> QED
  BY <1>1, <1>2, StoresStayIntact, PTL DEF CloudSpec, StoreImplemented, Chosen!Spec
=============================================================================
