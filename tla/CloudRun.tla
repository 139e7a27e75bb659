------------------------------ MODULE CloudRun ------------------------------
(***************************************************************************)
(* The store of cloudrun.go: New picks Datastore when the process runs on  *)
(* Cloud Run and the client can be made, and the file store otherwise, and *)
(* the store it picked is the one that is used from then on.               *)
(***************************************************************************)
EXTENDS LocalFSMap, Sequences

CONSTANTS Rest, Ext  \* see Datastore

ASSUME CloudRunConstants ==
  Rest \in [Keys -> Seq(0..255)] /\ Ext \in Seq(0..255)

VARIABLES
  backend,                 \* the store that New picked
  db, dsPc, dsArg, dsWalk  \* the state of Datastore

dsVars    == <<db, dsPc, dsArg, dsWalk>>
cloudVars == <<mapVars, backend, dsVars>>

DS == INSTANCE Datastore WITH pc <- dsPc, arg <- dsArg, walk <- dsWalk

\* onCloudRun: K_SERVICE is set; reachable: datastore.New returns no error.
New(onCloudRun, reachable) ==
  IF onCloudRun /\ reachable THEN "datastore" ELSE "localfs"

CloudInit ==
  /\ \E onCloudRun, reachable \in BOOLEAN : backend = New(onCloudRun, reachable)
  /\ MapInit
  /\ DS!Init

CloudNext ==
  /\ UNCHANGED backend
  /\ \/ backend = "localfs" /\ MapNext /\ UNCHANGED dsVars
     \/ backend = "datastore" /\ DS!Next
        /\ UNCHANGED <<disk, pc, arg, walk, spoilt, seen>>

CloudSpec == CloudInit /\ [][CloudNext]_cloudVars

-----------------------------------------------------------------------------
(* Properties *)

\* What each store's properties rest on, and that nobody calls the other one.
StoresIntact ==
  /\ MapInv /\ DS!IInv
  /\ \A p \in Procs :
       IF backend = "datastore" THEN pc[p] = "idle" ELSE dsPc[p] = "idle"

\* A walk of either store that comes to its end does what it is meant to do.
WalksExact == WalkExact /\ DS!WalkExact

\* An entry or entity that has not expired is removed for one of the reasons
\* its store names.
FreshKept == FreshStays /\ DS!FreshStays

Chosen == INSTANCE LossyMap
  WITH map  <- IF backend = "datastore" THEN DS!Shown ELSE Shown,
       call <- [p \in Procs |->
                  IF backend = "datastore" THEN DS!CallOf(p) ELSE CallOf(p)]

\* Whichever store New picks: what it returns is what a register per key that
\* may lose its value may return.
StoreImplemented == Chosen!Spec
=============================================================================
