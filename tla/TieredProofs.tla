---------------------------- MODULE TieredProofs ----------------------------
(***************************************************************************)
(* The two tiers of TieredCache for any number of keys, values, goroutines *)
(* and calls: what either holds of a key is accounted for, and once an     *)
(* operation has had the key to itself nothing older comes back; a Fetch   *)
(* that waits returns what its leader returns, a call is never left        *)
(* without a leader unless a loader panics, and no loader runs for a key   *)
(* whose loaded value the store has.                                       *)
(***************************************************************************)
EXTENDS Tiered, TLAPS

\* Memory is empty, and the store holds what it held.
LEMMA Initial == Init => IInv
<1> HAVE Init
<1> USE TieredConstants DEF Init, NoArg, NewCall
<1>1. TypeOK
  BY DEF TypeOK, States, Arguments, FlightCall, Outcomes
<1>2. ReadsAccounted
  BY DEF ReadsAccounted
<1>3. AloneOK /\ HeldOK
  BY DEF AloneOK, HeldOK, Busy
<1>4. FlightsOK /\ OutcomeShared /\ FlightHasLeader
  BY DEF FlightsOK, OutcomeShared, FlightHasLeader, Leads, Leading, Owing
<1>5. KeptOK /\ NoRepeatedLoad
  BY DEF KeptOK, NoRepeatedLoad
<1> QED
  BY <1>1, <1>2, <1>3, <1>4, <1>5 DEF IInv

-----------------------------------------------------------------------------
(* Types *)

\* A goroutine begins an operation on the keys in K.
LEMMA BeginTyped ==
  ASSUME TypeOK, NEW p \in Procs, NEW K \in SUBSET Keys, Begin(p, K)
  PROVE  alone' \in [Procs -> SUBSET Keys]
BY DEF TypeOK, Begin


\* It goes on to a state s with what it holds.
LEMMA GotoTyped ==
  ASSUME TypeOK, NEW p \in Procs, NEW s \in States, NEW k \in Keys \cup {None},
         NEW c \in Calls \cup {None}, NEW v \in Outcomes \cup {None},
         Goto(p, s, k, c, v)
  PROVE  pc' \in [Procs -> States] /\ arg' \in [Procs -> Arguments]
BY DEF TypeOK, Goto, Arguments

LEMMA StepTyped ==
  ASSUME TypeOK, NEW p \in Procs, NEW s \in States,
         NEW v \in Outcomes \cup {None}, Step(p, s, v)
  PROVE  pc' \in [Procs -> States] /\ arg' \in [Procs -> Arguments]
BY GotoTyped DEF TypeOK, Step, Arguments

LEMMA ReturnTyped ==
  ASSUME TypeOK, NEW p \in Procs, Return(p)
  PROVE  pc' \in [Procs -> States] /\ arg' \in [Procs -> Arguments]
BY GotoTyped DEF Return, States

LEMMA CallTyped ==
  ASSUME TypeOK, NEW p \in Procs, Call(p)
  PROVE  TypeOK'
<1> USE TieredConstants, BeginTyped, GotoTyped
        DEF tiers, shared, States, Outcomes
<1>1. ASSUME NEW k \in Keys, GetMiss(p, k) \/ FetchMiss(p, k)
      PROVE  TypeOK'
  BY <1>1 DEF TypeOK, GetMiss, FetchMiss
<1>2. ASSUME NEW k \in Keys, Delete(p, k)
      PROVE  TypeOK'
  BY <1>2 DEF TypeOK, Delete, May, Put
<1>3. ASSUME NEW k \in Keys, NEW v \in Values, Set(p, k, v)
      PROVE  TypeOK'
  BY <1>3 DEF TypeOK, Set, May, Put
<1>4. CASE Flush(p)
  BY <1>4 DEF TypeOK, Flush, May
<1> QED
  BY <1>1, <1>2, <1>3, <1>4 DEF Call

LEMMA LeaveTyped ==
  ASSUME TypeOK, NEW p \in Procs, NEW v \in Outcomes \cup {None}, Leave(p, v)
  PROVE  /\ calls' \in [Calls -> FlightCall]
         /\ flights' \in [Keys -> Calls \cup {None}]
         /\ pc' \in [Procs -> States] /\ arg' \in [Procs -> Arguments]
<1>1. \A c \in Calls : [calls[c] EXCEPT !.out = v] \in FlightCall
  BY DEF TypeOK, FlightCall
<1>2. calls' \in [Calls -> FlightCall]
  BY <1>1 DEF TypeOK, Leave
<1>3. flights' \in [Keys -> Calls \cup {None}]
  BY DEF TypeOK, Leave
<1> QED
  BY <1>2, <1>3, StepTyped DEF Leave, States

LEMMA RunTyped ==
  ASSUME TypeOK, HeldOK, NEW p \in Procs, Run(p)
  PROVE  TypeOK'
<1> USE TieredConstants, StepTyped, ReturnTyped
        DEF tiers, shared, histVars, Leading, States, Outcomes
<1>0. /\ arg[p] \in Arguments
      /\ pc[p] \notin {"idle", "wipe"} => arg[p].key \in Keys
  BY DEF TypeOK, HeldOK
<1>1. CASE LoadHit(p)
  BY <1>0, <1>1 DEF TypeOK, LoadHit
<1>2. CASE Refill(p)
  BY <1>0, <1>2 DEF TypeOK, HeldOK, Refill, Put, Settle
<1>3. CASE LoadMiss(p)
  BY <1>3 DEF TypeOK, LoadMiss
<1>4. CASE Persist(p)
  BY <1>0, <1>4 DEF TypeOK, HeldOK, Persist, Put, Settle
<1>5. CASE PersistFails(p)
  BY <1>0, <1>5 DEF TypeOK, HeldOK, PersistFails, Put
<1>6. CASE Erase(p)
  BY <1>0, <1>6 DEF TypeOK, Erase, Put, Settle
<1>7. CASE EraseFails(p)
  BY <1>0, <1>7 DEF TypeOK, EraseFails, Put
<1>8. ASSUME NEW K \in SUBSET Keys, Wipe(p, K)
      PROVE  TypeOK'
  BY <1>8 DEF TypeOK, Wipe, Settle
<1>9. CASE Lead(p)
  <2>1. PICK c \in Allocated : Goto(p, "recheck", arg[p].key, c, None)
    BY <1>9 DEF Lead
  <2>2. pc' \in [Procs -> States] /\ arg' \in [Procs -> Arguments]
    BY <1>0, <1>9, <2>1, GotoTyped DEF Arguments, Allocated, FreeCalls
  <2> QED
    BY <1>0, <1>9, <2>2
       DEF TypeOK, Lead, Allocated, FreeCalls, NewCall, FlightCall
<1>10. CASE Join(p)
  BY <1>0, <1>10, GotoTyped DEF TypeOK, Join
<1>11. CASE Released(p) \/ RecheckMiss(p) \/ ReloadMiss(p)
  BY <1>11 DEF TypeOK, Released, RecheckMiss, ReloadMiss
<1>12. CASE RecheckHit(p)
  BY <1>0, <1>12, LeaveTyped DEF TypeOK, RecheckHit, Owe
<1>13. CASE ReloadHit(p)
  BY <1>0, <1>13 DEF TypeOK, ReloadHit, Owe
<1>14. CASE ReRefill(p)
  BY <1>0, <1>14 DEF TypeOK, HeldOK, ReRefill, Put
<1>15. CASE ReloadFails(p) \/ LoaderFails(p)
  BY <1>15 DEF TypeOK, ReloadFails, LoaderFails, Owe
<1>16. CASE LoaderPanics(p)
  BY <1>0, <1>16 DEF TypeOK, LoaderPanics
<1>17. ASSUME NEW v \in Values, LoaderOk(p, v)
       PROVE  TypeOK'
  BY <1>17 DEF TypeOK, LoaderOk, Owe
<1>18. CASE Keep(p)
  BY <1>0, <1>18 DEF TypeOK, HeldOK, Keep, Put, May
<1>19. CASE KeepStore(p)
  BY <1>0, <1>19 DEF TypeOK, HeldOK, KeepStore, Put, Settle
<1>20. CASE KeepStoreFails(p)
  BY <1>0, <1>20 DEF TypeOK, HeldOK, KeepStoreFails, Put
<1>21. CASE Publish(p)
  BY <1>0, <1>21, LeaveTyped DEF TypeOK, Publish, Arguments
<1>22. CASE Done(p)
  <2>1. \A c \in Calls : [calls[c] EXCEPT !.wg = 0] \in FlightCall
    BY DEF TypeOK, FlightCall
  <2>2. calls' \in [Calls -> FlightCall]
    BY <1>22, <2>1 DEF TypeOK, Done
  <2> QED
    BY <1>22, <2>2 DEF TypeOK, Done
<1> QED
  BY <1>1, <1>2, <1>3, <1>4, <1>5, <1>6, <1>7, <1>8, <1>9, <1>10, <1>11,
     <1>12, <1>13, <1>14, <1>15, <1>16, <1>17, <1>18, <1>19, <1>20, <1>21,
     <1>22 DEF Run

LEMMA LossTyped ==
  ASSUME TypeOK, NEW k \in Keys, Evict(k) \/ Lose(k)
  PROVE  TypeOK'
<1>1. CASE Evict(k)
  BY <1>1 DEF TypeOK, Evict, shared, procVars, histVars, Put
<1>2. CASE Lose(k)
  BY <1>2 DEF TypeOK, Lose, shared, procVars, May, Put
<1> QED
  BY <1>1, <1>2

-----------------------------------------------------------------------------
(* The tiers *)

Accounted == ReadsAccounted /\ AloneOK /\ HeldOK

\* An operation that goes on and leaves the tiers as they are holds what is
\* accounted for, and if it has the key to itself, what the tiers hold.
LEMMA GoesOn ==
  ASSUME IInv, NEW p \in Procs, NEW s, NEW c, NEW v,
         pc[p] \notin {"idle", "wipe"},
         s \notin {"idle", "wipe", "erase", "persist"},
         Goto(p, s, arg[p].key, c, v), UNCHANGED <<tiers, may, alone>>,
         s \in {"refill", "reRefill", "keepStore"} =>
           v \in may[arg[p].key] \cap Values,
         s = "keep" => v \in Values,
         arg[p].key \in alone[p] =>
           /\ s \in {"load", "refill", "fetch", "join", "recheck", "reload",
                     "loading", "keep"} => memory[arg[p].key] = None
           /\ s = "keepStore" => memory[arg[p].key] \in {None, v}
           /\ s = "refill" => store[arg[p].key] = v
  PROVE  Accounted'
<1> USE DEF IInv, Goto, tiers
<1>1. Busy(p)' = Busy(p) /\ \A q \in Procs \ {p} : Busy(q)' = Busy(q)
  BY DEF TypeOK, Busy
<1>2. ReadsAccounted'
  BY DEF ReadsAccounted
<1>3. AloneOK'
  BY <1>1 DEF TypeOK, AloneOK, Busy
<1>4. HeldOK'
  BY <1>1 DEF TypeOK, HeldOK, Busy
<1> QED
  BY <1>2, <1>3, <1>4 DEF Accounted

\* An operation that returns and leaves the tiers as they are.
LEMMA Returns ==
  ASSUME IInv, NEW p \in Procs, Return(p), UNCHANGED <<tiers, may, alone>>
  PROVE  Accounted'
<1> USE DEF IInv, Goto, Return, tiers
<1>1. Busy(p)' = {} /\ \A q \in Procs \ {p} : Busy(q)' = Busy(q)
  BY DEF TypeOK, Busy
<1>2. ReadsAccounted'
  BY DEF ReadsAccounted
<1>3. AloneOK'
  BY <1>1 DEF TypeOK, AloneOK, Busy
<1>4. HeldOK'
  BY <1>1 DEF TypeOK, HeldOK, Busy
<1> QED
  BY <1>2, <1>3, <1>4 DEF Accounted

\* An operation that begins has the keys to itself at which nobody else works,
\* and takes them from the others.
LEMMA Begins ==
  ASSUME IInv, NEW p \in Procs, Call(p)
  PROVE  Accounted'
<1> USE TieredConstants
        DEF IInv, Goto, tiers, shared, Begin, May, Put
<1>1. ASSUME NEW k \in Keys, GetMiss(p, k) \/ FetchMiss(p, k)
      PROVE  Accounted'
  <2> USE <1>1 DEF GetMiss, FetchMiss
  <2>1. Busy(p)' = {k} /\ \A q \in Procs \ {p} : Busy(q)' = Busy(q)
    <3>1. PICK s \in {"load", "fetch"} : Goto(p, s, k, None, None)
      OBVIOUS
    <3> QED
      BY <3>1 DEF TypeOK, Busy
  <2>2. ReadsAccounted'
    BY DEF ReadsAccounted
  <2>3. AloneOK'
    BY <2>1 DEF TypeOK, AloneOK, Busy
  <2>4. HeldOK'
    BY <2>1 DEF TypeOK, HeldOK, Busy
  <2> QED
    BY <2>2, <2>3, <2>4 DEF Accounted
<1>2. ASSUME NEW k \in Keys, NEW v \in Values, Set(p, k, v)
      PROVE  Accounted'
  <2> USE <1>2 DEF Set
  <2>1. Busy(p)' = {k} /\ \A q \in Procs \ {p} : Busy(q)' = Busy(q)
    BY DEF TypeOK, Busy
  <2>2. ReadsAccounted'
    BY DEF TypeOK, ReadsAccounted
  <2>3. AloneOK'
    BY <2>1 DEF TypeOK, AloneOK, Busy
  <2>4. HeldOK'
    BY <2>1 DEF TypeOK, HeldOK, Busy
  <2> QED
    BY <2>2, <2>3, <2>4 DEF Accounted
<1>3. ASSUME NEW k \in Keys, Delete(p, k)
      PROVE  Accounted'
  <2> USE <1>3 DEF Delete
  <2>1. Busy(p)' = {k} /\ \A q \in Procs \ {p} : Busy(q)' = Busy(q)
    BY DEF TypeOK, Busy
  <2>2. ReadsAccounted'
    BY DEF TypeOK, ReadsAccounted
  <2>3. AloneOK'
    BY <2>1 DEF TypeOK, AloneOK, Busy
  <2>4. HeldOK'
    BY <2>1 DEF TypeOK, HeldOK, Busy
  <2> QED
    BY <2>2, <2>3, <2>4 DEF Accounted
<1>4. CASE Flush(p)
  <2> USE <1>4 DEF Flush
  <2>1. Busy(p)' = Keys /\ \A q \in Procs \ {p} : Busy(q)' = Busy(q)
    BY DEF TypeOK, Busy
  <2>2. ReadsAccounted'
    BY DEF TypeOK, ReadsAccounted
  <2>3. AloneOK'
    BY <2>1 DEF TypeOK, AloneOK, Busy
  <2>4. HeldOK'
    BY <2>1 DEF TypeOK, HeldOK, Busy
  <2> QED
    BY <2>2, <2>3, <2>4 DEF Accounted
<1> QED
  BY <1>1, <1>2, <1>3, <1>4 DEF Call

\* An operation that goes on: the steps that leave the tiers as they are.
LEMMA LooksKeep ==
  ASSUME IInv, TypeOK', NEW p \in Procs,
         \/ LoadHit(p) \/ LoadMiss(p) \/ Lead(p) \/ Join(p) \/ Released(p)
         \/ RecheckHit(p) \/ RecheckMiss(p) \/ ReloadHit(p) \/ ReloadMiss(p)
         \/ ReloadFails(p) \/ LoaderFails(p) \/ LoaderPanics(p)
         \/ (\E v \in Values : LoaderOk(p, v)) \/ Publish(p) \/ Done(p)
  PROVE  Accounted'
<1> USE TieredConstants DEF tiers, histVars, Step, Leave
<1>0. /\ pc[p] \notin {"idle", "wipe"} => arg[p].key \in Keys
      /\ pc[p] \in {"load", "refill", "fetch", "join", "recheck", "reload",
                    "loading", "keep"} /\ arg[p].key \in alone[p] =>
           memory[arg[p].key] = None
      /\ pc[p] \notin {"idle", "wipe"} => store[arg[p].key] \in may[arg[p].key]
  BY DEF IInv, AloneOK, HeldOK, Busy, ReadsAccounted
<1>1. CASE LoadHit(p)
  <2>1. store[arg[p].key] \in Values
    BY <1>0, <1>1 DEF LoadHit, IInv, TypeOK
  <2>2. Goto(p, "refill", arg[p].key, arg[p].call, store[arg[p].key])
    BY <1>1 DEF LoadHit
  <2> QED
    BY <1>0, <1>1, <2>1, <2>2, GoesOn DEF LoadHit
<1>2. CASE LoadMiss(p)
  BY <1>0, <1>2, GoesOn, Returns DEF LoadMiss
<1>3. CASE Lead(p)
  <2>1. PICK c \in Allocated : Goto(p, "recheck", arg[p].key, c, None)
    BY <1>3 DEF Lead
  <2>2. pc[p] = "join" /\ UNCHANGED <<tiers, may, alone>>
    BY <1>3 DEF Lead
  <2> QED
    BY <1>0, <2>1, <2>2, GoesOn
<1>4. CASE Join(p)
  BY <1>0, <1>4, GoesOn DEF Join
<1>5. CASE Released(p) \/ LoaderPanics(p) \/ Done(p)
  BY <1>5, Returns DEF Released, LoaderPanics, Done
<1>6. CASE RecheckHit(p)
  <2>1. Goto(p, "done", arg[p].key, arg[p].call, memory[arg[p].key])
    BY <1>6 DEF RecheckHit
  <2>2. pc[p] = "recheck" /\ UNCHANGED <<tiers, may, alone>>
    BY <1>6 DEF RecheckHit
  <2>3. arg[p].key \notin alone[p]
    BY <1>0, <1>6, <2>2 DEF RecheckHit
  <2> QED
    BY <2>1, <2>2, <2>3, GoesOn
<1>7. CASE RecheckMiss(p)
  <2>1. pc[p] = "recheck" /\ UNCHANGED <<tiers, may, alone>>
    BY <1>7 DEF RecheckMiss
  <2> QED
    BY <1>0, <1>7, <2>1, GoesOn DEF RecheckMiss
<1>8. CASE ReloadHit(p)
  <2>1. store[arg[p].key] \in Values
    BY <1>0, <1>8 DEF ReloadHit, IInv, TypeOK
  <2>2. Goto(p, "reRefill", arg[p].key, arg[p].call, store[arg[p].key])
    BY <1>8 DEF ReloadHit
  <2> QED
    BY <1>0, <1>8, <2>1, <2>2, GoesOn DEF ReloadHit
<1>9. CASE ReloadMiss(p)
  BY <1>0, <1>9, GoesOn DEF ReloadMiss
<1>10. CASE ReloadFails(p) \/ LoaderFails(p)
  BY <1>0, <1>10, GoesOn DEF ReloadFails, LoaderFails
<1>11. ASSUME NEW v \in Values, LoaderOk(p, v)
       PROVE  Accounted'
  BY <1>0, <1>11, GoesOn DEF LoaderOk
<1>12. CASE Publish(p)
  BY <1>0, <1>12, GoesOn DEF Publish
<1> QED
  BY <1>1, <1>2, <1>3, <1>4, <1>5, <1>6, <1>7, <1>8, <1>9, <1>10, <1>11, <1>12

\* The steps that write a tier and return.  Where the operation has the key to
\* itself, the other tier holds the same or nothing, and nobody else holds any
\* value of the key.
LEMMA WritesKeep ==
  ASSUME IInv, NEW p \in Procs,
         \/ Refill(p) \/ Persist(p) \/ PersistFails(p)
         \/ Erase(p) \/ EraseFails(p)
         \/ \E K \in SUBSET Keys : Wipe(p, K)
  PROVE  Accounted'
<1> USE TieredConstants DEF IInv, Goto, Return, Put, Settle
<1>0. /\ pc[p] \notin {"idle", "wipe"} => arg[p].key \in Keys
      /\ pc[p] = "refill" => arg[p].val \in may[arg[p].key] \cap Values
  BY DEF HeldOK
<1>1. Busy(p)' = {} /\ \A q \in Procs \ {p} : Busy(q)' = Busy(q)
  BY DEF TypeOK, Busy, Refill, Persist, PersistFails, Erase, EraseFails, Wipe
<1>2. CASE Refill(p)
  <2> USE <1>2 DEF Refill
  <2>1. ReadsAccounted'
    BY <1>0 DEF TypeOK, ReadsAccounted, AloneOK, Busy
  <2>2. AloneOK'
    BY <1>1 DEF TypeOK, AloneOK, Busy
  <2>3. HeldOK'
    BY <1>1 DEF TypeOK, AloneOK, HeldOK, Busy
  <2> QED
    BY <2>1, <2>2, <2>3 DEF Accounted
<1>3. CASE Persist(p)
  <2> USE <1>3 DEF Persist
  <2>1. ReadsAccounted'
    BY <1>0 DEF TypeOK, ReadsAccounted, AloneOK, HeldOK, Busy
  <2>2. AloneOK'
    BY <1>1 DEF TypeOK, AloneOK, Busy
  <2>3. HeldOK'
    BY <1>1 DEF TypeOK, AloneOK, HeldOK, Busy
  <2> QED
    BY <2>1, <2>2, <2>3 DEF Accounted
<1>4. CASE PersistFails(p)
  <2> USE <1>4 DEF PersistFails, histVars
  <2>1. ReadsAccounted'
    BY <1>0 DEF TypeOK, ReadsAccounted, HeldOK
  <2>2. AloneOK'
    BY <1>0, <1>1 DEF TypeOK, AloneOK, Busy
  <2>3. HeldOK'
    BY <1>1 DEF TypeOK, HeldOK, Busy
  <2> QED
    BY <2>1, <2>2, <2>3 DEF Accounted
<1>5. CASE Erase(p)
  <2> USE <1>5 DEF Erase
  <2>1. ReadsAccounted'
    BY <1>0 DEF TypeOK, ReadsAccounted, AloneOK, HeldOK, Busy
  <2>2. AloneOK'
    BY <1>1 DEF TypeOK, AloneOK, Busy
  <2>3. HeldOK'
    BY <1>1 DEF TypeOK, AloneOK, HeldOK, Busy
  <2> QED
    BY <2>1, <2>2, <2>3 DEF Accounted
<1>6. CASE EraseFails(p)
  <2> USE <1>6 DEF EraseFails
  <2>1. ReadsAccounted'
    BY <1>0 DEF TypeOK, ReadsAccounted, HeldOK, Busy
  <2>2. AloneOK'
    BY <1>0, <1>1 DEF TypeOK, AloneOK, Busy
  <2>3. HeldOK'
    BY <1>1 DEF TypeOK, HeldOK, Busy
  <2> QED
    BY <2>1, <2>2, <2>3 DEF Accounted
<1>7. ASSUME NEW K \in SUBSET Keys, Wipe(p, K)
      PROVE  Accounted'
  <2> USE <1>7 DEF Wipe
  <2>1. ReadsAccounted'
    BY DEF TypeOK, ReadsAccounted, AloneOK, HeldOK, Busy
  <2>2. AloneOK'
    BY <1>1 DEF TypeOK, AloneOK, Busy
  <2>3. HeldOK'
    BY <1>1 DEF TypeOK, AloneOK, HeldOK, Busy
  <2> QED
    BY <2>1, <2>2, <2>3 DEF Accounted
<1> QED
  BY <1>2, <1>3, <1>4, <1>5, <1>6, <1>7

\* The steps of a leader that write a tier and go on.
LEMMA LeaderWritesKeep ==
  ASSUME IInv, NEW p \in Procs,
         ReRefill(p) \/ Keep(p) \/ KeepStore(p) \/ KeepStoreFails(p)
  PROVE  Accounted'
<1> USE TieredConstants DEF IInv, Goto, Step, Put
<1>0. pc[p] \notin {"idle", "wipe"} => arg[p].key \in Keys
  BY DEF HeldOK
<1>1. \A q \in Procs : Busy(q)' = Busy(q)
  <2>1. PICK s \in {"publish", "keepStore"} : Step(p, s, arg[p].val)
    BY DEF ReRefill, Keep, KeepStore, KeepStoreFails
  <2>2. pc[p] \notin {"idle", "wipe"}
    BY DEF ReRefill, Keep, KeepStore, KeepStoreFails
  <2> QED
    BY <2>1, <2>2 DEF TypeOK, Busy
<1>2. CASE ReRefill(p)
  <2> USE <1>2 DEF ReRefill, histVars
  <2>1. ReadsAccounted'
    BY <1>0 DEF TypeOK, ReadsAccounted, HeldOK
  <2>2. AloneOK'
    BY <1>0, <1>1 DEF TypeOK, AloneOK, Busy
  <2>3. HeldOK'
    BY <1>1 DEF TypeOK, HeldOK, Busy
  <2> QED
    BY <2>1, <2>2, <2>3 DEF Accounted
<1>3. CASE Keep(p)
  <2> USE <1>3 DEF Keep, May
  <2>1. ReadsAccounted'
    BY <1>0 DEF TypeOK, ReadsAccounted
  <2>2. AloneOK'
    BY <1>0, <1>1 DEF TypeOK, AloneOK, Busy
  <2>3. HeldOK'
    BY <1>0, <1>1 DEF TypeOK, HeldOK, Busy
  <2> QED
    BY <2>1, <2>2, <2>3 DEF Accounted
<1>4. CASE KeepStore(p)
  <2> USE <1>4 DEF KeepStore, Settle
  <2>1. ReadsAccounted'
    BY <1>0 DEF TypeOK, ReadsAccounted, AloneOK, HeldOK, Busy
  <2>2. AloneOK'
    BY <1>0, <1>1 DEF TypeOK, AloneOK, Busy
  <2>3. HeldOK'
    BY <1>0, <1>1 DEF TypeOK, AloneOK, HeldOK, Busy
  <2> QED
    BY <2>1, <2>2, <2>3 DEF Accounted
<1>5. CASE KeepStoreFails(p)
  <2> USE <1>5 DEF KeepStoreFails, histVars
  <2>1. ReadsAccounted'
    BY <1>0 DEF TypeOK, ReadsAccounted, HeldOK
  <2>2. AloneOK'
    BY <1>0, <1>1 DEF TypeOK, AloneOK, Busy
  <2>3. HeldOK'
    BY <1>1 DEF TypeOK, HeldOK, Busy
  <2> QED
    BY <2>1, <2>2, <2>3 DEF Accounted
<1> QED
  BY <1>2, <1>3, <1>4, <1>5

\* A tier that loses a key holds what it may hold.
LEMMA LossKeeps ==
  ASSUME IInv, NEW k \in Keys, Evict(k) \/ Lose(k)
  PROVE  Accounted'
<1> USE DEF IInv, Put, procVars, histVars
<1>1. \A q \in Procs : Busy(q)' = Busy(q)
  BY DEF Busy, Evict, Lose
<1>2. CASE Evict(k)
  BY <1>1, <1>2
     DEF Evict, Accounted, TypeOK, ReadsAccounted, AloneOK, HeldOK, Busy
<1>3. CASE Lose(k)
  <2> USE <1>3 DEF Lose, May
  <2>1. ReadsAccounted'
    BY DEF TypeOK, ReadsAccounted
  <2>2. AloneOK'
    BY <1>1 DEF TypeOK, AloneOK, Busy
  <2>3. HeldOK'
    BY <1>1 DEF TypeOK, HeldOK, Busy
  <2> QED
    BY <2>1, <2>2, <2>3 DEF Accounted
<1> QED
  BY <1>2, <1>3

-----------------------------------------------------------------------------
(* The calls *)

Flying == FlightsOK /\ OutcomeShared /\ FlightHasLeader

\* A step that leaves the calls as they are: of a goroutine that neither leads
\* one nor begins to wait for one, or of a leader that goes on with what it owes.
LEMMA FlightsStay ==
  ASSUME IInv, NEW p \in Procs, NEW s, NEW k, NEW c, NEW v,
         Goto(p, s, k, c, v), UNCHANGED <<shared, owed, panicked>>,
         \/ ~Leads(p) /\ s \notin Leading \cup {"done", "wait"}
         \/ /\ pc[p] \in Leading /\ s \in Leading
            /\ k = arg[p].key /\ c = arg[p].call
            /\ s \in Owing => v = owed[c] /\ v \in Outcomes
  PROVE  Flying'
<1> USE DEF IInv, Goto, shared, Leads, Leading, Owing
<1>1. FlightsOK'
  BY DEF TypeOK, FlightsOK
<1>2. OutcomeShared'
  BY DEF TypeOK, OutcomeShared
<1>3. FlightHasLeader'
  <2> SUFFICES ASSUME NEW j \in Keys \ panicked, flights[j] # None
               PROVE  \E q \in Procs : /\ pc'[q] \in Leading
                                       /\ arg'[q].key = j
                                       /\ arg'[q].call = flights[j]
    BY DEF FlightHasLeader
  <2>1. PICK q \in Procs : /\ pc[q] \in Leading
                           /\ arg[q].key = j /\ arg[q].call = flights[j]
    BY DEF FlightHasLeader
  <2> QED
    BY <2>1 DEF TypeOK
<1> QED
  BY <1>1, <1>2, <1>3 DEF Flying

\* A leader that learns what its call comes to: nobody has seen its outcome yet.
LEMMA LeaderOwes ==
  ASSUME IInv, NEW p \in Procs, NEW s \in Leading, NEW v \in Outcomes,
         pc[p] \in Leading, Step(p, s, v), Owe(p, v),
         UNCHANGED <<shared, panicked>>
  PROVE  Flying'
<1> USE DEF IInv, Goto, Step, Owe, shared, Leads, Leading, Owing
<1>0. /\ arg[p].key \in Keys /\ arg[p].call \in Calls
      /\ flights[arg[p].key] = arg[p].call /\ flights[arg[p].key] # None
      /\ calls[arg[p].call].wg = 1
  BY TieredConstants DEF HeldOK, FlightsOK
<1>1. FlightsOK'
  BY <1>0 DEF TypeOK, FlightsOK
<1>2. OutcomeShared'
  BY <1>0 DEF TypeOK, OutcomeShared, FlightsOK
<1>3. FlightHasLeader'
  <2> SUFFICES ASSUME NEW j \in Keys \ panicked, flights[j] # None
               PROVE  \E q \in Procs : /\ pc'[q] \in Leading
                                       /\ arg'[q].key = j
                                       /\ arg'[q].call = flights[j]
    BY DEF FlightHasLeader
  <2>1. PICK q \in Procs : /\ pc[q] \in Leading
                           /\ arg[q].key = j /\ arg[q].call = flights[j]
    BY DEF FlightHasLeader
  <2> QED
    BY <2>1 DEF TypeOK
<1> QED
  BY <1>1, <1>2, <1>3 DEF Flying

\* A leader that writes the outcome and leaves: its key and its call are its own.
LEMMA LeaderLeaves ==
  ASSUME IInv, NEW p \in Procs, NEW v \in Outcomes,
         pc[p] \in Leading, Leave(p, v), UNCHANGED panicked,
         owed' = [owed EXCEPT ![arg[p].call] = v]
  PROVE  Flying'
<1> USE DEF IInv, Goto, Step, Leave, Leads, Leading, Owing
<1>0. /\ arg[p].key \in Keys /\ arg[p].call \in Calls /\ arg[p].call # None
      /\ flights[arg[p].key] = arg[p].call
      /\ calls[arg[p].call].wg = 1
      /\ \A j \in Keys \ {arg[p].key} : flights[j] # arg[p].call
  BY TieredConstants DEF HeldOK, FlightsOK
<1>1. /\ calls'[arg[p].call].out = v /\ calls'[arg[p].call].wg = 1
      /\ \A c \in Calls \ {arg[p].call} : calls'[c] = calls[c]
  BY <1>0 DEF TypeOK, FlightCall
<1>2. /\ flights'[arg[p].key] = None
      /\ \A j \in Keys \ {arg[p].key} : flights'[j] = flights[j]
  BY <1>0 DEF TypeOK
<1>3. /\ pc'[p] = "done" /\ arg'[p].call = arg[p].call
      /\ \A q \in Procs \ {p} : pc'[q] = pc[q] /\ arg'[q] = arg[q]
      /\ owed'[arg[p].call] = v
      /\ \A c \in Calls \ {arg[p].call} : owed'[c] = owed[c]
  BY <1>0 DEF TypeOK
<1>4. FlightsOK'
  <2>1. ASSUME NEW q \in Procs
        PROVE  /\ (Leads(q) \/ pc[q] = "wait" => arg[q].call \in Calls)'
               /\ \A r \in Procs \ {q} :
                    (Leads(q) /\ Leads(r) => arg[q].call # arg[r].call)'
    BY <1>0, <1>1, <1>2, <1>3 DEF FlightsOK
  <2>2. ASSUME NEW q \in Procs, pc'[q] \in Leading
        PROVE  flights'[arg'[q].key] = arg'[q].call
    BY <1>0, <1>1, <1>2, <1>3, <2>2 DEF FlightsOK, HeldOK
  <2>3. ASSUME NEW q \in Procs, pc'[q] \in Owing
        PROVE  owed'[arg'[q].call] = arg'[q].val /\ arg'[q].val \in Outcomes
    BY <1>0, <1>1, <1>2, <1>3, <2>3 DEF FlightsOK
  <2>4. ASSUME NEW q \in Procs, pc'[q] = "done"
        PROVE  /\ \A k \in Keys : flights'[k] # arg'[q].call
               /\ calls'[arg'[q].call].out = owed'[arg'[q].call]
               /\ owed'[arg'[q].call] \in Outcomes
    BY TieredConstants, <1>0, <1>1, <1>2, <1>3, <2>4 DEF FlightsOK
  <2>5. ASSUME NEW k \in Keys, flights'[k] # None
        PROVE  /\ calls'[flights'[k]].wg = 1
               /\ \A j \in Keys \ {k} : flights'[j] # flights'[k]
    BY <1>0, <1>1, <1>2, <1>3, <2>5 DEF TypeOK, FlightsOK
  <2> QED
    BY <2>1, <2>2, <2>3, <2>4, <2>5 DEF FlightsOK
<1>5. OutcomeShared'
  BY <1>0, <1>1, <1>3 DEF TypeOK, OutcomeShared, FlightsOK
<1>6. FlightHasLeader'
  <2> SUFFICES ASSUME NEW j \in Keys \ panicked, flights'[j] # None
               PROVE  \E q \in Procs : /\ pc'[q] \in Leading
                                       /\ arg'[q].key = j
                                       /\ arg'[q].call = flights'[j]
    BY DEF FlightHasLeader
  <2>1. PICK q \in Procs : /\ pc[q] \in Leading
                           /\ arg[q].key = j /\ arg[q].call = flights[j]
    BY <1>2 DEF FlightHasLeader
  <2> QED
    BY <1>2, <1>3, <2>1
<1> QED
  BY <1>4, <1>5, <1>6 DEF Flying

\* A call is registered: nobody holds it and no key has it.
LEMMA LeaderBegins ==
  ASSUME IInv, NEW p \in Procs, Lead(p)
  PROVE  Flying'
<1> USE DEF IInv, Goto, Leads, Leading, Owing, NewCall
<1>0. PICK c \in Allocated :
        /\ flights' = [flights EXCEPT ![arg[p].key] = c]
        /\ calls' = [calls EXCEPT ![c] = NewCall]
        /\ owed' = [owed EXCEPT ![c] = None]
        /\ Goto(p, "recheck", arg[p].key, c, None)
  BY DEF Lead
<1>1. /\ c \in Calls /\ c # None /\ arg[p].key \in Keys
      /\ pc[p] = "join" /\ UNCHANGED panicked
      /\ \A j \in Keys : flights[j] # c
      /\ \A q \in Procs : arg[q].call # c
  BY TieredConstants DEF Lead, Allocated, FreeCalls, HeldOK
<1>2. /\ calls'[c].wg = 1 /\ flights'[arg[p].key] = c
      /\ \A d \in Calls \ {c} : calls'[d] = calls[d] /\ owed'[d] = owed[d]
      /\ \A j \in Keys \ {arg[p].key} : flights'[j] = flights[j]
  BY <1>0, <1>1 DEF TypeOK
<1>3. /\ pc'[p] = "recheck" /\ arg'[p].call = c /\ arg'[p].key = arg[p].key
      /\ \A q \in Procs \ {p} : pc'[q] = pc[q] /\ arg'[q] = arg[q]
  BY <1>0 DEF TypeOK
<1>4. \A q \in Procs : pc[q] \in Leading => arg[q].key # arg[p].key
  BY TieredConstants, <1>1 DEF FlightsOK, Lead
<1>5. FlightsOK'
  <2>1. ASSUME NEW q \in Procs
        PROVE  /\ (Leads(q) \/ pc[q] = "wait" => arg[q].call \in Calls)'
               /\ \A r \in Procs \ {q} :
                    (Leads(q) /\ Leads(r) => arg[q].call # arg[r].call)'
    BY <1>1, <1>2, <1>3, <1>4 DEF FlightsOK
  <2>2. ASSUME NEW q \in Procs, pc'[q] \in Leading
        PROVE  flights'[arg'[q].key] = arg'[q].call
    BY <1>1, <1>2, <1>3, <1>4, <2>2 DEF FlightsOK, HeldOK
  <2>3. ASSUME NEW q \in Procs, pc'[q] \in Owing
        PROVE  owed'[arg'[q].call] = arg'[q].val /\ arg'[q].val \in Outcomes
    BY <1>1, <1>2, <1>3, <1>4, <2>3 DEF FlightsOK
  <2>4. ASSUME NEW q \in Procs, pc'[q] = "done"
        PROVE  /\ \A k \in Keys : flights'[k] # arg'[q].call
               /\ calls'[arg'[q].call].out = owed'[arg'[q].call]
               /\ owed'[arg'[q].call] \in Outcomes
    BY <1>1, <1>2, <1>3, <1>4, <2>4 DEF FlightsOK
  <2>5. ASSUME NEW k \in Keys, flights'[k] # None
        PROVE  /\ calls'[flights'[k]].wg = 1
               /\ \A j \in Keys \ {k} : flights'[j] # flights'[k]
    BY <1>1, <1>2, <1>3, <1>4, <2>5 DEF TypeOK, FlightsOK
  <2> QED
    BY <2>1, <2>2, <2>3, <2>4, <2>5 DEF FlightsOK
<1>6. OutcomeShared'
  BY <1>1, <1>2, <1>3 DEF TypeOK, OutcomeShared, FlightsOK
<1>7. FlightHasLeader'
  <2> SUFFICES ASSUME NEW j \in Keys \ panicked, flights'[j] # None,
                      j # arg[p].key
               PROVE  \E q \in Procs : /\ pc'[q] \in Leading
                                       /\ arg'[q].key = j
                                       /\ arg'[q].call = flights'[j]
    BY <1>1, <1>2, <1>3 DEF FlightHasLeader
  <2>1. PICK q \in Procs : /\ pc[q] \in Leading
                           /\ arg[q].key = j /\ arg[q].call = flights[j]
    BY <1>2 DEF FlightHasLeader
  <2> QED
    BY <1>2, <1>3, <2>1
<1> QED
  BY <1>5, <1>6, <1>7 DEF Flying

\* A Fetch joins a call that is registered, so not yet done.
LEMMA WaiterJoins ==
  ASSUME IInv, NEW p \in Procs, Join(p)
  PROVE  Flying'
<1> USE DEF IInv, Goto, Join, shared, histVars, Leads, Leading, Owing
<1>0. /\ arg[p].key \in Keys /\ flights[arg[p].key] \in Calls
      /\ calls[flights[arg[p].key]].wg = 1
  BY DEF TypeOK, HeldOK, FlightsOK
<1>1. FlightsOK'
  BY <1>0 DEF TypeOK, FlightsOK
<1>2. OutcomeShared'
  BY <1>0 DEF TypeOK, OutcomeShared
<1>3. FlightHasLeader'
  BY DEF TypeOK, FlightHasLeader
<1> QED
  BY <1>1, <1>2, <1>3 DEF Flying

\* The leader releases those who wait: its call has the outcome it owes.
LEMMA LeaderReleases ==
  ASSUME IInv, NEW p \in Procs, Done(p)
  PROVE  Flying'
<1> USE DEF IInv, Goto, Return, Done, histVars, Leads, Leading, Owing
<1>0. /\ arg[p].call \in Calls
      /\ \A k \in Keys : flights[k] # arg[p].call
      /\ calls[arg[p].call].out = owed[arg[p].call]
      /\ owed[arg[p].call] \in Outcomes
  BY DEF FlightsOK
<1>1. /\ \A c \in Calls : calls'[c].out = calls[c].out
      /\ \A c \in Calls \ {arg[p].call} : calls'[c].wg = calls[c].wg
  BY DEF TypeOK, FlightCall
<1>2. FlightsOK'
  BY <1>0, <1>1 DEF TypeOK, FlightsOK
<1>3. OutcomeShared'
  <2>1. \A q \in Procs : pc'[q] = "wait" =>
          pc[q] = "wait" /\ arg'[q] = arg[q] /\ arg[q].call \in Calls
    BY DEF TypeOK, FlightsOK
  <2> QED
    BY <1>0, <1>1, <2>1 DEF OutcomeShared
<1>4. FlightHasLeader'
  BY DEF TypeOK, FlightHasLeader
<1> QED
  BY <1>2, <1>3, <1>4 DEF Flying

\* A loader that panics leaves its call behind, and nothing else.
LEMMA LeaderPanics ==
  ASSUME IInv, NEW p \in Procs, LoaderPanics(p)
  PROVE  Flying'
<1> USE DEF IInv, Goto, Return, LoaderPanics, shared, Leads, Leading, Owing
<1>1. FlightsOK'
  BY DEF TypeOK, FlightsOK
<1>2. OutcomeShared'
  BY DEF TypeOK, OutcomeShared
<1>3. FlightHasLeader'
  BY DEF TypeOK, FlightHasLeader
<1> QED
  BY <1>1, <1>2, <1>3 DEF Flying

LEMMA CallFlies ==
  ASSUME IInv, NEW p \in Procs, Call(p)
  PROVE  Flying'
<1>1. ~Leads(p) /\ UNCHANGED <<shared, owed, panicked>>
  BY DEF Call, GetMiss, FetchMiss, Delete, Set, Flush, Leads, Leading
<1>2. PICK s \in {"load", "fetch", "persist", "erase", "wipe"},
           k \in Keys \cup {None}, v \in Values \cup {None} :
        Goto(p, s, k, None, v)
  BY DEF Call, GetMiss, FetchMiss, Delete, Set, Flush
<1> QED
  BY <1>1, <1>2, FlightsStay DEF Leading

LEMMA RunFlies ==
  ASSUME IInv, NEW p \in Procs, Run(p)
  PROVE  Flying'
<1> USE DEF shared, histVars
<1>1. CASE \/ LoadHit(p) \/ Refill(p) \/ LoadMiss(p) \/ Persist(p)
           \/ PersistFails(p) \/ Erase(p) \/ EraseFails(p) \/ Released(p)
           \/ \E K \in SUBSET Keys : Wipe(p, K)
  <2>1. ~Leads(p) /\ UNCHANGED <<shared, owed, panicked>>
    BY <1>1 DEF LoadHit, Refill, LoadMiss, Persist, PersistFails, Erase,
                EraseFails, Released, Wipe, Leads, Leading
  <2>2. CASE Return(p)
    BY <2>1, <2>2, FlightsStay DEF Return, Leading
  <2>3. CASE \E s \in {"refill", "join"}, v \in Values \cup {None} : Step(p, s, v)
    BY <2>1, <2>3, FlightsStay DEF Step, Leading
  <2>4. CASE LoadHit(p)
    BY <2>1, <2>4, FlightsStay DEF LoadHit, Step, Leading
  <2> QED
    BY <1>1, <2>2, <2>3, <2>4
       DEF Refill, LoadMiss, Persist, PersistFails, Erase, EraseFails,
           Released, Wipe
<1>2. CASE RecheckMiss(p) \/ ReloadMiss(p)
  BY <1>2, FlightsStay DEF RecheckMiss, ReloadMiss, Step, Leading, Owing
<1>3. CASE ReRefill(p) \/ Keep(p) \/ KeepStore(p) \/ KeepStoreFails(p)
  <2>1. /\ pc[p] \in Owing
        /\ owed[arg[p].call] = arg[p].val /\ arg[p].val \in Outcomes
    BY <1>3 DEF ReRefill, Keep, KeepStore, KeepStoreFails, Owing, IInv,
                FlightsOK
  <2>2. PICK s \in {"publish", "keepStore"} : Step(p, s, arg[p].val)
    BY <1>3 DEF ReRefill, Keep, KeepStore, KeepStoreFails
  <2>3. UNCHANGED <<shared, owed, panicked>>
    BY <1>3 DEF ReRefill, Keep, KeepStore, KeepStoreFails
  <2> QED
    BY <2>1, <2>2, <2>3, FlightsStay DEF Step, Leading, Owing
<1>4. CASE ReloadHit(p)
  <2>1. store[arg[p].key] \in Outcomes
    BY <1>4 DEF ReloadHit, IInv, TypeOK, HeldOK, Outcomes
  <2> QED
    BY <1>4, <2>1, LeaderOwes DEF ReloadHit, Leading
<1>5. CASE ReloadFails(p) \/ LoaderFails(p)
  BY <1>5, LeaderOwes DEF ReloadFails, LoaderFails, Leading, Outcomes
<1>6. ASSUME NEW v \in Values, LoaderOk(p, v)
      PROVE  Flying'
  BY <1>6, LeaderOwes DEF LoaderOk, Leading, Outcomes
<1>7. CASE RecheckHit(p)
  <2>1. memory[arg[p].key] \in Outcomes
    BY <1>7 DEF RecheckHit, IInv, TypeOK, HeldOK, Outcomes
  <2> QED
    BY <1>7, <2>1, LeaderLeaves DEF RecheckHit, Owe, Leading
<1>8. CASE Publish(p)
  <2>1. owed[arg[p].call] = arg[p].val /\ arg[p].val \in Outcomes
    BY <1>8 DEF Publish, IInv, FlightsOK, Owing
  <2>2. owed' = [owed EXCEPT ![arg[p].call] = arg[p].val]
    BY <1>8, <2>1 DEF Publish, IInv, TypeOK
  <2> QED
    BY <1>8, <2>1, <2>2, LeaderLeaves DEF Publish, Leading
<1> QED
  BY <1>1, <1>2, <1>3, <1>4, <1>5, <1>6, <1>7, <1>8, LeaderBegins,
     WaiterJoins, LeaderReleases, LeaderPanics DEF Run

-----------------------------------------------------------------------------
(* The loader *)

Loaded == KeptOK /\ NoRepeatedLoad

LEMMA CallLoads ==
  ASSUME IInv, NEW p \in Procs, Call(p)
  PROVE  Loaded'
<1>1. store' = store /\ kept' = kept
  BY DEF Call, GetMiss, FetchMiss, Delete, Set, Flush, tiers
<1>2. PICK s \in {"load", "fetch", "persist", "erase", "wipe"},
           k \in Keys \cup {None}, v \in Values \cup {None} :
        Goto(p, s, k, None, v)
  BY DEF Call, GetMiss, FetchMiss, Delete, Set, Flush
<1> QED
  BY <1>1, <1>2 DEF IInv, TypeOK, Goto, Loaded, KeptOK, NoRepeatedLoad

\* Only one leader of a key runs a loader or keeps what one returned, and it
\* runs one when the store has nothing of the key.
LEMMA RunLoads ==
  ASSUME IInv, NEW p \in Procs, Run(p)
  PROVE  Loaded'
<1> USE TieredConstants
        DEF IInv, TypeOK, tiers, shared, histVars, Step, Return, Goto, Put,
            Loaded, KeptOK, NoRepeatedLoad
<1>1. CASE Persist(p) \/ PersistFails(p)
  <2>1. arg[p].key \in Keys /\ arg[p].val \in Values
    BY <1>1 DEF Persist, PersistFails, HeldOK
  <2>2. KeptOK'
    BY <1>1, <2>1 DEF Persist, PersistFails
  <2>3. NoRepeatedLoad'
    BY <1>1 DEF Persist, PersistFails
  <2> QED
    BY <2>2, <2>3
<1>2. CASE Erase(p) \/ EraseFails(p)
  BY <1>2 DEF Erase, EraseFails
<1>3. ASSUME NEW K \in SUBSET Keys, Wipe(p, K)
      PROVE  Loaded'
  BY <1>3 DEF Wipe
<1>4. CASE KeepStore(p)
  <2>1. arg[p].key \in Keys /\ arg[p].val \in Values
    BY <1>4 DEF KeepStore, HeldOK
  <2>2. KeptOK'
    BY <1>4, <2>1 DEF KeepStore
  <2>3. \A q \in Procs : pc[q] = "loading" => arg[q].key # arg[p].key
    BY <1>4 DEF KeepStore, FlightsOK, Leads, Leading
  <2>4. NoRepeatedLoad'
    BY <1>4, <2>3 DEF KeepStore
  <2> QED
    BY <2>2, <2>4
<1>5. CASE KeepStoreFails(p)
  <2>1. arg[p].key \in Keys /\ arg[p].val \in Values
    BY <1>5 DEF KeepStoreFails, HeldOK
  <2>2. KeptOK'
    BY <1>5, <2>1 DEF KeepStoreFails
  <2>3. NoRepeatedLoad'
    BY <1>5 DEF KeepStoreFails
  <2> QED
    BY <2>2, <2>3
<1>6. CASE ReloadMiss(p)
  BY <1>6 DEF ReloadMiss
<1>7. CASE LoadHit(p) \/ LoadMiss(p) \/ Join(p) \/ Released(p)
           \/ RecheckMiss(p) \/ Publish(p) \/ Done(p)
  BY <1>7 DEF LoadHit, LoadMiss, Join, Released, RecheckMiss, Publish, Done,
              Leave
<1>8. CASE Refill(p) \/ RecheckHit(p) \/ ReloadHit(p) \/ ReRefill(p)
           \/ ReloadFails(p) \/ LoaderFails(p) \/ LoaderPanics(p) \/ Keep(p)
           \/ \E v \in Values : LoaderOk(p, v)
  BY <1>8 DEF Refill, RecheckHit, ReloadHit, ReRefill, ReloadFails,
              LoaderFails, LoaderPanics, Keep, LoaderOk, Leave
<1>9. CASE Lead(p)
  BY <1>9 DEF Lead
<1> QED
  BY <1>1, <1>2, <1>3, <1>4, <1>5, <1>6, <1>7, <1>8, <1>9 DEF Run

LEMMA LossFliesAndLoads ==
  ASSUME IInv, NEW k \in Keys, Evict(k) \/ Lose(k)
  PROVE  Flying' /\ Loaded'
<1> USE DEF IInv, Evict, Lose, shared, procVars, histVars
<1>1. Flying'
  BY DEF Flying, FlightsOK, OutcomeShared, FlightHasLeader, Leads
<1>2. Loaded'
  BY DEF TypeOK, Put, Loaded, KeptOK, NoRepeatedLoad
<1> QED
  BY <1>1, <1>2

-----------------------------------------------------------------------------

LEMMA NextKeeps ==
  ASSUME IInv, [Next]_vars
  PROVE  IInv'
<1> USE DEF Accounted, Flying, Loaded
<1>1. ASSUME NEW p \in Procs, Call(p)
      PROVE  IInv'
  <2>1. TypeOK' /\ Accounted'
    BY <1>1, CallTyped, Begins DEF IInv
  <2>2. Flying' /\ Loaded'
    BY <1>1, CallFlies, CallLoads
  <2> QED
    BY <2>1, <2>2 DEF IInv
<1>2. ASSUME NEW p \in Procs, Run(p)
      PROVE  IInv'
  <2>1. TypeOK'
    BY <1>2, RunTyped DEF IInv
  <2>2. Accounted'
    BY <1>2, <2>1, LooksKeep, WritesKeep, LeaderWritesKeep DEF Run
  <2>3. Flying' /\ Loaded'
    BY <1>2, RunFlies, RunLoads
  <2> QED
    BY <2>1, <2>2, <2>3 DEF IInv
<1>3. ASSUME NEW k \in Keys, Evict(k) \/ Lose(k)
      PROVE  IInv'
  <2>1. TypeOK' /\ Accounted'
    BY <1>3, LossTyped, LossKeeps DEF IInv
  <2>2. Flying' /\ Loaded'
    BY <1>3, LossFliesAndLoads
  <2> QED
    BY <2>1, <2>2 DEF IInv
<1>4. CASE UNCHANGED vars
  BY <1>4 DEF vars, tiers, shared, procVars, histVars, IInv, TypeOK,
              ReadsAccounted, AloneOK, HeldOK, Busy, FlightsOK, OutcomeShared,
              FlightHasLeader, Leads, KeptOK, NoRepeatedLoad
<1> QED
  BY <1>1, <1>2, <1>3, <1>4 DEF Next

\* Whatever the goroutines, the store and the loader do, what goroutines hold
\* of a key is accounted for, and one that has a key to itself finds the tiers
\* as it left them.
THEOREM Accounts == Spec => []IInv
BY Initial, NextKeeps, PTL DEF Spec

\* When a Set, Delete or Flush has had a key to itself and its store call has
\* succeeded, no Get, SetAsync or Fetch from before brings an older value back
\* (persistent.go:67, 85, 111, 152), for any number of them.
THEOREM NothingComesBack == Spec => []ReadsAccounted
<1>1. IInv => ReadsAccounted
  BY DEF IInv
<1> QED
  BY <1>1, Accounts, PTL

\* A Fetch that waits and is released returns what the leader of its call
\* returns to its own caller: the value of memory, of the store or of the
\* loader, or the error (persistent.go:160-228), whoever else works on the key.
THEOREM OutcomesShared == Spec => []OutcomeShared
<1>1. IInv => OutcomeShared
  BY DEF IInv
<1> QED
  BY <1>1, Accounts, PTL

\* A call that can be joined has a leader that will complete it, unless a loader
\* of its key has panicked: no error of the store leaves a call behind.
THEOREM FlightsLed == Spec => []FlightHasLeader
<1>1. IInv => FlightHasLeader
  BY DEF IInv
<1> QED
  BY <1>1, Accounts, PTL

\* A loader does not run for a key whose loaded value is in the store, whatever
\* memory evicts meanwhile: the second Store.Get (persistent.go:190) sees it.
THEOREM LoadsNotRepeated == Spec => []NoRepeatedLoad
<1>1. IInv => NoRepeatedLoad
  BY DEF IInv
<1> QED
  BY <1>1, Accounts, PTL
=============================================================================
