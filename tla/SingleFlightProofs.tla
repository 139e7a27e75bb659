------------------------- MODULE SingleFlightProofs -------------------------
(***************************************************************************)
(* Fetch deduplication for every set of keys, values and goroutines: one   *)
(* loader per key, no load of a key that is still cached, and waiters that *)
(* get the outcome of their leader.                                        *)
(***************************************************************************)
EXTENDS SingleFlight, TLAPS

\* No calls and no goroutines inside getSet.
LEMMA Initial == Init => IInv
BY SingleFlightConstants
   DEF Init, IInv, TypeOK, CallsOK, OutcomeOK, StoredOK, NoRepeatedLoad,
       FlightHasLeader, NoArg, NewCall, Outcomes, Leading, Owners, Leads

\* A goroutine that has no call yet disturbs nobody.
LEMMA FetchMissKeeps ==
  ASSUME IInv, NEW p \in Procs, NEW k \in Keys, FetchMiss(p, k)
  PROVE  IInv'
<1> USE SingleFlightConstants
      DEF IInv, FetchMiss, histVars, Goto,
          Outcomes, Leading, Owners, Leads
<1>1. TypeOK'
  BY DEF TypeOK, CallsOK, OutcomeOK
<1>2. CallsOK'
  BY DEF TypeOK, CallsOK, Allocated, FreeCalls
<1>3. OutcomeOK'
  BY DEF TypeOK, CallsOK, OutcomeOK, Allocated, FreeCalls
<1>4. StoredOK'
  BY DEF TypeOK, CallsOK, StoredOK, OutcomeOK
<1>5. NoRepeatedLoad'
  BY DEF TypeOK, CallsOK, StoredOK, NoRepeatedLoad
<1>6. FlightHasLeader'
  BY DEF TypeOK, CallsOK, FlightHasLeader
<1> QED
  BY <1>1, <1>2, <1>3, <1>4, <1>5, <1>6

\* The new call is one nobody refers to, and its key had none: ownership stays
\* unique.
LEMMA LeadKeeps ==
  ASSUME IInv, NEW p \in Procs, Lead(p)
  PROVE  IInv'
<1> USE SingleFlightConstants
      DEF IInv, Lead, Goto, NewCall,
          Outcomes, Leading, Owners, Leads
<1>1. TypeOK'
  BY DEF TypeOK, CallsOK, OutcomeOK, Allocated, FreeCalls
<1>2. CallsOK'
  BY DEF TypeOK, CallsOK, Allocated, FreeCalls
<1>3. OutcomeOK'
  BY DEF TypeOK, CallsOK, OutcomeOK, Allocated, FreeCalls
<1>4. StoredOK'
  BY DEF TypeOK, CallsOK, StoredOK, OutcomeOK
<1>5. NoRepeatedLoad'
  BY DEF TypeOK, CallsOK, StoredOK, NoRepeatedLoad
<1>6. FlightHasLeader'
  BY DEF TypeOK, CallsOK, FlightHasLeader
<1> QED
  BY <1>1, <1>2, <1>3, <1>4, <1>5, <1>6

\* A waiter takes the call registered under its key.
LEMMA JoinKeeps ==
  ASSUME IInv, NEW p \in Procs, Join(p)
  PROVE  IInv'
<1> USE SingleFlightConstants
      DEF IInv, Join, histVars, Goto,
          Outcomes, Leading, Owners, Leads
<1>1. TypeOK'
  BY DEF TypeOK, CallsOK, OutcomeOK
<1>2. CallsOK'
  BY DEF TypeOK, CallsOK, Allocated, FreeCalls
<1>3. OutcomeOK'
  BY DEF TypeOK, CallsOK, OutcomeOK, Allocated, FreeCalls
<1>4. StoredOK'
  BY DEF TypeOK, CallsOK, StoredOK, OutcomeOK
<1>5. NoRepeatedLoad'
  BY DEF TypeOK, CallsOK, StoredOK, NoRepeatedLoad
<1>6. FlightHasLeader'
  BY DEF TypeOK, CallsOK, FlightHasLeader
<1> QED
  BY <1>1, <1>2, <1>3, <1>4, <1>5, <1>6

\* A waiter gives up its reference.
LEMMA ReleasedKeeps ==
  ASSUME IInv, NEW p \in Procs, Released(p)
  PROVE  IInv'
<1> USE SingleFlightConstants
      DEF IInv, Released, histVars, Return, Goto,
          Outcomes, Leading, Owners, Leads
<1>1. TypeOK'
  BY DEF TypeOK, CallsOK, OutcomeOK
<1>2. CallsOK'
  BY DEF TypeOK, CallsOK, Allocated, FreeCalls
<1>3. OutcomeOK'
  BY DEF TypeOK, CallsOK, OutcomeOK, Allocated, FreeCalls
<1>4. StoredOK'
  BY DEF TypeOK, CallsOK, StoredOK, OutcomeOK
<1>5. NoRepeatedLoad'
  BY DEF TypeOK, CallsOK, StoredOK, NoRepeatedLoad
<1>6. FlightHasLeader'
  BY DEF TypeOK, CallsOK, FlightHasLeader
<1> QED
  BY <1>1, <1>2, <1>3, <1>4, <1>5, <1>6

\* The leader's call gets the value and leaves its key with nobody registered.
LEMMA RecheckHitKeeps ==
  ASSUME IInv, NEW p \in Procs, RecheckHit(p)
  PROVE  IInv'
<1> USE SingleFlightConstants
      DEF IInv, RecheckHit, Leave, Step, Goto,
          Outcomes, Leading, Owners, Leads
<1>1. TypeOK'
  BY DEF TypeOK, CallsOK, OutcomeOK
<1>2. CallsOK'
  BY DEF TypeOK, CallsOK, Allocated, FreeCalls
<1>3. OutcomeOK'
  BY DEF TypeOK, CallsOK, OutcomeOK, Allocated, FreeCalls
<1>4. StoredOK'
  BY DEF TypeOK, CallsOK, StoredOK, OutcomeOK
<1>5. NoRepeatedLoad'
  BY DEF TypeOK, CallsOK, StoredOK, NoRepeatedLoad
<1>6. FlightHasLeader'
  BY DEF TypeOK, CallsOK, FlightHasLeader
<1> QED
  BY <1>1, <1>2, <1>3, <1>4, <1>5, <1>6

\* The key is not in memory, so no loaded value of it is cached either.
LEMMA RecheckMissKeeps ==
  ASSUME IInv, NEW p \in Procs, RecheckMiss(p)
  PROVE  IInv'
<1> USE SingleFlightConstants
      DEF IInv, RecheckMiss, histVars, Step, Goto,
          Outcomes, Leading, Owners, Leads
<1>1. TypeOK'
  BY DEF TypeOK, CallsOK, OutcomeOK
<1>2. CallsOK'
  BY DEF TypeOK, CallsOK, Allocated, FreeCalls
<1>3. OutcomeOK'
  BY DEF TypeOK, CallsOK, OutcomeOK, Allocated, FreeCalls
<1>4. StoredOK'
  BY DEF TypeOK, CallsOK, StoredOK, OutcomeOK
<1>5. NoRepeatedLoad'
  BY DEF TypeOK, CallsOK, StoredOK, NoRepeatedLoad
<1>6. FlightHasLeader'
  BY DEF TypeOK, CallsOK, FlightHasLeader
<1> QED
  BY <1>1, <1>2, <1>3, <1>4, <1>5, <1>6

\* Only the leader's own outcome changes; waiters look at it after wg.Done.
LEMMA LoadOkKeeps ==
  ASSUME IInv, NEW p \in Procs, NEW v \in Values, LoadOk(p, v)
  PROVE  IInv'
<1> USE SingleFlightConstants
      DEF IInv, LoadOk, Step, Goto,
          Outcomes, Leading, Owners, Leads
<1>1. TypeOK'
  BY DEF TypeOK, CallsOK, OutcomeOK
<1>2. CallsOK'
  BY DEF TypeOK, CallsOK, Allocated, FreeCalls
<1>3. OutcomeOK'
  BY DEF TypeOK, CallsOK, OutcomeOK, Allocated, FreeCalls
<1>4. StoredOK'
  BY DEF TypeOK, CallsOK, StoredOK, OutcomeOK
<1>5. NoRepeatedLoad'
  BY DEF TypeOK, CallsOK, StoredOK, NoRepeatedLoad
<1>6. FlightHasLeader'
  BY DEF TypeOK, CallsOK, FlightHasLeader
<1> QED
  BY <1>1, <1>2, <1>3, <1>4, <1>5, <1>6

\* Only the leader's own outcome changes; waiters look at it after wg.Done.
LEMMA LoadErrorKeeps ==
  ASSUME IInv, NEW p \in Procs, LoadError(p)
  PROVE  IInv'
<1> USE SingleFlightConstants
      DEF IInv, LoadError, Step, Goto,
          Outcomes, Leading, Owners, Leads
<1>1. TypeOK'
  BY DEF TypeOK, CallsOK, OutcomeOK
<1>2. CallsOK'
  BY DEF TypeOK, CallsOK, Allocated, FreeCalls
<1>3. OutcomeOK'
  BY DEF TypeOK, CallsOK, OutcomeOK, Allocated, FreeCalls
<1>4. StoredOK'
  BY DEF TypeOK, CallsOK, StoredOK, OutcomeOK
<1>5. NoRepeatedLoad'
  BY DEF TypeOK, CallsOK, StoredOK, NoRepeatedLoad
<1>6. FlightHasLeader'
  BY DEF TypeOK, CallsOK, FlightHasLeader
<1> QED
  BY <1>1, <1>2, <1>3, <1>4, <1>5, <1>6

\* The call stays registered without a leader, which the panic excuses.
LEMMA LoadPanicKeeps ==
  ASSUME IInv, NEW p \in Procs, LoadPanic(p)
  PROVE  IInv'
<1> USE SingleFlightConstants
      DEF IInv, LoadPanic, Return, Goto,
          Outcomes, Leading, Owners, Leads
<1>1. TypeOK'
  BY DEF TypeOK, CallsOK, OutcomeOK
<1>2. CallsOK'
  BY DEF TypeOK, CallsOK, Allocated, FreeCalls
<1>3. OutcomeOK'
  BY DEF TypeOK, CallsOK, OutcomeOK, Allocated, FreeCalls
<1>4. StoredOK'
  BY DEF TypeOK, CallsOK, StoredOK, OutcomeOK
<1>5. NoRepeatedLoad'
  BY DEF TypeOK, CallsOK, StoredOK, NoRepeatedLoad
<1>6. FlightHasLeader'
  BY DEF TypeOK, CallsOK, FlightHasLeader
<1> QED
  BY <1>1, <1>2, <1>3, <1>4, <1>5, <1>6

\* The key becomes cached; no other goroutine is loading it, for it would lead
\* the same call.
LEMMA StoreKeeps ==
  ASSUME IInv, NEW p \in Procs, Store(p)
  PROVE  IInv'
<1> USE SingleFlightConstants
      DEF IInv, Store, Step, Goto,
          Outcomes, Leading, Owners, Leads
<1>1. TypeOK'
  BY DEF TypeOK, CallsOK, OutcomeOK
<1>2. CallsOK'
  BY DEF TypeOK, CallsOK, Allocated, FreeCalls
<1>3. OutcomeOK'
  BY DEF TypeOK, CallsOK, OutcomeOK, Allocated, FreeCalls
<1>4. StoredOK'
  BY DEF TypeOK, CallsOK, StoredOK, OutcomeOK
<1>5. NoRepeatedLoad'
  BY DEF TypeOK, CallsOK, StoredOK, NoRepeatedLoad
<1>6. FlightHasLeader'
  BY DEF TypeOK, CallsOK, FlightHasLeader
<1> QED
  BY <1>1, <1>2, <1>3, <1>4, <1>5, <1>6

\* The outcome is in the call before the call is gone from its key.
LEMMA PublishKeeps ==
  ASSUME IInv, NEW p \in Procs, Publish(p)
  PROVE  IInv'
<1> USE SingleFlightConstants
      DEF IInv, Publish, histVars, Leave, Step, Goto,
          Outcomes, Leading, Owners, Leads
<1>1. TypeOK'
  BY DEF TypeOK, CallsOK, OutcomeOK
<1>2. CallsOK'
  BY DEF TypeOK, CallsOK, Allocated, FreeCalls
<1>3. OutcomeOK'
  BY DEF TypeOK, CallsOK, OutcomeOK, Allocated, FreeCalls
<1>4. StoredOK'
  BY DEF TypeOK, CallsOK, StoredOK, OutcomeOK
<1>5. NoRepeatedLoad'
  BY DEF TypeOK, CallsOK, StoredOK, NoRepeatedLoad
<1>6. FlightHasLeader'
  BY DEF TypeOK, CallsOK, FlightHasLeader
<1> QED
  BY <1>1, <1>2, <1>3, <1>4, <1>5, <1>6

\* The call is complete, and its outcome is the one owed.
LEMMA DoneKeeps ==
  ASSUME IInv, NEW p \in Procs, Done(p)
  PROVE  IInv'
<1> USE SingleFlightConstants
      DEF IInv, Done, histVars, Return, Goto,
          Outcomes, Leading, Owners, Leads
<1>1. TypeOK'
  BY DEF TypeOK, CallsOK, OutcomeOK
<1>2. CallsOK'
  BY DEF TypeOK, CallsOK, Allocated, FreeCalls
<1>3. OutcomeOK'
  BY DEF TypeOK, CallsOK, OutcomeOK, Allocated, FreeCalls
<1>4. StoredOK'
  BY DEF TypeOK, CallsOK, StoredOK, OutcomeOK
<1>5. NoRepeatedLoad'
  BY DEF TypeOK, CallsOK, StoredOK, NoRepeatedLoad
<1>6. FlightHasLeader'
  BY DEF TypeOK, CallsOK, FlightHasLeader
<1> QED
  BY <1>1, <1>2, <1>3, <1>4, <1>5, <1>6

\* Other callers of the cache reach neither calls nor goroutines.
LEMMA SetKeeps ==
  ASSUME IInv, NEW k \in Keys, NEW v \in Values, Set(k, v)
  PROVE  IInv'
BY SingleFlightConstants
   DEF IInv, TypeOK, CallsOK, OutcomeOK, StoredOK, NoRepeatedLoad, FlightHasLeader,
       Set, procVars, histVars, Leading, Owners, Leads, Outcomes

\* A key that is lost is no longer a loaded one.
LEMMA LoseKeeps ==
  ASSUME IInv, NEW k \in Keys, Lose(k)
  PROVE  IInv'
BY SingleFlightConstants
   DEF IInv, TypeOK, CallsOK, OutcomeOK, StoredOK, NoRepeatedLoad, FlightHasLeader,
       Lose, procVars, Leading, Owners, Leads, Outcomes

\* A stuttering step changes none of it.
LEMMA StutterKeeps == IInv /\ UNCHANGED vars => IInv'
BY DEF IInv, TypeOK, CallsOK, OutcomeOK, StoredOK, NoRepeatedLoad, FlightHasLeader,
       vars, procVars, histVars, Leading, Owners, Leads, Outcomes

\* IInv - types, the ownership of calls and the way of an outcome into its
\* call - is an invariant of getSet (memory.go:93-130).
THEOREM Inductive == Spec => []IInv
<1>1. IInv /\ [Next]_vars => IInv'
  <2> SUFFICES ASSUME IInv, Next PROVE IInv'
    BY StutterKeeps
  <2>1. ASSUME NEW p \in Procs, Run(p) PROVE IInv'
    BY <2>1, LeadKeeps, JoinKeeps, ReleasedKeeps, RecheckHitKeeps, RecheckMissKeeps,
       LoadOkKeeps, LoadErrorKeeps, LoadPanicKeeps, StoreKeeps, PublishKeeps, DoneKeeps
       DEF Run
  <2> QED
    BY <2>1, FetchMissKeeps, SetKeeps, LoseKeeps DEF Next
<1> QED
  BY Initial, <1>1, PTL DEF Spec

\* Two goroutines never run a loader for one key (memory.go:87): both calls
\* would be the one registered under that key, and a call has one leader.
THEOREM OneLoaderPerKey == Spec => []OneLoader
<1>1. IInv => OneLoader
  BY DEF IInv, CallsOK, OneLoader, Leads, Leading, Owners
<1> QED
  BY Inductive, <1>1, PTL

\* A waiter that is let go returns what the leader of its call returns.
THEOREM WaitersShareOutcome == Spec => []OutcomeShared
<1>1. IInv => OutcomeShared
  BY DEF IInv, CallsOK, OutcomeOK, OutcomeShared, Owners, Leading
<1> QED
  BY Inductive, <1>1, PTL

\* No loader runs for a key whose loaded value is still in the cache.
THEOREM LoadsNotRepeated == Spec => []NoRepeatedLoad
<1>1. IInv => NoRepeatedLoad
  BY DEF IInv
<1> QED
  BY Inductive, <1>1, PTL

\* A registered call has a goroutine that will complete it, unless a loader
\* of its key has panicked.
THEOREM FlightsAreLed == Spec => []FlightHasLeader
<1>1. IInv => FlightHasLeader
  BY DEF IInv
<1> QED
  BY Inductive, <1>1, PTL
=============================================================================
