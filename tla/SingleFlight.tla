---------------------------- MODULE SingleFlight ----------------------------
(***************************************************************************)
(* Fetch of memory.go: getSet runs the loader of a key once for all the    *)
(* goroutines that ask for the key while it runs.  The first to register a *)
(* flightCall leads; the others wait for its WaitGroup.                    *)
(*                                                                         *)
(* The cache below is a map that other callers write and that may lose a   *)
(* key at any time, by Delete, Flush, eviction or expiry.                  *)
(***************************************************************************)
EXTENDS Naturals

CONSTANTS
  Keys,
  Values,   \* what loaders and Set put in the cache
  Procs,    \* the goroutines calling Fetch
  Calls,    \* the flightCall structs on the heap, by identity
  None,     \* no value; nil; and the zero value of call.val with a nil error
  Error     \* the outcome of a loader that fails

ASSUME SingleFlightConstants ==
  /\ None \notin Values \cup Calls \cup Keys
  /\ Error \notin Values \cup {None}

VARIABLES
  memory,   \* c.memory: the value of each key
  flights,  \* c.flights
  calls,    \* the outcome and the WaitGroup of every flightCall
  pc,       \* where each goroutine is in getSet
  arg,      \* its key, its call, and the outcome it is going to return
  owed,     \* history: what the leader of each call returns to its caller
  stored,   \* history: keys a loader computed that nothing has removed since
  panicked  \* history: keys whose loader has panicked

procVars == <<pc, arg>>
histVars == <<owed, stored, panicked>>
vars == <<memory, flights, calls, procVars, histVars>>

Outcomes == Values \cup {Error}

\* A leader from the registration of its call to its removal.
Leading == {"recheck", "loading", "store", "publish"}

\* A new flightCall: wg.Add(1), and neither value nor error.
NewCall == [out |-> None, wg |-> 1]

NoArg == [key |-> None, call |-> None, out |-> None]

TypeOK ==
  /\ memory \in [Keys -> Values \cup {None}]
  /\ flights \in [Keys -> Calls \cup {None}]
  /\ calls \in [Calls -> [out : Outcomes \cup {None}, wg : 0..1]]
  /\ pc \in [Procs -> Leading \cup {"idle", "join", "wait", "done"}]
  /\ arg \in [Procs -> [key : Keys \cup {None}, call : Calls \cup {None},
                        out : Outcomes \cup {None}]]
  /\ owed \in [Calls -> Outcomes \cup {None}]
  /\ stored \subseteq Keys
  /\ panicked \subseteq Keys

Init ==
  /\ memory = [k \in Keys |-> None]
  /\ flights = [k \in Keys |-> None]
  /\ calls = [c \in Calls |-> NewCall]
  /\ pc = [p \in Procs |-> "idle"]
  /\ arg = [p \in Procs |-> NoArg]
  /\ owed = [c \in Calls |-> None]
  /\ stored = {}
  /\ panicked = {}

-----------------------------------------------------------------------------

Goto(p, s, k, c, out) ==
  /\ pc' = [pc EXCEPT ![p] = s]
  /\ arg' = [arg EXCEPT ![p] = [key |-> k, call |-> c, out |-> out]]

Step(p, s, out) == Goto(p, s, arg[p].key, arg[p].call, out)
Return(p)       == Goto(p, "idle", None, None, None)

\* The call of p has got its outcome and leaves c.flights.
Leave(p, out) ==
  /\ calls' = [calls EXCEPT ![arg[p].call].out = out]
  /\ flights' = [flights EXCEPT ![arg[p].key] = None]
  /\ Step(p, "done", out)

\* The flightCall structs nothing refers to; &flightCall{} is any one of them.
FreeCalls ==
  {c \in Calls : /\ \A k \in Keys : flights[k] # c
                 /\ \A p \in Procs : arg[p].call # c}

Allocated == {c \in FreeCalls : c = CHOOSE x \in FreeCalls : TRUE}

\* getSet misses; a hit returns at once and changes nothing here.
FetchMiss(p, k) ==
  /\ pc[p] = "idle" /\ memory[k] = None
  /\ Goto(p, "join", k, None, None)
  /\ UNCHANGED <<memory, flights, calls, histVars>>

\* Plausible bug: Load and then Store instead of LoadOrCompute.
LeadUnchecked(p) ==
  /\ pc[p] = "join"
  /\ \E c \in Allocated :
       /\ flights' = [flights EXCEPT ![arg[p].key] = c]
       /\ calls' = [calls EXCEPT ![c] = NewCall]
       /\ owed' = [owed EXCEPT ![c] = None]
       /\ Goto(p, "recheck", arg[p].key, c, None)
  /\ UNCHANGED <<memory, stored, panicked>>

\* LoadOrCompute registers a new call.
Lead(p) ==
  /\ pc[p] = "join" /\ flights[arg[p].key] = None
  /\ \E c \in Allocated :
       /\ flights' = [flights EXCEPT ![arg[p].key] = c]
       /\ calls' = [calls EXCEPT ![c] = NewCall]
       /\ owed' = [owed EXCEPT ![c] = None]
       /\ Goto(p, "recheck", arg[p].key, c, None)
  /\ UNCHANGED <<memory, stored, panicked>>

\* LoadOrCompute finds the call of another goroutine.
Join(p) ==
  /\ pc[p] = "join" /\ flights[arg[p].key] # None
  /\ Goto(p, "wait", arg[p].key, flights[arg[p].key], None)
  /\ UNCHANGED <<memory, flights, calls, histVars>>

\* call.wg.Wait returns, and with it getSet, with the outcome in the call.
Released(p) ==
  /\ pc[p] = "wait" /\ calls[arg[p].call].wg = 0
  /\ Return(p)
  /\ UNCHANGED <<memory, flights, calls, histVars>>

\* Plausible bugs: a hit of the second get is not passed on to the waiters,
\* leaves its call behind, or is not looked for.
RecheckHitUnshared(p) ==
  LET k == arg[p].key IN
  /\ pc[p] = "recheck" /\ memory[k] # None
  /\ owed' = [owed EXCEPT ![arg[p].call] = memory[k]]
  /\ flights' = [flights EXCEPT ![k] = None]
  /\ Step(p, "done", memory[k])
  /\ UNCHANGED <<memory, calls, stored, panicked>>

RecheckHitRegistered(p) ==
  LET k == arg[p].key IN
  /\ pc[p] = "recheck" /\ memory[k] # None
  /\ owed' = [owed EXCEPT ![arg[p].call] = memory[k]]
  /\ calls' = [calls EXCEPT ![arg[p].call].out = memory[k]]
  /\ Step(p, "done", memory[k])
  /\ UNCHANGED <<memory, flights, stored, panicked>>

RecheckNever(p) ==
  /\ pc[p] = "recheck"
  /\ Step(p, "loading", None)
  /\ UNCHANGED <<memory, flights, calls, histVars>>

\* The second get of the leader: somebody stored the key in between.
RecheckHit(p) ==
  LET k == arg[p].key IN
  /\ pc[p] = "recheck" /\ memory[k] # None
  /\ owed' = [owed EXCEPT ![arg[p].call] = memory[k]]
  /\ Leave(p, memory[k])
  /\ UNCHANGED <<memory, stored, panicked>>

RecheckMiss(p) ==
  /\ pc[p] = "recheck" /\ memory[arg[p].key] = None
  /\ Step(p, "loading", None)
  /\ UNCHANGED <<memory, flights, calls, histVars>>

LoadOk(p, v) ==
  /\ pc[p] = "loading"
  /\ owed' = [owed EXCEPT ![arg[p].call] = v]
  /\ Step(p, "store", v)
  /\ UNCHANGED <<memory, flights, calls, stored, panicked>>

\* Plausible bug: an error returns early.
LoadErrorReturns(p) ==
  /\ pc[p] = "loading"
  /\ owed' = [owed EXCEPT ![arg[p].call] = Error]
  /\ Return(p)
  /\ UNCHANGED <<memory, flights, calls, stored, panicked>>

LoadError(p) ==
  /\ pc[p] = "loading"
  /\ owed' = [owed EXCEPT ![arg[p].call] = Error]
  /\ Step(p, "publish", Error)
  /\ UNCHANGED <<memory, flights, calls, stored, panicked>>

\* A panic of the loader unwinds getSet, which defers nothing; the caller may
\* recover and go on.  The call stays registered and is never done.
LoadPanic(p) ==
  /\ pc[p] = "loading"
  /\ panicked' = panicked \cup {arg[p].key}
  /\ Return(p)
  /\ UNCHANGED <<memory, flights, calls, owed, stored>>

Store(p) ==
  /\ pc[p] = "store"
  /\ memory' = [memory EXCEPT ![arg[p].key] = arg[p].out]
  /\ stored' = stored \cup {arg[p].key}
  /\ Step(p, "publish", arg[p].out)
  /\ UNCHANGED <<flights, calls, owed, panicked>>

Publish(p) ==
  /\ pc[p] = "publish"
  /\ Leave(p, arg[p].out)
  /\ UNCHANGED <<memory, histVars>>

\* wg.Done, and the leader returns.
Done(p) ==
  /\ pc[p] = "done"
  /\ calls' = [calls EXCEPT ![arg[p].call].wg = 0]
  /\ Return(p)
  /\ UNCHANGED <<memory, flights, histVars>>

\* Other callers of the cache.
Set(k, v) ==
  /\ memory' = [memory EXCEPT ![k] = v]
  /\ UNCHANGED <<flights, calls, procVars, histVars>>

Lose(k) ==
  /\ memory' = [memory EXCEPT ![k] = None]
  /\ stored' = stored \ {k}
  /\ UNCHANGED <<flights, calls, procVars, owed, panicked>>

Run(p) ==
  \/ Lead(p) \/ Join(p) \/ Released(p) \/ RecheckHit(p) \/ RecheckMiss(p)
  \/ LoadError(p) \/ LoadPanic(p) \/ Store(p) \/ Publish(p) \/ Done(p)
  \/ \E v \in Values : LoadOk(p, v)

Next ==
  \/ \E p \in Procs : Run(p) \/ \E k \in Keys : FetchMiss(p, k)
  \/ \E k \in Keys : Lose(k) \/ \E v \in Values : Set(k, v)

Spec == Init /\ [][Next]_vars

\* A goroutine inside getSet is scheduled, and loaders return or panic.
FairSpec == Spec /\ \A p \in Procs : WF_vars(Run(p))

-----------------------------------------------------------------------------
(* Properties *)

Leads(p) == pc[p] \in Leading

\* "Concurrent calls for the same key share one loader invocation"
\* (memory.go:87): no two goroutines run a loader for one key.
OneLoader ==
  \A p, q \in Procs :
    pc[p] = "loading" /\ pc[q] = "loading" /\ arg[p].key = arg[q].key => p = q

\* A loader does not run for a key whose loaded value is still cached: the
\* second get of getSet closes the gap between a miss and the registration.
NoRepeatedLoad == \A p \in Procs : pc[p] = "loading" => arg[p].key \notin stored

\* What a released waiter returns is what the leader of its call returns: the
\* outcome is in the call before wg.Done, whichever way the leader got it.
OutcomeShared ==
  \A p \in Procs : pc[p] = "wait" /\ calls[arg[p].call].wg = 0 =>
    calls[arg[p].call].out = owed[arg[p].call] /\ owed[arg[p].call] \in Outcomes

\* Nobody can join a call that nobody will complete, unless a loader for the
\* key has panicked.
FlightHasLeader ==
  \A k \in Keys \ panicked : flights[k] # None =>
    \E p \in Procs : Leads(p) /\ arg[p].key = k /\ arg[p].call = flights[k]

\* Whoever waits is released, if no loader of the key ever panics.
WaitersReleased ==
  \A p \in Procs : pc[p] = "wait" ~> pc[p] # "wait" \/ arg[p].key \in panicked

(* What makes these inductive *)

Owners == Leading \cup {"done"}

\* A leader's call is registered under its key, and no call has two leaders
\* or two keys.
CallsOK ==
  /\ \A p \in Procs : pc[p] # "idle" => arg[p].key \in Keys
  /\ \A p \in Procs : pc[p] \in Owners \cup {"wait"} => arg[p].call \in Calls
  /\ \A p \in Procs : Leads(p) => flights[arg[p].key] = arg[p].call
  /\ \A p, q \in Procs : p # q /\ pc[p] \in Owners /\ pc[q] \in Owners =>
       arg[p].call # arg[q].call
  /\ \A k, l \in Keys : flights[k] # None /\ flights[k] = flights[l] => k = l
  /\ \A p \in Procs : pc[p] = "done" => \A k \in Keys : flights[k] # arg[p].call

\* The outcome travels from the leader to its call, and done comes last.
OutcomeOK ==
  /\ \A p \in Procs :
       /\ pc[p] \in {"store", "publish", "done"} =>
            owed[arg[p].call] = arg[p].out /\ arg[p].out \in Outcomes
       /\ pc[p] = "store" => arg[p].out \in Values
       /\ pc[p] = "done" => calls[arg[p].call].out = arg[p].out
       /\ Leads(p) => calls[arg[p].call].wg = 1
  /\ \A c \in Calls : calls[c].wg = 0 => calls[c].out = owed[c] /\ owed[c] \in Outcomes

StoredOK == \A k \in stored : memory[k] # None

IInv ==
  /\ TypeOK /\ CallsOK /\ OutcomeOK /\ StoredOK
  /\ NoRepeatedLoad /\ FlightHasLeader

(* What the documentation promises and the code does not keep *)

\* memory.go:86: "Fetch returns cached value or calls loader to compute it."
\* A Fetch that waits returns in the end.
FetchReturns == \A p \in Procs : pc[p] = "wait" ~> pc[p] # "wait"
=============================================================================
