------------------------------- MODULE Tiered -------------------------------
(***************************************************************************)
(* TieredCache of persistent.go: every operation works on memory and on    *)
(* the store one after the other, and nothing orders two operations on a   *)
(* key between the two tiers.                                              *)
(*                                                                         *)
(* A goroutine here is a caller's, or one that SetAsync starts to write    *)
(* the store; the latter looks like a Set whose caller does not wait.  The *)
(* store is a map that may lose keys (LossyMap), whose calls may fail.     *)
(* Keys are valid: ValidateKey refuses the others before anything changes. *)
(***************************************************************************)
EXTENDS Naturals

CONSTANTS
  Keys, Values,
  Procs,    \* goroutines
  Calls,    \* the flightCall structs on the heap, by identity
  None,     \* no value; nil; and the zero value of call.val with a nil error
  Error     \* the outcome of a Fetch that fails

ASSUME TieredConstants ==
  /\ None \notin Values \cup Calls \cup Keys
  /\ Error \notin Values \cup {None}

VARIABLES
  memory,   \* c.memory: the value of each key
  store,    \* c.Store: the value of each key
  flights,  \* c.flights
  calls,    \* the outcome and the WaitGroup of every flightCall
  pc, arg,  \* where each goroutine is; its key, its call, what it holds
  may,      \* history: what a tier may hold of each key
  alone,    \* history: the keys each operation has had to itself so far
  owed,     \* history: what the leader of each call returns to its caller
  kept,     \* history: keys whose loaded value is in the store
  panicked  \* history: keys whose loader has panicked

tiers    == <<memory, store>>
shared   == <<flights, calls>>
procVars == <<pc, arg>>
histVars == <<may, alone, owed, kept, panicked>>
vars     == <<tiers, shared, procVars, histVars>>

Outcomes == Values \cup {Error}

\* A leader from the registration of its call to its removal.
Leading == {"recheck", "reload", "reRefill", "loading", "keep", "keepStore",
            "publish"}

States == Leading \cup
  {"idle", "load", "refill", "persist", "erase", "wipe", "fetch", "join",
   "wait", "done"}

Arguments == [key : Keys \cup {None}, call : Calls \cup {None},
              val : Outcomes \cup {None}]

FlightCall == [out : Outcomes \cup {None}, wg : 0..1]
NewCall == [out |-> None, wg |-> 1]
NoArg   == [key |-> None, call |-> None, val |-> None]

TypeOK ==
  /\ memory \in [Keys -> Values \cup {None}]
  /\ store \in [Keys -> Values \cup {None}]
  /\ flights \in [Keys -> Calls \cup {None}]
  /\ calls \in [Calls -> FlightCall]
  /\ pc \in [Procs -> States]
  /\ arg \in [Procs -> Arguments]
  /\ may \in [Keys -> SUBSET (Values \cup {None})]
  /\ alone \in [Procs -> SUBSET Keys]
  /\ owed \in [Calls -> Outcomes \cup {None}]
  /\ kept \subseteq Keys /\ panicked \subseteq Keys

Init ==
  /\ memory = [k \in Keys |-> None]
  /\ store \in [Keys -> Values \cup {None}]  \* what an earlier process left
  /\ flights = [k \in Keys |-> None]
  /\ calls = [c \in Calls |-> NewCall]
  /\ pc = [p \in Procs |-> "idle"]
  /\ arg = [p \in Procs |-> NoArg]
  /\ may = [k \in Keys |-> {store[k]}]
  /\ alone = [p \in Procs |-> {}]
  /\ owed = [c \in Calls |-> None]
  /\ kept = {} /\ panicked = {}

-----------------------------------------------------------------------------

Goto(p, s, k, c, v) ==
  /\ pc' = [pc EXCEPT ![p] = s]
  /\ arg' = [arg EXCEPT ![p] = [key |-> k, call |-> c, val |-> v]]

Step(p, s, v) == Goto(p, s, arg[p].key, arg[p].call, v)
Return(p)     == Goto(p, "idle", None, None, None)

\* The keys an operation works on; Flush works on all.
Busy(p) == IF pc[p] = "idle" THEN {}
           ELSE IF pc[p] = "wipe" THEN Keys ELSE {arg[p].key}

\* History: p begins to work on the keys in K.
Begin(p, K) ==
  alone' = [q \in Procs |->
              IF q = p THEN K \ UNION {Busy(r) : r \in Procs \ {p}}
              ELSE alone[q] \ K]

\* History: a tier may hold v of the keys in K from now on.
May(K, v) == may' = [k \in Keys |-> IF k \in K THEN may[k] \cup {v} ELSE may[k]]

\* History: p has brought both tiers to v where nobody else was at work.
Settle(p, K, v) ==
  may' = [k \in Keys |-> IF k \in alone[p] \cap K THEN {v} ELSE may[k]]

Put(tier, k, v) == [tier EXCEPT ![k] = v]

-----------------------------------------------------------------------------
(* Get, Set, SetAsync, Delete, Flush.  A Get that hits memory returns at   *)
(* once.                                                                   *)

GetMiss(p, k) ==
  /\ pc[p] = "idle" /\ memory[k] = None
  /\ Goto(p, "load", k, None, None)
  /\ Begin(p, {k})
  /\ UNCHANGED <<tiers, shared, may, owed, kept, panicked>>

\* Store.Get, of Get and of Fetch, finds a value,
LoadHit(p) ==
  /\ pc[p] \in {"load", "fetch"} /\ store[arg[p].key] # None
  /\ Step(p, "refill", store[arg[p].key])
  /\ UNCHANGED <<tiers, shared, histVars>>

\* which then goes into memory,
Refill(p) ==
  LET k == arg[p].key IN
  /\ pc[p] = "refill"
  /\ memory' = Put(memory, k, arg[p].val)
  /\ Settle(p, {k}, arg[p].val)
  /\ Return(p)
  /\ UNCHANGED <<store, shared, alone, owed, kept, panicked>>

\* or finds nothing, or fails.
LoadMiss(p) ==
  /\ pc[p] \in {"load", "fetch"}
  /\ \/ pc[p] = "load" /\ store[arg[p].key] = None /\ Return(p)
     \/ pc[p] = "fetch" /\ store[arg[p].key] = None /\ Step(p, "join", None)
     \/ Return(p)
  /\ UNCHANGED <<tiers, shared, histVars>>

\* SetTTL, and SetAsyncTTL with p the goroutine it starts.
Set(p, k, v) ==
  /\ pc[p] = "idle"
  /\ memory' = Put(memory, k, v)
  /\ Goto(p, "persist", k, None, v)
  /\ Begin(p, {k}) /\ May({k}, v)
  /\ UNCHANGED <<store, shared, owed, kept, panicked>>

Persist(p) ==
  LET k == arg[p].key IN
  /\ pc[p] = "persist"
  /\ store' = Put(store, k, arg[p].val)
  /\ Settle(p, {k}, arg[p].val)
  /\ Return(p)
  /\ UNCHANGED <<memory, shared, alone, owed, kept, panicked>>

\* An error, or the timeout of SetAsync: the store may have the value or not.
\* The caller learns of it, or the log does; memory keeps the value.
PersistFails(p) ==
  LET k == arg[p].key IN
  /\ pc[p] = "persist"
  /\ store' \in {store, Put(store, k, arg[p].val)}
  /\ Return(p)
  /\ UNCHANGED <<memory, shared, histVars>>

Delete(p, k) ==
  /\ pc[p] = "idle"
  /\ memory' = Put(memory, k, None)
  /\ Goto(p, "erase", k, None, None)
  /\ Begin(p, {k}) /\ May({k}, None)
  /\ UNCHANGED <<store, shared, owed, kept, panicked>>

Erase(p) ==
  LET k == arg[p].key IN
  /\ pc[p] = "erase"
  /\ store' = Put(store, k, None)
  /\ Settle(p, {k}, None)
  /\ kept' = kept \ {k}
  /\ Return(p)
  /\ UNCHANGED <<memory, shared, alone, owed, panicked>>

\* Plausible bug: Delete ignores the error of the store.
EraseUnseen(p) ==
  LET k == arg[p].key IN
  /\ pc[p] = "erase"
  /\ store' \in {store, Put(store, k, None)}
  /\ Settle(p, {k}, None)
  /\ kept' = kept \ {k}
  /\ Return(p)
  /\ UNCHANGED <<memory, shared, alone, owed, panicked>>

EraseFails(p) ==
  LET k == arg[p].key IN
  /\ pc[p] = "erase"
  /\ store' \in {store, Put(store, k, None)}
  /\ kept' = kept \ {k}
  /\ Return(p)
  /\ UNCHANGED <<memory, shared, may, alone, owed, panicked>>

Flush(p) ==
  /\ pc[p] = "idle"
  /\ memory' = [k \in Keys |-> None]
  /\ Goto(p, "wipe", None, None, None)
  /\ Begin(p, Keys) /\ May(Keys, None)
  /\ UNCHANGED <<store, shared, owed, kept, panicked>>

\* Store.Flush has removed the keys in K when it returns or fails.
Wipe(p, K) ==
  /\ pc[p] = "wipe"
  /\ store' = [k \in Keys |-> IF k \in K THEN None ELSE store[k]]
  /\ IF K = Keys THEN Settle(p, Keys, None) ELSE UNCHANGED may
  /\ kept' = kept \ K
  /\ Return(p)
  /\ UNCHANGED <<memory, shared, alone, owed, panicked>>

-----------------------------------------------------------------------------
(* Fetch: getSet looks into memory and store, registers a call, and looks  *)
(* into both again before it runs the loader.                              *)

FreeCalls ==
  {c \in Calls : /\ \A k \in Keys : flights[k] # c
                 /\ \A p \in Procs : arg[p].call # c}

Allocated == {c \in FreeCalls : c = CHOOSE x \in FreeCalls : TRUE}

\* The call of p has got its outcome and leaves c.flights.
Leave(p, out) ==
  /\ calls' = [calls EXCEPT ![arg[p].call].out = out]
  /\ flights' = [flights EXCEPT ![arg[p].key] = None]
  /\ Step(p, "done", out)

\* What p, a leader, will return.
Owe(p, out) == owed' = [owed EXCEPT ![arg[p].call] = out]

FetchMiss(p, k) ==
  /\ pc[p] = "idle" /\ memory[k] = None
  /\ Goto(p, "fetch", k, None, None)
  /\ Begin(p, {k})
  /\ UNCHANGED <<tiers, shared, may, owed, kept, panicked>>

Lead(p) ==
  /\ pc[p] = "join" /\ flights[arg[p].key] = None
  /\ \E c \in Allocated :
       /\ flights' = [flights EXCEPT ![arg[p].key] = c]
       /\ calls' = [calls EXCEPT ![c] = NewCall]
       /\ owed' = [owed EXCEPT ![c] = None]
       /\ Goto(p, "recheck", arg[p].key, c, None)
  /\ UNCHANGED <<tiers, may, alone, kept, panicked>>

Join(p) ==
  /\ pc[p] = "join" /\ flights[arg[p].key] # None
  /\ Goto(p, "wait", arg[p].key, flights[arg[p].key], None)
  /\ UNCHANGED <<tiers, shared, histVars>>

Released(p) ==
  /\ pc[p] = "wait" /\ calls[arg[p].call].wg = 0
  /\ Return(p)
  /\ UNCHANGED <<tiers, shared, histVars>>

RecheckHit(p) ==
  /\ pc[p] = "recheck" /\ memory[arg[p].key] # None
  /\ Owe(p, memory[arg[p].key])
  /\ Leave(p, memory[arg[p].key])
  /\ UNCHANGED <<tiers, may, alone, kept, panicked>>

\* Plausible bug: only memory is looked at again.
RecheckMemoryOnly(p) ==
  /\ pc[p] = "recheck" /\ memory[arg[p].key] = None
  /\ Step(p, "loading", None)
  /\ UNCHANGED <<tiers, shared, histVars>>

RecheckMiss(p) ==
  /\ pc[p] = "recheck" /\ memory[arg[p].key] = None
  /\ Step(p, "reload", None)
  /\ UNCHANGED <<tiers, shared, histVars>>

ReloadHit(p) ==
  /\ pc[p] = "reload" /\ store[arg[p].key] # None
  /\ Owe(p, store[arg[p].key])
  /\ Step(p, "reRefill", store[arg[p].key])
  /\ UNCHANGED <<tiers, shared, may, alone, kept, panicked>>

ReRefill(p) ==
  /\ pc[p] = "reRefill"
  /\ memory' = Put(memory, arg[p].key, arg[p].val)
  /\ Step(p, "publish", arg[p].val)
  /\ UNCHANGED <<store, shared, histVars>>

ReloadMiss(p) ==
  /\ pc[p] = "reload" /\ store[arg[p].key] = None
  /\ Step(p, "loading", None)
  /\ UNCHANGED <<tiers, shared, histVars>>

\* Plausible bug: the error returns early, as the first one may.
ReloadFailsEarly(p) ==
  /\ pc[p] = "reload"
  /\ Owe(p, Error)
  /\ Return(p)
  /\ UNCHANGED <<tiers, shared, may, alone, kept, panicked>>

ReloadFails(p) ==
  /\ pc[p] = "reload"
  /\ Owe(p, Error)
  /\ Step(p, "publish", Error)
  /\ UNCHANGED <<tiers, shared, may, alone, kept, panicked>>

LoaderOk(p, v) ==
  /\ pc[p] = "loading"
  /\ Owe(p, v)
  /\ Step(p, "keep", v)
  /\ UNCHANGED <<tiers, shared, may, alone, kept, panicked>>

LoaderFails(p) ==
  /\ pc[p] = "loading"
  /\ Owe(p, Error)
  /\ Step(p, "publish", Error)
  /\ UNCHANGED <<tiers, shared, may, alone, kept, panicked>>

\* The call stays registered and is never done.
LoaderPanics(p) ==
  /\ pc[p] = "loading"
  /\ panicked' = panicked \cup {arg[p].key}
  /\ Return(p)
  /\ UNCHANGED <<tiers, shared, may, alone, owed, kept>>

Keep(p) ==
  LET k == arg[p].key IN
  /\ pc[p] = "keep"
  /\ memory' = Put(memory, k, arg[p].val)
  /\ May({k}, arg[p].val)
  /\ Step(p, "keepStore", arg[p].val)
  /\ UNCHANGED <<store, shared, alone, owed, kept, panicked>>

\* Plausible bug: a store that fails makes Fetch fail, but not its waiters.
KeepStoreReturns(p) ==
  /\ pc[p] = "keepStore"
  /\ Owe(p, Error)
  /\ Step(p, "publish", arg[p].val)
  /\ UNCHANGED <<tiers, shared, may, alone, kept, panicked>>

KeepStore(p) ==
  LET k == arg[p].key IN
  /\ pc[p] = "keepStore"
  /\ store' = Put(store, k, arg[p].val)
  /\ Settle(p, {k}, arg[p].val)
  /\ kept' = kept \cup {k}
  /\ Step(p, "publish", arg[p].val)
  /\ UNCHANGED <<memory, shared, alone, owed, panicked>>

\* A failure is logged and changes nothing for Fetch.
KeepStoreFails(p) ==
  LET k == arg[p].key IN
  /\ pc[p] = "keepStore"
  /\ store' \in {store, Put(store, k, arg[p].val)}
  /\ Step(p, "publish", arg[p].val)
  /\ UNCHANGED <<memory, shared, histVars>>

Publish(p) ==
  /\ pc[p] = "publish"
  /\ Leave(p, arg[p].val)
  /\ UNCHANGED <<tiers, histVars>>

Done(p) ==
  /\ pc[p] = "done"
  /\ calls' = [calls EXCEPT ![arg[p].call].wg = 0]
  /\ Return(p)
  /\ UNCHANGED <<tiers, flights, histVars>>

-----------------------------------------------------------------------------

\* Memory evicts a key or lets it expire; the store lets it expire or loses it.
Evict(k) ==
  /\ memory' = Put(memory, k, None)
  /\ UNCHANGED <<store, shared, procVars, histVars>>

Lose(k) ==
  /\ store' = Put(store, k, None)
  /\ May({k}, None)
  /\ alone' = [p \in Procs |-> alone[p] \ {k}]
  /\ kept' = kept \ {k}
  /\ UNCHANGED <<memory, shared, procVars, owed, panicked>>

Call(p) ==
  \/ \E k \in Keys : \/ GetMiss(p, k) \/ Delete(p, k) \/ FetchMiss(p, k)
                     \/ \E v \in Values : Set(p, k, v)
  \/ Flush(p)

Run(p) ==
  \/ LoadHit(p) \/ Refill(p) \/ LoadMiss(p) \/ Persist(p) \/ PersistFails(p)
  \/ Erase(p) \/ EraseFails(p) \/ \E K \in SUBSET Keys : Wipe(p, K)
  \/ Lead(p) \/ Join(p) \/ Released(p) \/ RecheckHit(p) \/ RecheckMiss(p)
  \/ ReloadHit(p) \/ ReRefill(p) \/ ReloadMiss(p) \/ ReloadFails(p)
  \/ LoaderFails(p) \/ LoaderPanics(p) \/ \E v \in Values : LoaderOk(p, v)
  \/ Keep(p) \/ KeepStore(p) \/ KeepStoreFails(p) \/ Publish(p) \/ Done(p)

Next ==
  \/ \E p \in Procs : Call(p) \/ Run(p)
  \/ \E k \in Keys : Evict(k) \/ Lose(k)

Spec == Init /\ [][Next]_vars

-----------------------------------------------------------------------------
(* Properties *)

\* A value that has been replaced or deleted does not come back.  When a Set,
\* a Delete or a Flush had a key to itself and its store call succeeded, both
\* tiers hold what it left, or have lost it, until another operation on the key
\* begins: no refill, asynchronous write or Fetch from before surfaces later.
ReadsAccounted ==
  \A k \in Keys : /\ memory[k] \in may[k] \cup {None}
                  /\ store[k] \in may[k]

\* A loader does not run for a key whose loaded value is in the store: the
\* second Store.Get closes the gap between a miss and the registration, also
\* when memory has evicted the key already.
NoRepeatedLoad == \A p \in Procs : pc[p] = "loading" => arg[p].key \notin kept

\* A released waiter returns what the leader of its call returns, whichever of
\* the ways through memory, store and loader the leader went.
OutcomeShared ==
  \A p \in Procs : pc[p] = "wait" /\ calls[arg[p].call].wg = 0 =>
    calls[arg[p].call].out = owed[arg[p].call] /\ owed[arg[p].call] \in Outcomes

\* Nobody can join a call that nobody will complete, unless a loader of the key
\* has panicked: store errors in particular leave no call behind.
FlightHasLeader ==
  \A k \in Keys \ panicked : flights[k] # None =>
    \E p \in Procs : /\ pc[p] \in Leading
                     /\ arg[p].key = k /\ arg[p].call = flights[k]

(* What makes ReadsAccounted inductive *)

\* An operation that has a key to itself has nobody else at work on it, and
\* finds the tiers as it left them.
AloneOK ==
  \A p \in Procs : \A k \in alone[p] \cap Busy(p) :
    /\ \A q \in Procs \ {p} : k \notin Busy(q)
    /\ pc[p] \in {"load", "refill", "fetch", "erase", "wipe", "join", "recheck",
                  "reload", "loading", "keep"} => memory[k] = None
    /\ pc[p] \in {"persist", "keepStore"} => memory[k] \in {None, arg[p].val}
    /\ pc[p] = "refill" => store[k] = arg[p].val

\* What a goroutine holds is accounted for, and has its key.
HeldOK ==
  \A p \in Procs :
    /\ pc[p] \notin {"idle", "wipe"} => arg[p].key \in Keys
    /\ pc[p] \in {"refill", "reRefill", "persist", "keepStore"} =>
         arg[p].val \in may[arg[p].key] \cap Values
    /\ pc[p] = "keep" => arg[p].val \in Values
    /\ pc[p] \in {"erase", "wipe"} => \A k \in Busy(p) : None \in may[k]

(* What makes OutcomeShared, FlightHasLeader and NoRepeatedLoad inductive *)

\* The leader of a call, which has the outcome it owes; a call has one at most.
Owing == {"reRefill", "keep", "keepStore", "publish"}
Leads(p) == pc[p] \in Leading \cup {"done"}

FlightsOK ==
  /\ \A p \in Procs :
       /\ Leads(p) \/ pc[p] = "wait" => arg[p].call \in Calls
       /\ \A q \in Procs \ {p} :
            Leads(p) /\ Leads(q) => arg[p].call # arg[q].call
       /\ pc[p] \in Leading => flights[arg[p].key] = arg[p].call
       /\ pc[p] \in Owing =>
            owed[arg[p].call] = arg[p].val /\ arg[p].val \in Outcomes
       /\ pc[p] = "done" =>
            /\ \A k \in Keys : flights[k] # arg[p].call
            /\ calls[arg[p].call].out = owed[arg[p].call]
            /\ owed[arg[p].call] \in Outcomes
  /\ \A k \in Keys : flights[k] # None =>
       /\ calls[flights[k]].wg = 1
       /\ \A j \in Keys \ {k} : flights[j] # flights[k]

\* A loaded value is in the store until something takes it out.
KeptOK == \A k \in kept : store[k] # None

IInv ==
  /\ TypeOK /\ ReadsAccounted /\ AloneOK /\ HeldOK
  /\ FlightsOK /\ OutcomeShared /\ FlightHasLeader /\ KeptOK /\ NoRepeatedLoad
=============================================================================
