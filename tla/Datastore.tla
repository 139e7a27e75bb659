----------------------------- MODULE Datastore -----------------------------
(***************************************************************************)
(* The store of datastore.go: an entity per key in Cloud Datastore, looked *)
(* up, put and deleted by its name, while Cleanup and Flush query for keys *)
(* and delete them in a second request, and Keys and Range follow the      *)
(* iterator of a query.                                                    *)
(*                                                                         *)
(* External: a lookup, a put and a delete of a name take effect at once, a *)
(* put or a delete that fails may have taken effect, and an iterator reads *)
(* an entity when it gets to it.                                           *)
(***************************************************************************)
EXTENDS Naturals, Sequences

CONSTANTS
  Keys,
  Values,   \* an entity: value and expiry
  Timed,    \* the entities that expire at some time, some of Values
  Procs, None,
  Rest,     \* of each key: the bytes that follow the prefix of the scans
  Ext       \* the bytes of the compressor's extension

VARIABLES
  db,       \* the entity of each key
  expired,  \* the entities whose expiry has passed
  pc, arg,  \* where each goroutine is, and what it holds
  walk      \* the query it is on

vars == <<db, expired, pc, arg, walk>>

Walks  == {"cleanup", "flush", "len", "keys", "range"}
NoArg  == [op |-> "none", key |-> None, val |-> None]
NoWalk == [todo |-> {}, hits |-> {}, cutoff |-> {}, due |-> {}, touched |-> {},
           failed |-> {}, done |-> FALSE]

TypeOK ==
  /\ db \in [Keys -> Values \cup {None}]
  /\ expired \subseteq Timed
  /\ pc \in [Procs -> {"idle", "put", "read", "query", "delete", "next",
                       "return"}]
  /\ arg \in [Procs -> [op : {"none", "set", "get"} \cup Walks,
                        key : Keys \cup {None}, val : Values \cup {None}]]
  /\ walk \in [Procs -> [todo : SUBSET Keys, hits : SUBSET Keys,
                         cutoff : SUBSET Values, due : SUBSET Keys,
                         touched : SUBSET Keys, failed : SUBSET Keys,
                         done : BOOLEAN]]

Init ==
  /\ db = [k \in Keys |-> None]
  /\ expired = {}
  /\ pc = [p \in Procs |-> "idle"]
  /\ arg = [p \in Procs |-> NoArg]
  /\ walk = [p \in Procs |-> NoWalk]

-----------------------------------------------------------------------------

Goto(p, s) == pc' = [pc EXCEPT ![p] = s]
Hold(p, op, k, v) == arg' = [arg EXCEPT ![p] = [op |-> op, key |-> k, val |-> v]]

\* History: a walk of somebody else sees the entities of the keys in K change.
Touched(p, K) ==
  [q \in Procs |-> IF q # p /\ arg[q].op \in Walks
                   THEN [walk[q] EXCEPT !.touched = @ \cup K] ELSE walk[q]]

Return(p) ==
  /\ pc[p] = "return"
  /\ Goto(p, "idle")
  /\ arg' = [arg EXCEPT ![p] = NoArg]
  /\ walk' = [walk EXCEPT ![p] = NoWalk]
  /\ UNCHANGED <<db, expired>>

-----------------------------------------------------------------------------
(* Get, Set and Delete *)

Live(k) == db[k] \in Values \ expired

\* The lookup; the expiry is looked at when its answer is there.  A Get that
\* finds nothing, or an entity that has expired, changes nothing.
Get(p, k) ==
  /\ pc[p] = "idle" /\ Live(k)
  /\ Goto(p, "read")
  /\ Hold(p, "get", k, db[k])
  /\ UNCHANGED <<db, expired, walk>>

\* An entity that has expired by now is a miss, and stays.
GetCheck(p) ==
  /\ pc[p] = "read" /\ arg[p].op = "get"
  /\ Goto(p, "return")
  /\ Hold(p, "get", arg[p].key, IF arg[p].val \in expired THEN None ELSE arg[p].val)
  /\ UNCHANGED <<db, expired, walk>>

Set(p, k, v) ==
  /\ pc[p] = "idle"
  /\ Goto(p, "put")
  /\ Hold(p, "set", k, v)
  /\ UNCHANGED <<db, expired, walk>>

Put(p) ==
  /\ pc[p] = "put"
  /\ db' = [db EXCEPT ![arg[p].key] = arg[p].val]
  /\ Goto(p, "return")
  /\ walk' = Touched(p, {arg[p].key})
  /\ UNCHANGED <<expired, arg>>

PutFails(p) ==
  /\ pc[p] = "put"
  /\ Goto(p, "return")
  /\ UNCHANGED <<db, expired, arg, walk>>

Delete(p, k) ==
  /\ pc[p] = "idle"
  /\ db' = [db EXCEPT ![k] = None]
  /\ walk' = Touched(p, {k})
  /\ UNCHANGED <<expired, pc, arg>>

-----------------------------------------------------------------------------
(* The queries *)

\* Byte order of names.
Less(s, t) ==
  \E n \in 0..Len(s) :
    /\ n <= Len(t) /\ \A i \in 1..n : s[i] = t[i]
    /\ IF n = Len(s) THEN n < Len(t) ELSE n < Len(t) /\ s[n + 1] < t[n + 1]

\* Keys and Range ask for the names from prefix + ext to prefix + 0xff + ext,
\* and a name ends in ext.  With an extension those keys are left out whose
\* next byte comes before the extension's.
InRange(k) ==
  /\ ~Less(Rest[k] \o Ext, Ext)
  /\ Less(Rest[k] \o Ext, <<255>> \o Ext)

\* The keys that a walk nobody disturbs is about, all of which have the prefix;
\* old: what Cleanup asks for.
Due(op, old) ==
  {k \in Keys : db[k] # None /\
     CASE op = "cleanup" -> db[k] \in old
       [] op = "range"   -> Live(k)
       [] OTHER          -> TRUE}

\* What a walk that comes to its end without an error may leave out of it: the
\* keys not in the range and those whose entity Range could not decode, and all
\* when the query of Cleanup finds nothing.
LeftOut(p) ==
  CASE arg[p].op = "cleanup"           -> IF walk[p].hits = {} THEN Keys ELSE {}
    [] arg[p].op \in {"keys", "range"} -> {k \in Keys : ~InRange(k)} \cup walk[p].failed
    [] OTHER                           -> {}

StartWalk(p, op) ==
  /\ pc[p] = "idle"
  /\ Goto(p, IF op \in {"keys", "range"} THEN "next" ELSE "query")
  /\ Hold(p, op, None, None)
  /\ walk' = [walk EXCEPT ![p] =
                [NoWalk EXCEPT !.cutoff = expired, !.due = Due(op, expired),
                  !.todo = IF op \in {"keys", "range"}
                           THEN {k \in Keys : InRange(k)} ELSE {}]]
  /\ UNCHANGED <<db, expired>>

Count(p) ==
  /\ pc[p] = "query" /\ arg[p].op = "len"
  /\ Goto(p, "return")
  /\ walk' = [walk EXCEPT ![p].hits = {k \in Keys : db[k] # None}, ![p].done = TRUE]
  /\ UNCHANGED <<db, expired, arg>>

Matches(p, k) ==
  db[k] # None /\ (arg[p].op = "flush" \/ db[k] \in walk[p].cutoff)

\* Plausible bug: the first page of the keys is taken for all of them.
QueryPage(p) ==
  /\ pc[p] = "query" /\ arg[p].op \in {"cleanup", "flush"}
  /\ \E K \in {{k} : k \in {k \in Keys : Matches(p, k)}} \cup {{}} :
       /\ K = {} => \A k \in Keys : ~Matches(p, k)
       /\ walk' = [walk EXCEPT ![p].todo = K, ![p].done = TRUE]
       /\ Goto(p, IF K = {} THEN "return" ELSE "delete")
  /\ UNCHANGED <<db, expired, arg>>

\* Cleanup filters by the expiry, which is not indexed: without an index on it
\* the query finds nothing, and Cleanup returns no error.
Query(p) ==
  /\ pc[p] = "query" /\ arg[p].op \in {"cleanup", "flush"}
  /\ \E K \in {{k \in Keys : Matches(p, k)}, {}} :
       /\ arg[p].op = "flush" => K = {k \in Keys : Matches(p, k)}
       /\ walk' = [walk EXCEPT ![p].todo = K, ![p].done = TRUE]
       /\ Goto(p, IF K = {} THEN "return" ELSE "delete")
  /\ UNCHANGED <<db, expired, arg>>

\* The keys found are deleted, whatever they hold by now.
DeleteMulti(p) ==
  LET K == walk[p].todo IN
  /\ pc[p] = "delete"
  /\ db' = [k \in Keys |-> IF k \in K THEN None ELSE db[k]]
  /\ walk' = [Touched(p, K) EXCEPT ![p].todo = {}, ![p].hits = K]
  /\ Goto(p, "return")
  /\ UNCHANGED <<expired, arg>>

\* Some are, and no count is returned.
DeleteMultiFails(p) ==
  /\ pc[p] = "delete"
  /\ \E K \in SUBSET walk[p].todo :
       /\ db' = [k \in Keys |-> IF k \in K THEN None ELSE db[k]]
       /\ walk' = [Touched(p, K) EXCEPT ![p].done = FALSE]
  /\ Goto(p, "return")
  /\ UNCHANGED <<expired, arg>>

\* The visit of k is over; failed: k, when the entity cannot be decoded.
Visited(p, k, hits, failed) ==
  /\ Goto(p, "next")
  /\ Hold(p, arg[p].op, None, None)
  /\ walk' = [walk EXCEPT ![p].todo = @ \ {k}, ![p].hits = @ \cup hits,
                          ![p].failed = @ \cup failed]
  /\ UNCHANGED <<db, expired>>

NextKey(p, k) ==
  /\ pc[p] = "next" /\ arg[p].op = "keys" /\ k \in walk[p].todo
  /\ Visited(p, k, IF db[k] = None THEN {} ELSE {k}, {})

NextSkipped(p, k) ==
  /\ pc[p] = "next" /\ arg[p].op = "range" /\ k \in walk[p].todo
  /\ ~Live(k)
  /\ Visited(p, k, {}, {})

NextEntity(p, k) ==
  /\ pc[p] = "next" /\ arg[p].op = "range" /\ k \in walk[p].todo
  /\ Live(k)
  /\ Goto(p, "read")
  /\ Hold(p, "range", k, db[k])
  /\ UNCHANGED <<db, expired, walk>>

SkipExpired(p) ==
  /\ pc[p] = "read" /\ arg[p].op = "range" /\ arg[p].val \in expired
  /\ Visited(p, arg[p].key, {}, {})

\* Its value is no base64, or cannot be decompressed or unmarshalled: the
\* iterator goes on, and says nothing of it.
SkipUndecoded(p) ==
  /\ pc[p] = "read" /\ arg[p].op = "range" /\ arg[p].val \notin expired
  /\ Visited(p, arg[p].key, {}, {arg[p].key})

Yield(p) ==
  /\ pc[p] = "read" /\ arg[p].op = "range" /\ arg[p].val \notin expired
  /\ Visited(p, arg[p].key, {arg[p].key}, {})

\* The iterator is done, a request fails, or the caller has seen enough.
EndWalk(p) ==
  /\ pc[p] \in {"query", "next"}
  /\ Goto(p, "return")
  /\ walk' = [walk EXCEPT ![p].done = pc[p] = "next" /\ walk[p].todo = {}]
  /\ UNCHANGED <<db, expired, arg>>

-----------------------------------------------------------------------------

Expire(v) ==
  /\ v \in Timed \ expired
  /\ expired' = expired \cup {v}
  /\ walk' = [p \in Procs |->
                [walk[p] EXCEPT !.touched =
                   IF arg[p].op \in Walks THEN @ \cup {k \in Keys : db[k] = v} ELSE @]]
  /\ UNCHANGED <<db, pc, arg>>

Next ==
  \/ \E p \in Procs, k \in Keys :
       \/ Get(p, k) \/ Delete(p, k) \/ \E v \in Values : Set(p, k, v)
       \/ NextKey(p, k) \/ NextSkipped(p, k) \/ NextEntity(p, k)
  \/ \E p \in Procs :
       \/ GetCheck(p) \/ Put(p) \/ PutFails(p)
       \/ Count(p) \/ Query(p) \/ DeleteMulti(p) \/ DeleteMultiFails(p)
       \/ SkipExpired(p) \/ SkipUndecoded(p) \/ Yield(p)
       \/ EndWalk(p) \/ Return(p)
       \/ \E op \in Walks : StartWalk(p, op)
  \/ \E v \in Timed : Expire(v)

Spec == Init /\ [][Next]_vars

-----------------------------------------------------------------------------
(* Properties *)

\* What a request is for.
CallOK(p) ==
  /\ pc[p] = "idle" => arg[p] = NoArg
  /\ pc[p] = "put" => arg[p].op = "set"
  /\ pc[p] \in {"put", "read"} => arg[p].key \in Keys /\ arg[p].val \in Values
  /\ pc[p] = "read"   => arg[p].op \in {"get", "range"}
  /\ pc[p] = "query"  => arg[p].op \in {"cleanup", "flush", "len"}
  /\ pc[p] = "delete" => arg[p].op \in {"cleanup", "flush"}
  /\ pc[p] = "next"   => arg[p].op \in {"keys", "range"}

\* What a walk was meant for is what it has found, is ahead of it and as it was,
\* or is left out, leaving aside what others touched.
WalkKept(p) ==
  arg[p].op \in Walks =>
    LET w   == walk[p]
        now == Due(arg[p].op, w.cutoff)
    IN
    /\ w.cutoff \subseteq expired
    /\ pc[p] \in {"query", "delete"} => w.hits = {}
    /\ pc[p] \in {"next", "read"} => \A k \in w.todo : InRange(k)
    /\ pc[p] = "read" =>
         /\ arg[p].key \in w.todo
         /\ arg[p].key \notin w.touched => db[arg[p].key] = arg[p].val
    /\ \A k \in Keys \ w.touched :
         /\ pc[p] = "query" => (k \in w.due <=> k \in now)
         /\ pc[p] = "delete" =>
              /\ k \in w.todo => k \in now
              /\ w.done => (k \in w.due <=> k \in w.todo)
         /\ pc[p] \in {"next", "read"} =>
              /\ k \in w.hits => k \in w.due
              /\ k \in w.due => k \in w.hits \cup w.todo \cup LeftOut(p)
              /\ k \in w.todo => (k \in w.due <=> k \in now)
         /\ pc[p] = "return" /\ w.done =>
              /\ k \in w.hits => k \in w.due
              /\ k \in w.due => k \in w.hits \cup LeftOut(p)

IInv == TypeOK /\ \A p \in Procs : CallOK(p) /\ WalkKept(p)

\* An entity that has not expired is removed by a Delete, by a Flush, or by a
\* Cleanup that had found an expired one under its key, which has been set
\* since: the keys are deleted without another look.
FreshStays ==
  [][\A k \in Keys :
       db[k] \in Values \ expired /\ db'[k] = None =>
         \E p \in Procs :
           \/ Delete(p, k)
           \/ pc[p] = "delete" /\ k \in walk[p].todo
              /\ (arg[p].op = "flush" \/ k \in walk[p].touched)]_vars

\* A walk that comes to its end removes (Flush, Cleanup), counts (Len) or
\* yields (Keys, Range) no entity that it is not meant for, and all that it is
\* meant for, leaving aside the keys that others change while it is under way,
\* with three exceptions: a Cleanup whose query finds nothing, the keys with the
\* prefix that are not in the range that Keys and Range ask for, and those whose
\* entity Range could not decode.
WalkExact ==
  \A p \in Procs :
    arg[p].op \in Walks /\ pc[p] = "return" /\ walk[p].done =>
      LET w == walk[p] IN
      /\ w.hits \ w.touched \subseteq w.due
      /\ w.due \ w.touched \subseteq w.hits \cup LeftOut(p)

(* A Store: what Get and Range return, for CloudRun *)

Shown == [k \in Keys |-> IF Live(k) THEN db[k] ELSE None]

CallOf(p) ==
  LET call(op) == [op |-> op, key |-> arg[p].key, seen |-> {arg[p].val}] IN
  CASE arg[p].op = "set" -> call("put")
    [] arg[p].op = "get" \/ (arg[p].op = "range" /\ pc[p] = "read") -> call("got")
    [] OTHER -> [op |-> "idle", key |-> None, seen |-> {}]
=============================================================================
