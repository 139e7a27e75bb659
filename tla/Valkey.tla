------------------------------- MODULE Valkey -------------------------------
(***************************************************************************)
(* The store of valkey.go: every operation is one command of a Valkey      *)
(* server, or several between which the commands of others and the passing *)
(* of time come in.                                                        *)
(*                                                                         *)
(* Times are numbers of instants, several of them to a millisecond; the    *)
(* zero time is 0 and stands for no expiry.  The client asks for an expiry *)
(* at an instant, the server is told a duration of whole milliseconds and  *)
(* keeps a deadline of its own.                                            *)
(*                                                                         *)
(* External: the server executes one command at a time, has a clock of     *)
(* whole milliseconds, refuses to set an expiry 0 milliseconds away, shows *)
(* no key after its deadline, and a SCAN that runs to its end has returned *)
(* every key that was there all along, some of them perhaps twice.         *)
(***************************************************************************)
EXTENDS Integers, FiniteSets

CONSTANTS
  Keys, Values, Procs, None,
  Expiries,  \* the expiries a Set may ask for
  Ms,        \* the instants in a millisecond
  MaxNow     \* bound: where the clock stops

ASSUME ValkeyConstants ==
  /\ None \notin Keys \cup Values
  /\ Expiries \subseteq Nat /\ Ms \in Nat \ {0} /\ MaxNow \in Nat

VARIABLES
  db,     \* the server's entry for each key
  now,    \* the clock, of server and clients
  pc, arg,
  walk,   \* the SCAN a Flush, Len, Keys or Range is on
  moved   \* history: the goroutines whose key has changed since their GET

vars == <<db, now, pc, arg, walk, moved>>

Walks == {"flush", "len", "keys", "range"}

\* History: asked, the expiry that Set was called with, and late, how long the
\* SET took to get to the server.
Entry  == [val : Values, deadline : Nat, asked : Nat, late : Int]
Absent == [val |-> None, deadline |-> 0, asked |-> 0, late |-> 0]

\* ms is a duration, the one sent with a SET or the answer to a PTTL.  late is
\* history: how long that has been on its way, but for now if it still is.
Call(op, k, v, e, ms, late) ==
  [op |-> op, key |-> k, val |-> v, asked |-> e, ms |-> ms, exp |-> 0, late |-> late]
NoArg  == Call("none", None, None, 0, 0, 0)

\* failed is history: the keys that a Range passed over though they were there.
NoWalk == [must |-> {}, sent |-> {}, batch |-> {}, got |-> {}, failed |-> {},
           last |-> FALSE]

\* What PTTL answers for a key without expiry, for a key that is not there,
\* and what stands for no answer at all.
NoExpiry == -1
NoKey    == -2
NoAnswer == -3

Arguments ==
  [op : {"none", "set", "get"} \cup Walks, key : Keys \cup {None},
   val : Values \cup {None}, asked : Nat, ms : Int, exp : Nat, late : Int]

Walkings ==
  [must : SUBSET Keys, sent : SUBSET Keys, batch : SUBSET Keys,
   got : SUBSET Keys, failed : SUBSET Keys, last : BOOLEAN]

TypeOK ==
  /\ db \in [Keys -> Entry \cup {Absent}]
  /\ now \in Nat
  /\ pc \in [Procs -> {"idle", "send", "pttl", "stamp", "scan", "batch",
                       "yield", "return"}]
  /\ arg \in [Procs -> Arguments]
  /\ walk \in [Procs -> Walkings]
  /\ moved \subseteq Procs

Init ==
  /\ db = [k \in Keys |-> Absent]
  /\ now = 1
  /\ pc = [p \in Procs |-> "idle"]
  /\ arg = [p \in Procs |-> NoArg]
  /\ walk = [p \in Procs |-> NoWalk]
  /\ moved = {}

-----------------------------------------------------------------------------

Live(k) == db[k] # Absent

\* A duration, or a time, cut to whole milliseconds.
Whole(t) == t - (t % Ms)

Goto(p, s) == pc' = [pc EXCEPT ![p] = s]
Hold(p, a) == arg' = [arg EXCEPT ![p] = a]

\* History: the keys in K change under the Gets and the SCANs under way.
Moves(K) == moved' = moved \cup {p \in Procs : pc[p] = "pttl" /\ arg[p].key \in K}

Touched(p, K) ==
  [q \in Procs |-> IF q = p THEN walk[q] ELSE [walk[q] EXCEPT !.must = @ \ K]]

Return(p) ==
  /\ pc[p] = "return"
  /\ Goto(p, "idle")
  /\ Hold(p, NoArg)
  /\ walk' = [walk EXCEPT ![p] = NoWalk]
  /\ moved' = moved \ {p}
  /\ UNCHANGED <<db, now>>

-----------------------------------------------------------------------------
(* Get *)

\* GET answers nil, and that is that, or a value and the PTTL is under way.
Get(p, k) ==
  /\ pc[p] = "idle" /\ Live(k)
  /\ Goto(p, "pttl")
  /\ Hold(p, Call("get", k, db[k].val, db[k].asked, 0, db[k].late))
  /\ UNCHANGED <<db, now, walk, moved>>

Remaining(k) ==
  IF ~Live(k) THEN NoKey
  ELSE IF db[k].deadline = 0 THEN NoExpiry ELSE db[k].deadline - Whole(now)

Pttl(p) ==
  /\ pc[p] = "pttl"
  /\ Goto(p, "stamp")
  /\ \E ms \in {Remaining(arg[p].key), NoAnswer} :
       Hold(p, [arg[p] EXCEPT !.ms = ms, !.late = @ - now])
  /\ UNCHANGED <<db, now, walk, moved>>

\* Plausible bug: the answer, a duration, is taken for a time.
StampAbsolute(p) ==
  /\ pc[p] = "stamp"
  /\ Goto(p, "return")
  /\ Hold(p, [arg[p] EXCEPT !.exp = IF arg[p].ms > 0 THEN arg[p].ms ELSE 0,
                            !.late = @ + now])
  /\ UNCHANGED <<db, now, walk, moved>>

\* time.Now() is taken when the answer is there; ms = 0, in the last
\* millisecond of a key, counts as no expiry.
Stamp(p) ==
  /\ pc[p] = "stamp"
  /\ Goto(p, "return")
  /\ Hold(p, [arg[p] EXCEPT !.exp = IF arg[p].ms > 0 THEN now + arg[p].ms ELSE 0,
                            !.late = @ + now])
  /\ UNCHANGED <<db, now, walk, moved>>

-----------------------------------------------------------------------------
(* Set and Delete *)

Set(p, k, v, e) ==
  /\ pc[p] = "idle" /\ (e = 0 \/ e > now)
  /\ Goto(p, "send")
  /\ Hold(p, Call("set", k, v, e, IF e = 0 THEN 0 ELSE Whole(e - now), -now))
  /\ UNCHANGED <<db, now, walk, moved>>

\* A Set whose expiry has passed succeeds and sends nothing: what the key held
\* before stays.
SetExpired(p, k, v, e) ==
  /\ pc[p] = "idle" /\ e # 0 /\ e <= now
  /\ Goto(p, "return")
  /\ Hold(p, Call("set", k, v, e, 0, 0))
  /\ UNCHANGED <<db, now, walk, moved>>

\* The server counts the duration from when it executes the SET.
SetEntry(p) ==
  [val |-> arg[p].val, asked |-> arg[p].asked, late |-> arg[p].late + now,
   deadline |-> IF arg[p].asked = 0 THEN 0 ELSE Whole(now) + arg[p].ms]

\* Plausible bug: the expiry is left out of the command.
SendForever(p) ==
  /\ pc[p] = "send"
  /\ db' = [db EXCEPT ![arg[p].key] = [SetEntry(p) EXCEPT !.deadline = 0]]
  /\ Moves({arg[p].key})
  /\ walk' = Touched(p, {arg[p].key})
  /\ Goto(p, "return")
  /\ UNCHANGED <<now, arg>>

\* The SET; if it fails, the server may have executed it or not.  One that
\* expires in less than a millisecond (PX 0) always fails.
Send(p) ==
  /\ pc[p] = "send" /\ (arg[p].asked = 0 \/ arg[p].ms > 0)
  /\ db' = [db EXCEPT ![arg[p].key] = SetEntry(p)]
  /\ Moves({arg[p].key})
  /\ walk' = Touched(p, {arg[p].key})
  /\ Goto(p, "return")
  /\ UNCHANGED <<now, arg>>

SendFails(p) ==
  /\ pc[p] = "send"
  /\ Goto(p, "return")
  /\ UNCHANGED <<db, now, arg, walk, moved>>

Delete(p, k) ==
  /\ pc[p] = "idle"
  /\ db' = [db EXCEPT ![k] = Absent]
  /\ Moves({k})
  /\ walk' = Touched(p, {k})
  /\ UNCHANGED <<now, pc, arg>>

-----------------------------------------------------------------------------
(* Flush, Len, Keys and Range *)

StartWalk(p, op) ==
  /\ pc[p] = "idle"
  /\ Goto(p, "scan")
  /\ Hold(p, Call(op, None, None, 0, 0, 0))
  /\ walk' = [walk EXCEPT ![p] = [NoWalk EXCEPT !.must = {k \in Keys : Live(k)}]]
  /\ UNCHANGED <<db, now, moved>>

\* SCAN returns some keys and a cursor, and cursor 0 only at the end.
Scan(p) ==
  /\ pc[p] = "scan"
  /\ \E B \in SUBSET {k \in Keys : Live(k)}, last \in BOOLEAN :
       /\ last => walk[p].must \subseteq walk[p].sent \cup B
       /\ walk' = [walk EXCEPT ![p].batch = B, ![p].sent = @ \cup B,
                               ![p].last = last]
  /\ Goto(p, "batch")
  /\ UNCHANGED <<db, now, arg, moved>>

\* Plausible bug: the loop ends at cursor 0 with the last keys left undone.
BatchOverEarly(p) ==
  /\ pc[p] = "batch" /\ (walk[p].batch = {} \/ walk[p].last)
  /\ Goto(p, IF walk[p].last THEN "return" ELSE "scan")
  /\ UNCHANGED <<db, now, arg, walk, moved>>

BatchOver(p) ==
  /\ pc[p] = "batch" /\ walk[p].batch = {}
  /\ Goto(p, IF walk[p].last THEN "return" ELSE "scan")
  /\ UNCHANGED <<db, now, arg, walk, moved>>

InBatch(p, op) == pc[p] = "batch" /\ walk[p].batch # {} /\ arg[p].op = op

\* DEL of the keys returned, whatever they hold by now.
FlushBatch(p) ==
  /\ InBatch(p, "flush")
  /\ db' = [k \in Keys |-> IF k \in walk[p].batch THEN Absent ELSE db[k]]
  /\ Moves(walk[p].batch)
  /\ walk' = [Touched(p, walk[p].batch) EXCEPT ![p].batch = {}]
  /\ UNCHANGED <<now, pc, arg>>

CountBatch(p) ==
  /\ InBatch(p, "len")
  /\ walk' = [walk EXCEPT ![p].batch = {}, ![p].got = @ \cup walk[p].batch]
  /\ UNCHANGED <<db, now, pc, arg, moved>>

YieldKey(p, k) ==
  /\ InBatch(p, "keys") /\ k \in walk[p].batch
  /\ walk' = [walk EXCEPT ![p].batch = @ \ {k}, ![p].got = @ \cup {k}]
  /\ UNCHANGED <<db, now, pc, arg, moved>>

\* Plausible bug: the values are fetched together, and matched with the keys
\* as if none were missing.
RangeGetShifted(p, k) ==
  /\ InBatch(p, "range") /\ k \in walk[p].batch
  /\ Goto(p, "yield")
  /\ \E l \in walk[p].batch :
       Live(l) /\ Hold(p, Call("range", k, db[l].val, 0, 0, 0))
  /\ UNCHANGED <<db, now, walk, moved>>

RangeGet(p, k) ==
  /\ InBatch(p, "range") /\ k \in walk[p].batch /\ Live(k)
  /\ Goto(p, "yield")
  /\ Hold(p, Call("range", k, db[k].val, 0, 0, 0))
  /\ UNCHANGED <<db, now, walk, moved>>

\* A key that has gone is passed over, and so is one that is there but whose
\* GET fails or whose value does not decode: nobody is told.
RangeSkip(p, k) ==
  /\ InBatch(p, "range") /\ k \in walk[p].batch
  /\ walk' = [walk EXCEPT ![p].batch = @ \ {k},
                          ![p].failed = IF Live(k) THEN @ \cup {k} ELSE @]
  /\ UNCHANGED <<db, now, pc, arg, moved>>

RangeYield(p) ==
  /\ pc[p] = "yield"
  /\ Goto(p, "batch")
  /\ Hold(p, Call("range", None, None, 0, 0, 0))
  /\ walk' = [walk EXCEPT ![p].batch = @ \ {arg[p].key},
                          ![p].got = @ \cup {arg[p].key}]
  /\ UNCHANGED <<db, now, moved>>

\* The context ends, a command fails, or the caller has seen enough.
Break(p) ==
  /\ pc[p] \in {"scan", "batch"}
  /\ Goto(p, "return")
  /\ walk' = [walk EXCEPT ![p].last = FALSE]
  /\ UNCHANGED <<db, now, arg, moved>>

-----------------------------------------------------------------------------

\* The clock, and the server, which removes a key after its deadline.
Tick ==
  LET gone == {k \in Keys : db[k].deadline # 0 /\ db[k].deadline < Whole(now + 1)} IN
  /\ now < MaxNow
  /\ now' = now + 1
  /\ db' = [k \in Keys |-> IF k \in gone THEN Absent ELSE db[k]]
  /\ Moves(gone)
  /\ walk' = [p \in Procs |-> [walk[p] EXCEPT !.must = @ \ gone]]
  /\ UNCHANGED <<pc, arg>>

Next ==
  \/ \E p \in Procs, k \in Keys :
       \/ Get(p, k) \/ Delete(p, k)
       \/ \E v \in Values, e \in Expiries : Set(p, k, v, e) \/ SetExpired(p, k, v, e)
       \/ YieldKey(p, k) \/ RangeGet(p, k) \/ RangeSkip(p, k)
  \/ \E p \in Procs :
       \/ Pttl(p) \/ Stamp(p) \/ Send(p) \/ SendFails(p)
       \/ Scan(p) \/ BatchOver(p) \/ FlushBatch(p) \/ CountBatch(p)
       \/ RangeYield(p) \/ Break(p) \/ Return(p)
       \/ \E op \in Walks : StartWalk(p, op)
  \/ Tick

Spec == Init /\ [][Next]_vars

-----------------------------------------------------------------------------
(* Properties *)

GetDone(p) == pc[p] = "return" /\ arg[p].op = "get"

\* The expiry that Get hands to memory, where the value is dropped then, is the
\* one Set was called with, unless the key changed between GET and PTTL: less
\* than two milliseconds earlier, as the duration and the server's clock are cut
\* to whole ones, and later by less than one and the time that the SET and the
\* answer to PTTL were on their way.
ExpiryKept ==
  \A p \in Procs :
    GetDone(p) /\ p \notin moved /\ arg[p].exp # 0 =>
      /\ arg[p].asked # 0
      /\ arg[p].exp > arg[p].asked - 2 * Ms
      /\ arg[p].exp < arg[p].asked + arg[p].late + Ms

\* Get hands a value that was set with an expiry to memory without one, where
\* it then stays for good, only if the key changed between GET and PTTL, was in
\* its last millisecond, or PTTL had no answer.
NotForever ==
  \A p \in Procs :
    GetDone(p) /\ arg[p].exp = 0 /\ arg[p].asked # 0 =>
      p \in moved \/ arg[p].ms \in {0, NoAnswer}

Finished(p) == pc[p] = "return" /\ arg[p].op \in Walks /\ walk[p].last

\* A walk that came to its end has removed (Flush) or has counted or yielded
\* (Len, Keys, Range) every key that was there before it and that nobody has
\* touched meanwhile, but for those that a Range could not get or decode.
WalkComplete ==
  \A p \in Procs : Finished(p) =>
    \A k \in walk[p].must :
      CASE arg[p].op = "flush" -> ~Live(k)
        [] arg[p].op \in {"len", "keys"} -> k \in walk[p].got
        [] arg[p].op = "range" -> k \in walk[p].got \cup walk[p].failed

\* Why the expiry of a Get is right: what the duration was taken from.
DeadlineKept(k) ==
  LET d == db[k] IN
  /\ d.asked = 0 <=> d.deadline = 0
  /\ d.deadline # 0 =>
       /\ d.deadline >= Whole(now)
       /\ d.deadline > d.asked - 2 * Ms /\ d.deadline <= d.asked + d.late

DurationKept(p) ==
  /\ pc[p] \in {"scan", "batch", "yield"} => arg[p].op \in Walks
  /\ pc[p] = "yield" => arg[p].key \in Keys
  /\ pc[p] = "send" =>
       /\ arg[p].op = "set" /\ arg[p].key \in Keys /\ arg[p].val \in Values
       /\ -arg[p].late <= now
       /\ arg[p].asked # 0 =>
            /\ arg[p].ms >= 0
            /\ arg[p].ms - arg[p].late \in (arg[p].asked - Ms + 1) .. arg[p].asked
  /\ pc[p] = "pttl" =>
       /\ arg[p].key \in Keys
       /\ p \notin moved =>
            /\ Live(arg[p].key)
            /\ db[arg[p].key].asked = arg[p].asked /\ db[arg[p].key].late = arg[p].late
  /\ pc[p] = "stamp" /\ p \notin moved =>
       IF arg[p].asked = 0 THEN arg[p].ms < 0
       ELSE \/ arg[p].ms = NoAnswer
            \/ /\ arg[p].ms >= 0
               /\ arg[p].ms + now > arg[p].asked - 2 * Ms
               /\ arg[p].ms < arg[p].asked + arg[p].late + Ms

IInv ==
  /\ TypeOK
  /\ \A k \in Keys : DeadlineKept(k)
  /\ \A p \in Procs : DurationKept(p)
  /\ ExpiryKept
  /\ NotForever

\* What a walk has done with the keys that were there before it and that nobody
\* has touched since: of those the SCAN has returned, all but the current batch
\* are removed, counted, yielded or recorded as failed, and none of the others has
\* gone by itself.
WalkKept(p) ==
  LET op == arg[p].op  w == walk[p] IN
  /\ pc[p] \in {"idle", "send", "pttl", "stamp"} => w = NoWalk
  /\ pc[p] = "idle" => op = "none"
  /\ pc[p] = "yield" => op = "range" /\ arg[p].key \in w.batch
  /\ pc[p] = "scan" \/ Finished(p) => w.batch = {}
  /\ pc[p] \in {"batch", "yield", "return"} /\ op \in Walks /\ w.last =>
       w.must \subseteq w.sent
  /\ pc[p] \in {"scan", "batch", "yield"} \/ Finished(p) =>
       \A k \in w.must :
         IF op = "flush" THEN k \in w.sent \ w.batch => ~Live(k)
         ELSE /\ Live(k)
              /\ k \in w.sent \ w.batch => k \in w.got \cup w.failed
  /\ op # "range" => w.failed = {}

WalkInv == IInv /\ \A p \in Procs : WalkKept(p)

(* A Store: what Get and Range return *)

Shown == [k \in Keys |-> IF Live(k) THEN db[k].val ELSE None]

CallOf(p) ==
  LET call(op) == [op |-> op, key |-> arg[p].key, seen |-> {arg[p].val}] IN
  CASE arg[p].op = "set" -> call("put")
    [] arg[p].op = "get" \/ pc[p] = "yield" -> call("got")
    [] OTHER -> [op |-> "idle", key |-> None, seen |-> {}]

Map == INSTANCE LossyMap
         WITH map <- Shown, call <- [p \in Procs |-> CallOf(p)]

\* The server is a register per key that may lose its value.
MapImplemented == Map!Spec
=============================================================================
