---------------------------- MODULE ValkeyProofs ----------------------------
(***************************************************************************)
(* The Valkey store for any number of keys, values, clients and instants:  *)
(* what Get tells memory about an expiry was true of the entry it read, a  *)
(* walk that came to its end missed nothing that stayed, and the server is *)
(* a register per key that may lose its value.                             *)
(***************************************************************************)
EXTENDS Valkey, TLAPS

\* Cutting to whole milliseconds takes less than one away.
LEMMA WholeCut ==
  ASSUME NEW t \in Nat
  PROVE  Whole(t) \in Nat /\ Whole(t) <= t /\ Whole(t) > t - Ms
<1>1. t % Ms \in 0 .. (Ms - 1) /\ t % Ms <= t
  BY ValkeyConstants
<1> QED
  BY <1>1, ValkeyConstants DEF Whole

\* No key and no call.
LEMMA Initial == Init => IInv
<1> HAVE Init
<1> USE ValkeyConstants DEF Init, NoArg, Call, NoWalk, Absent
<1>1. TypeOK
  <2>1. NoArg \in Arguments /\ NoWalk \in Walkings
    BY DEF Arguments, Walkings
  <2> QED
    BY <2>1 DEF TypeOK
<1>2. \A k \in Keys : DeadlineKept(k)
  BY DEF DeadlineKept
<1>3. \A p \in Procs : DurationKept(p)
  BY DEF DurationKept
<1>4. ExpiryKept /\ NotForever
  BY DEF ExpiryKept, NotForever, GetDone
<1> QED
  BY <1>1, <1>2, <1>3, <1>4 DEF IInv

\* The call is over.
LEMMA ReturnKeeps ==
  ASSUME IInv, NEW p \in Procs, Return(p)
  PROVE  IInv'
<1> USE ValkeyConstants DEF IInv, Return, Goto, Hold, Live, Walks, NoAnswer,
                            NoArg, NoWalk, Call
<1>1. TypeOK'
  <2>1. walk' \in [Procs -> Walkings]
    BY DEF TypeOK, Walkings
  <2>2. arg' \in [Procs -> Arguments]
    BY DEF TypeOK, Arguments
  <2> QED
    BY <2>1, <2>2 DEF TypeOK, Entry
<1>2. \A l \in Keys : DeadlineKept(l)'
  BY DEF TypeOK, DeadlineKept, DurationKept, Entry
<1>3. \A q \in Procs : DurationKept(q)'
  BY DEF TypeOK, DeadlineKept, DurationKept, Entry
<1>4. ExpiryKept' /\ NotForever'
  BY DEF TypeOK, DurationKept, ExpiryKept, NotForever, GetDone
<1> QED
  BY <1>1, <1>2, <1>3, <1>4

\* The question notes the expiry of the entry it finds.
LEMMA GetKeeps ==
  ASSUME IInv, NEW p \in Procs, NEW k \in Keys, Get(p, k)
  PROVE  IInv'
<1> USE ValkeyConstants DEF IInv, Get, Goto, Hold, Live, Walks, NoAnswer,
                            Call
<1>1. TypeOK'
  <2>1. walk' \in [Procs -> Walkings]
    BY DEF TypeOK, Walkings
  <2>2. arg' \in [Procs -> Arguments]
    BY DEF TypeOK, Arguments, Entry
  <2> QED
    BY <2>1, <2>2 DEF TypeOK, Entry
<1>2. \A l \in Keys : DeadlineKept(l)'
  BY DEF TypeOK, DeadlineKept, DurationKept, Entry
<1>3. \A q \in Procs : DurationKept(q)'
  BY DEF TypeOK, DeadlineKept, DurationKept, Entry
<1>4. ExpiryKept' /\ NotForever'
  BY DEF TypeOK, DurationKept, ExpiryKept, NotForever, GetDone
<1> QED
  BY <1>1, <1>2, <1>3, <1>4

\* The answer is what is left of the deadline by the server's clock.
LEMMA PttlKeeps ==
  ASSUME IInv, NEW p \in Procs, Pttl(p)
  PROVE  IInv'
<1> USE ValkeyConstants DEF IInv, Pttl, Goto, Hold, Live, Walks, NoAnswer,
                            Remaining, NoKey, NoExpiry
<1>0. Whole(now) \in Nat /\ Whole(now) <= now /\ Whole(now) > now - Ms
  BY WholeCut DEF TypeOK
<1>1. TypeOK'
  <2>1. walk' \in [Procs -> Walkings]
    BY DEF TypeOK, Walkings
  <2>2. arg' \in [Procs -> Arguments]
    <3>1. PICK ms \in {Remaining(arg[p].key), NoAnswer} :
            arg' = [arg EXCEPT ![p] = [arg[p] EXCEPT !.ms = ms, !.late = @ - now]]
      OBVIOUS
    <3>2. ms \in Int
      BY <1>0 DEF TypeOK, DurationKept, Entry
    <3>3. arg[p] \in Arguments /\ arg[p].late - now \in Int
      BY DEF TypeOK, Arguments
    <3> DEFINE late == arg[p].late - now
    <3> HIDE DEF late
    <3>4. [arg[p] EXCEPT !.ms = ms, !.late = late] \in Arguments
      BY <3>2, <3>3, Zenon DEF Arguments, late
    <3>5. arg' = [arg EXCEPT ![p] = [arg[p] EXCEPT !.ms = ms, !.late = late]]
      BY <3>1 DEF late
    <3> QED
      BY <3>4, <3>5, Zenon DEF TypeOK
  <2> QED
    BY <2>1, <2>2 DEF TypeOK, Entry
<1>2. \A l \in Keys : DeadlineKept(l)'
  BY DEF TypeOK, DeadlineKept, DurationKept, Entry
<1>3. \A q \in Procs : DurationKept(q)'
  <2> SUFFICES ASSUME NEW q \in Procs PROVE DurationKept(q)'
    OBVIOUS
  <2>1. CASE q = p
    <3> DEFINE a == arg[p]
               d == db[a.key]
    <3>1. PICK ms \in {Remaining(a.key), NoAnswer} :
            arg'[p] = [a EXCEPT !.ms = ms, !.late = @ - now]
      BY DEF TypeOK
    <3>2. /\ arg'[p].ms = ms /\ arg'[p].late = a.late - now
          /\ arg'[p].asked = a.asked
      <4>1. a \in [op : {"none", "set", "get"} \cup Walks, key : Keys \cup {None},
                   val : Values \cup {None}, asked : Nat, ms : Int, exp : Nat,
                   late : Int]
        BY DEF TypeOK, Arguments
      <4> HIDE DEF a
      <4> QED
        BY <3>1, <4>1
    <3>3. /\ pc'[p] = "stamp" /\ now' = now /\ moved' = moved
          /\ a.key \in Keys /\ a.late \in Int /\ a.asked \in Nat
      BY DEF TypeOK, Arguments, DurationKept
    <3>4. p \notin moved =>
            /\ d \in Entry /\ d.asked = a.asked /\ d.late = a.late /\ d # Absent
            /\ DeadlineKept(a.key)
      BY <3>3 DEF TypeOK, DurationKept
    <3>5. p \notin moved => IF a.asked = 0 THEN ms < 0 ELSE ms = NoAnswer \/
            (/\ ms >= 0 /\ ms + now > a.asked - 2 * Ms
             /\ ms < a.asked + a.late - now + Ms)
      <4> HAVE p \notin moved
      <4>1. CASE d.deadline = 0
        BY <3>4, <4>1 DEF DeadlineKept
      <4>2. CASE d.deadline # 0
        <5>1. /\ d.deadline \in Nat /\ d.asked # 0 /\ d.deadline >= Whole(now)
              /\ d.deadline > a.asked - 2 * Ms /\ d.deadline <= a.asked + a.late
          BY <3>4, <4>2 DEF DeadlineKept, Entry
        <5>2. ms \in {d.deadline - Whole(now), NoAnswer}
          BY <3>4, <4>2
        <5> HIDE DEF d, a
        <5> QED
          BY <1>0, <3>3, <3>4, <5>1, <5>2 DEF TypeOK
      <4> QED
        BY <4>1, <4>2
    <3> HIDE DEF a, d
    <3> QED
      BY <2>1, <3>2, <3>3, <3>5 DEF DurationKept
  <2>2. CASE q # p
    BY <2>2 DEF TypeOK, DurationKept
  <2> QED
    BY <2>1, <2>2
<1>4. ExpiryKept' /\ NotForever'
  BY DEF TypeOK, DurationKept, ExpiryKept, NotForever, GetDone
<1> QED
  BY <1>1, <1>2, <1>3, <1>4

\* The duration is added to a time not before the one it was counted from.
LEMMA StampKeeps ==
  ASSUME IInv, NEW p \in Procs, Stamp(p)
  PROVE  IInv'
<1> USE ValkeyConstants DEF IInv, Stamp, Goto, Hold, Live, Walks, NoAnswer
<1>1. TypeOK'
  <2>1. walk' \in [Procs -> Walkings]
    BY DEF TypeOK, Walkings
  <2>2. arg' \in [Procs -> Arguments]
    <3> DEFINE exp == IF arg[p].ms > 0 THEN now + arg[p].ms ELSE 0
               late == arg[p].late + now
    <3>1. late \in Int /\ exp \in Nat /\ arg[p] \in Arguments
      BY DEF TypeOK, Arguments
    <3>2. arg' = [arg EXCEPT ![p] = [arg[p] EXCEPT !.exp = exp, !.late = late]]
      OBVIOUS
    <3> HIDE DEF exp, late
    <3>3. [arg[p] EXCEPT !.exp = exp, !.late = late] \in Arguments
      BY <3>1, Zenon DEF Arguments
    <3> QED
      BY <3>2, <3>3, Zenon DEF TypeOK
  <2> QED
    BY <2>1, <2>2 DEF TypeOK, Entry
<1>2. \A l \in Keys : DeadlineKept(l)'
  BY DEF TypeOK, DeadlineKept, DurationKept, Entry
<1>3. \A q \in Procs : DurationKept(q)'
  BY DEF TypeOK, DeadlineKept, DurationKept, Entry
<1>4. ExpiryKept' /\ NotForever'
  BY DEF TypeOK, Arguments, DurationKept, ExpiryKept, NotForever, GetDone
<1> QED
  BY <1>1, <1>2, <1>3, <1>4

\* The duration leads from now to less than a millisecond before the expiry.
LEMMA SetKeeps ==
  ASSUME IInv, NEW p \in Procs, NEW k \in Keys, NEW v \in Values,
         NEW e \in Expiries, Set(p, k, v, e)
  PROVE  IInv'
<1> USE ValkeyConstants DEF IInv, Set, Goto, Hold, Live, Walks, NoAnswer,
                            Call
<1> DEFINE d == IF e = 0 THEN 0 ELSE Whole(e - now)
<1>0. /\ d \in Nat /\ -now \in Int /\ e \in Nat /\ now \in Nat
      /\ e # 0 => d + now \in (e - Ms + 1) .. e
  <2>1. e \in Nat /\ now \in Nat
    BY DEF TypeOK
  <2>2. CASE e = 0
    BY <2>1, <2>2
  <2>3. CASE e # 0
    BY <2>1, <2>3, WholeCut
  <2> QED
    BY <2>2, <2>3
<1> HIDE DEF d
<1>a. arg' = [arg EXCEPT ![p] = Call("set", k, v, e, d, -now)]
  BY DEF d
<1>1. TypeOK'
  <2>1. walk' \in [Procs -> Walkings]
    BY DEF TypeOK, Walkings
  <2>2. arg' \in [Procs -> Arguments]
    BY <1>0, <1>a DEF TypeOK, Arguments
  <2> QED
    BY <2>1, <2>2 DEF TypeOK, Entry
<1>2. \A l \in Keys : DeadlineKept(l)'
  BY DEF TypeOK, DeadlineKept, DurationKept, Entry
<1>3. \A q \in Procs : DurationKept(q)'
  <2> SUFFICES ASSUME NEW q \in Procs PROVE DurationKept(q)'
    OBVIOUS
  <2>1. CASE q = p
    <3>1. arg'[p] = Call("set", k, v, e, d, -now) /\ pc'[p] = "send" /\ now' = now
      BY <1>a DEF TypeOK
    <3> QED
      BY <1>0, <2>1, <3>1 DEF DurationKept
  <2>2. CASE q # p
    BY <2>2 DEF TypeOK, DurationKept
  <2> QED
    BY <2>1, <2>2
<1>4. ExpiryKept' /\ NotForever'
  BY DEF TypeOK, DurationKept, ExpiryKept, NotForever, GetDone
<1> QED
  BY <1>1, <1>2, <1>3, <1>4

\* Nothing is sent.
LEMMA SetExpiredKeeps ==
  ASSUME IInv, NEW p \in Procs, NEW k \in Keys, NEW v \in Values,
         NEW e \in Expiries, SetExpired(p, k, v, e)
  PROVE  IInv'
<1> USE ValkeyConstants DEF IInv, SetExpired, Goto, Hold, Live, Walks, NoAnswer,
                            Call
<1>1. TypeOK'
  <2>1. arg' \in [Procs -> Arguments]
    BY DEF TypeOK, Arguments
  <2> QED
    BY <2>1 DEF TypeOK, Entry
<1>2. \A l \in Keys : DeadlineKept(l)'
  BY DEF TypeOK, DeadlineKept, Entry
<1>3. \A q \in Procs : DurationKept(q)'
  BY DEF TypeOK, DurationKept
<1>4. ExpiryKept' /\ NotForever'
  BY DEF TypeOK, DurationKept, ExpiryKept, NotForever, GetDone
<1> QED
  BY <1>1, <1>2, <1>3, <1>4

\* The deadline is the duration from the server's last millisecond, so less than
\* two before the expiry.
LEMMA SendKeeps ==
  ASSUME IInv, NEW p \in Procs, Send(p)
  PROVE  IInv'
<1> USE ValkeyConstants DEF IInv, Send, Goto, Hold, Live, Walks, NoAnswer,
                            SetEntry, Moves, Touched, Absent
<1> DEFINE a == arg[p]
           w == Whole(now)
<1>w. w \in Nat /\ w <= now /\ w > now - Ms
  BY WholeCut DEF TypeOK
<1> HIDE DEF w
<1>d. db' = [db EXCEPT ![a.key] =
        [val |-> a.val, asked |-> a.asked, late |-> a.late + now,
         deadline |-> IF a.asked = 0 THEN 0 ELSE w + a.ms]]
  BY DEF w
<1>a. /\ a.key \in Keys /\ a.val \in Values /\ a.asked \in Nat /\ a.late \in Int
      /\ a.asked # 0 =>
           a.ms \in Nat \ {0} /\ a.ms - a.late \in (a.asked - Ms + 1) .. a.asked
      /\ -a.late <= now /\ now \in Nat
  BY DEF TypeOK, Arguments, DurationKept
<1>0. SetEntry(p) \in Entry /\ SetEntry(p) # Absent
  BY <1>w, <1>a DEF Entry, w
<1>1. TypeOK'
  <2>1. walk' \in [Procs -> Walkings]
    BY DEF TypeOK, Walkings
  <2>2. arg' \in [Procs -> Arguments]
    BY DEF TypeOK, Arguments
  <2> QED
    BY <1>0, <2>1, <2>2 DEF TypeOK
<1>2. \A l \in Keys : DeadlineKept(l)'
  <2> SUFFICES ASSUME NEW l \in Keys PROVE DeadlineKept(l)'
    OBVIOUS
  <2>0. now' = now /\ Whole(now') = w
    BY DEF w
  <2>1. CASE l = a.key
    <3>1. /\ db'[l].asked = a.asked /\ db'[l].late = a.late + now
          /\ db'[l].deadline = IF a.asked = 0 THEN 0 ELSE w + a.ms
      BY <1>d, <2>1 DEF TypeOK
    <3> HIDE DEF a
    <3> QED
      BY <1>w, <1>a, <2>0, <3>1 DEF DeadlineKept
  <2>2. CASE l # a.key
    <3>1. db'[l] = db[l]
      BY <1>d, <2>2 DEF TypeOK
    <3> QED
      BY <2>0, <3>1 DEF DeadlineKept, w
  <2> QED
    BY <2>1, <2>2
<1>3. \A q \in Procs : DurationKept(q)'
  BY DEF TypeOK, DeadlineKept, DurationKept, Entry
<1>4. ExpiryKept' /\ NotForever'
  BY DEF TypeOK, DurationKept, ExpiryKept, NotForever, GetDone
<1> QED
  BY <1>1, <1>2, <1>3, <1>4

\* The server has not executed the SET.
LEMMA SendFailsKeeps ==
  ASSUME IInv, NEW p \in Procs, SendFails(p)
  PROVE  IInv'
<1> USE ValkeyConstants DEF IInv, SendFails, Goto, Hold, Live, Walks,
                            NoAnswer
<1>1. TypeOK'
  <2>1. walk' \in [Procs -> Walkings]
    BY DEF TypeOK, Walkings
  <2>2. arg' \in [Procs -> Arguments]
    BY DEF TypeOK, Arguments
  <2> QED
    BY <2>1, <2>2 DEF TypeOK, Entry
<1>2. \A l \in Keys : DeadlineKept(l)'
  BY DEF TypeOK, DeadlineKept, DurationKept, Entry
<1>3. \A q \in Procs : DurationKept(q)'
  BY DEF TypeOK, DeadlineKept, DurationKept, Entry
<1>4. ExpiryKept' /\ NotForever'
  BY DEF TypeOK, DurationKept, ExpiryKept, NotForever, GetDone
<1> QED
  BY <1>1, <1>2, <1>3, <1>4

\* A Get under way on the key knows that it has changed.
LEMMA DeleteKeeps ==
  ASSUME IInv, NEW p \in Procs, NEW k \in Keys, Delete(p, k)
  PROVE  IInv'
<1> USE ValkeyConstants DEF IInv, Delete, Goto, Hold, Live, Walks, NoAnswer,
                            Absent, Moves, Touched
<1>1. TypeOK'
  <2>1. walk' \in [Procs -> Walkings]
    BY DEF TypeOK, Walkings
  <2>2. arg' \in [Procs -> Arguments]
    BY DEF TypeOK, Arguments
  <2> QED
    BY <2>1, <2>2 DEF TypeOK, Entry
<1>2. \A l \in Keys : DeadlineKept(l)'
  BY DEF TypeOK, DeadlineKept, DurationKept, Entry
<1>3. \A q \in Procs : DurationKept(q)'
  BY DEF TypeOK, DeadlineKept, DurationKept, Entry
<1>4. ExpiryKept' /\ NotForever'
  BY DEF TypeOK, DurationKept, ExpiryKept, NotForever, GetDone
<1> QED
  BY <1>1, <1>2, <1>3, <1>4

\* A walk asks for no expiry.
LEMMA StartWalkKeeps ==
  ASSUME IInv, NEW p \in Procs, NEW op \in Walks, StartWalk(p, op)
  PROVE  IInv'
<1> USE ValkeyConstants DEF IInv, StartWalk, Goto, Hold, Live, Walks,
                            NoAnswer, Call, NoWalk
<1>1. TypeOK'
  <2>1. walk' \in [Procs -> Walkings]
    BY DEF TypeOK, Walkings
  <2>2. arg' \in [Procs -> Arguments]
    BY DEF TypeOK, Arguments
  <2> QED
    BY <2>1, <2>2 DEF TypeOK, Entry
<1>2. \A l \in Keys : DeadlineKept(l)'
  BY DEF TypeOK, DeadlineKept, DurationKept, Entry
<1>3. \A q \in Procs : DurationKept(q)'
  BY DEF TypeOK, DeadlineKept, DurationKept, Entry
<1>4. ExpiryKept' /\ NotForever'
  BY DEF TypeOK, DurationKept, ExpiryKept, NotForever, GetDone
<1> QED
  BY <1>1, <1>2, <1>3, <1>4

\* Only the walk changes.
LEMMA ScanKeeps ==
  ASSUME IInv, NEW p \in Procs, Scan(p)
  PROVE  IInv'
<1> USE ValkeyConstants DEF IInv, Scan, Goto, Hold, Live, Walks, NoAnswer
<1>1. TypeOK'
  <2>1. walk' \in [Procs -> Walkings]
    <3>1. PICK B \in SUBSET {k \in Keys : db[k] # Absent}, last \in BOOLEAN :
            walk' = [walk EXCEPT ![p].batch = B, ![p].sent = @ \cup B,
                                 ![p].last = last]
      OBVIOUS
    <3>0. walk[p] \in Walkings /\ B \subseteq Keys
      BY DEF TypeOK
    <3>2. [walk[p] EXCEPT !.batch = B, !.sent = @ \cup B, !.last = last]
            \in Walkings
      BY <3>0, Zenon DEF Walkings
    <3>3. walk' = [walk EXCEPT ![p] = [walk[p] EXCEPT !.batch = B,
                              !.sent = @ \cup B, !.last = last]]
      BY <3>1
    <3> QED
      BY <3>2, <3>3, Zenon DEF TypeOK
  <2>2. arg' \in [Procs -> Arguments]
    BY DEF TypeOK, Arguments
  <2> QED
    BY <2>1, <2>2 DEF TypeOK, Entry
<1>2. \A l \in Keys : DeadlineKept(l)'
  BY DEF TypeOK, DeadlineKept, DurationKept, Entry
<1>3. \A q \in Procs : DurationKept(q)'
  BY DEF TypeOK, DeadlineKept, DurationKept, Entry
<1>4. ExpiryKept' /\ NotForever'
  BY DEF TypeOK, DurationKept, ExpiryKept, NotForever, GetDone
<1> QED
  BY <1>1, <1>2, <1>3, <1>4

\* Only the walk goes on.
LEMMA BatchOverKeeps ==
  ASSUME IInv, NEW p \in Procs, BatchOver(p)
  PROVE  IInv'
<1> USE ValkeyConstants DEF IInv, BatchOver, Goto, Hold, Live, Walks,
                            NoAnswer
<1>1. TypeOK'
  <2>1. walk' \in [Procs -> Walkings]
    BY DEF TypeOK, Walkings
  <2>2. arg' \in [Procs -> Arguments]
    BY DEF TypeOK, Arguments
  <2> QED
    BY <2>1, <2>2 DEF TypeOK, Entry
<1>2. \A l \in Keys : DeadlineKept(l)'
  BY DEF TypeOK, DeadlineKept, DurationKept, Entry
<1>3. \A q \in Procs : DurationKept(q)'
  BY DEF TypeOK, DeadlineKept, DurationKept, Entry
<1>4. ExpiryKept' /\ NotForever'
  BY DEF TypeOK, DurationKept, ExpiryKept, NotForever, GetDone
<1> QED
  BY <1>1, <1>2, <1>3, <1>4

\* The Gets under way on the keys of the batch know that they have changed.
LEMMA FlushBatchKeeps ==
  ASSUME IInv, NEW p \in Procs, FlushBatch(p)
  PROVE  IInv'
<1> USE ValkeyConstants DEF IInv, FlushBatch, Goto, Hold, Live, Walks,
                            NoAnswer, InBatch, Absent, Moves, Touched
<1>1. TypeOK'
  <2>1. walk' \in [Procs -> Walkings]
    <3> DEFINE B == walk[p].batch
               others == Touched(p, B)
    <3>1. others \in [Procs -> Walkings]
      BY DEF TypeOK, Walkings
    <3>2. walk' = [others EXCEPT ![p].batch = {}]
      OBVIOUS
    <3> HIDE DEF others
    <3>3. [others[p] EXCEPT !.batch = {}] \in Walkings
      BY <3>1, Zenon DEF Walkings
    <3> QED
      BY <3>1, <3>2, <3>3
  <2>2. arg' \in [Procs -> Arguments]
    BY DEF TypeOK, Arguments
  <2> QED
    BY <2>1, <2>2 DEF TypeOK, Entry
<1>2. \A l \in Keys : DeadlineKept(l)'
  BY DEF TypeOK, DeadlineKept, DurationKept, Entry
<1>3. \A q \in Procs : DurationKept(q)'
  BY DEF TypeOK, DeadlineKept, DurationKept, Entry
<1>4. ExpiryKept' /\ NotForever'
  BY DEF TypeOK, DurationKept, ExpiryKept, NotForever, GetDone
<1> QED
  BY <1>1, <1>2, <1>3, <1>4

\* Only the walk changes.
LEMMA CountBatchKeeps ==
  ASSUME IInv, NEW p \in Procs, CountBatch(p)
  PROVE  IInv'
<1> USE ValkeyConstants DEF IInv, CountBatch, Goto, Hold, Live, Walks,
                            NoAnswer, InBatch
<1>1. TypeOK'
  <2>1. walk' \in [Procs -> Walkings]
    <3>1. [walk[p] EXCEPT !.batch = {},
                          !.got = @ \cup walk[p].batch] \in Walkings
      BY Zenon DEF TypeOK, Walkings
    <3>2. walk' = [walk EXCEPT ![p] =
            [walk[p] EXCEPT !.batch = {},
                            !.got = @ \cup walk[p].batch]]
      OBVIOUS
    <3> QED
      BY <3>1, <3>2, Zenon DEF TypeOK
  <2>2. arg' \in [Procs -> Arguments]
    BY DEF TypeOK, Arguments
  <2> QED
    BY <2>1, <2>2 DEF TypeOK, Entry
<1>2. \A l \in Keys : DeadlineKept(l)'
  BY DEF TypeOK, DeadlineKept, DurationKept, Entry
<1>3. \A q \in Procs : DurationKept(q)'
  BY DEF TypeOK, DeadlineKept, DurationKept, Entry
<1>4. ExpiryKept' /\ NotForever'
  BY DEF TypeOK, DurationKept, ExpiryKept, NotForever, GetDone
<1> QED
  BY <1>1, <1>2, <1>3, <1>4

\* Only the walk changes.
LEMMA YieldKeyKeeps ==
  ASSUME IInv, NEW p \in Procs, NEW k \in Keys, YieldKey(p, k)
  PROVE  IInv'
<1> USE ValkeyConstants DEF IInv, YieldKey, Goto, Hold, Live, Walks,
                            NoAnswer, InBatch
<1>1. TypeOK'
  <2>1. walk' \in [Procs -> Walkings]
    <3>1. [walk[p] EXCEPT !.batch = @ \ {k}, !.got = @ \cup {k}] \in Walkings
      BY Zenon DEF TypeOK, Walkings
    <3>2. walk' = [walk EXCEPT ![p] =
            [walk[p] EXCEPT !.batch = @ \ {k},
                            !.got = @ \cup {k}]]
      OBVIOUS
    <3> QED
      BY <3>1, <3>2, Zenon DEF TypeOK
  <2>2. arg' \in [Procs -> Arguments]
    BY DEF TypeOK, Arguments
  <2> QED
    BY <2>1, <2>2 DEF TypeOK, Entry
<1>2. \A l \in Keys : DeadlineKept(l)'
  BY DEF TypeOK, DeadlineKept, DurationKept, Entry
<1>3. \A q \in Procs : DurationKept(q)'
  BY DEF TypeOK, DeadlineKept, DurationKept, Entry
<1>4. ExpiryKept' /\ NotForever'
  BY DEF TypeOK, DurationKept, ExpiryKept, NotForever, GetDone
<1> QED
  BY <1>1, <1>2, <1>3, <1>4

\* Range reads the value and no expiry.
LEMMA RangeGetKeeps ==
  ASSUME IInv, NEW p \in Procs, NEW k \in Keys, RangeGet(p, k)
  PROVE  IInv'
<1> USE ValkeyConstants DEF IInv, RangeGet, Goto, Hold, Live, Walks,
                            NoAnswer, InBatch, Call
<1>1. TypeOK'
  <2>1. walk' \in [Procs -> Walkings]
    BY DEF TypeOK, Walkings
  <2>2. arg' \in [Procs -> Arguments]
    BY DEF TypeOK, Arguments, Entry
  <2> QED
    BY <2>1, <2>2 DEF TypeOK, Entry
<1>2. \A l \in Keys : DeadlineKept(l)'
  BY DEF TypeOK, DeadlineKept, DurationKept, Entry
<1>3. \A q \in Procs : DurationKept(q)'
  BY DEF TypeOK, DeadlineKept, DurationKept, Entry
<1>4. ExpiryKept' /\ NotForever'
  BY DEF TypeOK, DurationKept, ExpiryKept, NotForever, GetDone
<1> QED
  BY <1>1, <1>2, <1>3, <1>4

\* Only the walk changes.
LEMMA RangeSkipKeeps ==
  ASSUME IInv, NEW p \in Procs, NEW k \in Keys, RangeSkip(p, k)
  PROVE  IInv'
<1> USE ValkeyConstants DEF IInv, RangeSkip, Goto, Hold, Live, Walks,
                            NoAnswer, InBatch
<1>1. TypeOK'
  <2>1. walk' \in [Procs -> Walkings]
    <3> DEFINE F == IF Live(k) THEN walk[p].failed \cup {k} ELSE walk[p].failed
    <3>0. walk[p] \in Walkings /\ F \subseteq Keys
      BY DEF TypeOK, Walkings
    <3> HIDE DEF F
    <3>1. [walk[p] EXCEPT !.batch = @ \ {k}, !.failed = F] \in Walkings
      BY <3>0, Zenon DEF Walkings
    <3>2. walk' = [walk EXCEPT ![p] =
            [walk[p] EXCEPT !.batch = @ \ {k}, !.failed = F]]
      BY DEF F
    <3> QED
      BY <3>1, <3>2, Zenon DEF TypeOK
  <2>2. arg' \in [Procs -> Arguments]
    BY DEF TypeOK, Arguments
  <2> QED
    BY <2>1, <2>2 DEF TypeOK, Entry
<1>2. \A l \in Keys : DeadlineKept(l)'
  BY DEF TypeOK, DeadlineKept, DurationKept, Entry
<1>3. \A q \in Procs : DurationKept(q)'
  BY DEF TypeOK, DeadlineKept, DurationKept, Entry
<1>4. ExpiryKept' /\ NotForever'
  BY DEF TypeOK, DurationKept, ExpiryKept, NotForever, GetDone
<1> QED
  BY <1>1, <1>2, <1>3, <1>4

\* Only the walk changes.
LEMMA RangeYieldKeeps ==
  ASSUME IInv, NEW p \in Procs, RangeYield(p)
  PROVE  IInv'
<1> USE ValkeyConstants DEF IInv, RangeYield, Goto, Hold, Live, Walks,
                            NoAnswer, Call
<1>1. TypeOK'
  <2>1. walk' \in [Procs -> Walkings]
    <3>0. walk[p] \in Walkings /\ arg[p].key \in Keys
      BY DEF TypeOK, DurationKept
    <3>1. [walk[p] EXCEPT !.batch = @ \ {arg[p].key},
                          !.got = @ \cup {arg[p].key}] \in Walkings
      BY <3>0, Zenon DEF Walkings
    <3>2. walk' = [walk EXCEPT ![p] =
            [walk[p] EXCEPT !.batch = @ \ {arg[p].key},
                            !.got = @ \cup {arg[p].key}]]
      OBVIOUS
    <3> QED
      BY <3>1, <3>2, Zenon DEF TypeOK
  <2>2. arg' \in [Procs -> Arguments]
    BY DEF TypeOK, Arguments
  <2> QED
    BY <2>1, <2>2 DEF TypeOK, Entry
<1>2. \A l \in Keys : DeadlineKept(l)'
  BY DEF TypeOK, DeadlineKept, DurationKept, Entry
<1>3. \A q \in Procs : DurationKept(q)'
  BY DEF TypeOK, DeadlineKept, DurationKept, Entry
<1>4. ExpiryKept' /\ NotForever'
  BY DEF TypeOK, DurationKept, ExpiryKept, NotForever, GetDone
<1> QED
  BY <1>1, <1>2, <1>3, <1>4

\* The walk is given up.
LEMMA BreakKeeps ==
  ASSUME IInv, NEW p \in Procs, Break(p)
  PROVE  IInv'
<1> USE ValkeyConstants DEF IInv, Break, Goto, Hold, Live, Walks, NoAnswer
<1>1. TypeOK'
  <2>1. walk' \in [Procs -> Walkings]
    BY DEF TypeOK, Walkings
  <2>2. arg' \in [Procs -> Arguments]
    BY DEF TypeOK, Arguments
  <2> QED
    BY <2>1, <2>2 DEF TypeOK, Entry
<1>2. \A l \in Keys : DeadlineKept(l)'
  BY DEF TypeOK, DeadlineKept, DurationKept, Entry
<1>3. \A q \in Procs : DurationKept(q)'
  BY DEF TypeOK, DeadlineKept, DurationKept, Entry
<1>4. ExpiryKept' /\ NotForever'
  BY DEF TypeOK, DurationKept, ExpiryKept, NotForever, GetDone
<1> QED
  BY <1>1, <1>2, <1>3, <1>4

\* Keys whose deadline has come go, and the other deadlines are still to come.
LEMMA TickKeeps ==
  ASSUME IInv, Tick
  PROVE  IInv'
<1> USE ValkeyConstants DEF IInv, Tick, Goto, Hold, Live, Walks, NoAnswer,
                            Moves, Absent
<1>1. TypeOK'
  <2>1. walk' \in [Procs -> Walkings]
    BY DEF TypeOK, Walkings
  <2>2. arg' \in [Procs -> Arguments]
    BY DEF TypeOK, Arguments
  <2> QED
    BY <2>1, <2>2 DEF TypeOK, Entry
<1>0. Whole(now') \in Nat
  BY WholeCut DEF TypeOK
<1>2. \A l \in Keys : DeadlineKept(l)'
  <2> SUFFICES ASSUME NEW l \in Keys PROVE DeadlineKept(l)'
    OBVIOUS
  <2>1. CASE db'[l] = Absent
    BY <2>1 DEF DeadlineKept
  <2>2. CASE db'[l] = db[l] /\ (db[l].deadline # 0 => db[l].deadline >= Whole(now'))
    BY <2>2 DEF DeadlineKept
  <2>3. db[l].deadline \in Nat
    BY DEF TypeOK, Entry
  <2> QED
    BY <1>0, <2>1, <2>2, <2>3
<1>3. \A q \in Procs : DurationKept(q)'
  BY DEF TypeOK, Arguments, DeadlineKept, DurationKept, Entry
<1>4. ExpiryKept' /\ NotForever'
  BY DEF TypeOK, DurationKept, ExpiryKept, NotForever, GetDone
<1> QED
  BY <1>1, <1>2, <1>3, <1>4

\* IInv speaks of the state alone.
LEMMA StutterKeeps ==
  ASSUME IInv, UNCHANGED vars
  PROVE  IInv'
BY DEF IInv, vars, TypeOK, DeadlineKept, DurationKept, ExpiryKept, NotForever,
       GetDone, Live

\* Every step of the store and of the clock keeps the invariant.
LEMMA NextKeeps ==
  ASSUME IInv, [Next]_vars
  PROVE  IInv'
<1>1. ASSUME NEW p \in Procs, NEW k \in Keys,
             \/ Get(p, k) \/ Delete(p, k)
             \/ \E v \in Values, e \in Expiries :
                  Set(p, k, v, e) \/ SetExpired(p, k, v, e)
             \/ YieldKey(p, k) \/ RangeGet(p, k) \/ RangeSkip(p, k)
      PROVE  IInv'
  BY <1>1, SetKeeps, SetExpiredKeeps, GetKeeps, DeleteKeeps, YieldKeyKeeps, RangeGetKeeps,
     RangeSkipKeeps
<1>2. ASSUME NEW p \in Procs,
             \/ Pttl(p) \/ Stamp(p) \/ Send(p) \/ SendFails(p)
             \/ Scan(p) \/ BatchOver(p) \/ FlushBatch(p) \/ CountBatch(p)
             \/ RangeYield(p) \/ Break(p) \/ Return(p)
             \/ \E op \in Walks : StartWalk(p, op)
      PROVE  IInv'
  BY <1>2, StartWalkKeeps, PttlKeeps, StampKeeps, SendKeeps, SendFailsKeeps,
     ScanKeeps,
     BatchOverKeeps, FlushBatchKeeps, CountBatchKeeps, RangeYieldKeeps,
     BreakKeeps, ReturnKeeps
<1>3. CASE Tick
  BY <1>3, TickKeeps
<1>4. CASE UNCHANGED vars
  BY <1>4, StutterKeeps
<1> QED
  BY <1>1, <1>2, <1>3, <1>4 DEF Next

\* Every Set with an expiry leaves a deadline less than two milliseconds before it
\* and no later than the SET took to arrive, a PTTL answers a duration that leads
\* to within the same bounds and one millisecond more, and time only moves on.
THEOREM DeadlinesKept == Spec => []IInv
BY Initial, NextKeeps, PTL DEF Spec

\* The time at which memory drops what a Get returned (valkey.go:121) is the one
\* its Set asked for, but for what is cut off (valkey.go:147) and for the time the
\* commands were on their way, for any schedule of clients, server and clock.
THEOREM ExpiriesKept == Spec => []ExpiryKept
<1>1. IInv => ExpiryKept
  BY DEF IInv
<1> QED
  BY <1>1, DeadlinesKept, PTL

\* The only ways in which an expiring value goes to memory without an expiry are
\* a change of the key between GET and PTTL, a PTTL without an answer, and the
\* last millisecond of the key.
THEOREM ForeverAccounted == Spec => []NotForever
<1>1. IInv => NotForever
  BY DEF IInv
<1> QED
  BY <1>1, DeadlinesKept, PTL

-----------------------------------------------------------------------------
(* The walks *)

\* What is left of the walk of a goroutine that does nothing.
Stays(q) ==
  /\ walk'[q].must \subseteq walk[q].must
  /\ walk'[q].sent = walk[q].sent /\ walk'[q].batch = walk[q].batch
  /\ walk'[q].got = walk[q].got /\ walk'[q].failed = walk[q].failed
  /\ walk'[q].last = walk[q].last
  /\ walk[q] = NoWalk => walk'[q] = NoWalk

LEMMA TouchedStays ==
  ASSUME TypeOK, NEW q \in Procs, NEW K,
         walk'[q] = [walk[q] EXCEPT !.must = @ \ K]
  PROVE  Stays(q) /\ walk'[q].must = walk[q].must \ K /\ walk[q].must \subseteq Keys
<1>1. walk[q] \in Walkings
  BY DEF TypeOK
<1>2. walk[q] = NoWalk => walk'[q] = NoWalk
  <2>1. {} \ K = {}
    OBVIOUS
  <2> QED
    BY <2>1 DEF NoWalk
<1> QED
  BY <1>1, <1>2 DEF Walkings, Stays

\* A goroutine that does nothing keeps its walk, when the keys that its walk must
\* still account for are there as before.
LEMMA Bystander ==
  ASSUME NEW q \in Procs, WalkKept(q), pc'[q] = pc[q], arg'[q] = arg[q],
         Stays(q), \A k \in walk'[q].must : Live(k)' <=> Live(k)
  PROVE  WalkKept(q)'
BY DEF WalkKept, Finished, Stays

LEMMA Onlooker ==
  ASSUME WalkInv, NEW q \in Procs, pc'[q] = pc[q], arg'[q] = arg[q],
         walk'[q] = walk[q], db' = db
  PROVE  WalkKept(q)'
BY Bystander DEF WalkInv, Stays, Live

\* A goroutine that has no walk and does not begin one, while others keep theirs.
LEMMA NoWalkKept ==
  ASSUME WalkInv, NEW p \in Procs, UNCHANGED <<db, walk>>,
         pc[p] \in {"idle", "send", "pttl", "stamp"},
         pc'[p] \in {"send", "pttl", "stamp", "return"},
         \A q \in Procs \ {p} : pc'[q] = pc[q] /\ arg'[q] = arg[q]
  PROVE  \A q \in Procs : WalkKept(q)'
<1> SUFFICES ASSUME NEW q \in Procs PROVE WalkKept(q)'
  OBVIOUS
<1>1. CASE q = p
  BY <1>1 DEF WalkInv, WalkKept, Finished, NoWalk
<1>2. CASE q # p
  BY <1>2, Onlooker
<1> QED
  BY <1>1, <1>2

LEMMA ReturnWalks ==
  ASSUME WalkInv, NEW p \in Procs, Return(p)
  PROVE  \A q \in Procs : WalkKept(q)'
<1> SUFFICES ASSUME NEW q \in Procs PROVE WalkKept(q)'
  OBVIOUS
<1> USE DEF WalkInv, IInv, TypeOK, Return, Goto, Hold
<1>1. CASE q = p
  BY <1>1 DEF WalkKept, Finished, NoArg, Call, NoWalk, Walks
<1>2. CASE q # p
  BY <1>2, Onlooker
<1> QED
  BY <1>1, <1>2

\* The keys that a Set or a Delete changes are no longer any walk's concern.
LEMMA ChangeWalks ==
  ASSUME WalkInv, NEW p \in Procs, NEW k \in Keys,
         (Send(p) /\ k = arg[p].key) \/ Delete(p, k)
  PROVE  \A q \in Procs : WalkKept(q)'
<1> SUFFICES ASSUME NEW q \in Procs PROVE WalkKept(q)'
  OBVIOUS
<1> USE DEF WalkInv, IInv, TypeOK, Goto
<1>1. /\ UNCHANGED arg
      /\ \A r \in Procs \ {p} : pc'[r] = pc[r]
      /\ walk' = Touched(p, {k})
      /\ \A l \in Keys \ {k} : db'[l] = db[l]
      /\ \/ pc[p] = "send" /\ pc'[p] = "return"
         \/ pc[p] = "idle" /\ pc'[p] = "idle"
  <2>1. CASE Send(p) /\ k = arg[p].key
    BY <2>1 DEF Send
  <2>2. CASE Delete(p, k)
    BY <2>2 DEF Delete
  <2> QED
    BY <2>1, <2>2
<1>2. CASE q = p
  <2>1. walk'[p] = walk[p] /\ walk[p] = NoWalk
    BY <1>1 DEF Touched, WalkKept
  <2>2. arg[p].op \in {"none", "set"}
    BY <1>1 DEF WalkKept, DurationKept
  <2> QED
    BY <1>1, <1>2, <2>1, <2>2 DEF WalkKept, Finished, NoWalk, Walks
<1>3. CASE q # p
  <2>1. walk'[q] = [walk[q] EXCEPT !.must = @ \ {k}]
    BY <1>1, <1>3 DEF Touched
  <2>2. /\ Stays(q)
        /\ walk[q].must \subseteq Keys /\ walk'[q].must = walk[q].must \ {k}
    BY <2>1, TouchedStays
  <2> QED
    BY <1>1, <1>3, <2>2, Bystander DEF Live
<1> QED
  BY <1>2, <1>3

\* What must be walked is what is there.
LEMMA StartWalks ==
  ASSUME WalkInv, NEW p \in Procs, NEW op \in Walks, StartWalk(p, op)
  PROVE  \A q \in Procs : WalkKept(q)'
<1> SUFFICES ASSUME NEW q \in Procs PROVE WalkKept(q)'
  OBVIOUS
<1> USE DEF WalkInv, IInv, TypeOK, StartWalk, Goto, Hold
<1>1. CASE q = p
  <2>1. walk'[p] = [NoWalk EXCEPT !.must = {k \in Keys : Live(k)}]
    OBVIOUS
  <2>2. /\ walk'[p].must = {k \in Keys : Live(k)} /\ walk'[p].sent = {}
        /\ walk'[p].batch = {} /\ walk'[p].last = FALSE
    BY <2>1 DEF NoWalk
  <2>3. pc'[p] = "scan" /\ arg'[p].op = op
    BY DEF Call
  <2> QED
    BY <1>1, <2>2, <2>3 DEF WalkKept, Finished, Live
<1>2. CASE q # p
  BY <1>2, Onlooker
<1> QED
  BY <1>1, <1>2

\* The SCAN gives out a batch, and at its end has given out what was there.
LEMMA ScanWalks ==
  ASSUME WalkInv, NEW p \in Procs, Scan(p)
  PROVE  \A q \in Procs : WalkKept(q)'
<1> SUFFICES ASSUME NEW q \in Procs PROVE WalkKept(q)'
  OBVIOUS
<1> USE DEF WalkInv, IInv, TypeOK, Scan, Goto
<1>1. CASE q = p
  <2>1. PICK B \in SUBSET {k \in Keys : Live(k)}, last \in BOOLEAN :
          /\ last => walk[p].must \subseteq walk[p].sent \cup B
          /\ walk' = [walk EXCEPT ![p].batch = B, ![p].sent = @ \cup B,
                                  ![p].last = last]
    OBVIOUS
  <2>2. /\ walk'[p].must = walk[p].must /\ walk'[p].got = walk[p].got
        /\ walk'[p].batch = B /\ walk'[p].sent = walk[p].sent \cup B
        /\ walk'[p].last = last /\ walk'[p].failed = walk[p].failed
    BY <2>1 DEF Walkings
  <2>3. pc[p] = "scan" /\ pc'[p] = "batch" /\ arg' = arg /\ db' = db
    OBVIOUS
  <2>4. walk[p].batch = {}
    BY <2>3 DEF WalkKept
  <2> QED
    BY <1>1, <2>1, <2>2, <2>3, <2>4 DEF WalkKept, Finished, Live
<1>2. CASE q # p
  BY <1>2, Onlooker
<1> QED
  BY <1>1, <1>2

\* The batch is done, or the walk is given up.
LEMMA BatchEndWalks ==
  ASSUME WalkInv, NEW p \in Procs, BatchOver(p) \/ Break(p)
  PROVE  \A q \in Procs : WalkKept(q)'
<1> SUFFICES ASSUME NEW q \in Procs PROVE WalkKept(q)'
  OBVIOUS
<1> USE DEF WalkInv, IInv, TypeOK, Goto
<1>1. CASE q = p /\ BatchOver(p)
  <2>1. /\ pc[p] = "batch" /\ walk' = walk /\ arg' = arg /\ db' = db
        /\ walk[p].batch = {}
        /\ pc'[p] = IF walk[p].last THEN "return" ELSE "scan"
    BY <1>1 DEF BatchOver
  <2>2. arg[p].op \in Walks
    BY <2>1 DEF DurationKept
  <2> QED
    BY <1>1, <2>1, <2>2 DEF WalkKept, Finished, Live
<1>2. CASE q = p /\ Break(p)
  <2>1. /\ pc'[p] = "return" /\ arg' = arg /\ db' = db
        /\ walk'[p].last = FALSE /\ walk'[p].failed = walk[p].failed
    BY <1>2 DEF Break, Walkings
  <2> QED
    BY <1>2, <2>1 DEF WalkKept, Finished
<1>3. CASE q # p
  BY <1>3, Onlooker DEF BatchOver, Break, Walkings
<1> QED
  BY <1>1, <1>2, <1>3

\* The keys of the batch go: this walk has removed them, and they are no longer
\* the concern of the others.
LEMMA FlushWalks ==
  ASSUME WalkInv, NEW p \in Procs, FlushBatch(p)
  PROVE  \A q \in Procs : WalkKept(q)'
<1> SUFFICES ASSUME NEW q \in Procs PROVE WalkKept(q)'
  OBVIOUS
<1> USE DEF WalkInv, IInv, TypeOK, FlushBatch, InBatch
<1> DEFINE B == walk[p].batch
<1>1. /\ UNCHANGED <<pc, arg>>
      /\ \A l \in Keys : Live(l)' <=> Live(l) /\ l \notin B
      /\ pc[p] = "batch" /\ arg[p].op = "flush"
  BY DEF Live, Absent
<1>2. CASE q = p
  <2>1. walk'[p] = [walk[p] EXCEPT !.batch = {}]
    BY DEF Touched
  <2>2. /\ walk'[p].must = walk[p].must /\ walk'[p].got = walk[p].got
        /\ walk'[p].batch = {} /\ walk'[p].sent = walk[p].sent
        /\ walk'[p].last = walk[p].last /\ walk[p].must \subseteq Keys
        /\ walk'[p].failed = walk[p].failed
    BY <2>1 DEF Walkings
  <2> HIDE DEF FlushBatch
  <2> QED
    BY <1>1, <1>2, <2>2 DEF WalkKept, Finished
<1>3. CASE q # p
  <2>1. walk'[q] = [walk[q] EXCEPT !.must = @ \ B]
    BY <1>3 DEF Touched
  <2>2. /\ Stays(q)
        /\ walk[q].must \subseteq Keys /\ walk'[q].must = walk[q].must \ B
    BY <2>1, TouchedStays
  <2> HIDE DEF B, FlushBatch
  <2> QED
    BY <1>1, <1>3, <2>2, Bystander
<1> QED
  BY <1>2, <1>3

\* A Len counts the batch; Keys and Range take one key of it.
LEMMA TakeWalks ==
  ASSUME WalkInv, NEW p \in Procs,
         /\ walk'[p].must = walk[p].must /\ walk'[p].sent = walk[p].sent
         /\ walk'[p].last = walk[p].last
         /\ walk'[p].batch \subseteq walk[p].batch
         /\ walk[p].got \subseteq walk'[p].got
         /\ walk[p].failed \subseteq walk'[p].failed
         /\ arg[p].op # "range" => walk'[p].failed = walk[p].failed,
         \A k \in walk[p].batch \ walk'[p].batch :
           k \in walk'[p].got \cup walk'[p].failed \/ ~Live(k),
         arg[p].op # "flush", arg'[p].op = arg[p].op,
         pc[p] \in {"batch", "yield"}, pc'[p] = "batch", db' = db,
         \A q \in Procs \ {p} :
           pc'[q] = pc[q] /\ arg'[q] = arg[q] /\ walk'[q] = walk[q]
  PROVE  \A q \in Procs : WalkKept(q)'
<1> SUFFICES ASSUME NEW q \in Procs PROVE WalkKept(q)'
  OBVIOUS
<1>1. CASE q = p
  <2>1. /\ walk[p].last => walk[p].must \subseteq walk[p].sent
        /\ \A k \in walk[p].must :
             /\ Live(k)
             /\ k \in walk[p].sent \ walk[p].batch => k \in walk[p].got \cup walk[p].failed
        /\ arg[p].op # "range" => walk[p].failed = {}
    BY DEF WalkInv, IInv, WalkKept, DurationKept
  <2>2. \A k \in walk'[p].must :
          /\ Live(k)'
          /\ k \in walk'[p].sent \ walk'[p].batch =>
               k \in walk'[p].got \cup walk'[p].failed
    BY <2>1 DEF Live
  <2> QED
    BY <1>1, <2>1, <2>2 DEF WalkKept, Finished
<1>2. CASE q # p
  BY <1>2, Onlooker
<1> QED
  BY <1>1, <1>2

LEMMA BatchWalks ==
  ASSUME WalkInv, NEW p \in Procs,
         \/ CountBatch(p) \/ RangeYield(p)
         \/ \E k \in Keys : YieldKey(p, k) \/ RangeSkip(p, k)
  PROVE  \A q \in Procs : WalkKept(q)'
<1> USE DEF InBatch
<1>0. /\ walk \in [Procs -> Walkings] /\ arg \in [Procs -> Arguments]
      /\ pc \in [Procs -> {"idle", "send", "pttl", "stamp", "scan", "batch",
                           "yield", "return"}]
  BY DEF WalkInv, IInv, TypeOK
<1>1. CASE CountBatch(p)
  <2>1. /\ walk'[p].must = walk[p].must /\ walk'[p].sent = walk[p].sent
        /\ walk'[p].last = walk[p].last /\ walk'[p].batch = {}
        /\ walk'[p].got = walk[p].got \cup walk[p].batch
        /\ walk'[p].failed = walk[p].failed
    BY <1>0, <1>1 DEF CountBatch, Walkings
  <2>2. \A q \in Procs \ {p} : walk'[q] = walk[q]
    BY <1>0, <1>1 DEF CountBatch
  <2> QED
    BY <1>1, <2>1, <2>2, TakeWalks DEF CountBatch
<1>2. CASE RangeYield(p)
  <2>1. arg[p].op = "range"
    BY <1>2 DEF RangeYield, WalkInv, WalkKept
  <2>2. /\ walk'[p].must = walk[p].must /\ walk'[p].sent = walk[p].sent
        /\ walk'[p].last = walk[p].last
        /\ walk'[p].batch = walk[p].batch \ {arg[p].key}
        /\ walk'[p].got = walk[p].got \cup {arg[p].key}
        /\ walk'[p].failed = walk[p].failed
    BY <1>0, <1>2 DEF RangeYield, Walkings
  <2>3. /\ arg'[p].op = "range" /\ pc'[p] = "batch" /\ db' = db /\ pc[p] = "yield"
        /\ \A q \in Procs \ {p} :
             pc'[q] = pc[q] /\ arg'[q] = arg[q] /\ walk'[q] = walk[q]
    BY <1>0, <1>2 DEF RangeYield, Goto, Hold, Call
  <2> QED
    BY <2>1, <2>2, <2>3, TakeWalks
<1>3. ASSUME NEW k \in Keys, YieldKey(p, k)
      PROVE  \A q \in Procs : WalkKept(q)'
  <2>1. /\ walk'[p].must = walk[p].must /\ walk'[p].sent = walk[p].sent
        /\ walk'[p].last = walk[p].last
        /\ walk'[p].batch = walk[p].batch \ {k}
        /\ walk'[p].got = walk[p].got \cup {k}
        /\ walk'[p].failed = walk[p].failed
        /\ \A q \in Procs \ {p} : walk'[q] = walk[q]
    BY <1>0, <1>3 DEF YieldKey, Walkings
  <2> QED
    BY <1>3, <2>1, TakeWalks DEF YieldKey
<1>4. ASSUME NEW k \in Keys, RangeSkip(p, k)
      PROVE  \A q \in Procs : WalkKept(q)'
  <2> DEFINE F == IF Live(k) THEN walk[p].failed \cup {k} ELSE walk[p].failed
  <2>1. /\ walk'[p].must = walk[p].must /\ walk'[p].sent = walk[p].sent
        /\ walk'[p].last = walk[p].last
        /\ walk'[p].batch = walk[p].batch \ {k}
        /\ walk'[p].got = walk[p].got /\ walk'[p].failed = F
        /\ \A q \in Procs \ {p} : walk'[q] = walk[q]
    <3>1. walk' = [walk EXCEPT ![p] = [walk[p] EXCEPT !.batch = @ \ {k}, !.failed = F]]
      BY <1>4 DEF RangeSkip
    <3> HIDE DEF F
    <3> QED
      BY <1>0, <3>1 DEF Walkings
  <2>2. /\ walk[p].failed \subseteq F
        /\ \A l \in walk[p].batch \ walk'[p].batch : l \in F \/ ~Live(l)
    BY <2>1
  <2>3. /\ arg[p].op = "range" /\ pc[p] = "batch" /\ UNCHANGED <<db, pc, arg>>
    BY <1>4 DEF RangeSkip
  <2> HIDE DEF F
  <2> QED
    BY <2>1, <2>2, <2>3, TakeWalks
<1> QED
  BY <1>1, <1>2, <1>3, <1>4

\* Range asks for the value of a key of its batch.
LEMMA RangeGetWalks ==
  ASSUME WalkInv, NEW p \in Procs, NEW k \in Keys, RangeGet(p, k)
  PROVE  \A q \in Procs : WalkKept(q)'
<1> SUFFICES ASSUME NEW q \in Procs PROVE WalkKept(q)'
  OBVIOUS
<1> USE DEF WalkInv, IInv, TypeOK, RangeGet, InBatch, Goto, Hold
<1>1. CASE q = p
  BY <1>1 DEF WalkKept, Finished, Live, Call
<1>2. CASE q # p
  BY <1>2, Onlooker
<1> QED
  BY <1>1, <1>2

\* The keys that expire are no longer any walk's concern.
LEMMA TickWalks ==
  ASSUME WalkInv, Tick
  PROVE  \A q \in Procs : WalkKept(q)'
<1> SUFFICES ASSUME NEW q \in Procs PROVE WalkKept(q)'
  OBVIOUS
<1> DEFINE gone == {k \in Keys : db[k].deadline # 0 /\ db[k].deadline < Whole(now + 1)}
<1>1. /\ walk'[q] = [walk[q] EXCEPT !.must = @ \ gone]
      /\ UNCHANGED <<pc, arg>>
      /\ \A k \in Keys \ gone : db'[k] = db[k]
  BY DEF Tick
<1>2. /\ Stays(q)
      /\ walk[q].must \subseteq Keys /\ walk'[q].must = walk[q].must \ gone
  BY <1>1, TouchedStays DEF WalkInv, IInv
<1> HIDE DEF gone
<1> QED
  BY <1>1, <1>2, Bystander DEF WalkInv, Live

LEMMA NextWalks ==
  ASSUME WalkInv, [Next]_vars
  PROVE  WalkInv'
<1>1. IInv'
  BY NextKeeps DEF WalkInv
<1>2. \A q \in Procs : WalkKept(q)'
  <2>1. ASSUME NEW p \in Procs, NEW k \in Keys,
               \/ Get(p, k) \/ Delete(p, k)
               \/ \E v \in Values, e \in Expiries :
                    Set(p, k, v, e) \/ SetExpired(p, k, v, e)
               \/ YieldKey(p, k) \/ RangeGet(p, k) \/ RangeSkip(p, k)
        PROVE  \A q \in Procs : WalkKept(q)'
    <3>0. /\ arg \in [Procs -> Arguments]
          /\ pc \in [Procs -> {"idle", "send", "pttl", "stamp", "scan", "batch",
                               "yield", "return"}]
      BY DEF WalkInv, IInv, TypeOK
    <3>1. CASE Get(p, k)
      BY <3>0, <3>1, NoWalkKept DEF Get, Goto, Hold
    <3>2. ASSUME NEW v \in Values, NEW e \in Expiries, Set(p, k, v, e)
          PROVE  \A q \in Procs : WalkKept(q)'
      BY <3>0, <3>2, NoWalkKept DEF Set, Goto, Hold
    <3>3. ASSUME NEW v \in Values, NEW e \in Expiries, SetExpired(p, k, v, e)
          PROVE  \A q \in Procs : WalkKept(q)'
      BY <3>0, <3>3, NoWalkKept DEF SetExpired, Goto, Hold
    <3> QED
      BY <2>1, <3>1, <3>2, <3>3, ChangeWalks, BatchWalks, RangeGetWalks
  <2>2. ASSUME NEW p \in Procs,
               \/ Pttl(p) \/ Stamp(p) \/ Send(p) \/ SendFails(p)
               \/ Scan(p) \/ BatchOver(p) \/ FlushBatch(p) \/ CountBatch(p)
               \/ RangeYield(p) \/ Break(p) \/ Return(p)
               \/ \E op \in Walks : StartWalk(p, op)
        PROVE  \A q \in Procs : WalkKept(q)'
    <3>0. /\ arg \in [Procs -> Arguments]
          /\ pc \in [Procs -> {"idle", "send", "pttl", "stamp", "scan", "batch",
                               "yield", "return"}]
      BY DEF WalkInv, IInv, TypeOK
    <3>1. CASE Pttl(p)
      BY <3>1, <3>0, NoWalkKept DEF Pttl, Goto, Hold
    <3>2. CASE Stamp(p)
      BY <3>2, <3>0, NoWalkKept DEF Stamp, Goto, Hold
    <3>3. CASE SendFails(p)
      BY <3>3, <3>0, NoWalkKept DEF SendFails, Goto, Hold
    <3>4. CASE Send(p)
      <4>1. arg[p].key \in Keys
        BY <3>4 DEF Send, WalkInv, IInv, DurationKept
      <4> QED
        BY <3>4, <4>1, ChangeWalks
    <3> QED
      BY <2>2, <3>1, <3>2, <3>3, <3>4, ScanWalks, BatchEndWalks, FlushWalks,
         BatchWalks, ReturnWalks, StartWalks
  <2>3. CASE Tick
    BY <2>3, TickWalks
  <2>4. CASE UNCHANGED vars
    BY <2>4 DEF vars, WalkInv, WalkKept, Finished, Live
  <2> QED
    BY <2>1, <2>2, <2>3, <2>4 DEF Next
<1> QED
  BY <1>1, <1>2 DEF WalkInv

\* Every walk knows what is left of the keys that were there before it, whatever
\* other clients and the clock do meanwhile.
THEOREM WalksAccount == Spec => []WalkInv
<1>1. Init => WalkInv
  <2>1. Init => \A p \in Procs : WalkKept(p)
    BY DEF Init, WalkKept, Finished, NoWalk, NoArg, Call
  <2> QED
    BY <2>1, Initial DEF WalkInv
<1> QED
  BY <1>1, NextWalks, PTL DEF Spec

\* A Flush, Len, Keys or Range that came to the end of its SCAN (valkey.go:187)
\* has missed no key that was there before it and that nobody has touched, but for
\* those of which a GET of the Range failed or did not decode (valkey.go:310).
THEOREM WalksComplete == Spec => []WalkComplete
<1>1. WalkInv => WalkComplete
  <2> SUFFICES ASSUME WalkInv, NEW p \in Procs, Finished(p),
                      NEW k \in walk[p].must
               PROVE  CASE arg[p].op = "flush" -> ~Live(k)
                        [] arg[p].op \in {"len", "keys"} -> k \in walk[p].got
                        [] arg[p].op = "range" ->
                             k \in walk[p].got \cup walk[p].failed
    BY DEF WalkComplete
  <2>1. /\ walk[p].must \subseteq walk[p].sent /\ walk[p].batch = {}
        /\ arg[p].op \in {"flush", "len", "keys", "range"}
    BY DEF WalkInv, WalkKept, Finished, Walks
  <2>2. IF arg[p].op = "flush" THEN ~Live(k)
        ELSE k \in walk[p].got \cup walk[p].failed
    BY <2>1 DEF WalkInv, WalkKept
  <2>3. arg[p].op # "range" => walk[p].failed = {}
    BY DEF WalkInv, WalkKept
  <2> QED
    BY <2>1, <2>2, <2>3
<1> QED
  BY <1>1, WalksAccount, PTL

-----------------------------------------------------------------------------
(* The store as a map *)

Calls == [p \in Procs |-> CallOf(p)]

\* What a goroutine is doing, as a TieredCache sees it.
LEMMA CallIs ==
  ASSUME NEW p
  PROVE  /\ arg[p].op = "set" /\ pc[p] # "yield" =>
              CallOf(p) = [op |-> "put", key |-> arg[p].key, seen |-> {arg[p].val}]
         /\ arg[p].op # "set" /\ (arg[p].op = "get" \/ pc[p] = "yield") =>
              CallOf(p) = [op |-> "got", key |-> arg[p].key, seen |-> {arg[p].val}]
         /\ arg[p].op \notin {"set", "get"} /\ pc[p] # "yield" =>
              CallOf(p) = Map!Idle
BY DEF CallOf, Map!Idle

LEMMA CallIsNext ==
  ASSUME NEW p
  PROVE  /\ arg'[p].op = "set" /\ pc'[p] # "yield" => CallOf(p)' =
              [op |-> "put", key |-> arg'[p].key, seen |-> {arg'[p].val}]
         /\ arg'[p].op # "set" /\ (arg'[p].op = "get" \/ pc'[p] = "yield") =>
              CallOf(p)' =
                [op |-> "got", key |-> arg'[p].key, seen |-> {arg'[p].val}]
         /\ arg'[p].op \notin {"set", "get"} /\ pc'[p] # "yield" =>
              CallOf(p)' = Map!Idle
BY DEF CallOf, Map!Idle

\* Nobody's call changes but p's.
LEMMA OneCalls ==
  ASSUME NEW p \in Procs, NEW c, CallOf(p)' = c,
         \A q \in Procs \ {p} :
           arg'[q] = arg[q] /\ (pc'[q] = "yield" <=> pc[q] = "yield")
  PROVE  Calls' = [Calls EXCEPT ![p] = c]
<1>1. \A q \in Procs \ {p} : CallOf(q)' = CallOf(q)
  BY DEF CallOf
<1> QED
  BY <1>1 DEF Calls

\* Nobody's call changes.
LEMMA NobodyCalls ==
  ASSUME \A q \in Procs :
           arg'[q] = arg[q] /\ (pc'[q] = "yield" <=> pc[q] = "yield")
  PROVE  Calls' = Calls
<1>1. \A q \in Procs : CallOf(q)' = CallOf(q)
  BY DEF CallOf
<1> QED
  BY <1>1 DEF Calls

\* A Get has its answer as soon as it is under way, so nobody is shown a change.
LEMMA NobodyWaits ==
  ASSUME WalkInv, Calls' = Calls, NEW K, NEW r
  PROVE  Map!Show(K, r)
<1>1. \A p \in Procs : Calls[p].op # "get"
  BY CallIs DEF Calls, Map!Idle, WalkInv, WalkKept
<1> QED
  BY <1>1 DEF Map!Show, Calls

\* The keys of K lose their value, and nobody is told.
LEMMA Loses ==
  ASSUME WalkInv, NEW K \in SUBSET Keys, Calls' = Calls,
         db' = [k \in Keys |-> IF k \in K THEN Absent ELSE db[k]]
  PROVE  Map!Next
<1>1. Shown' = [k \in Keys |-> IF k \in K THEN None ELSE Shown[k]]
  BY DEF Shown, Live
<1>2. Map!Lost(K)
  BY <1>1 DEF Map!Lost
<1>3. Map!Show(K, None)
  BY NobodyWaits
<1>4. Map!Lose(K)
  BY <1>2, <1>3 DEF Map!Lose
<1> QED
  BY <1>4 DEF Map!Next

\* The operation of p begins, with a value of the key in hand, or ends.
LEMMA Enters ==
  ASSUME WalkInv, NEW p \in Procs, Calls[p] = Map!Idle, Shown' = Shown,
         NEW k \in Keys, NEW v \in Values,
         \/ Calls' = [Calls EXCEPT ![p] =
                        [op |-> "put", key |-> k, seen |-> {v}]]
         \/ /\ v = Shown[k]
            /\ Calls' = [Calls EXCEPT ![p] =
                           [op |-> "got", key |-> k, seen |-> {v}]]
  PROVE  Map!Next
BY DEF Map!Next, Map!Put, Map!Get, Map!Enter, Calls

LEMMA Leaves ==
  ASSUME NEW p \in Procs, Shown' = Shown,
         Calls' = [Calls EXCEPT ![p] = Map!Idle]
  PROVE  Map!Next
<1>1. CASE Calls[p] = Map!Idle
  <2>1. Calls' = Calls
    BY <1>1 DEF Calls
  <2> QED
    BY <2>1 DEF Map!Next, Map!vars, Calls
<1>2. CASE Calls[p] # Map!Idle
  <2>1. Map!Return(p)
    BY <1>2 DEF Map!Return, Calls
  <2> QED
    BY <2>1 DEF Map!Next
<1> QED
  BY <1>1, <1>2

\* The SET of p reaches the server.
LEMMA SendWrites ==
  ASSUME WalkInv, NEW p \in Procs, Send(p)
  PROVE  Map!Next
<1> DEFINE k == arg[p].key
           v == arg[p].val
<1>1. arg[p].op = "set" /\ k \in Keys /\ v \in Values
  BY DEF WalkInv, IInv, DurationKept, Send
<1>2. Calls[p] = [op |-> "put", key |-> k, seen |-> {v}]
  BY <1>1, CallIs DEF Send, Calls
<1>3. Map!Putting(k, v)
  BY <1>2 DEF Map!Putting, Calls
<1>4. Calls' = Calls
  BY NobodyCalls DEF Send, Goto, WalkInv, IInv, TypeOK
<1>5. Shown' = [Shown EXCEPT ![k] = v]
  <2>1. SetEntry(p) # Absent /\ SetEntry(p).val = v
    BY <1>1, ValkeyConstants DEF SetEntry, Absent
  <2>2. db' = [db EXCEPT ![k] = SetEntry(p)]
    BY Zenon DEF Send
  <2>3. db \in [Keys -> Entry \cup {Absent}]
    BY DEF WalkInv, IInv, TypeOK
  <2> HIDE DEF k, v
  <2>4. \A l \in Keys : db'[l] = IF l = k THEN SetEntry(p) ELSE db[l]
    BY <2>2, <2>3
  <2>5. \A l \in Keys : (IF db'[l] # Absent THEN db'[l].val ELSE None)
                         = IF l = k THEN v ELSE Shown[l]
    BY <2>1, <2>4 DEF Shown, Live
  <2>6. Shown' = [l \in Keys |-> IF l = k THEN v ELSE Shown[l]]
    <3>1. Shown' = [l \in Keys |-> IF db'[l] # Absent THEN db'[l].val ELSE None]
      BY DEF Shown, Live
    <3> QED
      BY <2>5, <3>1
  <2>7. Shown \in [Keys -> Values \cup {None}]
    BY <2>3 DEF Shown, Live, Entry
  <2> QED
    BY <1>1, <2>6, <2>7
<1>6. Map!Show({k}, v)
  BY <1>4, NobodyWaits
<1>7. Map!Write(k, v)
  BY <1>3, <1>5, <1>6 DEF Map!Write
<1> QED
  BY <1>1, <1>7 DEF Map!Next

\* A step between two goroutines and the server that neither begins nor ends an
\* operation that sees values, nor changes what the server shows.
LEMMA Idles ==
  ASSUME NEW p \in Procs, Shown' = Shown, CallOf(p)' = CallOf(p),
         \A q \in Procs \ {p} :
           arg'[q] = arg[q] /\ (pc'[q] = "yield" <=> pc[q] = "yield")
  PROVE  Map!Next
<1>1. Calls' = Calls
  <2>1. \A q \in Procs \ {p} : CallOf(q)' = CallOf(q)
    BY DEF CallOf
  <2> QED
    BY <2>1 DEF Calls
<1> QED
  BY <1>1 DEF Map!Next, Map!vars, Calls

\* Every step of the store is a step of the map, or none.
LEMMA StepImplements ==
  ASSUME WalkInv, [Next]_vars
  PROVE  Map!Next
<1>0. /\ pc \in [Procs -> {"idle", "send", "pttl", "stamp", "scan", "batch",
                           "yield", "return"}]
      /\ arg \in [Procs -> Arguments]
      /\ db \in [Keys -> Entry \cup {Absent}]
      /\ walk \in [Procs -> Walkings]
  BY DEF WalkInv, IInv, TypeOK
<1>1. ASSUME db' = db
      PROVE  Shown' = Shown
  BY <1>1 DEF Shown, Live
<1>2. ASSUME NEW p \in Procs, pc[p] = "idle"
      PROVE  Calls[p] = Map!Idle
  BY <1>2, CallIs DEF Calls, WalkInv, WalkKept
<1>3. \A k \in Keys : Live(k) => db[k].val \in Values /\ Shown[k] = db[k].val
  BY <1>0 DEF Live, Entry, Shown
<1>4. ASSUME NEW p \in Procs, NEW k \in Keys, Get(p, k)
      PROVE  Map!Next
  <2>1. CallOf(p)' = [op |-> "got", key |-> k, seen |-> {db[k].val}]
    BY <1>0, <1>4, CallIsNext DEF Get, Goto, Hold, Call
  <2>2. Calls' = [Calls EXCEPT ![p] =
                    [op |-> "got", key |-> k, seen |-> {db[k].val}]]
    BY <1>0, <1>4, <2>1, OneCalls DEF Get, Goto, Hold
  <2> QED
    BY <1>1, <1>2, <1>3, <1>4, <2>2, Enters DEF Get
<1>5. ASSUME NEW p \in Procs, NEW k \in Keys, RangeGet(p, k)
      PROVE  Map!Next
  <2>1. CallOf(p)' = [op |-> "got", key |-> k, seen |-> {db[k].val}]
    BY <1>0, <1>5, CallIsNext DEF RangeGet, Goto, Hold, Call
  <2>2. Calls' = [Calls EXCEPT ![p] =
                    [op |-> "got", key |-> k, seen |-> {db[k].val}]]
    BY <1>0, <1>5, <2>1, OneCalls DEF RangeGet, Goto, Hold
  <2>3. Calls[p] = Map!Idle
    BY <1>5, CallIs DEF RangeGet, InBatch, Calls
  <2> QED
    BY <1>1, <1>3, <1>5, <2>2, <2>3, Enters DEF RangeGet
<1>6. ASSUME NEW p \in Procs, NEW k \in Keys, NEW v \in Values,
             NEW e \in Expiries, Set(p, k, v, e) \/ SetExpired(p, k, v, e)
      PROVE  Map!Next
  <2>1. CallOf(p)' = [op |-> "put", key |-> k, seen |-> {v}]
    BY <1>0, <1>6, CallIsNext DEF Set, SetExpired, Goto, Hold, Call
  <2>2. Calls' = [Calls EXCEPT ![p] = [op |-> "put", key |-> k, seen |-> {v}]]
    BY <1>0, <1>6, <2>1, OneCalls DEF Set, SetExpired, Goto, Hold
  <2> QED
    BY <1>1, <1>2, <1>6, <2>2, Enters DEF Set, SetExpired
<1>7. ASSUME NEW p \in Procs, Return(p) \/ RangeYield(p)
      PROVE  Map!Next
  <2>1. CallOf(p)' = Map!Idle
    BY <1>0, <1>7, CallIsNext
       DEF Return, RangeYield, Goto, Hold, Call, NoArg
  <2>2. Calls' = [Calls EXCEPT ![p] = Map!Idle]
    BY <1>0, <1>7, <2>1, OneCalls DEF Return, RangeYield, Goto, Hold
  <2> QED
    BY <1>1, <1>7, <2>2, Leaves DEF Return, RangeYield
<1>8. ASSUME NEW p \in Procs, NEW k \in Keys, Delete(p, k)
      PROVE  Map!Next
  <2>1. Calls' = Calls
    BY <1>8, NobodyCalls DEF Delete
  <2>2. db' = [l \in Keys |-> IF l \in {k} THEN Absent ELSE db[l]]
    BY <1>0, <1>8 DEF Delete
  <2> QED
    BY <2>1, <2>2, Loses
<1>9. ASSUME NEW p \in Procs, FlushBatch(p)
      PROVE  Map!Next
  <2>1. Calls' = Calls
    BY <1>9, NobodyCalls DEF FlushBatch
  <2>2. walk[p].batch \subseteq Keys
    BY <1>0 DEF Walkings
  <2> QED
    BY <1>9, <2>1, <2>2, Loses DEF FlushBatch
<1>10. CASE Tick
  <2> DEFINE gone == {k \in Keys : db[k].deadline # 0 /\ db[k].deadline < Whole(now + 1)}
  <2>1. Calls' = Calls
    BY <1>10, NobodyCalls DEF Tick
  <2>2. db' = [k \in Keys |-> IF k \in gone THEN Absent ELSE db[k]]
    BY <1>10 DEF Tick
  <2> HIDE DEF gone
  <2>3. gone \subseteq Keys
    BY DEF gone
  <2> QED
    BY <2>1, <2>2, <2>3, Loses
<1>11. ASSUME NEW p \in Procs, Pttl(p) \/ Stamp(p)
       PROVE  Map!Next
  <2>1. /\ arg'[p].op = arg[p].op /\ arg'[p].key = arg[p].key
        /\ arg'[p].val = arg[p].val
        /\ pc[p] # "yield" /\ pc'[p] # "yield" /\ db' = db
        /\ \A q \in Procs \ {p} : arg'[q] = arg[q] /\ pc'[q] = pc[q]
    <3>1. PICK ms, exp, late : arg' = [arg EXCEPT ![p] =
            [arg[p] EXCEPT !.ms = ms, !.exp = exp, !.late = late]]
      <4>1. CASE Pttl(p)
        <5>1. PICK ms : arg' = [arg EXCEPT ![p] =
                          [arg[p] EXCEPT !.ms = ms, !.late = @ - now]]
          BY <4>1, Zenon DEF Pttl, Hold
        <5>2. [arg[p] EXCEPT !.ms = ms, !.late = @ - now] =
                [arg[p] EXCEPT !.ms = ms, !.exp = arg[p].exp, !.late = arg[p].late - now]
          BY <1>0 DEF Arguments
        <5> QED
          BY <5>1, <5>2
      <4>2. CASE Stamp(p)
        <5>1. PICK exp : arg' = [arg EXCEPT ![p] =
                           [arg[p] EXCEPT !.exp = exp, !.late = @ + now]]
          BY <4>2, Zenon DEF Stamp, Hold
        <5>2. [arg[p] EXCEPT !.exp = exp, !.late = @ + now] =
                [arg[p] EXCEPT !.ms = arg[p].ms, !.exp = exp, !.late = arg[p].late + now]
          BY <1>0 DEF Arguments
        <5> QED
          BY <5>1, <5>2
      <4> QED
        BY <1>11, <4>1, <4>2
    <3> QED
      BY <1>0, <1>11, <3>1 DEF Pttl, Stamp, Goto, Arguments
  <2>2. CallOf(p)' = CallOf(p)
    BY <2>1 DEF CallOf
  <2> QED
    BY <1>1, <2>1, <2>2, Idles
<1>12. ASSUME NEW p \in Procs, NEW op \in Walks, StartWalk(p, op)
       PROVE  Map!Next
  <2>1. CallOf(p)' = Map!Idle
    BY <1>0, <1>12, CallIsNext DEF StartWalk, Goto, Hold, Call, Walks
  <2>2. CallOf(p) = Map!Idle
    BY <1>2, <1>12 DEF StartWalk, Calls
  <2> QED
    BY <1>0, <1>1, <1>12, <2>1, <2>2, Idles DEF StartWalk, Goto, Hold
<1>13. ASSUME NEW p \in Procs,
              \/ SendFails(p) \/ Scan(p) \/ BatchOver(p) \/ CountBatch(p)
              \/ Break(p) \/ \E k \in Keys : YieldKey(p, k) \/ RangeSkip(p, k)
       PROVE  Map!Next
  <2>1. /\ db' = db /\ arg' = arg
        /\ \A q \in Procs : pc'[q] = "yield" <=> pc[q] = "yield"
    BY <1>0, <1>13 DEF SendFails, Scan, BatchOver, CountBatch, Break, YieldKey,
                       RangeSkip, InBatch, Goto
  <2>2. Calls' = Calls
    BY <2>1, NobodyCalls
  <2> QED
    BY <1>1, <2>1, <2>2 DEF Map!Next, Map!vars, Calls
<1>14. CASE UNCHANGED vars
  <2>1. db' = db /\ arg' = arg /\ pc' = pc
    BY <1>14 DEF vars
  <2>2. Calls' = Calls
    BY <2>1, NobodyCalls
  <2> QED
    BY <1>1, <2>1, <2>2 DEF Map!Next, Map!vars, Calls
<1> QED
  BY <1>4, <1>5, <1>6, <1>7, <1>8, <1>9, <1>10, <1>11, <1>12, <1>13, <1>14,
     SendWrites DEF Next

\* Whatever clients, walks and the clock do, a Get or a Range returns nothing but
\* what the register of its key held, or a Set in progress wrote, while it was in
\* progress (the Store contract of store.go, as a TieredCache relies on it).
THEOREM ImplementsMap == Spec => MapImplemented
<1>1. Init => Map!Init
  <2> SUFFICES ASSUME Init PROVE Map!Init
    OBVIOUS
  <2>1. Shown \in [Keys -> Values \cup {None}]
    BY DEF Init, Shown, Live
  <2>2. \A p \in Procs : CallOf(p) = Map!Idle
    BY CallIs DEF Init, NoArg, Call
  <2> QED
    BY <2>1, <2>2 DEF Map!Init
<1>2. WalkInv /\ [Next]_vars => [Map!Next]_Map!vars
  BY StepImplements
<1> QED
  BY <1>1, <1>2, WalksAccount, PTL DEF Spec, MapImplemented, Map!Spec
=============================================================================
