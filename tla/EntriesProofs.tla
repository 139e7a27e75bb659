---------------------------- MODULE EntriesProofs ----------------------------
(***************************************************************************)
(* What gets return, for any number of keys, values, goroutines and        *)
(* entries and every capacity: values of their own key that it held, or    *)
(* was being set to, while they looked, with the exceptions Entries names. *)
(***************************************************************************)
EXTENDS Entries, TLAPS

\* Nothing is indexed and nobody holds an entry.
LEMMA Initial == Init => IInv
<1> HAVE Init
<1> USE EntriesConstants DEF Init, NoArg
<1>1. EntriesIntact /\ CarriedOK /\ Apart
  <2>1. TypeOK
    BY DEF TypeOK
  <2>2. {table[k] : k \in Keys} \ {Nil} = {}
    OBVIOUS
  <2>3. Linked
    BY <2>2 DEF Linked
  <2>4. CarriedOK /\ Apart
    BY DEF CarriedOK, Apart, Updates
  <2> QED
    BY <2>1, <2>3, <2>4 DEF EntriesIntact
<1>2. Unpublished /\ OneKey /\ IndexHoldsOwn
  BY DEF Unpublished, OneKey, IndexHoldsOwn, Filled
<1>3. Paired
  BY DEF Paired, Expiry
<1>4. Announced /\ InSight /\ GetsHeld /\ Expired /\ ExpiredServed
  BY DEF Announced, InSight, GetsHeld, Expired, ExpiredServed, Looking, Returns
<1> QED
  BY <1>1, <1>2, <1>3, <1>4 DEF IInv

-----------------------------------------------------------------------------
(* Steps of one goroutine *)

\* The other goroutines stay where they are with what they carry.
Stay(p) == \A q \in Procs \ {p} : pc'[q] = pc[q] /\ arg'[q] = arg[q]

\* Only p's record of what it may return changes.
Watches(p) == \A q \in Procs \ {p} : seen'[q] = seen[q] /\ dead'[q] = dead[q]

LEMMA GotoMeans ==
  ASSUME TypeOK, NEW p \in Procs, NEW s, NEW k, NEW e, NEW v, NEW via,
         Goto(p, s, k, e, v, via)
  PROVE  /\ Stay(p) /\ pc'[p] = s
         /\ arg'[p] = [key |-> k, ent |-> e, val |-> v, via |-> via,
                       passed |-> arg[p].passed]
BY DEF TypeOK, Goto, Stay

LEMMA IdleMeans ==
  ASSUME TypeOK, NEW p \in Procs, Idle(p)
  PROVE  Stay(p) /\ pc'[p] = "idle" /\ arg'[p] = NoArg
BY DEF TypeOK, Idle, Stay

LEMMA OverMeans ==
  ASSUME TypeOK, NEW p \in Procs, Over(p)
  PROVE  /\ Stay(p) /\ arg'[p].ent = Nil
         /\ \/ pc'[p] = "idle" /\ arg'[p].via = "none"
            \/ pc'[p] = "range" /\ arg'[p].via = "range"
<1>1. CASE arg[p].via = "range"
  <2>1. Goto(p, "range", Nil, Nil, Nil, "range")
    BY <1>1 DEF Over
  <2>2. /\ Stay(p) /\ pc'[p] = "range"
        /\ arg'[p] = [key |-> Nil, ent |-> Nil, val |-> Nil, via |-> "range",
                      passed |-> arg[p].passed]
    BY <2>1, GotoMeans
  <2> QED
    BY <2>2
<1>2. CASE arg[p].via # "range"
  BY <1>2, IdleMeans DEF Over, NoArg
<1> QED
  BY <1>1, <1>2

Steps == {"idle", "check", "value", "resurrect", "return",
          "range", "store", "expiry", "lock", "publish"}
Vias  == {"none", "index", "row", "range", "new"}

LEMMA GotoTyped ==
  ASSUME TypeOK, NEW p \in Procs, NEW s \in Steps, NEW k \in Keys \cup {Nil},
         NEW e \in Entries \cup {Nil}, NEW v \in Values \cup {Nil, Zero},
         NEW via \in Vias, Goto(p, s, k, e, v, via)
  PROVE  /\ pc' \in [Procs -> Steps]
         /\ arg' \in [Procs -> [key : Keys \cup {Nil}, ent : Entries \cup {Nil},
                                val : Values \cup {Nil, Zero}, via : Vias,
                                passed : SUBSET Timed]]
BY DEF TypeOK, Goto, Steps, Vias

LEMMA IdleTyped ==
  ASSUME TypeOK, NEW p \in Procs, Idle(p)
  PROVE  /\ pc' \in [Procs -> Steps]
         /\ arg' \in [Procs -> [key : Keys \cup {Nil}, ent : Entries \cup {Nil},
                                val : Values \cup {Nil, Zero}, via : Vias,
                                passed : SUBSET Timed]]
BY DEF TypeOK, Idle, NoArg, Steps, Vias

LEMMA OverTyped ==
  ASSUME TypeOK, NEW p \in Procs, Over(p)
  PROVE  /\ pc' \in [Procs -> Steps]
         /\ arg' \in [Procs -> [key : Keys \cup {Nil}, ent : Entries \cup {Nil},
                                val : Values \cup {Nil, Zero}, via : Vias,
                                passed : SUBSET Timed]]
BY GotoTyped, IdleTyped DEF Over, Steps, Vias

LEMMA WatchTyped ==
  ASSUME TypeOK, CarriedOK, NEW p \in Procs, NEW k \in Keys, Watch(p, k)
  PROVE  seen' \in [Procs -> SUBSET (Values \cup {Nil})] /\ dead' \in [Procs -> SUBSET Values]
<1>1. Setting(k) \subseteq Values
  BY DEF CarriedOK, Setting
<1>2. Held(k) \in Values \cup {Nil}
  BY DEF TypeOK, Held
<1>3. Passed(p) \subseteq Values
  BY EntriesConstants DEF TypeOK, Passed
<1> QED
  BY <1>1, <1>2, <1>3 DEF TypeOK, Watch

LEMMA ForgetTyped ==
  ASSUME TypeOK, NEW p \in Procs, Forget(p)
  PROVE  seen' \in [Procs -> SUBSET (Values \cup {Nil})] /\ dead' \in [Procs -> SUBSET Values]
BY DEF TypeOK, Forget

LEMMA AnnounceTyped ==
  ASSUME TypeOK, NEW v \in Values, Announce(v)
  PROVE  seen' \in [Procs -> SUBSET (Values \cup {Nil})] /\ dead' \in [Procs -> SUBSET Values]
BY DEF TypeOK, Announce

\* The shared half of the invariant is kept by p's steps that only read: p lets
\* go of its entry, keeps it, or takes the one its key leads to.
LEMMA Reading ==
  ASSUME IInv, NEW p \in Procs, Stay(p), UNCHANGED <<engine, lock, histVars>>,
         arg[p].via # "new", pc[p] # "expiry",
         arg'[p].via # "new", pc'[p] # "expiry",
         \/ arg'[p].ent = Nil
         \/ arg'[p].ent = arg[p].ent /\ arg'[p].key = arg[p].key
         \/ arg'[p].key \in Keys /\ arg'[p].ent = table[arg'[p].key]
  PROVE  Linked' /\ Apart' /\ Unpublished' /\ OneKey' /\ IndexHoldsOwn' /\ Paired'
<1> USE EntriesConstants DEF IInv, EntriesIntact, Stay, engine, histVars
<1>1. Linked' /\ Apart' /\ IndexHoldsOwn'
  BY DEF Linked, Apart, IndexHoldsOwn
<1>2. Unpublished'
  BY DEF Unpublished
<1>3. OneKey'
  BY DEF OneKey, Apart, Filled, TypeOK
<1>4. Paired'
  <2>1. \A q \in Procs : pc'[q] = "expiry" /\ arg'[q].ent \notin mixed' =>
          ent'[arg'[q].ent].val = arg'[q].val
    BY DEF Paired
  <2>2. ASSUME NEW e \in Entries \ mixed',
               NEW q \in Procs, pc[q] = "expiry", arg[q].ent = e
        PROVE  \E r \in Procs : pc'[r] = "expiry" /\ arg'[r].ent = e
    BY <2>2
  <2>3. ASSUME NEW e \in Entries \ mixed',
               NEW q \in Procs, arg[q].via = "new", pc[q] = "store",
               \A r \in Procs : arg[r].ent = e <=> r = q
        PROVE  \E r \in Procs : /\ arg'[r].via = "new" /\ pc'[r] = "store"
                                /\ \A x \in Procs : arg'[x].ent = e <=> x = r
    <3>1. q # p /\ arg[q].ent = e /\ \A k \in Keys : table[k] # e
      BY <2>3 DEF Unpublished
    <3>2. arg'[p].ent # e
      BY <2>3, <3>1
    <3> QED
      BY <2>3, <3>1, <3>2
  <2>4. \A e \in Entries \ mixed' : Expiry(ent'[e].val) = Expiry(ent[e].val)
    BY DEF Expiry
  <2> QED
    BY <2>1, <2>2, <2>3, <2>4 DEF Paired, Expiry
<1> QED
  BY <1>1, <1>2, <1>3, <1>4

\* What the invariant says of one goroutine: of what it carries, and of the get
\* it is in.
Carries(p) ==
  /\ pc[p] = "idle" => arg[p].via = "none"
  /\ pc[p] = "range" => arg[p].via = "range"
  /\ pc[p] \in {"check", "value", "resurrect", "return",
                "store", "expiry", "publish"} =>
       arg[p].ent \in Entries /\ arg[p].key \in Keys
  /\ pc[p] \in Updates =>
       arg[p].val \in Values /\ arg[p].key = KeyOf[arg[p].val]
  /\ pc[p] = "publish" => arg[p].via = "new"

Sees(p) ==
  /\ pc[p] \in Looking => \A q \in Procs :
       pc[q] \in Updates /\ arg[p].key = arg[q].key =>
         arg[q].val \in seen[p] \ dead[p]
  /\ pc[p] \in {"check", "value"} /\ arg[p].ent \notin clobbered =>
       ent[arg[p].ent].val \in seen[p]
  /\ pc[p] = "resurrect" =>
       /\ table[arg[p].key] \in Entries \ clobbered =>
            ent[table[arg[p].key]].val \in seen[p]
       /\ \A q \in Procs :
            Filled(q) /\ arg[q].key = arg[p].key /\ arg[q].ent \notin clobbered =>
              ent[arg[q].ent].val \in seen[p]
  /\ Returns(p) =>
       \/ arg[p].val \in seen[p] \/ arg[p].ent \in clobbered
       \/ arg[p].val = Zero /\ arg[p].via = "row"
  /\ pc[p] \in {"check", "value"} => dead[p] \subseteq Passed(p)
  /\ pc[p] = "value" /\ arg[p].ent \notin clobbered \cup mixed =>
       ent[arg[p].ent].val \notin dead[p]
  /\ Returns(p) /\ arg[p].val \in dead[p] =>
       arg[p].via = "row" \/ arg[p].ent \in clobbered \cup mixed

LEMMA PerGoroutine ==
  ASSUME IInv, NEW p \in Procs
  PROVE  Carries(p) /\ Sees(p)
BY DEF IInv, CarriedOK, Carries, Announced, InSight, GetsHeld, Expired,
       ExpiredServed, Sees

LEMMA EveryGoroutine ==
  ASSUME \A p \in Procs : Carries(p)' /\ Sees(p)'
  PROVE  /\ CarriedOK' /\ Announced' /\ InSight' /\ GetsHeld'
         /\ Expired' /\ ExpiredServed'
<1>1. CarriedOK'
  BY DEF CarriedOK, Carries
<1>2. Announced'
  BY DEF Announced, Sees
<1>3. InSight'
  BY DEF InSight, Sees
<1>4. GetsHeld' /\ Expired' /\ ExpiredServed'
  BY DEF GetsHeld, Expired, ExpiredServed, Sees
<1> QED
  BY <1>1, <1>2, <1>3, <1>4

\* A step of a get keeps the invariant if p has what its next step is to have.
LEMMA Getting ==
  ASSUME IInv, NEW p \in Procs, Stay(p), Watches(p),
         UNCHANGED <<engine, lock, late, histVars>>,
         TypeOK', Carries(p)', Sees(p)',
         arg[p].via # "new", pc[p] \notin Updates,
         arg'[p].via # "new", pc'[p] \notin Updates,
         \/ arg'[p].ent = Nil
         \/ arg'[p].ent = arg[p].ent /\ arg'[p].key = arg[p].key
         \/ arg'[p].key \in Keys /\ arg'[p].ent = table[arg'[p].key]
  PROVE  IInv'
<1>1. Linked' /\ Apart' /\ Unpublished' /\ OneKey' /\ IndexHoldsOwn' /\ Paired'
  BY Reading DEF Updates
<1>2. ASSUME NEW q \in Procs \ {p}
      PROVE  Carries(q)' /\ Sees(q)'
  <2>1. Carries(q) /\ Sees(q)
    BY PerGoroutine
  <2>2. Carries(q)'
    BY <2>1 DEF Carries, Stay
  <2>3. Sees(q)'
    BY <2>1 DEF Sees, Stay, Watches, Filled, Returns, Passed, engine, histVars
  <2> QED
    BY <2>2, <2>3
<1>3. CarriedOK' /\ Announced' /\ InSight' /\ GetsHeld' /\ Expired' /\ ExpiredServed'
  BY <1>2, EveryGoroutine
<1> QED
  BY <1>1, <1>3 DEF IInv, EntriesIntact

-----------------------------------------------------------------------------
(* get and Range *)

LEMMA WatchMeans ==
  ASSUME TypeOK, NEW p \in Procs, NEW k \in Keys, Watch(p, k)
  PROVE  /\ Watches(p)
         /\ seen'[p] = {Held(k)} \cup Setting(k)
         /\ dead'[p] = Passed(p) \ Setting(k)
BY DEF TypeOK, Watch, Watches

\* A get that has found the entry of its key begins with all it may return in
\* sight: what the key holds and is being set to.
LEMMA LookupKeeps ==
  ASSUME IInv, NEW p \in Procs, NEW k \in Keys, table[k] # Nil,
         NEW s \in {"check", "resurrect"}, NEW via \in {"index", "row", "range"},
         Goto(p, s, k, table[k], Nil, via), Watch(p, k),
         pc[p] \in {"idle", "range"}, via = "range" <=> pc[p] = "range",
         UNCHANGED <<engine, lock, late, histVars>>
  PROVE  IInv'
<1> USE EntriesConstants
<1>1. TypeOK /\ CarriedOK /\ Carries(p) /\ Unpublished /\ table[k] \in Entries
  BY PerGoroutine DEF IInv, EntriesIntact, TypeOK
<1>2. /\ Stay(p) /\ pc'[p] = s
      /\ arg'[p] = [key |-> k, ent |-> table[k], val |-> Nil, via |-> via,
                    passed |-> arg[p].passed]
  BY <1>1, GotoMeans
<1>3. Watches(p) /\ seen'[p] = {Held(k)} \cup Setting(k)
      /\ dead'[p] = Passed(p) \ Setting(k)
  BY <1>1, WatchMeans
<1>4. TypeOK'
  BY <1>1, GotoTyped, WatchTyped DEF TypeOK, Steps, Vias, engine, histVars
<1>5. Carries(p)'
  BY <1>1, <1>2 DEF Carries, Updates
<1>6. Sees(p)'
  <2>1. \A q \in Procs : pc'[q] \in Updates /\ arg'[q].key = k =>
          arg'[q].val \in Setting(k)
    BY <1>2 DEF Setting, Updates, Stay
  <2>2. ent[table[k]].val \in seen'[p]
    BY <1>3 DEF Held
  <2>3. \A q \in Procs : Filled(q)' => arg'[q].key # k
    BY <1>1, <1>2 DEF Filled, Unpublished, Stay
  <2>4. dead'[p] \subseteq Passed(p)'
    BY <1>1, <1>2, <1>3 DEF Passed, Carries
  <2> QED
    BY <1>2, <1>3, <2>1, <2>2, <2>3, <2>4 DEF Sees, Returns, engine, histVars
<1>7. arg[p].via # "new" /\ pc[p] \notin Updates /\ pc'[p] \notin Updates
  BY <1>1, <1>2 DEF Carries, Updates
<1> QED
  BY <1>2, <1>3, <1>4, <1>5, <1>6, <1>7, Getting

\* The end of a get or of an iteration: p holds nothing and looks for nothing.
LEMMA LetGo ==
  ASSUME IInv, NEW p \in Procs, Over(p) \/ Idle(p), Forget(p) \/ UNCHANGED getVars,
         arg[p].via # "new", pc[p] \notin Updates,
         UNCHANGED <<engine, lock, late, histVars>>
  PROVE  IInv'
<1> USE EntriesConstants
<1>1. TypeOK
  BY DEF IInv, EntriesIntact
<1>2. /\ Stay(p) /\ arg'[p].ent = Nil
      /\ \/ pc'[p] = "idle" /\ arg'[p].via = "none"
         \/ pc'[p] = "range" /\ arg'[p].via = "range"
  BY <1>1, OverMeans, IdleMeans DEF NoArg
<1>3. Watches(p)
  BY <1>1 DEF TypeOK, Forget, Watches, getVars
<1>4. TypeOK'
  BY <1>1, OverTyped, IdleTyped, ForgetTyped
     DEF TypeOK, Steps, Vias, engine, getVars, histVars
<1>5. Carries(p)' /\ Sees(p)'
  BY <1>2 DEF Carries, Sees, Updates, Looking, Returns
<1>6. pc'[p] \notin Updates
  BY <1>2 DEF Updates
<1> QED
  BY <1>2, <1>3, <1>4, <1>5, <1>6, Getting

\* What is returned has been in sight, and its expiry has been looked at.
LEMMA GetKeeps ==
  ASSUME IInv, NEW p \in Procs,
         CheckFresh(p) \/ LoadValue(p) \/ ResurrectRaced(p)
  PROVE  IInv'
<1> USE EntriesConstants
<1>1. TypeOK /\ Carries(p) /\ Sees(p) /\ Apart /\ OneKey /\ Paired /\ Unpublished
  BY PerGoroutine DEF IInv, EntriesIntact
<1>2. UNCHANGED <<engine, lock, late, histVars>> /\ Watches(p) /\ UNCHANGED getVars
      /\ pc[p] \in {"check", "value", "resurrect"}
      /\ arg[p].key \in Keys /\ arg[p].ent \in Entries
  BY <1>1 DEF CheckFresh, LoadValue, ResurrectRaced, Watches, getVars, Carries
<1>3. arg[p].via # "new" /\ pc[p] \notin Updates
  BY <1>1, <1>2 DEF Unpublished, Updates
<1>4. CASE CheckFresh(p)
  <2>1. /\ Stay(p) /\ pc'[p] = "value"
        /\ arg'[p] = [key |-> arg[p].key, ent |-> arg[p].ent, val |-> arg[p].val,
                      via |-> arg[p].via, passed |-> arg[p].passed]
    BY <1>1, <1>4, GotoMeans DEF CheckFresh, Step
  <2>2. TypeOK'
    <3>1. arg[p].val \in Values \cup {Nil, Zero} /\ arg[p].via \in Vias
      BY <1>1 DEF TypeOK, Vias
    <3> QED
      BY <1>1, <1>2, <1>4, <3>1, GotoTyped
         DEF CheckFresh, Step, TypeOK, Steps, Vias, engine, getVars, histVars
  <2>3. Carries(p)'
    BY <1>2, <2>1 DEF Carries, Updates
  <2>4. ASSUME arg[p].ent \notin clobbered \cup mixed
        PROVE  ent[arg[p].ent].val \notin dead[p]
    <3> DEFINE e == arg[p].ent
    <3>1. SUFFICES ASSUME ent[e].val \in dead[p]
                   PROVE  FALSE
      OBVIOUS
    <3>2. ent[e].val \in Passed(p) /\ ent[e].exp \notin Passed(p)
      BY <1>1, <1>4, <3>1 DEF Sees, CheckFresh
    <3>3. Expiry(ent[e].val) = ent[e].val
      BY <1>1, <3>2 DEF Expiry, Passed, TypeOK
    <3>4. PICK q \in Procs : pc[q] = "expiry" /\ arg[q].ent = e
      BY <1>1, <1>2, <1>3, <1>4, <2>4, <3>2, <3>3 DEF Paired, CheckFresh
    <3>5. ent[e].val = arg[q].val /\ arg[q].key = arg[p].key
      BY <1>1, <1>2, <2>4, <3>4 DEF Paired, OneKey
    <3> QED
      BY <1>1, <1>4, <3>1, <3>4, <3>5 DEF Sees, CheckFresh, Looking, Updates
  <2>5. \A q \in Procs : pc'[q] \in Updates => pc[q] \in Updates /\ arg'[q] = arg[q]
    BY <2>1 DEF Stay, Updates
  <2>6. Passed(p)' = Passed(p)
    BY <1>2, <2>1 DEF Passed
  <2>7. Sees(p)'
    BY <1>1, <1>2, <1>4, <2>1, <2>4, <2>5, <2>6
       DEF Sees, Returns, Looking, CheckFresh, engine, getVars, histVars
  <2> QED
    BY <1>2, <1>3, <2>1, <2>2, <2>3, <2>7, Getting DEF Updates
<1>5. CASE LoadValue(p)
  <2>1. /\ Stay(p) /\ pc'[p] = "return"
        /\ arg'[p] = [key |-> arg[p].key, ent |-> arg[p].ent,
                      val |-> ent[arg[p].ent].val,
                      via |-> arg[p].via, passed |-> arg[p].passed]
    BY <1>1, <1>5, GotoMeans DEF LoadValue
  <2>2. TypeOK'
    <3>1. ent[arg[p].ent].val \in Values \cup {Nil, Zero} /\ arg[p].via \in Vias
      BY <1>1, <1>2 DEF TypeOK, Vias
    <3> QED
      BY <1>1, <1>2, <1>5, <3>1, GotoTyped
         DEF LoadValue, TypeOK, Steps, Vias, engine, getVars, histVars
  <2>3. Carries(p)'
    BY <1>2, <2>1 DEF Carries, Updates
  <2>4. Sees(p)'
    BY <1>1, <1>2, <1>5, <2>1
       DEF Sees, Returns, Looking, LoadValue, engine, getVars, histVars
  <2> QED
    BY <1>2, <1>3, <2>1, <2>2, <2>3, <2>4, Getting DEF Updates
<1>6. CASE ResurrectRaced(p)
  <2>1. /\ Stay(p) /\ pc'[p] = "return"
        /\ arg'[p] = [key |-> arg[p].key, ent |-> table[arg[p].key],
                      val |-> Zero, via |-> "row", passed |-> arg[p].passed]
    BY <1>1, <1>6, GotoMeans DEF ResurrectRaced
  <2>2. TypeOK'
    <3>1. table[arg[p].key] \in Entries
      BY <1>1, <1>2, <1>6 DEF TypeOK, ResurrectRaced
    <3> QED
      BY <1>1, <1>2, <1>6, <3>1, GotoTyped
         DEF ResurrectRaced, TypeOK, Steps, Vias, engine, getVars, histVars
  <2>3. Carries(p)' /\ Sees(p)'
    BY <1>1, <1>2, <1>6, <2>1
       DEF Carries, Sees, Updates, Looking, Returns, ResurrectRaced, TypeOK
  <2> QED
    BY <1>2, <1>3, <2>1, <2>2, <2>3, Getting DEF Updates
<1> QED
  BY <1>4, <1>5, <1>6

-----------------------------------------------------------------------------
(* set *)

LEMMA AnnounceMeans ==
  ASSUME TypeOK, NEW v \in Values, Announce(v), NEW q \in Procs
  PROVE  IF pc[q] \in Looking /\ arg[q].key = KeyOf[v]
         THEN seen'[q] = seen[q] \cup {v} /\ dead'[q] = dead[q] \ {v}
         ELSE seen'[q] = seen[q] /\ dead'[q] = dead[q]
BY DEF TypeOK, Announce

\* A Set that begins tells the gets of its key what they may see from now on.
LEMMA BeginSetKeeps ==
  ASSUME IInv, NEW p \in Procs, NEW v \in Values, SetHit(p, v) \/ SetMiss(p, v)
  PROVE  IInv'
<1> USE EntriesConstants
<1>1. TypeOK /\ Carries(p) /\ KeyOf[v] \in Keys
  BY PerGoroutine DEF IInv, EntriesIntact
<1>2. /\ UNCHANGED <<engine, lock, late, histVars>> /\ Announce(v)
      /\ pc[p] = "idle" /\ arg[p].via = "none"
  BY <1>1 DEF SetHit, SetMiss, Carries
<1>3. PICK e \in Entries \cup {Nil}, s \in {"store", "lock"} :
        /\ Goto(p, s, KeyOf[v], e, v, "none")
        /\ e = Nil \/ e = table[KeyOf[v]]
        /\ s = "store" => e \in Entries
  BY <1>1 DEF SetHit, SetMiss, TypeOK
<1>4. /\ Stay(p) /\ pc'[p] = s
      /\ arg'[p] = [key |-> KeyOf[v], ent |-> e, val |-> v, via |-> "none",
                    passed |-> arg[p].passed]
  BY <1>1, <1>3, GotoMeans
<1>5. TypeOK'
  BY <1>1, <1>2, <1>3, GotoTyped, AnnounceTyped
     DEF TypeOK, Steps, Vias, engine, histVars
<1>6. Linked' /\ Apart' /\ Unpublished' /\ OneKey' /\ IndexHoldsOwn' /\ Paired'
  BY <1>1, <1>2, <1>3, <1>4, Reading
<1>7. ASSUME NEW q \in Procs
      PROVE  Carries(q)' /\ Sees(q)'
  <2>1. CASE q = p
    BY <1>1, <1>3, <1>4, <2>1 DEF Carries, Sees, Updates, Looking, Returns
  <2>2. CASE q # p
    <3>1. Carries(q) /\ Sees(q) /\ pc'[q] = pc[q] /\ arg'[q] = arg[q]
      BY <1>4, <2>2, PerGoroutine DEF Stay
    <3>2. Carries(q)'
      BY <3>1 DEF Carries
    <3>3. Passed(q)' = Passed(q)
      BY <1>2, <3>1 DEF Passed
    <3>4. /\ seen[q] \subseteq seen'[q] /\ dead'[q] \subseteq dead[q]
          /\ pc[q] \in Looking /\ arg[q].key = KeyOf[v] => v \in seen'[q] \ dead'[q]
      BY <1>1, <1>2, AnnounceMeans
    <3>5. \A r \in Procs : pc'[r] \in Updates =>
            \/ arg'[r].key = KeyOf[v] /\ arg'[r].val = v
            \/ pc[r] \in Updates /\ arg'[r] = arg[r]
      BY <1>4 DEF Stay
    <3>6. \A r \in Procs : Filled(r)' => Filled(r) /\ arg'[r] = arg[r]
      BY <1>4 DEF Stay, Filled
    <3>7. pc[q] \in Looking => \A r \in Procs :
            pc'[r] \in Updates /\ arg'[q].key = arg'[r].key =>
              arg'[r].val \in seen'[q] \ dead'[q]
      BY <3>1, <3>4, <3>5 DEF Sees
    <3> QED
      BY <1>2, <3>1, <3>2, <3>3, <3>4, <3>6, <3>7
         DEF Sees, Returns, engine, histVars
  <2> QED
    BY <2>1, <2>2
<1> QED
  BY <1>5, <1>6, <1>7, EveryGoroutine DEF IInv, EntriesIntact

\* The key is there when the mutex is: the update goes on under it.
LEMMA SetRacedKeeps ==
  ASSUME IInv, NEW p \in Procs, SetRaced(p)
  PROVE  IInv'
<1> USE EntriesConstants
<1>1. TypeOK /\ Carries(p)
  BY PerGoroutine DEF IInv, EntriesIntact
<1>2. /\ UNCHANGED <<engine, late, getVars, histVars>>
      /\ pc[p] = "lock" /\ lock = Nil /\ lock' = p
      /\ arg[p].val \in Values /\ arg[p].key = KeyOf[arg[p].val]
      /\ arg[p].key \in Keys /\ table[arg[p].key] \in Entries
  BY <1>1 DEF SetRaced, Carries, Updates, TypeOK
<1>3. /\ Stay(p) /\ pc'[p] = "store"
      /\ arg'[p] = [key |-> arg[p].key, ent |-> table[arg[p].key], val |-> arg[p].val,
                    via |-> "none", passed |-> arg[p].passed]
  BY <1>1, GotoMeans DEF SetRaced
<1>4. TypeOK'
  BY <1>1, <1>2, GotoTyped
     DEF SetRaced, TypeOK, Steps, Vias, engine, getVars, histVars
<1>5. \A q \in Procs : arg[q].via # "new"
  BY <1>2 DEF IInv, Unpublished
<1>6. Linked' /\ Apart' /\ IndexHoldsOwn'
  BY <1>2 DEF IInv, EntriesIntact, Linked, Apart, IndexHoldsOwn, engine, histVars
<1>7. Unpublished' /\ OneKey'
  BY <1>2, <1>3, <1>5
     DEF IInv, Unpublished, OneKey, Apart, Filled, Stay, engine, histVars
<1>8. Paired'
  <2>1. \A q \in Procs : pc'[q] = "expiry" <=> pc[q] = "expiry"
    BY <1>2, <1>3 DEF Stay
  <2>2. \A q \in Procs : pc[q] = "expiry" => arg'[q] = arg[q]
    BY <1>2, <1>3 DEF Stay
  <2>3. ent' = ent /\ mixed' = mixed /\ Paired
    BY <1>2 DEF IInv, engine, histVars
  <2>4. ASSUME NEW f \in Entries \ mixed
        PROVE  \/ ent[f].exp = Expiry(ent[f].val)
               \/ \E q \in Procs : pc'[q] = "expiry" /\ arg'[q].ent = f
    BY <1>5, <2>1, <2>2, <2>3 DEF Paired
  <2> QED
    BY <2>1, <2>2, <2>3, <2>4 DEF Paired, Expiry
<1>9. ASSUME NEW q \in Procs
      PROVE  Carries(q)' /\ Sees(q)'
  <2>1. CASE q = p
    BY <1>2, <1>3, <2>1 DEF Carries, Sees, Updates, Looking, Returns
  <2>2. CASE q # p
    <3>1. Carries(q) /\ Sees(q) /\ pc'[q] = pc[q] /\ arg'[q] = arg[q]
      BY <1>3, <2>2, PerGoroutine DEF Stay
    <3>2. \A r \in Procs : pc'[r] \in Updates =>
            pc[r] \in Updates /\ arg'[r].key = arg[r].key /\ arg'[r].val = arg[r].val
      BY <1>2, <1>3 DEF Stay, Updates
    <3>3. \A r \in Procs : ~Filled(r)'
      BY <1>3, <1>5 DEF Stay, Filled
    <3> QED
      BY <1>2, <3>1, <3>2, <3>3
         DEF Carries, Sees, Returns, Passed, engine, getVars, histVars
  <2> QED
    BY <2>1, <2>2
<1> QED
  BY <1>4, <1>6, <1>7, <1>8, <1>9, EveryGoroutine DEF IInv, EntriesIntact

\* Whoever holds the entry that p writes, holds it for the key of p's value,
\* and so does the index, unless the entry was recycled for another key.
LEMMA StoreValueKeeps ==
  ASSUME IInv, NEW p \in Procs, StoreValue(p)
  PROVE  IInv'
<1> USE EntriesConstants
<1> DEFINE e == arg[p].ent
           v == arg[p].val
<1>1. /\ TypeOK /\ Linked /\ Apart /\ Unpublished /\ OneKey /\ IndexHoldsOwn
      /\ Paired /\ Carries(p)
  BY PerGoroutine DEF IInv, EntriesIntact
<1>2. /\ UNCHANGED <<table, queued, row, free, lock, late, getVars, clobbered, rowDeleted>>
      /\ pc[p] = "store" /\ e \in Entries /\ v \in Values
      /\ arg[p].key \in Keys /\ arg[p].key = KeyOf[v]
      /\ mixed' \in {mixed, mixed \cup {e}}
      /\ ent' = [ent EXCEPT ![e].val = v]
  BY <1>1 DEF StoreValue, Carries, Updates
<1>3. /\ Stay(p) /\ pc'[p] = "expiry"
      /\ arg'[p] = [key |-> arg[p].key, ent |-> e, val |-> v,
                    via |-> arg[p].via, passed |-> arg[p].passed]
  BY <1>1, GotoMeans DEF StoreValue, Step
<1>4. \A q \in Procs : /\ arg'[q].key = arg[q].key /\ arg'[q].ent = arg[q].ent
                       /\ arg'[q].val = arg[q].val /\ arg'[q].via = arg[q].via
                       /\ Passed(q)' = Passed(q)
  BY <1>2, <1>3 DEF Stay, Passed
<1>5. \A f \in Entries : /\ ent'[f].key = ent[f].key /\ ent'[f].exp = ent[f].exp
                         /\ ent'[f].val = IF f = e THEN v ELSE ent[f].val
  BY <1>1, <1>2 DEF TypeOK
<1>6. TypeOK'
  <2>1. ent' \in [Entries -> [key : Keys \cup {Nil}, val : Values \cup {Nil},
                              exp : Timed \cup {Nil}]]
    BY <1>1, <1>2 DEF TypeOK
  <2>2. arg[p].via \in Vias
    BY <1>1 DEF TypeOK, Vias
  <2> QED
    BY <1>1, <1>2, <2>1, <2>2, GotoTyped
       DEF StoreValue, Step, TypeOK, Steps, Vias, getVars
<1>7. \A k \in Keys : table[k] = e /\ e \notin clobbered => k = arg[p].key
  BY <1>1, <1>2 DEF OneKey, Apart
<1>8. \A q \in Procs : arg[q].ent = e /\ e \notin clobbered => arg[q].key = arg[p].key
  BY <1>1, <1>2 DEF OneKey
<1>9. Linked' /\ Apart' /\ IndexHoldsOwn'
  <2>1. \A k \in Keys : table[k] # Nil => table[k] \in Entries
    BY <1>1 DEF TypeOK
  <2> QED
    BY <1>1, <1>2, <1>5, <1>7, <2>1 DEF Linked, Apart, IndexHoldsOwn
<1>10. Unpublished'
  BY <1>1, <1>2, <1>3, <1>4, <1>5 DEF Unpublished, Stay, TypeOK, Carries, CarriedOK
<1>11. OneKey'
  <2>1. \A q \in Procs : arg'[q].ent \in Entries \ clobbered' =>
          ent'[arg'[q].ent].key = arg'[q].key
    BY <1>1, <1>2, <1>4, <1>5 DEF OneKey
  <2>2. ASSUME NEW q \in Procs, Filled(q)', arg'[q].ent \notin clobbered'
        PROVE  KeyOf[ent'[arg'[q].ent].val] = arg'[q].key
    <3>1. arg[q].ent \in Entries
      BY <1>3, <1>4, <2>2, <1>2, PerGoroutine, <1>1
         DEF Filled, Carries, Stay, Unpublished
    <3>2. arg[q].ent = e => KeyOf[v] = arg[q].key
      BY <1>2, <1>4, <1>8, <2>2
    <3>3. q # p => Filled(q)
      BY <1>3, <2>2 DEF Stay, Filled
    <3> QED
      BY <1>1, <1>2, <1>4, <1>5, <2>2, <3>1, <3>2, <3>3 DEF OneKey
  <2> QED
    BY <2>1, <2>2 DEF OneKey
<1>12. Paired'
  <2>1. ASSUME NEW q \in Procs, pc'[q] = "expiry", arg'[q].ent \notin mixed'
        PROVE  ent'[arg'[q].ent].val = arg'[q].val
    <3>1. CASE q = p
      BY <1>2, <1>3, <1>5, <3>1
    <3>2. CASE q # p
      <4>1. pc[q] = "expiry" /\ arg[q].ent \notin mixed /\ arg[q].ent \in Entries
        BY <1>2, <1>3, <1>4, <2>1, <3>2, PerGoroutine DEF Stay, Carries
      <4>2. arg[q].ent # e
        BY <1>2, <1>4, <2>1, <4>1 DEF StoreValue, Updating
      <4> QED
        BY <1>1, <1>4, <1>5, <4>1, <4>2 DEF Paired
    <3> QED
      BY <3>1, <3>2
  <2>2. ASSUME NEW f \in Entries \ mixed', f # e
        PROVE  \/ ent'[f].exp = Expiry(ent'[f].val)
               \/ \E q \in Procs : pc'[q] = "expiry" /\ arg'[q].ent = f
               \/ \E q \in Procs : /\ arg'[q].via = "new" /\ pc'[q] = "store"
                                   /\ \A r \in Procs : arg'[r].ent = f <=> r = q
    <3>1. f \notin mixed /\ ent'[f] .exp = ent[f].exp /\ ent'[f].val = ent[f].val
      BY <1>2, <1>5, <2>2
    <3>2. CASE ent[f].exp = Expiry(ent[f].val)
      BY <3>1, <3>2 DEF Expiry
    <3>3. ASSUME NEW q \in Procs, pc[q] = "expiry", arg[q].ent = f
          PROVE  pc'[q] = "expiry" /\ arg'[q].ent = f
      BY <1>2, <1>3, <1>4, <3>3 DEF Stay
    <3>4. ASSUME NEW q \in Procs, arg[q].via = "new", pc[q] = "store",
                 \A r \in Procs : arg[r].ent = f <=> r = q
          PROVE  /\ arg'[q].via = "new" /\ pc'[q] = "store"
                 /\ \A r \in Procs : arg'[r].ent = f <=> r = q
      BY <1>3, <1>4, <2>2, <3>4 DEF Stay
    <3> QED
      BY <1>1, <3>1, <3>2, <3>3, <3>4 DEF Paired
  <2>3. \E q \in Procs : pc'[q] = "expiry" /\ arg'[q].ent = e
    BY <1>3
  <2> QED
    BY <2>1, <2>2, <2>3 DEF Paired, Expiry
<1>13. ASSUME NEW q \in Procs
       PROVE  Carries(q)' /\ Sees(q)'
  <2>1. CASE q = p
    BY <1>2, <1>3, <2>1 DEF Carries, Sees, Updates, Looking, Returns
  <2>2. CASE q # p
    <3>1. Carries(q) /\ Sees(q) /\ pc'[q] = pc[q] /\ arg'[q] = arg[q]
      BY <1>3, <2>2, PerGoroutine DEF Stay
    <3>2. \A r \in Procs : pc'[r] \in Updates => pc[r] \in Updates
      BY <1>2, <1>3 DEF Stay, Updates
    <3>3. pc[q] \in Looking /\ arg[q].key = arg[p].key => v \in seen[q] \ dead[q]
      BY <1>2, <3>1 DEF Sees, Updates
    <3>4. pc[q] \in {"check", "value"} => arg[q].ent \in Entries
      BY <3>1 DEF Carries
    <3>5. pc[q] = "resurrect" => arg[q].key \in Keys
      BY <3>1 DEF Carries
    <3>6. ASSUME pc[q] = "resurrect", NEW r \in Procs, Filled(r)',
                 arg[r].key = arg[q].key, arg[r].ent \notin clobbered
          PROVE  ent'[arg[r].ent].val \in seen[q]
      <4>1. arg[r].ent \in Entries
        BY <1>1, <1>4, <3>6, PerGoroutine DEF Filled, Carries, Unpublished
      <4>2. r # p => Filled(r)
        BY <1>3, <3>6 DEF Stay, Filled
      <4> QED
        BY <1>5, <1>8, <3>1, <3>3, <3>6, <4>1, <4>2 DEF Sees, Looking
    <3>7. Carries(q)'
      BY <3>1 DEF Carries
    <3>8. UNCHANGED <<table, clobbered, seen, dead>> /\ mixed \subseteq mixed'
      BY <1>2 DEF getVars
    <3>9. pc[q] \in Looking => \A r \in Procs :
            pc'[r] \in Updates /\ arg'[q].key = arg'[r].key =>
              arg'[r].val \in seen'[q] \ dead'[q]
      BY <1>4, <3>1, <3>2, <3>8 DEF Sees
    <3>10. /\ pc[q] \in {"check", "value"} /\ arg[q].ent \notin clobbered =>
                ent'[arg[q].ent].val \in seen[q]
           /\ pc[q] = "value" /\ arg[q].ent \notin clobbered \cup mixed' =>
                ent'[arg[q].ent].val \notin dead[q]
      BY <1>5, <1>8, <3>1, <3>3, <3>4, <3>8 DEF Sees, Looking
    <3>11. pc[q] = "resurrect" /\ table[arg[q].key] \in Entries \ clobbered =>
              ent'[table[arg[q].key]].val \in seen[q]
      BY <1>5, <1>7, <3>1, <3>3, <3>5 DEF Sees, Looking
    <3> QED
      BY <1>4, <3>1, <3>6, <3>7, <3>8, <3>9, <3>10, <3>11 DEF Sees, Returns
  <2> QED
    BY <2>1, <2>2
<1> QED
  BY <1>6, <1>9, <1>10, <1>11, <1>12, <1>13, EveryGoroutine DEF IInv, EntriesIntact

\* The expiry follows its value; an update is over, an insert goes on to publish.
LEMMA StoreExpiryKeeps ==
  ASSUME IInv, NEW p \in Procs, StoreExpiry(p)
  PROVE  IInv'
<1> USE EntriesConstants
<1> DEFINE e == arg[p].ent
           x == Expiry(arg[p].val)
<1>1. /\ TypeOK /\ Linked /\ Apart /\ Unpublished /\ OneKey /\ IndexHoldsOwn
      /\ Paired /\ Carries(p)
  BY PerGoroutine DEF IInv, EntriesIntact
<1>2. /\ UNCHANGED <<table, queued, row, free, late, getVars, histVars>>
      /\ pc[p] = "expiry" /\ e \in Entries /\ arg[p].val \in Values
      /\ arg[p].key \in Keys /\ arg[p].key = KeyOf[arg[p].val]
      /\ ent' = [ent EXCEPT ![e].exp = x]
  BY <1>1 DEF StoreExpiry, Carries, Updates
<1>3. /\ Stay(p)
      /\ \/ /\ arg[p].via = "new" /\ lock' = lock /\ pc'[p] = "publish"
            /\ arg'[p] = [key |-> arg[p].key, ent |-> e, val |-> arg[p].val,
                          via |-> arg[p].via, passed |-> arg[p].passed]
         \/ /\ arg[p].via # "new" /\ lock' = (IF lock = p THEN Nil ELSE lock)
            /\ pc'[p] = "idle" /\ arg'[p] = NoArg
  <2>1. CASE arg[p].via = "new"
    <3>1. Goto(p, "publish", arg[p].key, e, arg[p].val, arg[p].via) /\ lock' = lock
      BY <2>1 DEF StoreExpiry, Step
    <3> QED
      BY <1>1, <2>1, <3>1, GotoMeans
  <2>2. CASE arg[p].via # "new"
    BY <1>1, <2>2, IdleMeans DEF StoreExpiry
  <2> QED
    BY <2>1, <2>2
<1>4. \A f \in Entries : /\ ent'[f].key = ent[f].key /\ ent'[f].val = ent[f].val
                         /\ ent'[f].exp = IF f = e THEN x ELSE ent[f].exp
  BY <1>1, <1>2 DEF TypeOK
<1>5. TypeOK'
  <2>1. x \in Timed \cup {Nil}
    BY DEF Expiry
  <2>2. ent' \in [Entries -> [key : Keys \cup {Nil}, val : Values \cup {Nil},
                              exp : Timed \cup {Nil}]]
    BY <1>1, <1>2, <2>1 DEF TypeOK
  <2>3. lock' \in Procs \cup {Nil}
    BY <1>1, <1>3 DEF TypeOK
  <2>4. /\ pc' \in [Procs -> Steps]
        /\ arg' \in [Procs -> [key : Keys \cup {Nil}, ent : Entries \cup {Nil},
                               val : Values \cup {Nil, Zero}, via : Vias,
                               passed : SUBSET Timed]]
    <3>1. CASE arg[p].via = "new"
      <4>1. Goto(p, "publish", arg[p].key, e, arg[p].val, "new")
        BY <3>1 DEF StoreExpiry, Step
      <4> QED
        BY <1>1, <1>2, <4>1, GotoTyped DEF Steps, Vias
    <3>2. CASE arg[p].via # "new"
      BY <1>1, <3>2, IdleTyped DEF StoreExpiry
    <3> QED
      BY <3>1, <3>2
  <2> QED
    BY <1>1, <1>2, <2>2, <2>3, <2>4 DEF TypeOK, Steps, Vias, getVars, histVars
<1>6. Linked' /\ Apart' /\ IndexHoldsOwn'
  <2>1. \A k \in Keys : table[k] # Nil => table[k] \in Entries
    BY <1>1 DEF TypeOK
  <2> QED
    BY <1>1, <1>2, <1>4, <2>1 DEF Linked, Apart, IndexHoldsOwn, histVars
<1>7. \A q \in Procs : /\ arg'[q].via = "new" => arg'[q].key = arg[q].key
                            /\ arg'[q].ent = arg[q].ent /\ arg[q].via = "new"
                            /\ lock' = lock
                       /\ \/ arg'[q].ent = Nil
                          \/ arg'[q].ent = arg[q].ent /\ arg'[q].key = arg[q].key
                       /\ Filled(q)' => Filled(q)
  <2>1. ASSUME NEW q \in Procs, q # p
        PROVE  pc'[q] = pc[q] /\ arg'[q] = arg[q]
                 /\ (arg[q].via = "new" => lock' = lock)
    BY <1>1, <1>3, <2>1 DEF Stay, Unpublished
  <2>2. CASE arg[p].via = "new"
    BY <1>2, <1>3, <2>1, <2>2 DEF Filled
  <2>3. CASE arg[p].via # "new"
    <3>1. arg'[p].via = "none" /\ arg'[p].ent = Nil
      BY <1>3, <2>3 DEF NoArg
    <3> QED
      BY <2>1, <3>1 DEF Filled
  <2> QED
    BY <2>2, <2>3
<1>8. \A q \in Procs : arg[q].via = "new" => arg[q].ent \in Entries
  BY <1>1, PerGoroutine DEF Carries, Unpublished
<1>9. Unpublished'
  <2>1. ASSUME NEW q \in Procs, arg'[q].via = "new"
        PROVE  pc'[q] \in {"store", "expiry", "publish"}
    BY <1>1, <1>3, <2>1 DEF Stay, NoArg, Unpublished
  <2> QED
    BY <1>1, <1>2, <1>4, <1>7, <1>8, <2>1 DEF Unpublished
<1>10. OneKey'
  BY <1>1, <1>2, <1>4, <1>7, <1>8 DEF OneKey, histVars, Filled
<1>11. Paired'
  <2>1. ASSUME NEW q \in Procs, pc'[q] = "expiry", arg'[q].ent \notin mixed'
        PROVE  ent'[arg'[q].ent].val = arg'[q].val
    <3>1. q # p /\ pc[q] = "expiry" /\ arg'[q] = arg[q] /\ arg[q].ent \in Entries
      BY <1>3, <2>1, PerGoroutine DEF Stay, Carries
    <3> QED
      BY <1>1, <1>2, <1>4, <2>1, <3>1 DEF Paired, histVars
  <2>2. e \notin mixed => ent'[e].exp = Expiry(ent'[e].val)
    BY <1>1, <1>2, <1>4 DEF Paired, Expiry
  <2>3. ASSUME NEW f \in Entries \ mixed, f # e
        PROVE  \/ ent'[f].exp = Expiry(ent'[f].val)
               \/ \E q \in Procs : pc'[q] = "expiry" /\ arg'[q].ent = f
               \/ \E q \in Procs : /\ arg'[q].via = "new" /\ pc'[q] = "store"
                                   /\ \A r \in Procs : arg'[r].ent = f <=> r = q
    <3>1. ent'[f].exp = ent[f].exp /\ ent'[f].val = ent[f].val
      BY <1>4, <2>3
    <3>2. CASE ent[f].exp = Expiry(ent[f].val)
      BY <3>1, <3>2 DEF Expiry
    <3>3. ASSUME NEW q \in Procs, pc[q] = "expiry", arg[q].ent = f
          PROVE  pc'[q] = "expiry" /\ arg'[q].ent = f
      BY <1>3, <2>3, <3>3 DEF Stay
    <3>4. ASSUME NEW q \in Procs, arg[q].via = "new", pc[q] = "store",
                 \A r \in Procs : arg[r].ent = f <=> r = q
          PROVE  /\ arg'[q].via = "new" /\ pc'[q] = "store"
                 /\ \A r \in Procs : arg'[r].ent = f <=> r = q
      <4>1. q # p /\ arg'[p].ent # f
        BY <1>2, <1>3, <2>3, <3>4 DEF NoArg
      <4> QED
        BY <1>3, <3>4, <4>1 DEF Stay
    <3> QED
      BY <1>1, <3>1, <3>2, <3>3, <3>4 DEF Paired
  <2> QED
    BY <1>2, <2>1, <2>2, <2>3 DEF Paired, Expiry, histVars
<1>12. ASSUME NEW q \in Procs
       PROVE  Carries(q)' /\ Sees(q)'
  <2>1. CASE q = p
    BY <1>2, <1>3, <2>1 DEF Carries, Sees, Updates, Looking, Returns, NoArg
  <2>2. CASE q # p
    <3>1. Carries(q) /\ Sees(q) /\ pc'[q] = pc[q] /\ arg'[q] = arg[q]
      BY <1>3, <2>2, PerGoroutine DEF Stay
    <3>2. \A r \in Procs : pc'[r] \in Updates =>
            pc[r] \in Updates /\ arg'[r].key = arg[r].key /\ arg'[r].val = arg[r].val
      BY <1>2, <1>3 DEF Stay, Updates
    <3>3. pc[q] \in {"check", "value"} => arg[q].ent \in Entries
      BY <3>1 DEF Carries
    <3>4. Carries(q)' /\ Passed(q)' = Passed(q)
      BY <1>2, <3>1 DEF Carries, Passed
    <3>5. \A r \in Procs : Filled(r)' =>
            Filled(r) /\ arg[r].ent \in Entries /\ arg'[r].ent = arg[r].ent
              /\ arg'[r].key = arg[r].key
      BY <1>7, <1>8 DEF Filled
    <3> QED
      BY <1>2, <1>4, <3>1, <3>2, <3>3, <3>4, <3>5
         DEF Sees, Returns, getVars, histVars
  <2> QED
    BY <2>1, <2>2
<1> QED
  BY <1>5, <1>6, <1>9, <1>10, <1>11, <1>12, EveryGoroutine DEF IInv, EntriesIntact

-----------------------------------------------------------------------------
(* Leaving the queues, death row and the index *)

Shrinks == \A k \in Keys : table'[k] \in {table[k], Nil}

\* Whatever evictOne takes from the queues Q, the row R and the index T, they
\* stay apart from each other and from the entry to recycle, and the index
\* still leads to all that is queued or on death row if it did before.
LEMMA EvictOneKeeps ==
  ASSUME TypeOK, NEW Q \in SUBSET Entries, NEW R \in SUBSET Entries,
         NEW T \in [Keys -> Entries \cup {Nil}], NEW x \in Q,
         Q \cap R = {}, free \notin Q \cup R,
         \A k \in Keys : T[k] # Nil => ent[T[k]].key = k /\ T[k] # free,
         EvictOne(Q, R, T, x)
  PROVE  /\ queued' \subseteq Entries /\ row' \subseteq Entries
         /\ table' \in [Keys -> Entries \cup {Nil}] /\ free' \in Entries \cup {Nil}
         /\ queued' \cap row' = {} /\ free' \notin queued' \cup row'
         /\ \A k \in Keys : table'[k] \in {T[k], Nil}
         /\ \A k \in Keys : table'[k] # Nil => table'[k] # free'
         /\ Q \cup R = {T[k] : k \in Keys} \ {Nil} =>
              queued' \cup row' = {table'[k] : k \in Keys} \ {Nil}
<1> USE EntriesConstants
<1>1. ASSUME NEW f \in Entries, table' = Unindex(T, f)
      PROVE  /\ table' \in [Keys -> Entries \cup {Nil}]
             /\ \A k \in Keys : table'[k] \in {T[k], Nil}
             /\ \A k \in Keys : table'[k] # Nil => table'[k] # f
             /\ \A k \in Keys : T[k] # f => table'[k] = T[k] \/ f \notin {T[j] : j \in Keys}
             /\ {table'[k] : k \in Keys} \ {Nil} = ({T[k] : k \in Keys} \ {Nil}) \ {f}
                  \/ f \notin {T[k] : k \in Keys}
  <2>1. table' = [k \in Keys |-> IF k = ent[f].key THEN Nil ELSE T[k]]
    BY <1>1 DEF Unindex
  <2>2. \A k \in Keys : T[k] = f => k = ent[f].key
    OBVIOUS
  <2>3. ASSUME NEW j \in Keys, T[j] = f
        PROVE  {table'[k] : k \in Keys} \ {Nil} = ({T[k] : k \in Keys} \ {Nil}) \ {f}
    <3>1. j = ent[f].key /\ \A k \in Keys : k # j => T[k] # f
      BY <2>2, <2>3
    <3>2. \A k \in Keys : table'[k] = IF k = j THEN Nil ELSE T[k]
      BY <2>1, <3>1
    <3> QED
      BY <2>3, <3>1, <3>2
  <2>4. \A k \in Keys : /\ table'[k] \in {T[k], Nil}
                        /\ table'[k] # Nil => table'[k] # f
    BY <2>1, <2>2
  <2>5. ASSUME NEW j \in Keys, T[j] = f, NEW k \in Keys, T[k] # f
        PROVE  table'[k] = T[k]
    BY <2>1, <2>2, <2>5
  <2> QED
    BY <2>1, <2>3, <2>4, <2>5
<1>2. CASE queued' = Q \ {x} /\ row' = R /\ table' = Unindex(T, x) /\ free' = x
  BY <1>1, <1>2
<1>3. CASE queued' = Q \ {x} /\ row' = R \cup {x} /\ table' = T /\ UNCHANGED free
  BY <1>3 DEF TypeOK
<1>4. ASSUME NEW old \in R, queued' = Q \ {x}, row' = (R \ {old}) \cup {x},
             table' = Unindex(T, old), free' = old
      PROVE  /\ queued' \subseteq Entries /\ row' \subseteq Entries
             /\ table' \in [Keys -> Entries \cup {Nil}] /\ free' \in Entries \cup {Nil}
             /\ queued' \cap row' = {} /\ free' \notin queued' \cup row'
             /\ \A k \in Keys : table'[k] \in {T[k], Nil}
             /\ \A k \in Keys : table'[k] # Nil => table'[k] # free'
             /\ Q \cup R = {T[k] : k \in Keys} \ {Nil} =>
                  queued' \cup row' = {table'[k] : k \in Keys} \ {Nil}
  <2>1. old \in Entries /\ old \notin Q /\ old # x
    OBVIOUS
  <2> QED
    BY <1>1, <1>4, <2>1
<1> QED
  BY <1>2, <1>3, <1>4 DEF EvictOne

\* A step under the mutex that takes entries out of the index and leaves them as
\* they are keeps the invariant if it keeps the index and the queues in order.
LEMMA Removing ==
  ASSUME IInv, NEW p \in Procs, lock = Nil, Stay(p), Shrinks,
         UNCHANGED <<ent, lock, late, getVars, clobbered, mixed>>,
         TypeOK', Linked', Apart', Carries(p)', Sees(p)',
         pc[p] \notin Updates, pc'[p] \notin Updates, arg'[p].via # "new",
         arg'[p].ent \in Entries \ clobbered =>
           ent[arg'[p].ent].key = arg'[p].key
  PROVE  IInv'
<1> USE EntriesConstants
<1>1. \A q \in Procs : arg[q].via # "new" /\ arg'[q].via # "new"
  BY DEF IInv, Unpublished, Stay
<1>2. Unpublished' /\ OneKey'
  BY <1>1 DEF IInv, Unpublished, OneKey, Filled, Stay
<1>3. IndexHoldsOwn'
  BY DEF IInv, IndexHoldsOwn, Shrinks
<1>4. Paired'
  <2>1. \A q \in Procs : pc'[q] = "expiry" => q # p
    BY DEF Updates
  <2>2. \A q \in Procs : pc[q] = "expiry" => q # p
    BY DEF Updates
  <2>3. Paired
    BY DEF IInv
  <2>4. ASSUME NEW f \in Entries \ mixed
        PROVE  \/ ent[f].exp = Expiry(ent[f].val)
               \/ \E q \in Procs : pc'[q] = "expiry" /\ arg'[q].ent = f
    BY <1>1, <2>2, <2>3 DEF Paired, Stay
  <2> QED
    BY <2>1, <2>3, <2>4 DEF Paired, Stay, Expiry
<1>5. ASSUME NEW q \in Procs \ {p}
      PROVE  Carries(q)' /\ Sees(q)'
  <2>1. Carries(q) /\ Sees(q) /\ pc'[q] = pc[q] /\ arg'[q] = arg[q]
    BY PerGoroutine DEF Stay
  <2>2. \A r \in Procs : pc'[r] \in Updates => pc[r] \in Updates /\ arg'[r] = arg[r]
    BY DEF Stay
  <2>3. \A r \in Procs : ~Filled(r)'
    BY <1>1 DEF Filled
  <2>4. pc[q] = "resurrect" =>
          table'[arg[q].key] \in {table[arg[q].key], Nil}
    BY <2>1 DEF Carries, Shrinks
  <2>5. Carries(q)' /\ Passed(q)' = Passed(q)
    BY <2>1 DEF Carries, Passed
  <2> QED
    BY <2>1, <2>2, <2>3, <2>4, <2>5 DEF Sees, Returns, getVars
<1> QED
  BY <1>2, <1>3, <1>4, <1>5, EveryGoroutine DEF IInv, EntriesIntact

\* What the key holds by the time of the mutex is returned, whatever leaves the
\* queues to make room.
LEMMA ResurrectKeeps ==
  ASSUME IInv, NEW p \in Procs, Resurrect(p)
  PROVE  IInv'
<1> USE EntriesConstants
<1> DEFINE e == table[arg[p].key]
           Q == queued \cup {e}
           R == row \ {e}
<1>1. TypeOK /\ Linked /\ Apart /\ OneKey /\ Carries(p) /\ Sees(p)
  BY PerGoroutine DEF IInv, EntriesIntact
<1>2. /\ UNCHANGED <<ent, lock, late, getVars, histVars>>
      /\ pc[p] = "resurrect" /\ lock = Nil /\ e \in row /\ e \in Entries
      /\ arg[p].key \in Keys
  BY <1>1 DEF Resurrect, Carries, TypeOK
<1>3. /\ Stay(p) /\ pc'[p] = "return"
      /\ arg'[p] = [key |-> arg[p].key, ent |-> e, val |-> ent[e].val,
                    via |-> "row", passed |-> arg[p].passed]
  BY <1>1, GotoMeans DEF Resurrect
<1>4. /\ Q \subseteq Entries /\ R \subseteq Entries /\ Q \cap R = {}
      /\ free \notin Q \cup R /\ Q \cup R = queued \cup row
      /\ table \in [Keys -> Entries \cup {Nil}] /\ free \in Entries \cup {Nil}
      /\ \A k \in Keys : table[k] # Nil => ent[table[k]].key = k /\ table[k] # free
  BY <1>1, <1>2 DEF TypeOK, Apart
<1>5. /\ queued' \subseteq Entries /\ row' \subseteq Entries
      /\ table' \in [Keys -> Entries \cup {Nil}] /\ free' \in Entries \cup {Nil}
      /\ queued' \cap row' = {} /\ free' \notin queued' \cup row'
      /\ Shrinks
      /\ \A k \in Keys : table'[k] # Nil => table'[k] # free'
      /\ queued \cup row = {table[k] : k \in Keys} \ {Nil} =>
           queued' \cup row' = {table'[k] : k \in Keys} \ {Nil}
  <2>1. CASE Cardinality(Q) > Capacity
    <3>1. PICK x \in Q : EvictOne(Q, R, table, x)
      BY <2>1 DEF Resurrect
    <3> HIDE DEF Q, R
    <3>2. /\ queued' \subseteq Entries /\ row' \subseteq Entries
          /\ table' \in [Keys -> Entries \cup {Nil}] /\ free' \in Entries \cup {Nil}
          /\ queued' \cap row' = {} /\ free' \notin queued' \cup row'
          /\ \A k \in Keys : table'[k] \in {table[k], Nil}
          /\ \A k \in Keys : table'[k] # Nil => table'[k] # free'
          /\ Q \cup R = {table[k] : k \in Keys} \ {Nil} =>
               queued' \cup row' = {table'[k] : k \in Keys} \ {Nil}
      BY <1>1, <1>4, <3>1, EvictOneKeeps
    <3> QED
      BY <1>4, <3>2 DEF Shrinks
  <2>2. CASE ~(Cardinality(Q) > Capacity)
    <3>1. queued' = Q /\ row' = R /\ table' = table /\ free' = free
      BY <2>2 DEF Resurrect
    <3> HIDE DEF Q, R
    <3> QED
      BY <1>4, <3>1 DEF Shrinks
  <2> QED
    BY <2>1, <2>2
<1>6. TypeOK'
  <2>1. ent[e].val \in Values \cup {Nil, Zero}
    BY <1>1, <1>2 DEF TypeOK
  <2> QED
    BY <1>1, <1>2, <1>5, <2>1, GotoTyped
       DEF Resurrect, TypeOK, Steps, Vias, getVars, histVars
<1>7. Apart' /\ Linked'
  <2>1. \A k \in Keys : table'[k] # Nil => ent[table'[k]].key = k
    BY <1>1, <1>5 DEF Apart, Shrinks
  <2> QED
    BY <1>1, <1>2, <1>5, <2>1 DEF Apart, Linked, histVars
<1>8. Carries(p)'
  BY <1>2, <1>3 DEF Carries, Updates
<1>9. Sees(p)'
  BY <1>1, <1>2, <1>3 DEF Sees, Looking, Returns, getVars, histVars
<1>10. ent[e].key = arg[p].key
  BY <1>1, <1>2 DEF Apart
<1> QED
  BY <1>2, <1>3, <1>5, <1>6, <1>7, <1>8, <1>9, <1>10, Removing
     DEF Updates, histVars

\* Delete and Flush: nobody inserts, and an entry that leaves the index leaves
\* the queues, or death row was hit.
LEMMA ClearKeeps ==
  ASSUME IInv, NEW p \in Procs, Flush(p) \/ \E k \in Keys : Delete(p, k)
  PROVE  IInv'
<1> USE EntriesConstants
<1>1. TypeOK /\ Linked /\ Apart /\ OneKey /\ Carries(p)
  BY PerGoroutine DEF IInv, EntriesIntact
<1>2. /\ UNCHANGED <<ent, free, lock, late, procVars, getVars, clobbered, mixed>>
      /\ pc[p] = "idle" /\ lock = Nil
  BY DEF Flush, Delete
<1>3. TypeOK' /\ Shrinks /\ queued' \subseteq queued /\ row' \subseteq row
  BY <1>1, <1>2 DEF Flush, Delete, TypeOK, Shrinks, procVars, getVars
<1>4. Apart'
  BY <1>1, <1>2, <1>3 DEF Apart, Shrinks
<1>5. Linked'
  <2>1. CASE Flush(p)
    <3>1. {table'[k] : k \in Keys} \ {Nil} = {}
      BY <2>1 DEF Flush
    <3> QED
      BY <1>4, <2>1, <3>1 DEF Linked, Apart, Flush
  <2>2. ASSUME NEW k \in Keys, Delete(p, k)
        PROVE  Linked'
    <3> DEFINE e == table[k]
    <3>1. SUFFICES ASSUME ~rowDeleted'
                   PROVE  queued' \cup row' = {table'[j] : j \in Keys} \ {Nil}
      BY <1>4 DEF Linked, Apart
    <3>2. /\ ~rowDeleted /\ e \notin row /\ e # Nil
          /\ queued' = queued \ {e} /\ row' = row
          /\ table' = [table EXCEPT ![k] = Nil]
      BY <2>2, <3>1 DEF Delete
    <3>3. queued \cup row = {table[j] : j \in Keys} \ {Nil}
      BY <1>1, <3>2 DEF Linked
    <3>4. \A j \in Keys : j # k => table[j] # e
      BY <1>1, <3>2 DEF Apart
    <3>5. \A j \in Keys : table'[j] = IF j = k THEN Nil ELSE table[j]
      BY <1>1, <3>2 DEF TypeOK
    <3> QED
      BY <3>2, <3>3, <3>4, <3>5
  <2> QED
    BY <2>1, <2>2
<1>6. Carries(p)' /\ Sees(p)'
  BY <1>1, <1>2 DEF Carries, Sees, Looking, Updates, Returns, procVars
<1>7. Stay(p) /\ arg' = arg /\ pc' = pc
  BY <1>2 DEF Stay, procVars
<1> QED
  BY <1>1, <1>2, <1>3, <1>4, <1>5, <1>6, <1>7, Removing
     DEF Updates, Carries, OneKey

\* More expiries pass; those that Range goes by stay.
LEMMA PassKeeps ==
  ASSUME IInv, NEW v \in Timed, Pass(v)
  PROVE  IInv'
<1>1. UNCHANGED <<engine, lock, procVars, getVars, histVars>> /\ late \subseteq late'
      /\ TypeOK'
  BY DEF IInv, EntriesIntact, Pass, TypeOK, engine, procVars, getVars, histVars
<1>2. Linked' /\ CarriedOK' /\ Apart' /\ Unpublished' /\ OneKey' /\ IndexHoldsOwn'
  BY <1>1 DEF IInv, EntriesIntact, Linked, CarriedOK, Apart, Unpublished, OneKey,
       Filled, IndexHoldsOwn, engine, procVars, histVars
<1>3. Paired' /\ Announced' /\ InSight' /\ GetsHeld' /\ ExpiredServed'
  BY <1>1 DEF IInv, Paired, Expiry, Announced, InSight, Filled, GetsHeld, Returns,
       ExpiredServed, engine, procVars, getVars, histVars
<1>4. Expired'
  <2>1. \A p \in Procs : Passed(p) \subseteq Passed(p)'
    BY <1>1 DEF Passed, procVars
  <2> QED
    BY <1>1, <2>1 DEF IInv, Expired, engine, procVars, getVars, histVars
<1> QED
  BY <1>1, <1>2, <1>3, <1>4 DEF IInv, EntriesIntact

-----------------------------------------------------------------------------
(* Insertion *)

\* The entry an insert takes is linked nowhere, though goroutines may hold it.
LEMMA AllocatedIsLoose ==
  ASSUME TypeOK, Apart, NEW e \in Allocated
  PROVE  e \in Entries /\ e \notin queued \cup row /\ \A k \in Keys : table[k] # e
<1>1. CASE free # Nil
  BY <1>1 DEF Allocated, TypeOK, Apart, EntriesConstants
<1>2. CASE free = Nil
  BY <1>2 DEF Allocated, Unreferenced
<1> QED
  BY <1>1, <1>2

\* A goroutine that holds the entry for another key makes it clobbered; one that
\* is updating it has it exempt, or goes on to pair its expiry with its value.
LEMMA InsertKeeps ==
  ASSUME IInv, NEW p \in Procs, Insert(p)
  PROVE  IInv'
<1> USE EntriesConstants
<1> DEFINE k == arg[p].key
<1>1. TypeOK /\ Linked /\ Apart /\ OneKey /\ IndexHoldsOwn /\ Paired /\ Carries(p)
  BY PerGoroutine DEF IInv, EntriesIntact
<1>2. /\ UNCHANGED <<table, queued, row, late, getVars, rowDeleted>>
      /\ pc[p] = "lock" /\ lock = Nil /\ table[k] = Nil /\ lock' = p /\ free' = Nil
      /\ k \in Keys /\ arg[p].val \in Values /\ k = KeyOf[arg[p].val]
  BY <1>1 DEF Insert, Carries, Updates
<1>3. PICK e \in Allocated :
        /\ ent' = [ent EXCEPT ![e].key = k]
        /\ Goto(p, "store", k, e, arg[p].val, "new")
        /\ clobbered' = IF \E q \in Holders(e) : arg[q].key # k
                        THEN clobbered \cup {e}
                        ELSE IF Holders(e) = {} THEN clobbered \ {e} ELSE clobbered
        /\ mixed' = IF Holders(e) = {} THEN mixed \ {e} ELSE mixed
  BY DEF Insert
<1>4. e \in Entries /\ e \notin queued \cup row /\ \A j \in Keys : table[j] # e
  BY <1>1, AllocatedIsLoose
<1>5. /\ Stay(p) /\ pc'[p] = "store"
      /\ arg'[p] = [key |-> k, ent |-> e, val |-> arg[p].val, via |-> "new",
                    passed |-> arg[p].passed]
  BY <1>1, <1>3, GotoMeans
<1>6. \A f \in Entries : /\ ent'[f].val = ent[f].val /\ ent'[f].exp = ent[f].exp
                         /\ ent'[f].key = IF f = e THEN k ELSE ent[f].key
  BY <1>1, <1>3 DEF TypeOK
<1>7. /\ \A f \in Entries : f # e => (f \in clobbered' <=> f \in clobbered)
                                     /\ (f \in mixed' <=> f \in mixed)
      /\ \A q \in Procs : arg[q].ent = e =>
           /\ clobbered \subseteq clobbered' /\ mixed \subseteq mixed'
           /\ e \notin clobbered' => arg[q].key = k
  BY <1>3 DEF Holders
<1>8. \A q \in Procs : arg[q].via # "new" /\ ~Filled(q)'
  <2>1. \A q \in Procs : arg[q].via # "new"
    BY <1>2 DEF IInv, Unpublished
  <2> QED
    BY <1>5, <2>1 DEF Filled, Stay
<1>9. TypeOK'
  <2>1. ent' \in [Entries -> [key : Keys \cup {Nil}, val : Values \cup {Nil},
                              exp : Timed \cup {Nil}]]
    BY <1>1, <1>2, <1>3, <1>4 DEF TypeOK
  <2>2. clobbered' \subseteq Entries /\ mixed' \subseteq Entries
    BY <1>1, <1>3, <1>4 DEF TypeOK
  <2> QED
    BY <1>1, <1>2, <1>3, <1>4, <2>1, <2>2, GotoTyped DEF TypeOK, Steps, Vias, getVars
<1>10. Linked' /\ Apart' /\ IndexHoldsOwn'
  <2>1. \A j \in Keys : table[j] # Nil => table[j] \in Entries \ {e}
    BY <1>1, <1>4 DEF TypeOK
  <2>2. \A f \in queued \cup row : f # Nil
    BY <1>1 DEF TypeOK
  <2>3. Linked'
    BY <1>1, <1>2, <1>6, <2>1, <2>2 DEF Linked
  <2>4. Apart'
    BY <1>1, <1>2, <1>6, <2>1, <2>2 DEF Apart
  <2>5. IndexHoldsOwn'
    BY <1>1, <1>2, <1>6, <1>7, <2>1 DEF IndexHoldsOwn
  <2> QED
    BY <2>3, <2>4, <2>5
<1>11. Unpublished'
  <2>1. \A q \in Procs : arg'[q].via = "new" => q = p
    BY <1>5, <1>8 DEF Stay
  <2> QED
    BY <1>2, <1>4, <1>5, <1>6, <2>1 DEF Unpublished
<1>12. OneKey'
  <2>1. ASSUME NEW q \in Procs, arg'[q].ent \in Entries \ clobbered'
        PROVE  ent'[arg'[q].ent].key = arg'[q].key
    <3>1. CASE q = p
      BY <1>4, <1>5, <1>6, <3>1
    <3>2. CASE q # p
      BY <1>1, <1>5, <1>6, <1>7, <2>1, <3>2 DEF OneKey, Stay
    <3> QED
      BY <3>1, <3>2
  <2> QED
    BY <1>8, <2>1 DEF OneKey
<1>13. Paired'
  <2>1. ASSUME NEW q \in Procs, pc'[q] = "expiry", arg'[q].ent \notin mixed'
        PROVE  ent'[arg'[q].ent].val = arg'[q].val
    <3>1. q # p /\ pc[q] = "expiry" /\ arg'[q] = arg[q] /\ arg[q].ent \in Entries
      BY <1>5, <2>1, PerGoroutine DEF Stay, Carries
    <3>2. arg[q].ent \notin mixed
      BY <1>7, <2>1, <3>1
    <3> QED
      BY <1>1, <1>6, <3>1, <3>2 DEF Paired
  <2>2. ASSUME NEW f \in Entries \ mixed
        PROVE  \/ ent'[f].exp = Expiry(ent'[f].val)
               \/ \E q \in Procs : pc'[q] = "expiry" /\ arg'[q].ent = f
    <3>1. CASE ent[f].exp = Expiry(ent[f].val)
      BY <1>6, <3>1 DEF Expiry
    <3>2. ASSUME NEW q \in Procs, pc[q] = "expiry", arg[q].ent = f
          PROVE  pc'[q] = "expiry" /\ arg'[q].ent = f
      BY <1>2, <1>5, <3>2 DEF Stay
    <3> QED
      BY <1>1, <1>8, <3>1, <3>2 DEF Paired
  <2>3. CASE Holders(e) = {}
    <3>1. \A q \in Procs : arg'[q].ent = e <=> q = p
      BY <1>5, <2>3 DEF Holders, Stay
    <3>2. \A f \in Entries \ mixed' : f = e \/ f \notin mixed
      BY <1>7
    <3> QED
      BY <1>5, <2>1, <2>2, <3>1, <3>2 DEF Paired, Expiry
  <2>4. CASE Holders(e) # {}
    <3>1. mixed' = mixed
      BY <1>3, <2>4
    <3> QED
      BY <2>1, <2>2, <3>1 DEF Paired, Expiry
  <2> QED
    BY <2>3, <2>4
<1>14. ASSUME NEW q \in Procs
       PROVE  Carries(q)' /\ Sees(q)'
  <2>1. CASE q = p
    BY <1>2, <1>4, <1>5, <2>1 DEF Carries, Sees, Updates, Looking, Returns
  <2>2. CASE q # p
    <3>1. Carries(q) /\ Sees(q) /\ pc'[q] = pc[q] /\ arg'[q] = arg[q]
      BY <1>5, <2>2, PerGoroutine DEF Stay
    <3>2. \A r \in Procs : pc'[r] \in Updates =>
            pc[r] \in Updates /\ arg'[r].key = arg[r].key /\ arg'[r].val = arg[r].val
      BY <1>2, <1>5 DEF Stay, Updates
    <3>3. pc[q] \in {"check", "value", "return"} => arg[q].ent \in Entries
      BY <3>1 DEF Carries
    <3>4. Carries(q)' /\ Passed(q)' = Passed(q)
      BY <1>2, <3>1 DEF Carries, Passed
    <3>5. pc[q] \in {"check", "value", "return"} =>
            /\ arg[q].ent \in clobbered => arg[q].ent \in clobbered'
            /\ arg[q].ent \in mixed => arg[q].ent \in mixed'
      BY <1>7, <3>3
    <3>6. pc[q] = "resurrect" /\ table[arg[q].key] \in Entries \ clobbered' =>
            ent'[table[arg[q].key]].val \in seen[q]
      <4>1. pc[q] = "resurrect" => table[arg[q].key] # e
        BY <1>4, <3>1 DEF Carries
      <4> QED
        BY <1>6, <1>7, <3>1, <4>1 DEF Sees
    <3>7. /\ pc[q] \in {"check", "value"} /\ arg[q].ent \notin clobbered' =>
               ent'[arg[q].ent].val \in seen[q]
          /\ pc[q] = "value" /\ arg[q].ent \notin clobbered' \cup mixed' =>
               ent'[arg[q].ent].val \notin dead[q]
      BY <1>6, <3>1, <3>3, <3>5 DEF Sees
    <3>8. UNCHANGED <<table, seen, dead>>
      BY <1>2 DEF getVars
    <3>9. pc[q] \in Looking => \A r \in Procs :
            pc'[r] \in Updates /\ arg'[q].key = arg'[r].key =>
              arg'[r].val \in seen'[q] \ dead'[q]
      BY <3>1, <3>2, <3>8 DEF Sees
    <3>10. Returns(q) =>
             /\ \/ arg[q].val \in seen[q] \/ arg[q].ent \in clobbered'
                \/ arg[q].val = Zero /\ arg[q].via = "row"
             /\ arg[q].val \in dead[q] =>
                  arg[q].via = "row" \/ arg[q].ent \in clobbered' \cup mixed'
      BY <3>1, <3>5 DEF Sees, Returns
    <3> QED
      BY <1>8, <3>1, <3>4, <3>6, <3>7, <3>8, <3>9, <3>10 DEF Sees, Returns
  <2> QED
    BY <2>1, <2>2
<1> QED
  BY <1>9, <1>10, <1>11, <1>12, <1>13, <1>14, EveryGoroutine DEF IInv, EntriesIntact

\* The entry is indexed under its key with a value of that key, which those see
\* who wait to resurrect the key.
LEMMA PublishKeeps ==
  ASSUME IInv, NEW p \in Procs, Publish(p)
  PROVE  IInv'
<1> USE EntriesConstants
<1> DEFINE e == arg[p].ent
           k == arg[p].key
           T == [table EXCEPT ![k] = e]
           Q == queued \cup {e}
<1>1. /\ TypeOK /\ Linked /\ Apart /\ Unpublished /\ OneKey /\ IndexHoldsOwn
      /\ Paired /\ Carries(p)
  BY PerGoroutine DEF IInv, EntriesIntact
<1>2. /\ UNCHANGED <<ent, late, getVars, histVars>>
      /\ pc[p] = "publish" /\ lock' = Nil /\ Idle(p)
  BY DEF Publish
<1>3. /\ arg[p].via = "new" /\ lock = p /\ free = Nil /\ e \in Entries /\ k \in Keys
      /\ e \notin queued \cup row /\ ent[e].key = k /\ table[k] = Nil
      /\ \A j \in Keys : table[j] # e
  BY <1>1, <1>2 DEF Carries, Unpublished
<1>4. Stay(p) /\ pc'[p] = "idle" /\ arg'[p] = NoArg
  BY <1>1, <1>2, IdleMeans
<1>5. /\ T \in [Keys -> Entries \cup {Nil}] /\ Q \subseteq Entries /\ row \subseteq Entries
      /\ Q \cap row = {} /\ free \notin Q \cup row
      /\ \A j \in Keys : T[j] = IF j = k THEN e ELSE table[j]
      /\ \A j \in Keys : T[j] # Nil => ent[T[j]].key = j /\ T[j] # free
  BY <1>1, <1>3 DEF TypeOK, Apart
<1>6. queued \cup row = {table[j] : j \in Keys} \ {Nil} =>
        Q \cup row = {T[j] : j \in Keys} \ {Nil}
  BY <1>3, <1>5
<1>7. /\ queued' \subseteq Entries /\ row' \subseteq Entries
      /\ table' \in [Keys -> Entries \cup {Nil}] /\ free' \in Entries \cup {Nil}
      /\ queued' \cap row' = {} /\ free' \notin queued' \cup row'
      /\ \A j \in Keys : table'[j] \in {T[j], Nil}
      /\ \A j \in Keys : table'[j] # Nil => table'[j] # free'
      /\ Q \cup row = {T[j] : j \in Keys} \ {Nil} =>
           queued' \cup row' = {table'[j] : j \in Keys} \ {Nil}
  <2>1. CASE queued' = Q /\ table' = T /\ UNCHANGED <<row, free>>
    <3> HIDE DEF T, Q
    <3> QED
      BY <1>3, <1>5, <2>1
  <2>2. CASE \E x \in queued : EvictOne(Q, row, T, x)
    <3>1. PICK x \in Q : EvictOne(Q, row, T, x)
      BY <2>2
    <3> HIDE DEF T, Q
    <3> QED
      BY <1>1, <1>5, <3>1, EvictOneKeeps
  <2> QED
    BY <2>1, <2>2 DEF Publish
<1>8. TypeOK'
  BY <1>1, <1>2, <1>7, IdleTyped DEF TypeOK, Steps, Vias, getVars, histVars
<1>9. Linked' /\ Apart'
  <2>1. \A j \in Keys : table'[j] # Nil => ent[table'[j]].key = j
    BY <1>5, <1>7
  <2> HIDE DEF T, Q
  <2>2. ~rowDeleted => queued' \cup row' = {table'[j] : j \in Keys} \ {Nil}
    BY <1>1, <1>6, <1>7 DEF Linked
  <2> QED
    BY <1>2, <1>7, <2>1, <2>2 DEF Apart, Linked, histVars
<1>10. IndexHoldsOwn'
  <2>1. e \notin clobbered => KeyOf[ent[e].val] = k
    BY <1>1, <1>2, <1>3 DEF OneKey, Filled
  <2> QED
    BY <1>1, <1>2, <1>5, <1>7, <2>1 DEF IndexHoldsOwn, histVars
<1>11. \A q \in Procs : arg'[q].via # "new" /\ ~Filled(q)'
  <2>1. \A q \in Procs \ {p} : arg[q].via # "new"
    BY <1>1, <1>3 DEF Unpublished
  <2> QED
    BY <1>4, <2>1 DEF Stay, NoArg, Filled
<1>12. Unpublished' /\ OneKey'
  <2>1. arg'[p].ent = Nil
    BY <1>4 DEF NoArg
  <2> QED
    BY <1>1, <1>2, <1>4, <1>11, <2>1 DEF Unpublished, OneKey, Stay, histVars
<1>13. Paired'
  <2>1. \A q \in Procs : pc'[q] = "expiry" => q # p
    BY <1>4
  <2>2. ASSUME NEW f \in Entries \ mixed
        PROVE  \/ ent[f].exp = Expiry(ent[f].val)
               \/ \E q \in Procs : pc'[q] = "expiry" /\ arg'[q].ent = f
    <3>1. ASSUME NEW q \in Procs, pc[q] = "expiry", arg[q].ent = f
          PROVE  pc'[q] = "expiry" /\ arg'[q].ent = f
      BY <1>2, <1>4, <3>1 DEF Stay
    <3>2. \A q \in Procs : ~(arg[q].via = "new" /\ pc[q] = "store")
      BY <1>1, <1>2, <1>3 DEF Unpublished
    <3> QED
      BY <1>1, <3>1, <3>2 DEF Paired
  <2> QED
    BY <1>1, <1>2, <1>4, <2>1, <2>2 DEF Paired, Stay, Expiry, histVars
<1>14. ASSUME NEW q \in Procs
       PROVE  Carries(q)' /\ Sees(q)'
  <2>1. CASE q = p
    BY <1>4, <2>1 DEF Carries, Sees, Updates, Looking, Returns, NoArg
  <2>2. CASE q # p
    <3>1. Carries(q) /\ Sees(q) /\ pc'[q] = pc[q] /\ arg'[q] = arg[q]
      BY <1>4, <2>2, PerGoroutine DEF Stay
    <3>2. \A r \in Procs : pc'[r] \in Updates => pc[r] \in Updates /\ arg'[r] = arg[r]
      BY <1>4 DEF Stay, Updates
    <3>3. Carries(q)' /\ Passed(q)' = Passed(q)
      BY <1>2, <3>1 DEF Carries, Passed
    <3>4. pc[q] = "resurrect" /\ table'[arg[q].key] \in Entries \ clobbered =>
            ent[table'[arg[q].key]].val \in seen[q]
      <4>1. pc[q] = "resurrect" /\ arg[q].key = k /\ e \notin clobbered =>
              ent[e].val \in seen[q]
        BY <1>2, <1>3, <3>1 DEF Sees, Filled
      <4>2. pc[q] = "resurrect" => arg[q].key \in Keys
        BY <3>1 DEF Carries
      <4> HIDE DEF e, k, T
      <4> QED
        BY <1>5, <1>7, <3>1, <4>1, <4>2 DEF Sees
    <3> QED
      BY <1>2, <1>11, <3>1, <3>2, <3>3, <3>4 DEF Sees, Returns, getVars, histVars
  <2> QED
    BY <2>1, <2>2
<1> QED
  BY <1>8, <1>9, <1>10, <1>12, <1>13, <1>14, EveryGoroutine DEF IInv, EntriesIntact

-----------------------------------------------------------------------------
(* Every step *)

LEMMA StepKeeps ==
  ASSUME IInv, [Next]_vars
  PROVE  IInv'
<1>1. CASE UNCHANGED vars
  BY <1>1 DEF vars, engine, procVars, getVars, histVars, IInv, EntriesIntact, TypeOK,
     Linked, CarriedOK, Apart, Unpublished, OneKey, Filled, IndexHoldsOwn, Paired,
     Expiry, Announced, InSight, GetsHeld, Returns, Expired, Passed, ExpiredServed
<1>2. ASSUME NEW p \in Procs, NEW k \in Keys,
             GetHit(p, k) \/ GetOnRow(p, k) \/ RangeVisit(p, k)
      PROVE  IInv'
  <2>1. Carries(p)
    BY PerGoroutine
  <2>2. CASE GetHit(p, k)
    BY <2>2, LookupKeeps DEF GetHit
  <2>3. CASE GetOnRow(p, k)
    BY <2>3, LookupKeeps DEF GetOnRow
  <2>4. CASE RangeVisit(p, k)
    BY <2>4, LookupKeeps DEF RangeVisit
  <2> QED
    BY <1>2, <2>2, <2>3, <2>4
<1>3. ASSUME NEW p \in Procs,
             CheckExpired(p) \/ Return(p) \/ ResurrectMiss(p) \/ RangeEnd(p)
      PROVE  IInv'
  <2>1. pc[p] \in {"check", "return", "resurrect", "range"}
    BY <1>3 DEF CheckExpired, Return, ResurrectMiss, RangeEnd
  <2>2. arg[p].via # "new" /\ pc[p] \notin Updates
    BY <2>1 DEF IInv, Unpublished, Updates
  <2> QED
    BY <1>3, <2>2, LetGo DEF CheckExpired, Return, ResurrectMiss, RangeEnd
<1>4. ASSUME NEW p \in Procs, Range(p)
      PROVE  IInv'
  <2>1. TypeOK /\ Carries(p)
    BY PerGoroutine DEF IInv, EntriesIntact
  <2>2. /\ pc[p] = "idle" /\ arg[p].via = "none" /\ Stay(p) /\ Watches(p)
        /\ UNCHANGED <<engine, lock, late, getVars, histVars>>
        /\ pc'[p] = "range" /\ arg'[p].via = "range" /\ arg'[p].ent = Nil
    BY <1>4, <2>1 DEF Range, TypeOK, Carries, Stay, Watches, NoArg, getVars
  <2>3. TypeOK'
    <3>1. [NoArg EXCEPT !.via = "range", !.passed = late]
            \in [key : Keys \cup {Nil}, ent : Entries \cup {Nil},
                 val : Values \cup {Nil, Zero},
                 via : {"none", "index", "row", "range", "new"},
                 passed : SUBSET Timed]
      BY <2>1 DEF TypeOK, NoArg
    <3> QED
      BY <1>4, <2>1, <3>1 DEF Range, TypeOK, engine, getVars, histVars
  <2>4. Carries(p)' /\ Sees(p)'
    BY <2>2 DEF Carries, Sees, Updates, Looking, Returns
  <2> QED
    BY <2>2, <2>3, <2>4, Getting DEF Updates
<1>5. ASSUME NEW p \in Procs, Run(p) \/ Range(p) \/ RangeEnd(p) \/ Flush(p)
      PROVE  IInv'
  BY <1>3, <1>4, <1>5, GetKeeps, ResurrectKeeps, StoreValueKeeps, StoreExpiryKeeps,
     SetRacedKeeps, InsertKeeps, PublishKeeps, ClearKeeps DEF Run
<1>6. ASSUME NEW p \in Procs, NEW k \in Keys,
             GetHit(p, k) \/ GetOnRow(p, k) \/ RangeVisit(p, k) \/ Delete(p, k)
      PROVE  IInv'
  BY <1>2, <1>6, ClearKeeps
<1> QED
  BY <1>1, <1>5, <1>6, BeginSetKeeps, PassKeeps DEF Next

-----------------------------------------------------------------------------

\* What index, queues, death row and goroutines hold of entries and values fits
\* together in every state: S3FIFO's methods through Entries.
THEOREM EntriesInductive == Spec => []IInv
BY Initial, StepKeeps, PTL DEF Spec

\* Until a Delete hits death row the entries queued or on death row are those
\* the index leads to, each under its own key (s3fifo.go, all that hold c.mu).
THEOREM EntriesStayIntact == Spec => []EntriesIntact
<1>1. IInv => EntriesIntact
  BY DEF IInv
<1> QED
  BY <1>1, EntriesInductive, PTL

\* A get or Range returns what the key held or was being set to while it looked,
\* or its entry was recycled under it for another key, or it is the zero value
\* of a lost race to resurrect.
THEOREM GetsReturnHeld == Spec => []GetsHeld
<1>1. IInv => GetsHeld
  BY DEF IInv
<1> QED
  BY <1>1, EntriesInductive, PTL

\* The index leads to a value of its own key, but for entries that were recycled
\* while a goroutine held them for another key.
THEOREM IndexStaysOwn == Spec => []IndexHoldsOwn
<1>1. IInv => IndexHoldsOwn
  BY DEF IInv
<1> QED
  BY <1>1, EntriesInductive, PTL

\* An entry in the index has the expiry of its value, unless an update of it is
\* under way or two have overlapped: the two stores of an update are enough.
THEOREM ExpiryStaysKept == Spec => []ExpiryKept
<1>1. ASSUME IInv
      PROVE  ExpiryKept
  <2>1. SUFFICES ASSUME NEW k \in Keys, table[k] # Nil, table[k] \notin mixed,
                        Updating(table[k]) = {}
                 PROVE  ent[table[k]].exp = Expiry(ent[table[k]].val)
    BY DEF ExpiryKept
  <2>2. table[k] \in Entries
    BY <1>1, <2>1 DEF IInv, EntriesIntact, TypeOK
  <2>3. \A q \in Procs : ~(pc[q] = "expiry" /\ arg[q].ent = table[k])
    BY <2>1 DEF Updating
  <2>4. \A q \in Procs : arg[q].via = "new" => arg[q].ent # table[k]
    BY <1>1 DEF IInv, Unpublished
  <2> QED
    BY <1>1, <2>1, <2>2, <2>3, <2>4 DEF IInv, Paired
<1> QED
  BY <1>1, EntriesInductive, PTL

\* A value that had expired before the get, or the Range, began is returned from
\* death row only, or after the entry was recycled or doubly updated under it.
THEOREM ExpiredServedRarely == Spec => []ExpiredServed
<1>1. IInv => ExpiredServed
  BY DEF IInv
<1> QED
  BY <1>1, EntriesInductive, PTL
=============================================================================
