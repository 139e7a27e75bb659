------------------------------- MODULE Seqlock -------------------------------
(***************************************************************************)
(* storeValue and loadValue of s3fifo.go: the value inside an entry is     *)
(* copied word by word, with a sequence number that is odd during a store. *)
(* Both copies race by design.                                             *)
(*                                                                         *)
(* A stored value is named by its writer and the sequence number its store *)
(* ends with, so every word shows which store it comes from.               *)
(***************************************************************************)
EXTENDS Integers

CONSTANTS
  Words,     \* the machine words of a value
  Writers,   \* goroutines in storeValue
  Readers,   \* goroutines in loadValue
  InOrder,   \* readers on processors that load in program order; on the
             \* others (arm64) a plain load of a word may happen after the
             \* second load of the sequence number
  Retries,   \* turns of loadValue (1000)
  MaxStores, \* bound: no store starts once this many have ended
  None,      \* a word not read yet; the writer of the zero value
  Failed     \* the result zero, false

\* The stores a word can come from.
Stores == [seq : Nat, by : Writers \cup {None}]

ASSUME SeqlockConstants ==
  /\ InOrder \subseteq Readers
  /\ Retries \in Nat
  /\ MaxStores \in Nat
  /\ None \notin Stores
  /\ Failed \notin [Words -> Stores]

VARIABLES
  seq,     \* e.seq
  word,    \* e.value
  writer,  \* where each writer is, the seq it has loaded, the words to copy
  reader,  \* where each reader is, s1, v, its turn
  since,   \* history: e.seq when the call of each reader began
  result   \* history: what the last loadValue of each reader returned

vars == <<seq, word, writer, reader, since, result>>

Odd(n) == n % 2 = 1

TypeOK ==
  /\ seq \in Nat
  /\ word \in [Words -> Stores]
  /\ writer \in [Writers -> [pc   : {"idle", "load", "cas", "copy"},
                             seq  : Nat,
                             todo : SUBSET Words]]
  /\ reader \in [Readers -> [pc   : {"idle", "begin", "read", "late"},
                             s1   : Nat,
                             v    : [Words -> Stores \cup {None}],
                             turn : 0..Retries]]
  /\ since \in [Readers -> Nat]
  /\ result \in [Readers -> [Words -> Stores] \cup {Failed}]

Unread == [x \in Words |-> None]

\* The locals of a goroutine that is not in storeValue, is about to load the
\* number, or is not in loadValue.
NoStore == [pc |-> "idle", seq |-> 0, todo |-> {}]
Storing == [pc |-> "load", seq |-> 0, todo |-> {}]
NoLoad  == [pc |-> "idle", s1 |-> 0, v |-> Unread, turn |-> 0]

\* A reader that has begun n turns and is about to begin another.
Turns(n) == [pc |-> "begin", s1 |-> 0, v |-> Unread, turn |-> n]

Init ==
  /\ seq = 0
  /\ word = [x \in Words |-> [seq |-> 0, by |-> None]]
  /\ writer = [w \in Writers |-> NoStore]
  /\ reader = [r \in Readers |-> NoLoad]
  /\ since = [r \in Readers |-> 0]
  /\ result = [r \in Readers |-> Failed]

-----------------------------------------------------------------------------
(* storeValue *)

readerVars == <<reader, since, result>>

StoreCall(w) ==
  /\ writer[w].pc = "idle" /\ seq < 2 * MaxStores
  /\ writer' = [writer EXCEPT ![w] = Storing]
  /\ UNCHANGED <<seq, word, readerVars>>

\* An odd number means that another writer is copying: spin.
LoadSeq(w) ==
  /\ writer[w].pc = "load" /\ ~Odd(seq)
  /\ writer' = [writer EXCEPT ![w] = [pc |-> "cas", seq |-> seq, todo |-> {}]]
  /\ UNCHANGED <<seq, word, readerVars>>

\* Plausible bug: a store to e.seq in place of the compare-and-swap.
CasBlind(w) ==
  /\ writer[w].pc = "cas"
  /\ seq' = writer[w].seq + 1
  /\ writer' = [writer EXCEPT ![w] = [pc |-> "copy", seq |-> @.seq, todo |-> Words]]
  /\ UNCHANGED <<word, readerVars>>

Cas(w) ==
  /\ writer[w].pc = "cas" /\ seq = writer[w].seq
  /\ seq' = seq + 1
  /\ writer' = [writer EXCEPT ![w] = [pc |-> "copy", seq |-> @.seq, todo |-> Words]]
  /\ UNCHANGED <<word, readerVars>>

CasFails(w) ==
  /\ writer[w].pc = "cas" /\ seq # writer[w].seq
  /\ writer' = [writer EXCEPT ![w] = Storing]
  /\ UNCHANGED <<seq, word, readerVars>>

CopyWord(w, x) ==
  /\ writer[w].pc = "copy" /\ x \in writer[w].todo
  /\ word' = [word EXCEPT ![x] = [seq |-> writer[w].seq + 2, by |-> w]]
  /\ writer' = [writer EXCEPT ![w].todo = @ \ {x}]
  /\ UNCHANGED <<seq, readerVars>>

\* Plausible bugs: the number stays odd, or is stored before the words.
StoreSeqOdd(w) ==
  /\ writer[w].pc = "copy" /\ writer[w].todo = {}
  /\ writer' = [writer EXCEPT ![w] = NoStore]
  /\ UNCHANGED <<seq, word, readerVars>>

StoreSeqEarly(w) ==
  /\ writer[w].pc = "copy"
  /\ seq' = writer[w].seq + 2
  /\ writer' = [writer EXCEPT ![w] = NoStore]
  /\ UNCHANGED <<word, readerVars>>

StoreSeq(w) ==
  /\ writer[w].pc = "copy" /\ writer[w].todo = {}
  /\ seq' = writer[w].seq + 2
  /\ writer' = [writer EXCEPT ![w] = NoStore]
  /\ UNCHANGED <<word, readerVars>>

-----------------------------------------------------------------------------
(* loadValue *)

writerVars == <<seq, word, writer>>

ReadCall(r) ==
  /\ reader[r].pc = "idle"
  /\ reader' = [reader EXCEPT ![r] = Turns(0)]
  /\ since' = [since EXCEPT ![r] = seq]
  /\ UNCHANGED <<writerVars, result>>

\* Plausible bug: a turn that finds a store under way is not counted.
BeginUncounted(r) ==
  /\ reader[r].pc = "begin" /\ reader[r].turn < Retries
  /\ reader' = [reader EXCEPT ![r] =
       IF Odd(seq) THEN Turns(@.turn)
       ELSE [pc |-> "read", s1 |-> seq, v |-> Unread, turn |-> @.turn + 1]]
  /\ UNCHANGED <<writerVars, since, result>>

\* A new turn; with a store under way it ends at once.
Begin(r) ==
  /\ reader[r].pc = "begin" /\ reader[r].turn < Retries
  /\ reader' = [reader EXCEPT ![r] =
       IF Odd(seq) THEN Turns(@.turn + 1)
       ELSE [pc |-> "read", s1 |-> seq, v |-> Unread, turn |-> @.turn + 1]]
  /\ UNCHANGED <<writerVars, since, result>>

ReadWord(r, x) ==
  /\ reader[r].pc \in {"read", "late"} /\ reader[r].v[x] = None
  /\ reader' = [reader EXCEPT ![r].v = [@ EXCEPT ![x] = word[x]]]
  /\ UNCHANGED <<writerVars, since, result>>

WordsRead(r) == \A x \in Words : reader[r].v[x] # None

Return(r, res) ==
  /\ result' = [result EXCEPT ![r] = res]
  /\ reader' = [reader EXCEPT ![r] = NoLoad]
  /\ UNCHANGED <<writerVars, since>>

\* The number has not changed: return v, and false if nothing was ever stored.
Value(r) == IF reader[r].s1 > 0 THEN reader[r].v ELSE Failed

\* Plausible bug: the second load of the number is only looked at for a store
\* that is under way.
CheckEven(r) ==
  /\ reader[r].pc = "read" /\ WordsRead(r) /\ ~Odd(seq)
  /\ Return(r, Value(r))

Check(r) ==
  /\ reader[r].pc = "read" /\ WordsRead(r) /\ seq = reader[r].s1
  /\ Return(r, Value(r))

\* Another turn.
CheckFails(r) ==
  /\ reader[r].pc = "read" /\ seq # reader[r].s1
  /\ r \in InOrder => WordsRead(r)
  /\ reader' = [reader EXCEPT ![r] = Turns(@.turn)]
  /\ UNCHANGED <<writerVars, since, result>>

\* The check has passed before the last words are loaded.
CheckEarly(r) ==
  /\ reader[r].pc = "read" /\ seq = reader[r].s1 /\ ~WordsRead(r) /\ r \notin InOrder
  /\ reader' = [reader EXCEPT ![r].pc = "late"]
  /\ UNCHANGED <<writerVars, since, result>>

ReturnLate(r) ==
  /\ reader[r].pc = "late" /\ WordsRead(r)
  /\ Return(r, Value(r))

GiveUp(r) ==
  /\ reader[r].pc = "begin" /\ reader[r].turn = Retries
  /\ Return(r, Failed)

-----------------------------------------------------------------------------

Store(w) ==
  \/ LoadSeq(w) \/ Cas(w) \/ CasFails(w) \/ StoreSeq(w)
  \/ \E x \in Words : CopyWord(w, x)

Load(r) ==
  \/ Begin(r) \/ Check(r) \/ CheckFails(r) \/ CheckEarly(r) \/ ReturnLate(r) \/ GiveUp(r)
  \/ \E x \in Words : ReadWord(r, x)

Next ==
  \/ \E w \in Writers : StoreCall(w) \/ Store(w)
  \/ \E r \in Readers : ReadCall(r) \/ Load(r)

Spec == Init /\ [][Next]_vars

\* A goroutine inside loadValue is scheduled; nothing is assumed of the writers.
FairSpec == Spec /\ \A r \in Readers : WF_vars(Load(r))

WritersFair == \A w \in Writers : WF_vars(Store(w))

-----------------------------------------------------------------------------
(* Properties *)

\* A value returned to a reader that loads in order comes from one store: the
\* words of two stores are never mixed.
NoTornRead ==
  \A r \in InOrder : result[r] # Failed => \A x, y \in Words : result[r][x] = result[r][y]

\* The number of the last store that had ended when the number was n.
Ended(n) == n - (n % 2)

\* Even a word loaded late is not older than the value that was there when
\* loadValue was called: what a reader has seen or written before, it sees.
ReadsAreFresh ==
  \A r \in Readers : reader[r].pc = "idle" /\ result[r] # Failed =>
    \A x \in Words : result[r][x].seq >= Ended(since[r])

\* With no store under way, all words are those of the last one, however many
\* writers met.
StoredWhole ==
  ~Odd(seq) => \A x, y \in Words : word[x] = word[y] /\ word[x].seq = seq

\* loadValue returns by the steps of its own goroutine, whatever the writers do:
\* also when one of them stops for good half way through its copy and leaves the
\* number odd.
LoadReturns == \A r \in Readers : reader[r].pc = "begin" ~> reader[r].pc = "idle"

\* As long as writers are scheduled, one of those inside storeValue gets to its
\* next step: they never all wait for each other.
StoreAdvances ==
  WritersFair =>
    \A n \in 0 .. 2 * MaxStores :
      (seq = n /\ \E w \in Writers : writer[w].pc # "idle") ~> seq # n

(* What makes NoTornRead and ReadsAreFresh inductive *)

\* Whoever copies owns the odd number after the even one it loaded.
WritersOK ==
  /\ \A w \in Writers :
       /\ writer[w].pc = "cas" => ~Odd(writer[w].seq)
       /\ writer[w].pc = "copy" =>
            /\ ~Odd(writer[w].seq) /\ seq = writer[w].seq + 1
            /\ \A x \in Words \ writer[w].todo : word[x] = [seq |-> seq + 1, by |-> w]
  /\ \A w, u \in Writers : writer[w].pc = "copy" /\ writer[u].pc = "copy" => w = u

\* As long as the number is the one a reader began with, so are the words.
ReadersOK ==
  \A r \in Readers : reader[r].pc = "read" =>
    /\ ~Odd(reader[r].s1) /\ reader[r].s1 <= seq
    /\ seq = reader[r].s1 =>
         \A x \in Words : reader[r].v[x] \in {None, word[x]}

\* No word is older than the last store that has ended, nor is what a reader has
\* loaded older than that was at its call.
FreshOK ==
  /\ \A x \in Words : word[x].seq >= Ended(seq)
  /\ \A r \in Readers :
       /\ since[r] <= seq
       /\ reader[r].pc # "idle" => \A x \in Words :
            reader[r].v[x] # None => reader[r].v[x].seq >= Ended(since[r])

LateOK == \A r \in InOrder : reader[r].pc # "late"

IInv ==
  /\ TypeOK /\ WritersOK /\ ReadersOK /\ LateOK /\ FreshOK
  /\ StoredWhole /\ NoTornRead /\ ReadsAreFresh
=============================================================================
