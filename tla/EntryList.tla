------------------------------ MODULE EntryList ------------------------------
(***************************************************************************)
(* entryList of s3fifo.go: the intrusive doubly-linked lists that hold the *)
(* small and the main queue.  The head, tail and length of every queue and *)
(* the two pointers inside every entry are kept as one record, as they are *)
(* in memory, so that an operation applied to an entry that is NOT on the  *)
(* list does exactly the damage the Go code does.                          *)
(***************************************************************************)
EXTENDS Integers

CONSTANTS
  Entries,  \* the entry structs on the heap, by identity
  Nil       \* the nil pointer

ASSUME NilIsNoEntry == Nil \notin Entries

Queues == {"small", "main"}

Ref == Entries \cup {Nil}

Links == [ head : [Queues -> Ref],
           tail : [Queues -> Ref],
           len  : [Queues -> Int],
           next : [Entries -> Ref],
           prev : [Entries -> Ref] ]

\* The zero value of both lists, with no entry linked anywhere.
NoLinks == [ head |-> [q \in Queues |-> Nil],
             tail |-> [q \in Queues |-> Nil],
             len  |-> [q \in Queues |-> 0],
             next |-> [e \in Entries |-> Nil],
             prev |-> [e \in Entries |-> Nil] ]

\* Plausible bug: pushBack leaves e.prev as it was.
PushBackUnlinked(L, q, e) ==
  LET last == L.tail[q] IN
  [ head |-> [L.head EXCEPT ![q] = IF last = Nil THEN e ELSE @],
    tail |-> [L.tail EXCEPT ![q] = e],
    len  |-> [L.len  EXCEPT ![q] = @ + 1],
    next |-> [x \in Entries |-> IF x = last THEN e
                                ELSE IF x = e THEN Nil ELSE L.next[x]],
    prev |-> L.prev ]

PushBack(L, q, e) ==
  LET last == L.tail[q] IN
  [ head |-> [L.head EXCEPT ![q] = IF last = Nil THEN e ELSE @],
    tail |-> [L.tail EXCEPT ![q] = e],
    len  |-> [L.len  EXCEPT ![q] = @ + 1],
    next |-> [x \in Entries |-> IF x = last THEN e
                                ELSE IF x = e THEN Nil ELSE L.next[x]],
    prev |-> [L.prev EXCEPT ![e] = last] ]

\* Plausible bug: remove leaves the tail as it was.
RemoveKeepsTail(L, q, e) ==
  LET p == L.prev[e]
      n == L.next[e]
  IN [ head |-> [L.head EXCEPT ![q] = IF p = Nil THEN n ELSE @],
       tail |-> L.tail,
       len  |-> [L.len  EXCEPT ![q] = @ - 1],
       next |-> [x \in Entries |-> IF x = e THEN Nil
                                   ELSE IF x = p THEN n ELSE L.next[x]],
       prev |-> [x \in Entries |-> IF x = e THEN Nil
                                   ELSE IF x = n THEN p ELSE L.prev[x]] ]

\* remove does not check that e is a member of q: a nil prev pointer means
\* "e is the head" and a nil next pointer means "e is the tail".
Remove(L, q, e) ==
  LET p == L.prev[e]
      n == L.next[e]
  IN [ head |-> [L.head EXCEPT ![q] = IF p = Nil THEN n ELSE @],
       tail |-> [L.tail EXCEPT ![q] = IF n = Nil THEN p ELSE @],
       len  |-> [L.len  EXCEPT ![q] = @ - 1],
       next |-> [x \in Entries |-> IF x = e THEN Nil
                                   ELSE IF x = p THEN n ELSE L.next[x]],
       prev |-> [x \in Entries |-> IF x = e THEN Nil
                                   ELSE IF x = n THEN p ELSE L.prev[x]] ]

\* The entries reached from the head of q in n steps of the next pointer.
Reached(L, q, n) ==
  LET at[i \in 0..n] == IF i = 0 THEN L.head[q]
                        ELSE IF at[i - 1] = Nil THEN Nil ELSE L.next[at[i - 1]]
  IN at
=============================================================================
