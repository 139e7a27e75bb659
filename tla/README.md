# A verification development for fido

fido is a Go cache: an in-memory engine with S3-FIFO eviction, `Fetch` with
deduplicated loaders, and an optional persistent tier behind a `Store`
interface. This directory holds TLA+ modules translated from the Go source, the
TLC configurations that check them on small instances, and proofs that TLAPS
checks for every value of the constants. `PROJECT.json` maps every definition
to the lines it stands for, lists the hazards of the code and which property
covers each, and gives for every property a mutant of the code that breaks it.

## 1. The system

| Component | State | Operations | Module |
|---|---|---|---|
| Entry lists (`s3fifo.go`, `entryList`) | head, tail, len of two lists; `prev`, `next` in the entries | `pushBack`, `remove` | `EntryList` |
| Ghost queue (`s3fifo.go`, `bloom.go`) | two Bloom filters, a ring of peak frequencies | `addToGhost`, `Contains`, `lookup` | `Ghost` |
| S3-FIFO engine (`s3fifo.go`) | index, flags and counters of entries, queues, death row, recycled entry, `totalEntries`, mutex | `get`, `setWithHash`, `del`, `flush`, `resurrectFromDeathRow`, the eviction loops | `S3FIFO` (queues and counters), `Entries` (keys, values, expiries) |
| Entry value storage (`s3fifo.go`) | `value`, `seq` | `storeValue`, `loadValue` | `Seqlock` |
| Fetch deduplication (`memory.go`) | `flights`, `flightCall` | `getSet` | `SingleFlight` |
| In-memory API (`memory.go`) | default TTL | `Get`, `Set`, `SetTTL`, `Delete`, `Len`, `Flush`, `Range` | `Entries`, `S3FIFO` |
| Tiered cache (`persistent.go`) | memory, store, `flights` | `Get`, `Set`, `SetAsync`, `Fetch`, `Delete`, `Flush`, `Close` | `Tiered` |
| The `Store` contract (`store.go`) | a value per key | what a `Get` may return | `LossyMap` |
| File store (`pkg/store/localfs`) | files, temporary files | `Get`, `Set`, `Delete`, `Cleanup`, `Flush`, `Len`, `Keys`, `Range` | `LocalFS`, `LocalFSMap` |
| Datastore store (`pkg/store/datastore`) | entities | the same | `Datastore` |
| Cloud Run selection (`pkg/store/cloudrun`) | the store picked | `New` | `CloudRun` |
| Valkey store (`pkg/store/valkey`) | the keys of a server | the same | `Valkey` |
| Null store, compression, hashing and tuning tables, benchmarks | none | | not modelled, section 7 |

How they interact. A `Cache` owns one engine and one map of flights. `get` and
the update of an existing key run without the mutex: they look the key up in a
concurrent map, raise two counters packed into one atomic word together with the
flags `inSmall` and `onDeathRow`, and copy the value under a sequence lock.
Everything that links entries - insertion, deletion, flush, resurrection,
eviction - runs under the mutex, but the flags and counters it reads can change
under it, and an entry a reader has looked up can be evicted, recycled and
rewritten for another key before the reader gets to it. `Fetch` sits on top of
`get` and `Set`. A `TieredCache` writes memory first and the store second,
with nothing that orders two goroutines between the two, and takes from a store
only what `LossyMap` says. The stores in turn talk to a file system, a Datastore
or a Valkey server in several requests per operation.

Hard behaviours, and what correctness means for each part:

* Lists: every operation trusts its caller that the entry is on the list. The
  lists are correct when each, walked both ways, is exactly the set of indexed
  entries flagged as its own.
* Engine: lookups race with evictions; a resurrection inserts before it evicts;
  the eviction loops rotate entries and must end; an entry is recycled exactly
  when nothing indexes it. Count, capacity, index, death row and queues must
  agree, and a get must return what its own key held, and not after its expiry.
* Ghost queue: an evicted key must be known to the filters afterwards, also
  when that very eviction rotates them.
* Value storage: no mixed and no stale value although both copies race.
* Fetch: one loader per key, everyone gets its outcome, everyone returns.
* Tiered cache: an operation that had a key to itself leaves both tiers in
  agreement, and nothing from before it comes back; a failing store leaves no
  call of `Fetch` behind.
* Stores: a file is old or new, never mixed, through crashes; what is removed was
  to be removed; walks miss nothing that stays; expiries survive the way there
  and back; and what a `Get` returns is what a register per key could return.

## 2. Modules and how they correspond to the code

**`EntryList`** keeps heads, tails, lengths and all pointers in one record, as
in memory. `PushBack` and `Remove` do what `pushBack` and `remove` do to *any*
entry, so removing one that is on no list does the damage it does in Go (the
list's head and tail become nil).

**`Ghost`** is the ghost queue as a record: a Bloom filter is the set of keys
added and the number of `Add` calls. A filter never denies a member; where it
may affirm a stranger, `S3FIFO` tries both answers. Distinct keys are assumed
to have distinct hashes.

**`S3FIFO`** extends both. One action stands for the stretch between two points
where another goroutine can change what the code reads:

* `GetHit`, `GetOnDeathRow`, `SetHit`, `SetMiss`: the lock-free lookups, each
  followed by a step that uses what was looked up (`arg[p].ent`), however stale.
* `IncFreq`, `IncPeakFreq`: the two compare-and-swap loops. A goroutine that
  holds the mutex writes the same word, so an increment may be lost then
  (`Incremented`).
* `SetRaced`, `SetBelowCapacity`, `SetAtCapacity`, `Insert`: `setWithHash` under
  the mutex; at capacity it is interrupted by the eviction between allocation
  and publication. `ResurrectRaced`, `Resurrect`: `resurrectFromDeathRow`.
* `EvictOne`, `EvictFromSmall`, `Promote`, `EvictFromMain`, `Demote`,
  `SecondChance`, `QueueEmpty`: one turn of one loop each, so lock-free hits
  interleave with them. `EvictFromSmall` and `EvictFromMain` are the decision to
  evict; `Drop` then unlinks the head and reads its peak frequency again, so an
  entry of main that is hit between the two looks goes to death row although it
  seemed never to have been accessed. The peaks of the sample that this one is
  compared with are read at that moment too, not one by one. `Panic` is the nil dereference `e.freq()` makes when a
  queue counts entries but has no head.
* `Delete`, `Flush`: `del` and `flush`, atomic under the mutex.

Gets that miss change nothing here and have no action. Left out: values and
expiries (`Entries`), the hash cache, and `warmupComplete`, because both ways of
inserting below capacity do the same. `rowDeleted` is a history variable: a
`Delete` has hit a key on death row since the last `Flush` (finding 1); several
invariants hold until then. `&entry{}` returns a struct that nothing refers to
(`Unreferenced`): no key, slot or goroutine, and no pointer of a list, left over
by the damage or not (`Linked`).

**`Entries`** is the same engine seen from a get. Queues are a set any member of
which may be evicted, to death row or for good, and death row is a set whose
members may be displaced, so every choice `S3FIFO` makes is among these; in
exchange an entry has its key, its value and its expiry. The steps are the ones
between which others come in: `GetHit` looks an entry up, `CheckFresh` or
`CheckExpired` reads its expiry, `LoadValue` copies the value; an update stores
the value (`StoreValue`) and then the expiry (`StoreExpiry`), without the mutex
if the entry seemed to be there; `Insert` writes the key of a recycled entry
while others may still hold it, and `Publish` makes room and indexes it, in one
step: both run under the mutex, and a get in between misses either key.
`Resurrect` does not look at the expiry, `ResurrectRaced` returns the zero value
and true. `Range` takes one look at the clock and then visits entries wherever
they are. That `loadValue` gives up after its last turn is left to
`Seqlock`. A value names the key and the expiry it was set with, so that what a
get returns shows where it comes from; `clobbered` and `mixed` are history and
name the two ways in which an entry is spoilt for who holds it.

**`Seqlock`** copies a value word by word in any order. A stored value is named
by its writer and the number its store ends with, so every word shows its origin. Readers
in `InOrder` load in program order (amd64); the others may load words after the
second load of the number, as arm64 permits for plain loads before a
load-acquire. Delayed visibility of a writer's plain stores is not modelled
apart: to a reader it is the same as a late load.

**`SingleFlight`** is `getSet` between its shared accesses: the miss, the
registration (`Lead`/`Join`, one atomic `LoadOrCompute`), the second get, the
loader (which returns a value, an error, or panics), the store, the removal of
the call with its outcome (`Publish`) and `wg.Done`. The cache below is a map
others set (`Set`) and that loses keys at any time (`Lose`: delete, flush,
eviction, expiry).

**`Tiered`** has one action per access of an operation to memory, to the store
and to the flights: `GetMiss`, `LoadHit`, `Refill`; `Set`, `Persist`; `Delete`,
`Erase`; `Flush`, `Wipe`; and `getSet` with its second look into both tiers.
Every store call may fail, and a write that fails may have taken effect. A
goroutine that `SetAsync` starts is a process like the others. `Evict` and `Lose`
take a key from memory or from the store at any time. The history variable `may`
is what a tier may hold of a key, `alone` the keys an operation has had to itself
since it began; when such an operation succeeds, `may` shrinks to what it left.

**`LossyMap`** is the abstract specification of a `Store`: a register per key
that a `Set` writes some time between call and return, that may lose its value
at any time, and whose `Get` returns nothing but what the register held, or a
`Set` in progress wrote, while the `Get` was in progress - a regular register
with loss. The three stores implement it.

**`LocalFS`** has inodes with contents, and names (of a key's file and of its
temporary file) that lead to them; an open file keeps its inode when the name
goes. `Set` is `OpenTmp` (O_TRUNC), `WriteTmp`, `Rename`, with their failures and
`RemoveTmp`; `Get` opens, reads and, if the entry is expired or cannot be
decoded, unlinks the name it read from, whatever that leads to by then. The
walks read the names of a subdirectory and visit one after the other. A file that
cannot be read or removed, or a subdirectory that cannot be listed, makes `Get`
return an error (`GetFails`) and a walk go on without it (`VisitFails`,
`NamesFail`, recorded in `failed`). `Crash`
ends the process at any point and may take the data of inodes with it, as
nothing is synced. `spoilt` is history: the inodes two Sets had in hand or a power
failure hit. `Keys` is a `Range` in the code and here. **`LocalFSMap`** adds the
calls of `LossyMap` and the history variable `seen`: what the key of a `Get` has
held since it began, and what has become since of an inode opened for that key
(`Changes`), which may have no name any more.

**`Datastore`** is request by request: a lookup, put or delete takes effect at
once; `Query` and `DeleteMulti` of `Cleanup` and `Flush` are two requests;
`Keys` and `Range` follow an iterator and end silently when it fails, and `Range`
passes over an entity it cannot decode (`SkipUndecoded`). `due` is what a walk is
meant for: every key with the prefix, or for `Cleanup` every entity that has
expired. `LeftOut` is what the code leaves out of it without an error: the keys
outside the range of names that `Keys` and `Range` ask for (`InRange`, the only
place where names keep their bytes), those that did not decode, and everything if
the query of `Cleanup`, whose filter is on a property without an index, finds
nothing.

**`CloudRun`** composes the two: `New` picks one from the environment and from
whether the Datastore client can be made; `CloudNext` is a step of the one
picked. Its properties are those of both and, of the composition, that it
implements `LossyMap` whichever it is.

**`Valkey`** is command by command against a server with a clock: the client asks
for an expiry at a time, the server is told a duration and keeps a deadline; there
are `Ms` instants to a millisecond, the duration sent and the clock of the server
are cut to whole ones (`Whole`), and a duration of 0 is refused. `SetExpired` is a
Set whose expiry has passed, which sends nothing. `RangeSkip` passes over a key
that has gone, or whose GET or decoding fails, silently. `Get` pipelines GET and PTTL, between which the commands of others and `Tick`
come in, and adds the answer to a later time; `Scan` returns any keys it likes
until its cursor is 0. `moved` is history: the key of a `Get` has changed since
its GET.

**`MCS3FIFO`, `MCEntries`, `MCCloudRun`, `MCValkey`, `MCTiered`** add symmetry,
bounds and a state view for TLC. Entries and inodes are names without meaning,
but too many to permute: `View` names one by what refers to it and drops those
nothing refers to and what the code overwrites before anybody can see it. Two
states with one view have the same successors up to those names.

**`S3FIFOProofs`, `QueueProofs`, `EntriesProofs`, `SingleFlightProofs`,
`SeqlockProofs`, `TieredProofs`, `CloudRunProofs`, `ValkeyProofs`** hold the
theorems. `QueueProofs` builds on `S3FIFOProofs`; `CloudRunProofs` is about both
stores and their composition.

## 3. Runs

| Run | Instance | Checks |
|---|---|---|
| `s3fifo_concurrent` | 2 goroutines, 4 keys, capacity 1, 1 death row slot | `QueuesIntact`, `RowIntact`, `IndexIntact`, `LenExact`, `EvictedIsRemembered` |
| `s3fifo_sequential` | 1 goroutine, 4 keys, capacity 2, 2 slots, small may keep 1 | `IInv`, `Consistent` (all four of the above), `CapacityBound`, `EvictionHasWork`, `PanicOnlyAfterRowDelete` |
| `s3fifo_liveness` | 2 goroutines, 2 keys, capacity 1 | `EvictionTerminates` |
| `entries` | 2 goroutines, 2 keys, 3 values of which one expires, capacity 1, 1 slot | `IInv`, `GetsHeld`, `IndexHoldsOwn`, `ExpiryKept`, `ExpiredServed` |
| `seqlock` | 2 writers, 2 readers (one in order), 2 words, 2 turns | `IInv`, `NoTornRead`, `ReadsAreFresh`, `LoadReturns`, `StoreAdvances` |
| `fetch` | 3 goroutines, 1 key, 2 values | `OneLoader`, `NoRepeatedLoad`, `OutcomeShared`, `FlightHasLeader`, `WaitersReleased` |
| `tiered` | 3 goroutines, 1 key, 2 values, 4 calls | `ReadsAccounted`, `NoRepeatedLoad`, `OutcomeShared`, `FlightHasLeader` |
| `cloudrun` | 2 goroutines, 2 keys, 2 entries of which one expires, either store | `StoresIntact`, `FilesWhole`, `WalksExact`, `SetInstalls`, `FreshKept`, `StoreImplemented` |
| `valkey` | 2 clients, 2 keys, 2 values, a clock of 4 instants, 2 to a millisecond | `ExpiryKept`, `NotForever`, `WalkComplete`, `MapImplemented` |
| `s3fifo_infallible`, `fetch_panic`, `entries_otherkey` | | violations, section 5 |

What the bounds are and why they are enough:

* Capacity 1 with four keys puts a key in a queue, one on death row and one
  outside, all that a step distinguishes; displacement from death row, which is
  how an entry is recycled under a reader, needs exactly the third key. Capacity
  2 with two slots adds neighbours on both sides in a list and a choice of slot.
* `MaxFreq = 2` is the least value at which promotion (`freq >= 2`) happens;
  `MaxPeak = 1` separates "never accessed" from "accessed", all that demotion
  and the ghost ring ask. `s3fifo_sequential` has `MaxFreq = 1` and a mask of one
  bit; promotion is left to `s3fifo_concurrent` and second chances remain.
* `GhostCap = 0` is what `size * ghostRatio / 1000` gives for size 1: the filters
  rotate on every eviction, the worst case for `EvictedIsRemembered`.
* `s3fifo_sequential` is a scaled instance: the code's `smallRatio` of 148‰ lets
  the small queue keep an entry (`smallThresh = 1`) only from capacity 7, and a
  cache of 2 has `ghostCap = 1`. The run sets `SmallThresh = 1` and `GhostCap = 0`
  at capacity 2 so that both branches of `evictOne` are taken with short queues;
  the theorems hold for every value of the three constants.
* `RowNotDeleted` stops `s3fifo_concurrent`, `s3fifo_liveness` and the runs of
  `Entries` where a `Delete` has hit death row, because the invariants they check
  are conditional on that. `DamagedSmallQueue` lets `s3fifo_sequential` follow the
  damage in the small queue only, with five entries in use, none of them touched
  or recycled, a free slot and the count at -1 or more; it reaches `Panic`.
* `entries`: one key has a value that expires and one that does not, the other
  key is the one an entry is recycled for. Two goroutines suffice for each of the
  races: one holds the entry, the other does the rest call after call. `Bounded`
  stops where two entries are clobbered or mixed, and has one iteration at a
  time, as iterations only read.
* Two turns stand for the thousand of `loadValue`: one that fails and one that
  may succeed. `MaxStores = 1` lets both writers store, so up to two stores end.
* One key in `fetch` and `tiered`: no step mentions two keys but `Flush`, which
  does the same to each; the theorems cover any set. Four calls suffice: one per
  goroutine and one that a panic leaves registered.
* `cloudrun` (`Quiet`): one walk at a time. In the file store two keys share
  nothing but a subdirectory, so the first key takes all operations, and the
  second is there for the walks, set and got while nothing else goes on. A walk
  on which something has failed goes on alone. Two
  goroutines and six inodes let two Sets share a temporary file. The extension
  and the two keys are bytes on both sides of each other, as the range of a
  Datastore query tells them apart.
* `valkey` (`Quiet`): the same division between the two keys. Four instants and
  expiries at 3 and 7 give a `Set` that is cut by an instant and one that is not,
  one of less than a millisecond, one that has passed, a key in its last
  millisecond, whose PTTL is 0, one that has ended, and one that outlives the run.

Every entry struct is available again once nothing refers to it (garbage
collection); the constants `Entries`, `Calls` and `Inodes` are large enough that
an allocation never waits.

Fairness. `S3FIFO!Fairness` is weak fairness of a goroutine that is touching
an entry or holds the mutex: nobody can block it, and the Go scheduler runs
every runnable goroutine. Acquiring the mutex is *not* assumed fair.
`EvictionTerminates` assumes besides that hits pause at some time: with hits
for ever, every second chance can be undone and the loop need not end (hazard
at `s3fifo.go:713`). `SingleFlight!FairSpec` is weak fairness of a goroutine
inside `getSet`, including the assumption that a loader returns or panics.
`Seqlock!FairSpec` is weak fairness of each reader and assumes nothing of the
writers: one may be descheduled for ever between its compare-and-swap and its
last store, which leaves the number odd, and only the bound on its turns lets a
reader return (`LoadReturns`). `StoreAdvances` is about writers that do run and
says so (`WritersFair =>`); a single one may still lose every compare-and-swap.
`Tiered` and the stores are checked without fairness: what a store, a network or
a caller does may take for ever.

Deadlock is checked in every run. After a nil dereference the program is gone;
`S3FIFO` then stutters.

## 4. What is proved

All theorems hold for every value of the constants under the named `ASSUME`s,
which say what the code guarantees (a positive capacity, `maxFreq` below the
mask, nil is no entry, ...). TLC evaluates them in every run. Every inductive
invariant was checked by TLC on the instances above before it was proved; the
runs of `S3FIFO`, `Entries`, `Seqlock` and `CloudRun` still check theirs (`IInv`,
`StoresIntact`), the others check the properties that follow. Of the properties
of the passing runs only the liveness properties have no theorem.

### The engine

* `S3FIFOProofs!Inductive`: `Spec => []IInv`. `CapacityBound` and
  `EvictionHasWork` are not inductive. That the count stays within capacity
  needs to know what the holder of the mutex is about to do: an inserter that
  has evicted leaves room for one (`CountOK`), a resurrector has gone one over.
  That in turn needs mutual exclusion (`LockOK`), and that what gets evicted has
  a key to take out of the index (`KeyedOK`) - all pointers, slots and arguments
  lead to entries that carry a key. None of it assumes well-formed lists, so the
  theorems also hold after the damage of finding 1. Corollaries: `TypesHold`,
  `CapacityHolds`, `EvictionAlwaysHasWork`. `EvictionRemembers` is the action
  property: what an eviction takes out of the index, the filters know, as a
  rotation makes the filter with the key the aging one.
* `QueueProofs!QueueInductive`: until a `Delete` hits death row, queues, death
  row, index and the entry about to be inserted are consistent (`QueueInv`).
  `QueuesIntact` walks a list with a recursive function, which no prover here can
  take a step with. The proof keeps a witness instead: a sequence of distinct
  entries along which `next` and `prev` run (`Walk`, `Holds`). `pushBack` appends
  to it (`PushHolds`), `remove` cuts one element out wherever it stands
  (`RemoveHolds`), neither disturbs the other list, and the recursive walk agrees
  with the sequence by a least counterexample (`ReachedIs`, `HoldsMeans`).
  Corollaries: `QueuesStayIntact`, `RowStaysIntact`, `LenStaysExact`,
  `ConsistentUntilRowDelete`, and `NoPanicBeforeRowDelete`: a queue that counts
  entries has a head. So finding 1 is the only way to a nil dereference.
* `QueueProofs!PlacesInductive`: what the damage cannot reach. Lists whose ends
  were cleared stay in pieces whose pointers go both ways (`Pieces`), so an entry
  that `remove` has unlinked has no pointer left that leads to it; an entry is
  linked, on death row, kept for reuse or about to be inserted, and only one of
  these (`OnePlace`). Hence `IndexStaysIntact`: with any number of such Deletes,
  the index never leads to an entry of another key, to the recycled one or to one
  that is being filled. What a key can lose is its place in a queue, not its entry.
* `EntriesProofs!EntriesInductive`: the same engine with values. An insert alone
  has its entry until it publishes it (`Unpublished`); everybody else who holds an
  entry holds it for the key it has, or the entry is `clobbered` (`OneKey`); a
  value goes with its own expiry unless an update is between the two stores or two
  have overlapped (`Paired`); and what a get is about to load is among what it may
  return (`InSight`), the value of an update under way included (`Announced`).
  `Linked`, the part a `Delete` on death row breaks, is conditional on that;
  `Apart` is what stays. Corollaries: `EntriesStayIntact`, `GetsReturnHeld`,
  `IndexStaysOwn`, `ExpiryStaysKept`, `ExpiredServedRarely`.
* `SeqlockProofs!Inductive`: whoever copies owns the odd number after the even
  one it loaded (`WritersOK`), while the number is the one a reader began
  with, so are the words (`ReadersOK`), and no word is older than the last store
  that has ended (`FreshOK`). Corollaries: `ReadsNotTorn`, `StoresAreWhole`,
  `ReadsStayFresh`.

### Fetch and the tiers

* `SingleFlightProofs!Inductive`: a leader's call is the one registered under
  its key, no call has two leaders or two keys (`CallsOK`), and the outcome is
  in the call before `wg.Done` (`OutcomeOK`). Corollaries: `OneLoaderPerKey`,
  `WaitersShareOutcome`, `LoadsNotRepeated`, `FlightsAreLed`.
* `TieredProofs!Accounts`: that nothing comes back needs to know what is on the
  way. What a goroutine is about to write is accounted for (`HeldOK`), and one
  that has a key to itself has nobody else at work on it and finds the tiers as
  it left them (`AloneOK`) - so when it settles a key, nobody holds an older
  value. `FlightsOK` says who leads which call and what it owes, through all the
  ways past memory, store and loader; `KeptOK` that a value a loader has returned
  is in the store until something takes it out. Corollaries: `NothingComesBack`,
  `OutcomesShared`, `FlightsLed`, `LoadsNotRepeated`.

### The stores

* `CloudRunProofs!Separation`: a temporary file is nobody's file and belongs to
  one key (`Apart`), and a Set is alone with the inode it writes and finds there
  what it wrote, or the inode is spoilt (`AloneOrSpoilt`); only an inode nobody
  has open stops being spoilt. It holds through failed writes, process death
  and power loss. Corollaries: `FilesAreWhole`, `OwnEntryInstalled`.
* `CloudRunProofs!StoresStayIntact`: `StoresIntact` is the inductive invariant of
  the composition. To `Separation` it adds, of the file store, that what is
  unlinked had expired, could not be decoded or is spoilt (`StaleOrSpoilt`);
  what a walk has done and has ahead of it, key by key (`WalkKept`); that an
  inode is one key's for good (`OneKey`), that what a Set may rename is the entry
  of a Set of that key still under way (`OneIsPutting`), and that a `Get` may
  return what it has in hand (`SeenOK`); the same of Datastore's walks; and that
  the store that was not picked is idle. Corollaries: `FreshStaysKept` and
  `WalksAreExact`: a walk that ends acts on nothing it is not meant for and on all
  that it is, but for keys that others changed and the exceptions of `failed` and
  `LeftOut` (section 2), which are the code's own and not excused by an error.
* `CloudRunProofs!StoreIsImplemented`: either store implements `LossyMap`. Each
  step of a store is shown to be a stutter or one step of the register - a call
  begins (`Enters`), answers (`Answers`), ends (`Leaves`), an entry is written
  (`Writes`) or lost (`Loses`), or a process dies (`Crashes`) - with `StoresIntact`
  telling which. A rename writes the entry of a Set under way, though perhaps not
  its own: that is `OneIsPutting`. `seen` has to be exact for this: were
  it to collect whatever is written to any inode, a `Get` among three goroutines
  could return what no Set put under its key.
* `ValkeyProofs!DeadlinesKept`: the server's deadline is less than two milliseconds
  before the expiry asked for - the duration and the server's clock each lose less
  than one - and after it by no more than the SET was on its way (`DeadlineKept`),
  and a duration on its way there or back leads to within these bounds
  (`DurationKept`), as time only moves on. Corollaries: `ExpiriesKept`, the same of
  what `Get` returns, and `ForeverAccounted`. They hold for any number of instants
  to a millisecond.
* `ValkeyProofs!WalksAccount`: what the `SCAN` of a walk has returned, of the keys
  that were there before it and that nobody touched, is in the batch, done, or one
  that `Range` could not get or decode, and a complete `SCAN` has returned them all.
  Corollary: `WalksComplete`.
  `ImplementsMap`: the server implements `LossyMap`, command by command.

### What is only model-checked

Liveness: `EvictionTerminates`, `LoadReturns`, `StoreAdvances` and
`WaitersReleased`. Liveness under fairness and ENABLED are beyond TLAPS here. The
findings of section 5 are counterexamples, which need no proof.

## 5. Findings

1. `s3fifo_infallible`: `Delete` of a key on death row unlinks an entry that is
   on no list. The queue loses its head and tail, both counters go down a second
   time, and some calls later an eviction dereferences nil. The run is one
   goroutine with three keys and capacity 1.
2. `fetch_panic`: a panicking loader leaves its call registered; every later
   `Fetch` of the key waits for ever.
3. `entries_otherkey`: a `Get` that has found an entry returns the value of
   another key when the entry is evicted, recycled and rewritten before it
   copies the value.

Observed while modelling. The properties name these cases as exceptions, or allow
them. Three go against a comment of the code, and no run is made of them, as the
exception in the property already is the difference:

* Datastore's `Keys` and `Range` skip, with a compressor, keys whose next byte
  comes before the extension's (`InRange`): `datastore.go:222` says "Keys returns
  an iterator over keys matching prefix", as `:257` and `store.go:24` do;
* Datastore's `Cleanup` filters by a property that is not indexed
  (`datastore.go:55`), so its query may find nothing, and it returns 0 and no error
  (`Query`, `LeftOut`): `datastore.go:159` says "Cleanup removes expired entries";
* the `Range` of every store passes silently over a key that is there but cannot be
  read or decoded (`VisitFails`, `SkipUndecoded`, `RangeSkip`): `store.go:28`
  says "Range returns an iterator over key-value pairs matching prefix".

Of the others the documents say nothing:

* a restored peak goes into the 4-bit frequency above `maxFreq`, and a
  resurrected entry can be evicted by the eviction that makes room for it;
* `get` resurrects an expired value, and a raced resurrection returns the zero
  value and true (`ExpiredServed`, `GetsHeld`);
* overlapping updates of a key can leave the value of one with the expiry of the
  other (`ExpiryKept`);
* `loadValue` reports a stored value as absent when stores are under way on
  every turn, and on processors that delay plain loads it can mix two stores;
* two concurrent Sets of a key share a temporary file, so the file may hold the
  entry of the other or a mixture, which `Get` then removes (`FilesWhole`); a
  `Get` or `Cleanup` that read an expired entry removes a fresh one that has
  replaced it, and so does Datastore's `Cleanup` (`FreshKept`);
* in Valkey a value can lose its expiry on the way back to memory in the three
  cases of `NotForever`, and the expiry can come back up to two milliseconds early,
  or late by the way there and back (`ExpiryKept`); a `Set` whose expiry is less
  than a millisecond away fails, and one whose expiry has passed returns nil and
  keeps the old value (`SetExpired`);
* `Range` of the cache looks at the clock once, and yields what expires while it
  runs (`ExpiredServed`).

## 6. Assumptions about what is outside

`LocalFS` takes names, rename and unlink as atomic and lets a power failure take
the data of any linked inode but no name; removing a temporary file after a failed
rename does not fail. `Datastore` takes single requests as
atomic and an iterator as reading an entity when it gets to it; that it reads
ahead in batches is not modelled. No request arrives after its error was
reported. `Valkey` executes one command at a time, shows no key after its
deadline, and a complete SCAN returns every key that was there all along;
server and clients share a clock. `Cleanup` is modelled with `maxAge` 0: another
age moves the cutoff and nothing else.

## 7. Not modelled, and why

* **Null store**: every method returns at once and keeps nothing.
* **Compression**: calls of third-party codecs; an entry that does not decode is
  `Garbage` in `LocalFS`.
* **Hashing and tuning tables**: mixing 64-bit words is of no interest here but
  for collisions, and distinct keys are assumed to have distinct hashes.
  `smallRatio` and `ghostRatio` come in as `SmallThresh` and `GhostCap`.
* **Options and `Close`**: options only fill in constants. `Close` of a
  `TieredCache` does not wait for what `SetAsync` has started; what a closed store
  does with it is up to the client library, and a lost write is `PersistFails`.
* **Benchmarks**: measurement tooling.
* Names, encodings and directories of the stores, except for the byte order in
  Datastore's queries. That a Valkey prefix with a glob character, or one that is
  another cache's prefix, makes `Flush` reach further is outside: a model has one
  cache per server.

## 8. What is left

In this order:

1. Nested `Fetch` calls (a loader that fetches its own key, or two that fetch
   each other's), which today wait on themselves.
2. A restart of a Cloud Run process that picks the other store than before, with
   what that one held.
3. `Tuning`: `smallRatio`, `ghostRatio` and the packing of `freqFlags` as pure
   functions checked against reference definitions; `GhostHistory`: which
   evictions the filters and the ring remember, with bounds.
4. Proofs: that `getSet` of `TieredCache`, as far as flights go, implements
   `SingleFlight`; what the ghost ring remembers, once `GhostHistory` states it.
