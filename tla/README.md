# Verification of minimalstdlib in TLA+

minimalstdlib is a header-only C++ standard library for operating-system and embedded code. The part that carries
its own logic is `include/lockfree` and the memory resources in `include/__memory_resource`; these modules model that
part at the level of its atomic operations. Of the rest they model what keeps state or decides something that is easy
to get wrong: formatting, hashing, comparison, random numbers, the platform layer, the mutexes, the search tree and
the cache on it. TLC checks the modules on small instances, and TLAPS proves central invariants for every instance.

## 1. The system

### Parts that are modelled

| Part | State | Operations | What makes it correct |
|---|---|---|---|
| `mp_sc_growable_ring_queue` | a ring of segments; per segment a packed word (capacity, position), a buffer of slots with a ready flag, a drain cursor; the segments producers and the consumer look at | `push_back` (any thread), `pop_front` (one consumer), destructor | an item that was accepted comes out once, those of one producer and segment in claim order; a slot has one owner; a full segment stays full until it is reopened; a drained segment reopens |
| `intrusive_tagged_stack` with `tagged_ptr`, `arena_tagged_ptr` | a head word (node, counter) and a link in each node | `push`, `pop`, `steal_all` | it is an atomic stack in spite of node reuse (ABA) |
| `lockfree_static_arena_resource` | a bump pointer, eight bins that are tagged stacks, a size header in free blocks | allocate, deallocate | arena bytes are free, held, or in one thread's hands: never two of these, never none |
| `lockfree_single_arena_resource` | a frontier that grows up, metadata records that grow down from the top, free bins per size and address, pending lists per shard | allocate, deallocate, and the maintenance both do in between | blocks tile the memory below the frontier and never reach a record; a record is in one place; a second free of a block loses; every call returns |
| `bitblock_set` | words of bits, a search hint | acquire and release of a run in one or two words; search for a free bit or run | a set bit has one holder; a failed acquire leaves no trace; a search fails only when there is nothing |
| `lockfree_bitblock_resource` | arenas with a chain of blocks, a free count and a `bitblock_set` per block, hints per core and per arena, a count of blocks against a cap | allocate, deallocate, destructor | no block is lost or linked twice, the counts return to the truth, hints point to linked blocks, memory is refused only when there is none |
| `skiplist` | nodes with a link per level whose mark says the node is going, and a count of the upper levels that link it | insert, remove, find | an answer was true at some moment of the call; a node is retired once, when no level leads to it |
| `epoch_reclaimer_core` with `slot_policy` and the retired lists of `skiplist` | a global epoch; per slot an owner, a reader depth, a recorded epoch and a list of retired nodes | enter and exit a section, retire, advance and reclaim | nothing is freed while a reader may hold it; nothing is freed twice or lost |
| `spsc_queue` | ring of raw storage, a read and a write index | `push_back`, `pop_front`, `popFront`, `size_estimate`, destructor | first in first out; an element is constructed and destroyed once |
| `sp_mc_value_stack` | slots and a state word (generation, count) | `push` (one thread), `pop` | it is an atomic stack of values |
| `token_dispenser` | a bit per token, a draw counter | `get_token`, `release_token` | no token is out twice, none is lost |
| `elimination_array` | slots with an eight-state protocol word and an element | `put_element`, `get_element` | an element changes hands at one moment, or both sides give up |
| `latest_value_slot_array` | slots with a sequence number, a published word, a writer flag | `store`, `load` | a load returns one published value, current at some moment of the call, and waits for nobody |
| `single_block_resource` | the front of one block of memory, a list per size class of pieces that were freed, two flags in each | allocate, deallocate | what callers hold never overlaps; a freed piece is on its list once |
| `monotonic_buffer_resource` | the current buffer, blocks from upstream, the next size | allocate, release | pieces lie inside a buffer, whatever the sizes and addresses; blocks go back once |
| the adapters: `polymorphic_allocator`, tracking resource, malloc wrapper, heap adapter over `single_block_memory_heap`, composite arena | what each keeps of a piece | allocate, deallocate | pieces are aligned and go back to where they came from; totals are exact |
| `memory_resource_statistics` | counters per CPU and a peak | the counting, and reading while others count | a reading errs high, never low |
| `mutex` | a lock word, an owner and a depth; handles | lock, try_lock, unlock; `unique_lock`'s operations | one holder, who can enter again; nothing stays locked |
| `avl_tree` and `lru_cache` | nodes with links down and up; a list of entries and the tree that finds them | insert, erase, iterate; add, find, remove | iterators walk in order after every change; list and map agree |
| `format` | a buffer and the place in a format string | `format` with all built-in arguments | what is written is what the format string means |
| `__functional/hash.h`, `__compare`, `__random`, `__platform` | registers of an algorithm; none; engine words; interrupt guards | hashing, comparison, seeding, drawing, forking; guards and CPU ids | every byte of a key counts and nothing else; orders are orders; draws are fair and streams disjoint; sections are not interrupted |

The parts meet in these places. Both arenas keep free blocks in tagged stacks. The bit block resource keeps a
`bitblock_set` in every block and asks an upstream resource for blocks. The skip list is a client of the epoch
reclaimer and gives it two callbacks, one that takes a retired list and one that frees from it. `lru_cache` keeps
iterators of its list in an `avl_tree`. The adapters stand on any resource. Everything else is used on its own.

### Parts that are not modelled

`PROJECT.json` lists each part with its reason; section 8 sums them up.

### What is hard here

Nothing is persisted and nothing is sent, so there are no crashes to recover from and no lost messages. What is hard:

* *reuse*: a node, slot, buffer or block returns in a new role while a slow thread still acts on what it read of its
  old one (ABA);
* *packed words that wrap or carry* into a neighbouring field, and sums of sizes and addresses that wrap;
* *two words that cannot change at once*: bits and their count, the number of a slot and its value, an index and
  storage, a frontier and the records it must not reach, a node's links and the count of them;
* *failure half way*: an acquire over two words, a growth that gets no memory, an offer that is withdrawn, an insertion
  whose node is removed before it is finished;
* *scans that are not snapshots*: full segments, empty bins, readers of old epochs, sharded counters, searches;
* *liveness without locks*: no waiting on a preempted thread, no segment closed for ever.

`PROJECT.json` has 40 hazards of these kinds at their lines, and names the properties that cover each.

## 2. How the modules are written

* A step of a concurrent module is one atomic operation on shared memory with the private computation up to the next
  one. Plain data that only one thread may touch goes with the step next to it, unless a property is about that very
  order (the queues separate constructing from publishing). A step of a sequential module is a call, or a turn of a
  loop when a property speaks of what happens in between.
* Memory is sequentially consistent. The relaxed orders and fences of the code, which the repository examines by
  litmus tests under `src/litmus`, are not modelled: these modules say that the algorithms are right, not that each
  memory order is strong enough.
* `compare_exchange_weak` may fail for no reason. Where that only repeats the loop it is left out; where it leads
  somewhere else (the offer of the elimination array) it is modelled.
* Counters have the modulus of the code as a constant, and the runs make it small, so that they wrap.
* `pc` of a thread is its place in the code. Names of actions follow the functions, in order. Locals
  that live across a step are variables or fields of their own; history variables are said to be such where they are
  declared.
* A definition whose name extends that of the next one (`ExemptOwn` before `Exempt`) is a variant that the
  specification does not use: a mistake one could make in that line. Putting it in place breaks the property that
  `PROJECT.json` lists under "mutants", which shows that the property depends on the line.
* What a component stands on is modelled once. `SingleArena` and `StaticArena` use free lists as atomic stacks, which
  `TaggedStack` is shown to implement; `BitblockResource` uses an atomic bit set; `SkipList` hands its nodes to a
  reclaimer that never gives them back, and `EpochReclaimer` shows when it may.

### Modules and the code

| Module | Code | Correspondence |
|---|---|---|
| `Handoff` | what the queue promises | bag of accepted items, each delivered once |
| `MpScQueue` | `lockfree/mp_sc_growable_ring_queue` | `enqueuePos` is `enqueue_pos_` with its two fields, `buffer` the slots, `capacity`, `originalCapacity`, `dequeueState` the plain members. `ClaimSlot` and `ClaimFails` are the `fetch_add`, `Clamp` one turn of the clamp loop, `Construct` and `Publish` what follows a claim, `AdvanceTarget` and `Refuse` the loop of `push_back`. `PopBegin`, `TryReady`, `Take`, `TryNext`, `PopEnd` are `pop_front`; `Regrow`, `RecycleInPlace`, `Reopen` are `retire_and_grow`; `ShrinkTarget` to `ShrinkClose` are `maybe_shrink_active_segment` |
| `AtomicStack` | what a stack promises | push, pop, empty, full, steal all, in one step each |
| `TaggedStack` | `lockfree/intrusive_tagged_stack`, `tagged_ptr`, `arena_tagged_ptr` | `head` is the packed word, `link` the links, `changes` how often the head moved under a pop |
| `SpMcValueStack` | `lockfree/sp_mc_value_stack` | `state` is the packed word, `slots` the array |
| `StaticArena` | `__memory_resource/lockfree_static_arena_resource.h` | `BlockSizeFor`, `GetBin`, `PushFree` by name; an allocation is a bump, a pop per bin, or the steal, the choice and the put back; `header` is the size a free block carries, which callers overwrite |
| `AbstractHeap` | what a memory resource promises | pieces lie inside and never overlap |
| `SingleArena` | `__memory_resource/lockfree_single_arena_resource.h` | the size classes as functions of the constants; `frontier` with its predecessor, `record[r]` with the state word one CAS covers, `managers` with the stack of free records, the active count and the trimming claim, `pending` and `bins`. `Search...` to `Front...` are `do_allocate`, `Grow...` the record growth, `Lock` to `PushPending` the free, `OpenWindow` to `Close` a maintenance window with `Batch...`, `Publish`, `Walk...` and `Trim...` |
| `BitblockSet` | `lockfree/bitblock_set` | `acquired` is `words_`; one step per `fetch_or`, `fetch_and` and CAS; the search hint becomes a start at any chunk; `undo` is what a failed call still has to take back |
| `BitblockResource` | `__memory_resource/lockfree_bitblock_resource.h` | `path` says which of the four ways found the block `cur`; `Check`, `Take`, `CountDown` are `acquire_next_empty_block`; `Reserve` to `Relink` are `add_new_block` |
| `BoundedQueue`, `SpscQueue` | `lockfree/spsc_queue` | two indices and the elements with `Raw` for storage without object |
| `TokenDispenser` | `lockfree/token_dispenser` | `Draw`, read, CAS, release |
| `Exchange`, `EliminationArray` | `lockfree/elimination_array` | the state word by its names; each CAS and store a step |
| `LatestValueSlotArray` | `lockfree/latest_value_slot_array` | `seq`, `words`, `current`, `busy`; a value is copied word by word on both sides |
| `EpochReclaimer` | `lockfree/epoch_reclaimer_core`, `slot_policy`, `epoch_policy`, `skiplist` 2185 to 2281 | `epoch`, and per slot `assigned`, `depth`, `readerEpoch`, `retired`. `EnterLoad`, `EnterCount`, `EnterRecord` are the three steps of entering; the scans of `try_advance_epoch` and `advance_and_reclaim` look at one slot, and one of its words, at a time |
| `SkipList` | `lockfree/skiplist` | `node[n]` has its key, height, a link with a mark per level, and `upper_levels_remaining_`; `thread[t]` the predecessors and successors a search found and how often it tried |
| `SingleBlock` | `__memory_resource/single_block_resource.h` | a piece is named by its header's place; `nextEmpty` is the front, `heads` the lists, `header` the links and the flags `in_use_` and `on_free_list_` |
| `MonotonicBuffer`, `ResourceStack`, `Statistics` | the other resources, the adapters, `single_block_memory_heap` | as the members are named; `base` says what an allocator stands on |
| `Mutex` | `mutex` | one step per exchange, load and store; `handle` the `unique_lock`s, `bare` locks without one |
| `AvlTree`, `LruCache` | `avl_tree`; `lru_cache`, `list` | a call is a step, its recursion a recursive operator over all nodes; a tree node is named by its key, which it never changes |
| `Format` | `src/format.cpp`, `src/format_formatters.cpp` | an input is known as pieces before it is written down as a format string; the model parses the string as the code does |
| `KeyHash`, `Ordering`, `RandomDraws`, `RandomEngines`, `Platform` | `__functional/hash.h`, `__compare`, `__random`, `__platform` | a register is the set of key bytes in it; a float is its bits, scaled down; a word of a seed sequence is the set of its seeds; an engine word is a set of bits; registers of the processor are inputs |

`MC...` modules and their `.cfg` files give instances to TLC; `MpScQueue`, `EpochReclaimer` and `BitblockSet` need
nothing but the constants of their `.cfg` and are run as they are. `MCContainers`, `MCCoordination`, `MCResources` and
`MCLibrary` each hold several unrelated classes: a variable `subject` is chosen at the start and never changes, only the
class it names moves, and liveness is stated of that class alone. They check the same as one run each.

## 3. What the runs show

Sizes are those of the instance; "states" are distinct states.

| Run | Instance | Shows |
|---|---|---|
| `mpsc_safe` | 2 producers of 3 items, which push what was refused again without end, 2 segments of capacity 2 that grow to 3, clamp distance 1, position modulus 7, allocation may fail, early close at every idle pop; 5.22 M states | types; a claimed slot has one owner in the current life of its segment (`SlotOwnership`); items of a segment come out in claim order (`SegmentOrder`); failing producers never make room (`FullStaysFull`); the queue implements `Handoff` (`ImplementsHandoff`) |
| `mpsc_live` | 2 producers of 2 items, capacity 3, all threads fair, a consumer that polls | what is published is delivered (`Drains`), a full segment reopens (`FullSegmentReopens`) |
| `mpsc_refusal` | capacity 1 | violation: see section 6 |
| `resources` | 2 threads; the static arena with 10 units, 4 bins, requests of 2, 3 and 5 units; the pool with 2 cores, 2 arenas, cap 3, an upstream of 2 blocks of 2 elements, count modulo 4; 2.83 M states | the arena is partitioned at every step (`Partition`); the pool's blocks are reserved, linked once and all returned, hints point to linked ones and no element is lent twice (`BlocksAccounted`); its count is the number of free elements but for calls under way (`CountBalances`); an allocation that runs alone fails only when nothing fits (`RefusesAloneOnlyWhenFull`) |
| `static_arena_refusal` | 4 units | violation: see section 6 |
| `bitblock_set` | 2 threads, words of 2 bits, 5 bits, runs to 3; 2.45 M states | set bits are those held or in a thread's hands (`Accounted`); of threads that release one run one succeeds (`OneRaceWinner`); whoever holds a run can release it (`HolderCanRelease`); a search that runs alone fails only when nothing fits (`SearchFailsOnlyWhenNone`) |
| `containers` | queue of 4 slots; value stack of 2 slots, 1 producer, 2 consumers, generation modulo 4; node stack of 3 nodes, 2 threads, counter modulo 3; 0.46 M states | each implements its abstract queue or stack (`ImplementsContainers`), objects live once (`ObjectLifetimes`), the size estimate is in range (in `TypesOK`), the stacks are lock-free (`StacksLockFree`) |
| `coordination` | 3 threads and 2 tokens, counter modulo 5; 3 threads at 1 elimination slot; 2 writers and a reader at 2 slots of 2 words, numbers modulo 6; 2 threads with 2 handles on each mutex, 2 locks deep; 24 topologies, frames nested 3 deep; 0.45 M states | no token is out twice (`TokensHeldOnce`); an element changes hands at one moment (`ElementsPassOnce`); a load is one published value, current during it (`LoadIsLinearizable`); a mutex has one holder, CPUs are told apart, guarded sections are not interrupted (`SectionsExclude`); tokens keep moving, exchanges end, readers are never stalled (`OperationsComplete`) |
| `epoch_reclaimer` | 3 threads, 2 CPU ids, 2 slots, 2 nodes, lag 2, epochs to 3; 4.45 M states | no node is freed while a reader may hold it, nor lost, nor on two lists (`NoUseAfterFree`); the epoch stays within one of every reader (`ReadersHoldTheEpoch`) |
| `single_arena` | 2 threads; an arena in which one block and its records compete for the middle, with 4 and 2 calls, and one with room for two blocks, with 3 and 2; batches of one; 0.58 M states | blocks tile the memory below the frontier and no record lies in them (`Partition`); records and blocks are in one place each and counts cover what they count (`Accounted`); a free that comes after another of the same block is refused (`LateFreeIsRefused`); callers hold disjoint pieces (`ImplementsHeap`); every call returns (`EveryCallReturns`) |
| `library` | fourteen subjects, see the bounds; 1.40 M states | text means what the format string says (`TextMeetsMeaning`); hashes (`HashesReadTheKey`); comparisons (`OrdersAreLawful`); seeds, draws and streams (`RandomnessIsSound`); what resources, counters, tree and cache keep for themselves (`BooksAreKept`); the skip list's `RetiredIsUnreachable` and `NothingLeaks`; answers of skip list, tree and cache (`AnswersAreTrue`); callers of the sequential resources hold disjoint pieces (`ImplementsHeap`) |
| `single_block_lists` | 2 threads, 3 pieces of two sizes of one class | violation: see section 6 |

### Bounds, and why they are enough

* *Queue.* Two segments are the least the class allows; capacity 2 growing to 3 gives a regrow, an early close and a
  recycling in place in lives of different capacity, and three items per producer fill both segments with pushes
  left over that fail. A refused item may be pushed again, any number of times (`Refuse` gives its number back), so that
  wasted increments have no bound of their own: the modulus 7 is the least that `HeadroomAssumption` admits, and a
  producer that skips the clamp (`ClampSkipped`, the mutant of `FullStaysFull`) does carry into the capacity. The
  theorems lift all these bounds.
* *Counters modulo 3, 4, 5, 6.* The counter of a word only has to tell apart what one slow thread saw from what it finds
  later. A counter that turns completely while a thread is between two of its steps defeats any width; the code
  relies on 16, 31 or 32 bits. The stacks bound this by a history variable: a thread is never overtaken by a whole turn
  (`changes`, `pushes`, `rewrites` below the modulus). That is an assumption of the code made explicit, and
  `LatestValueSlotArray` has the constant `BoundedAt` for where it applies; the coordination run sets it to the whole load. The token dispenser needs no such
  assumption: its counter wraps freely, at 5 for two tokens, so that a wrap falls inside a round.
* *Static arena.* Four bins instead of eight are classes of 1, 2 and 4 units and the large bin. A request of 3 units is
  rounded up to a class, 10 units hold two large blocks at once, so that one goes back after a steal, and the rest of a
  large block split for 2 units goes back in pieces of two classes. With the pool as subject the arena is at rest, and
  the other way round; the arena's start leaves the pool empty, since its start is otherwise one of several.
* *Single arena.* The first size leaves room for one block *and* either a second block or two more records, so that a
  frontier that grows up and metadata that grow down meet, look again, and undo: with one record of slack to spare a
  single stale check would do no harm. Shards and address bins only spread the lists, and one of each makes threads meet
  on them. The version does not wrap within the calls made (`ArenaAssumption`): as with all tags, the code relies on
  that. Batches and windows of one block start maintenance after every free.
* *Bit set.* Words of two bits make runs of three cross a word, and five bits leave a tail that is set from the start.
* *Bit block resource.* Upstream has fewer blocks than the cap, so that both kinds of failed growth occur. Runs of one
  element suffice here since which elements make a run is the matter of `BitblockSet`.
* *Epochs.* Reclaiming starts at an epoch above `EPOCH_RECLAIM_LAG`; `MaxEpoch` 3 is the first that frees. Two slots for
  three threads put two on one slot, the case the exemption is about, and two CPU ids let threads migrate.
* *Skip list.* Two levels give a bottom and an upper one, which is all the code tells apart; two threads start on an
  empty list, on one tall node, and on two, and make up to two calls each. Retries are two, so that each way of giving
  up, starting again and leaving the work to another happens.
* *Single block and adapters.* Sizes, header and alignment are scaled down together; there are requests larger, smaller
  and as large as a freed piece, and more strictly aligned. The monotonic buffer lives in 8-bit addresses, the adapters
  have a `SIZE_MAX` of 127.
* *Tree and cache.* Nine keys reach trees of height four, in which an erasure needs each kind of rotation, with a high
  child that is level too; twelve keys make the thinnest tree of height five, in which one erasure rotates twice. Caches of none, one and three of four entries.
* *Mutex.* Two threads with two handles each and two locks deep, so that every handle may be moved onto another that
  owns.
* *Text, hashes, orders, random numbers.* Every value an option may have, at least once for each kind of argument; every
  length from 0 to 200, which takes each path of the hash over several blocks; every triple of floats with two bits of
  exponent and of mantissa; every interval of a 4-bit type against engines of six ranges; engines of 5 bits through
  their whole period, seeded in each way the class has; floats of 13 bits of mantissa and five digits, so that, as with
  53 bits and 17 digits, the digits are more than the mantissa carries, ten to the power of five is the largest that is
  exact, and exponents are divided out in up to three steps.

### Fairness

* The queue: each producer that is in a call takes its next step, and so does the consumer, who is assumed to poll. No
  thread must start a call. These are ordinary threads under a fair scheduler, and the properties (`Drains`,
  `FullSegmentReopens`) are promised by the documentation only under them: an item waits for its producer.
* Lock-freedom is weak fairness of the whole next-state relation: some thread moves. `StacksLockFree` and the
  dispenser's part of `OperationsComplete` then say that operations complete again and again unless all are idle, the
  thing a retry loop could break. The dispenser's property excuses the state in which every token is out, in which the
  code spins.
* The elimination array: each thread inside an operation moves. Under less, a claimed waiter spins for ever (section 6).
* The latest-value slots: readers move, writers may stop anywhere.
* The single arena: each thread inside a call takes its next step, as threads under a fair scheduler do. `EveryCallReturns`
  says that no loop of its retries feeds itself, and that no claim on a manager or on the frontier's reclaiming is left
  behind.

## 4. What is proved

TLAPS checks the theorems below, about the same modules the runs check. A run that holds several classes has one proof
module that extends its MC module, so that the theorems name the properties of the run: `Resources_proofs`,
`Containers_proofs` and `Coordination_proofs`. The others are `MpScQueue_proofs`, `EpochReclaimer_proofs`,
`BitblockSet_proofs`, and for the single arena `SingleArena_proofs` on top of `SingleArenaRecords_proofs`. Each class has an inductive invariant (`IInv`, or a name with the class in it), which TLC checked
on the run's instance before it was proved, a lemma per action, and a lemma or a step per conjunct the action can
disturb.

**The queue**, for any number of producers, segments and pushes, any capacities, growth ratio, clamp distance and
modulus that satisfy the assumptions:

* `SizesAssumption`: at least two segments (the class asserts it), positive sizes, a growth ratio of at least 1.
* `HeadroomAssumption`: the largest capacity, the clamp distance and the number of producers fit together below the
  carry. The comment on `POSITION_CLAMP_DISTANCE` relies on it in words: "far below the 2^32 carry into the capacity
  field, far above any real number of concurrently failing producers".

`TypeCorrectness`, `OwnershipIsExclusive` (`SlotOwnership`) and `FullSegmentsStayFull` (`FullStaysFull`) follow from
`Invariance`. None of them is inductive alone. `IInv` adds:

* `CarryBound`: a position exceeds its capacity by at most the clamp distance and one for each producer that has gone
  past it and not clamped yet. It makes the `fetch_add` safe: a producer that is adding is not among those counted.
* `LifeOfSegment`: the drain cursor lies between zero and the claims; a segment about to reopen is full for producers,
  empty of published slots, and owned by nobody. It is what makes the rebuilding of the buffer private to the consumer.
* `PublishedWindow` and `ClaimedWindow`: ready slots and claimed slots lie between cursor and claims in the current
  life, claimed slots are not ready and are claimed once. When the cursor reaches the capacity nothing is left in the
  window, so that nobody owns a slot: that is the step from "drained" to "about to reopen".
* `ConsumerControl` and `ProducerControl`: what is known at each place of the code.

Steps that touch only a thread's own locals share the lemmas `ConsumerPrivateStep` and `ProducerPrivateStep`.

On top of that stands `Ledger` (`LedgerHolds`): the items of a producer that were accepted are, in order, those of its
slots that are published or taken. It gives `SegmentOrderHolds` (`SegmentOrder`), since slots are taken in order and a
life of a segment has each slot once, and `HandoffIsImplemented` (`ImplementsHandoff`): `Publish` accepts, `Take`
delivers, every other step is a stutter of `Handoff`.

**What threads coordinate through** (`Coordination_proofs`, with the invariant `Inv` of all five classes):

* *The token dispenser*, for any set of threads, number of tokens and modulus of the counter: `TokensAreHeldOnce`
  (`TokensHeldOnce`). The invariant adds `SawItClear`: between reading the bits and the CAS, the remembered word has the
  drawn bit clear, so that a CAS that succeeds takes a token nobody holds.
* *The latest-value slots*, for any threads, slots, words and even modulus of the sequence numbers, provided no load is
  stalled over a whole turn of them (section 6): `LoadsAreLinearizable` (`LoadIsLinearizable`). The published slot is
  intact and no writer's; a reader that sees its sequence number twice knows, because fewer rewrites than the modulus can
  have come between, that there were none.
* *The elimination array*, for any threads, slots, elements and attempts: `ElementsAreExchanged` (`ElementsPassOnce`), that
  it implements `Exchange`. `SlotControl` says which threads a slot has in each state of its word: none, one, or a waiter
  with the partner that claimed it, and what the element cell holds for them; `ValueControl`, that a putter still owns
  what it offers. An exchange takes place at the CAS that claims a waiter (`PutMatch`, `GetMatch`), after which
  neither side can withdraw; every other step that changes what `Exchange` sees is an offer, a request or the end of one,
  a timeout and a withdrawal included.
* *The mutexes*, for any threads, handles and depth: in `SectionsAreExclusive` (`SectionsExclude`). `Possession` says that
  one thread at most has the mutex, with a lock counted or before it is; that the lock word is set exactly then; that the
  owner is recorded except between taking and recording; and that the depth is the locks counted. `CallControl` says what
  each place of the code implies: a thread waits only with no lock, and unlocks only what a handle of its own owns.
* *The platform*: in the same theorem. `FramesRestore`: only the outermost of nested guards and handlers can have saved
  interrupts as enabled, so that nothing turns them on while a guard lives. CPU ids are distinct because each affinity
  field is below 256 (`MachinesAssumption`), and a count of CPUs is at least one however the processor tells it.

**The epoch reclaimer**, for any finite set of threads (`ProcsAssumption`: the depth of a slot counts them), and any
slots, nodes, CPU ids and lag of at least 2: `NoUseAfterFreeHolds` (`NoUseAfterFree`) and `ReadersHoldTheEpochHolds`
(`ReadersHoldTheEpoch`). The argument: `DepthCounts`, a slot's depth is the number of threads that count in it;
`SlotHoldsBack` and `ProtectedSince`, a thread that advances the epoch and has passed the slot of a reader read the
current epoch there, or the reader came after; so the epoch is at most one ahead of a reader (`ReadersHoldTheEpoch`), what
a reader may hold was retired no earlier than its section began (`HeldIsRecent`), and a stamp that is `Lag` behind the
epoch is behind all readers. That last step needs nothing of the second scan, in `advance_and_reclaim`: the bound on
the epoch alone makes freeing safe, and the scan is a second line of defence.

**The bit set**, for any set of threads, any size and any word width: `AccountedHolds` (`Accounted`),
`OneRaceWinnerHolds` (`OneRaceWinner`) and `HolderCanReleaseHolds` (`HolderCanRelease`). The invariant says that bits held,
bits a call still has to take back, and bits beyond the end are apart and are all the bits set, and lists the five
states a race of releases over one run can be in: untouched; one releaser has cleared the first word; two have, the
first word having been acquired again in between; one has won and another still has a word cleared; it is over. A
release of a run that was not wholly set is a case of its own. A loser restores exactly what it cleared because nobody
else can have set those bits meanwhile.

**The containers** are in `Containers_proofs`, with the invariant `AllInv` of all three. `TypesHold` (`TypesOK`) says, types
apart, that `size_estimate` never returns a size the queue cannot have. `ContainersAreImplemented`
(`ImplementsContainers`) is that each container implements its abstract one.

* *The single-producer queue*, for any ring size: `ObjectLifetimesHold` (`ObjectLifetimes`) and, of `BoundedQueue`, that
  an operation takes place where an index moves. The slots that hold an object are those between the indices, plus the
  one being pushed, less the one just destroyed; each side knows its own index exactly and the other's as a bound, which
  moves only the safe way.
* *The value stack*, for any capacity, consumers and modulus of the generation: `AtomicStack`, as far as push and pop go.
  What a consumer read from the top slot is still there if the state word is the same, since fewer pushes than the
  modulus came between; what the producer read is, since only it pushes.
* *The tagged stack*, for any finite set of nodes, any threads that own them at first and any modulus of the counter:
  `AtomicStack`. The links reach one list from any node: where two first differed, a node would have two links (`Along`,
  `OneList`). In the invariant nobody owns a node of the list that starts at the head (`Listed`), and only owners write
  links (`InHand`), so that the list changes by exchanges alone. `AsRead` says that the counter tells how often the head
  changed since a stalled thread read it; an exchange that succeeds has therefore missed no change (`NothingMissed`), and
  the link it installs is still that of the node it takes. The bound it rests on is a guard of the model, as the header
  asks: the counter "must not wrap while one popper is stalled between its head load and its CAS".

**The resources of fixed parts** are in `Resources_proofs`, with one invariant `Inv` for both.

*The static arena*, for any threads, arena, number of classes and requests: `PartitionHolds` (`Partition`). Of the
constants it needs `ShapeAssumption`, which the module states of them, and `PowersAssumption`: that powers of two are
natural numbers and grow, as far as there are classes. That is arithmetic, which TLC evaluates and the prover lacks. The
inductive invariant has these parts:

* `Tiles`: the extents (blocks of callers, in bins, stolen or in hand, and pieces left over) are whole units of the
  minimum alignment, do not overlap, and cover the memory below the bump pointer and nothing above it. Each step moves an
  extent (`TilesMoved`), splits it (`TilesSplit`), cuts some off it (`TilesCut`) or adds one at the pointer (`TilesGrow`).
* `ListedOnce`: no list names a block twice.
* `Control`: what a thread has in hand at each place of the code, and that a block it took is large enough for its
  request. A free block has exactly the size of its bin, the large bin excepted, since it was rounded up to a class or
  cut to one (`BinFacts`); so a header that is read at a later time still tells the truth.
* `Fits`: headers and leftover pieces are within the arena, which is what is left of the types.

*The pool of bitmapped blocks*, for any finite set of threads, any arenas, cores, blocks, elements, and any modulus of
the free count above the elements of a block (`PoolSizes`): `BlocksAreAccounted` (`BlocksAccounted`) and `CountsBalance`
(`CountBalances`). The list of an arena is defined without recursion, as the least set with its front that is closed under
links, so that the prover can reason about it: it grows by exactly the block that is linked (`Link`), and by nothing
else. The invariant:

* `ChainsApart`: a block is in the list of its home arena only, so that linking it elsewhere cannot make a circle.
* `HintsInChains`, and for each thread `PoolControl`: what it found stays in the list in which it found it, since lists
  only grow at the front; a block about to be linked is in no list.
* `InPlace`: what came from upstream is in a list or about to be linked by one thread, and `total_blocks_` counts that
  and the reservations under way; after the destructor everything has gone back. Each step of `add_new_block` moves one
  unit between the terms of that sum.
* `Lent`: the runs of callers, and those a thread has taken and not yet handed out, are set in the bitmap, and no two of
  them meet. Hence what a free clears was set, and by that call alone.
* `CountBalances` itself, which needs `Lent`: the elements a search takes or a free clears are as many as are added to
  those in hand.

**The single arena**, for any finite set of threads, any shards, managers, records, bins, batches and scenarios:
`PartitionHolds` (`Partition`), `RecordsAreAccounted` (`Accounted`), `LateFreesAreRefused` (`LateFreeIsRefused`) and
`HeapIsImplemented` (`ImplementsHeap`), all from `Invariance`. The assumptions are those the run evaluates:

* `ArenaAssumption`: sizes are positive, the region's end is a multiple of the alignment, and all threads together make
  fewer calls than `VersionLimit`. The version in the state word is how a free recognises that the block it saw was freed
  and handed out again; nothing in the code stops it from coming round while one thread is preempted, and the theorems,
  like the run, are about executions too short for that.
* `SizeClasses`: each bin has a positive size, and a block of that size, or of a request that is accepted, has a bin. The
  bins come out of a loop, which TLC computes and the prover cannot.

The invariant (`Inv`) says that there are two functions, the kind of place and the owner of each record (`kind`, `of`), so
that every list, hand and held block has exactly the records that these send there. A step that moves a record changes
them at one point (`PutFacts`), a window that steals a list at many (`FreePlacesOff`), trimming at all those of a manager
(`Freeing`); whatever else there is stays by one lemma per part. The parts:

* `Places` and `StatesAt`: no record is in two places, and what state a record can be in follows from its place. What is
  in a bin is available, being rolled back, or rolled back already; what a thread has claimed is locked; and so on.
* `Rolling`: a record marked `reclaimInProgress` has one thread that is rolling the frontier back over its block.
* `Tiling`: the blocks that records describe (`W`, each with its record) and those a thread took from the frontier (`H`,
  each with its thread) are apart (`Owners`), each ends where its header or its thread says (`Extents`), they do not
  overlap and their links lead to the end of another or to the bottom (`Cut`), and no settled block reaches a settled
  record (`Middle`). Two facts carry the proof. The block that ends at the frontier is the only one that does, so that
  a roll-back removes that one and its link leads to the next (`CutLoses`, `LastTile`). And a thread that moved one
  side of the middle looks at the other side afterwards: of a block and a record that race, at least one sees the other.
* `ManagerCounts` and `PendingCounts`, which count sets: a step adds or takes one element of one of them. A manager is
  trimmed only while its count is zero (`Trims`), hence while all its records are in its stack, and no thread gets one
  of them in between.
* `LateFrees`: a thread that is about to free a block either still has the block's current state word in hand, or the
  version has moved on; `Versions` has room for each call that is still to come, so the word cannot come back.

For `ImplementsHeap`, a step hands pieces out or takes some back; that a piece somebody holds is not resized by the step
that writes a header follows from `TakenNotHeld`, and that pieces do not overlap from `Cut`, `Middle` and the places.

## 5. What is only model-checked

* Liveness: the prover does not treat fairness.
* What speaks of ENABLED or of a whole undisturbed call: `SearchFailsOnlyWhenNone`, `RefusesAloneOnlyWhenFull`.
* What is said of recursive operators or by induction over data, which the prover cannot instantiate: `AvlTree`,
  `LruCache`, `Format`, `KeyHash`, `Ordering`, the random numbers, the lists of `SingleBlock`.
* `SkipList`, whose invariants would take strengthenings of the size of the module.
* The invariants of the remaining modules, which are next in the plan.

## 6. Where the code and its text disagree

Three runs check a sentence of the repository's own text and refute it.

* `single_block_lists`, an error of the code: `push_free`'s comment says of a block pushed twice that "it would link to
  itself and the next scan of the bin would never end", and that the exchange on `on_free_list_` "makes exactly one of
  them push". But `do_allocate` unlinks a reused block by a compare-exchange on the predecessor it passed last, and
  another search may have unlinked that predecessor meanwhile. The exchange on the unlinked predecessor succeeds, the
  flag is cleared while the block is still linked, and the next free pushes it a second time: the list runs in a circle.
* `mpsc_refusal`: "returns false only when all segments are full". Each was full when it was looked at, but never all at
  one moment. No loss of data; a caller must not rely on the sentence.
* `static_arena_refusal`: "a concurrent allocator never sees a false out-of-memory". It does, when blocks move between
  bins behind and ahead of its scan.

Others were met and have no run of their own:

* `elimination_array` calls its worst case "O(1) bounded". A claimed waiter spins until its partner, which may be
  preempted, has finished; `OperationsComplete` therefore needs fairness of each thread.
* `latest_value_slot_array` states its assumption on stalled readers from the first read of the sequence number on; the
  stall that matters may begin earlier, at the read of `current_`. With `BoundedAt` as in its comment the load returns a
  value that was not published while it ran; the run bounds the stall from there on.
* `lockfree_bitblock_resource.h` lines 63 to 66 call `free_count_` an upper bound on the longest free run. Between the
  release of the bits and the addition to the count (lines 491 and 492) it is lower, and a block with a free run is
  skipped. `CountBalances` says how far the count may be off.
* `lru_cache::add` evicts before it knows that the map has room: a call that returns false may have dropped an entry.
* `skiplist::insert` answers false for a key whose removal is under way ("being removed"), a third answer besides
  inserted and present. `AnswersAreTrue` counts it as one that tells nothing.
* A placeholder of a format string is cut after 32 characters without a sign of it.
* A float of 2^64 or more is printed with 17 digits, of which "the 17th digit can differ from the exact value"
  (`format_formatters.cpp`, line 357). The divisions are rounded to 53 bits, and 17 digits have up to 57: 1e23, the comment's
  example, comes out as 99999999999999984000000, wrong in the 16th digit too, and more divisions add to that. The model
  divides as the code does, and `TextMeetsMeaning` claims for these floats what such divisions keep: an error of 2^-53 of
  the value for each of them. Below 2^64 it claims exact digits, correctly rounded.
* `xoroshiro128_plus_plus` replaces an all-zero state when it comes from a `SeedSequence`, and a zero word, but stores a
  `seed_type` of two zeros as it is, in the constructor and in `seed`; the engine then gives zero for ever.
  `RandomnessIsSound` says that this is the only way to get there (`SeededByState`, `zeroWords`).
* The relations of `pair` with a NaN in it are not transitive, as those of `std::pair`.

## 7. Plan

Done, in this order: `MpScQueue` with its proofs; the stacks; `StaticArena`; `BitblockSet` and `BitblockResource`; the small
classes; `EpochReclaimer`; `SingleArena`; the sequential resources; text, hashes, comparison, random numbers and platform;
`SkipList`; `Mutex`, `AvlTree` and `LruCache`; the proofs of `EpochReclaimer`, `BitblockSet`, the order and
the refinement of `MpScQueue`, then of the classes of the coordination, the resources and the containers run; last those of
`SingleArena`.

Next would be proofs about `SkipList`, beginning with what its hazards need: that a node no level links to any more is the
only kind that is retired.

## 8. Not modelled

* *Weak memory*: see section 2.
* `skiplist`: the table of slots with their generations and the blocks it grows by, iterators, the throttle, clear and
  the destructor. A retired node keeps resolving for readers, so the checks for a null node never fire. The retargeting
  in remove when another node has the key by then is modelled, but no property here depends on it.
* `mp_sc_growable_ring_queue`: a constructor that gets no memory for a segment. The segment is then empty and closed, but
  the default policy traps before (`open_segment`). Regrows that get none are modelled.
* `lockfree_single_arena_resource`: an arena smaller than one block, `get_allocation_info`, the extended statistics. The
  arena's memory is assumed to be zero at first: the code relies on it, since neither the constructor nor the growth of
  the records writes to a record before it is used. Of double frees only those are made that read the block's state
  before the other one won; a free that starts later may find the header of the next block there, and no check of the
  code could tell it from that block's own. `LOCKED` and `DEALLOCATED_PENDING` are one state, between which only the
  thread that won the block writes, and a free reads the header and the record in one step.
* `lockfree_static_arena_resource`, `lockfree_bitblock_resource`: the requests that are refused before anything shared is
  read: aligned to more than 64, or larger than the arena; aligned to more than 16, or of more than 16 elements.
* `single_block_resource`: `get_allocation_info` and the list of all pieces it walks; requests of zero bytes and near
  `SIZE_MAX`, which it refuses first. The two loads of `next_deallocated_` in one turn of a search are one.
* `latest_value_slot_array`: the views of text and blobs (lines 254 to 474) are conversions on top of load and store.
* `tagged_ptr`: the packing of pointers into 48 bits; the payload handle, which converts a node to its owner.
* The adaptive throttle of the epochs only chooses when to reclaim: here a thread may whenever it runs in a section.
* `strong_order`'s generic branch for floating-point numbers is for formats no supported compiler has.
* `random_device` is an interface. The host build of the platform layer asks the operating system. CPU ids have the
  8 bits of the x86 APIC, and the third affinity level of ARM is not read, as in the code.
* `malloc`, the pools of the composite arena and all upstream resources are external: they lend any memory they have.
* Containers of one sequence (`vector`, `forward_list`, `array`, and of `list` what `lru_cache` does not use), strings, `charconv`,
  `iostream`, `optional`, `tuple`, `chrono`, allocators, and the language support taken over from LLVM: sequential or
  compile-time, with unit, differential and fuzz tests in the repository.
* Statistics of the skip list: relaxed counters that nothing reads back.
