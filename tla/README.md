# Specifications of the Objective-C runtime and the run loop

The repository collects, for study, the sources of Apple's Objective-C runtime
(objc4-723, `src/objc-RunTime4-723/runtime`), of CoreFoundation with its run
loop (CF-855.17, `src/CFRunLoopRef-855.17`), notes about both (`src/MarkDown`)
and a small demonstration app. This directory specifies in TLA+ the parts of
the two programs that are hard to test, checks the specifications with TLC and
proves what matters most with TLAPS.

Below: [the system](#the-system), [the modules](#the-modules) and how they
correspond to the code, [the runs](#the-runs), [what is proved](#what-is-proved),
[what was found](#what-was-found), [what is left out](#what-is-left-out) and
[the plan](#the-plan). `PROJECT.json` has the same in tables: the lines each
definition stands for, the runs, the hazards, and for each property a mutant of
the model, a plausible bug, that violates it.

## The system

| Part | State | Operations | What is hard |
|---|---|---|---|
| Reference counting (`objc-object.h`, `NSObject.mm`) | the isa word of an object with the bits `nonpointer`, `has_sidetable_rc`, `weakly_referenced`, `deallocating` and the field `extra_rc`; an entry of a striped side table | retain, release, tryRetain, retainCount, changeIsa, setWeaklyReferenced, rootDealloc | one count is split between a word that is changed without a lock and a table that is changed with one; both move while others look |
| Weak references (`NSObject.mm`) | `__weak` variables, the weak tables, the side tables' locks, the initialization state of classes | storeWeak in its eight instances, loadWeak, copyWeak, moveWeak, clearing by dealloc | values read before a lock and used after it; pairs of locks; calls of `+initialize` in the middle |
| Weak tables (`objc-weak.mm`) | a hash table of entries, in each a table of referrers, in line or hashed | register, unregister, clear, grow, shrink | removal without tombstones; searches bounded by the largest displacement |
| Autorelease pools (`NSObject.mm`) | the pages of a thread, the hot page, the placeholder | push, autorelease, pop, releaseUntil, kill, tls_dealloc | `-dealloc` re-enters all of it in the middle of a pop |
| `@synchronized` (`objc-sync.mm`) | lists of SyncDatas, two caches per thread, recursive mutexes | objc_sync_enter, objc_sync_exit, id2data | the count that decides about reuse goes down outside the lock under which it goes up |
| `+initialize` (`objc-initialize.mm`) | bits of each class, the list of classes each thread is initializing, the map of subclasses that wait for their superclass | _class_initialize, _finishInitializing, waitForInitializeToComplete, performForkChildInitialize | classes that wait for each other in several threads; exceptions and forks in the middle |
| `+load` (`objc-loadmethod.mm`, `objc-runtime-new.mm`) | two lists of methods to call, a recursive lock, an autorelease pool, the images | load_images, prepare_load_methods, call_load_methods, _unload_image | lists that grow and shrink while they are worked off, and after; `-dealloc` methods run when the pool is popped |
| Method caches (`objc-cache.mm`, `objc-msg-x86_64.s`, `objc-runtime-new.mm`) | buckets, mask and count of each class, the garbage list | CacheLookup, lookUpImpOrForward, cache_fill, expand, flushCaches, cache_collect | readers without locks |
| Associated objects (`objc-references.mm`) | a map of maps under one lock, the has_assoc bit | get, set, remove all | releases outside the lock that re-enter |
| Property accessors (`objc-accessors.mm`) | instance variables, striped spin locks | getProperty, setProperty, copyStruct | retain under the lock, release outside |
| Classes and lookup (`objc-runtime-new.mm`) | the class table, method lists, categories | map_images, realizeClass, attachCategories, lookUpImpOrForward | which of several methods wins |
| Run loop (`CFRunLoop.c`) | modes with their sources, observers and timers; a list of blocks; per-run data; the wake-up port | run, stop, wake up, perform block, add, remove, signal and invalidate sources | wake-ups that are ignored, consumed by others or come too early; nested runs |

The parts meet as follows. The last `release` of an object calls `-dealloc`,
and so do `pop` of a pool, the clearing of an association and the setter of a
property; `-dealloc` may call everything again. A dealloc that finds the
weakly-referenced bit clears the weak variables under the lock of the side
table, which is the lock of the count as well; a weak load retains under it. A
weak store may have to wait for `+initialize`. The run loop calls out to the
program in the middle of its iteration, and the program may call back,
including running the loop again; other threads meet it only at its lock and at
its wake-up port. `PROJECT.json` lists every component of the repository, also
those that are not modelled, and the hazards with their lines.

What makes the parts correct, in a sentence each:

- Reference counting: no reference is lost or doubled, an object is deallocated
  once, exactly when its last reference is gone, and leaves nothing behind at
  its address.
- Weak references: a weak variable is an atomic register that becomes nil
  before its object goes; no call touches freed memory, and none waits for ever.
- Weak tables: the table is the set of pairs that were registered and not
  unregistered.
- Autorelease pools: pages are one stack, a pool's token stays valid until it is
  popped, and a pop ends.
- `@synchronized`: one thread at a time is inside an object, and a lock is not
  given to another object while someone uses it.
- `+initialize`: it runs once, after that of the superclass; no other thread
  sees a class before it is done, and none waits for a class of a family that it
  is initializing itself.
- `+load`: superclasses before subclasses, classes before their categories, each
  once, one at a time, none forgotten; what is loaded when the lists have been
  worked off waits in them.
- Method caches: a reader never leaves allocated memory and never ends a search
  with something the class did not have while the message was under way.
- Associations and properties: every reference is counted once, no getter meets
  a value that is going away, and associations go with their object.
- Run loop: who gives the loop something to do and then wakes it up is served;
  blocks run once and in order; a loop that is told to end ends.

## The modules

| Module | Models | Specification it implements |
|---|---|---|
| `RefCount` | the count of one object, each load, conditional store and critical section an action | `ObjectLifetime` |
| `AutoreleasePool` | the pools of one thread, each call of the client and each turn of releaseUntil's loop an action | `PoolStack` |
| `Sync` | the SyncList that some objects share, each turn of the walk along it an action | |
| `WeakReferences` | weak variables and the life of the objects they refer to; a thread has a stack of calls | `WeakVariables` |
| `WeakTable` | the weak table of one side table, each operation an action since all run locked | `WeakPairs` |
| `RunLoop` | one run loop, a stack of activations and what others do to it | `BlockQueue` (for the blocks) |
| `Initialize` | the classes of a program and the threads that message them, each critical section and each read without the lock an action | |
| `MethodCache` | the caches of some classes, each access of a reader and each store a reader can see an action | `Dispatch` |
| `References` | associations and atomic properties of objects that own each other, and their deallocation | |
| `LoadMethods` | the images of a program and the lists of their `+load` methods | |

A module checks one invariant that is a conjunction of named parts (`CountsSound`,
`AddressSound`, `PagesSound`, `Exclusion`, `TablesSound`, `TableSound`,
`FamiliesSound`, `ArraysSound`); most begin with the module's `TypeOK`. Each
part states what it is for.

The `*Inv` modules hold the inductive invariants (of `RefCount`,
`AutoreleasePool`, `Sync`, `WeakReferences`, `RunLoop`, `MethodCache`,
`Initialize`, `LoadMethods`, `References` and `WeakTable`), the `*Proof` modules the theorems
(those of `AutoreleasePool` and of `References` are in `OwnershipProof`, about
who owns objects, those of `RefCount` and of `WeakTable` in `SideTableProof`), and the `MC*` modules the values of constants that a `.cfg`
cannot express. Operators named `Operation_Change` are mutants: they stand next
to the definition they change and no specification uses them.

**RefCount.** `isa` and `table` are the two words of the code; `slot` says which
thread owns which reference, and is what the code cannot see. A thread's `pc`
is the place between two accesses to shared memory; `old` is `oldisa`. Clients
release only what they own, and hold a reference while they call anything but
objc_loadWeakRetained. `RC_HALF` is a parameter, 2^18 on arm64: TLC takes 1, and what that leaves out is
under [the runs](#the-runs).
`LoseReservation` lets conditional stores fail for no reason, as LL/SC may. An
object that is freed can be allocated again at its address. Not in the model:
tagged pointers, SUPPORT_NONPOINTER_ISA = 0, objects with associations or C++
destructors (both only keep rootDealloc from its fast path), and a side table
count that saturates.

**AutoreleasePool.** `pages` is the list of pages, `tls` the thread-local hot
page or the placeholder, `calls` the open pools and the pops in progress, and
`at` in them the place the token points to. Objects that are released may run
any client code before releaseUntil goes on, which is what the stack `calls`
and the state "releasing" are for. The two debugging variables of the
environment are variables that never change, so that one run has all modes.

**Sync.** `data` is the list in the order of creation, `pc`, `why`, `object`,
`p` and `firstUnused` are the locals of id2data, `fast` and `list` the caches;
`entered` and `stray` are histories the properties use. Clients nest objects in
any order, so that two may wait for each other, as in the code. An exit from an object
that the thread has not entered is legal and returns an error; `MaxStray` bounds
it because each of them adds to a count for ever.

**WeakReferences.** `value` and `isWeak` are the variables, `table` the pairs
(which `WeakTable` refines into the hash tables), `weakBit` the bit of isa,
`held` the strong references of each thread (which `RefCount` refines into
bits), `class` the state of `+initialize` with its two bits set one after the
other, `lock` the side tables' locks and `stack` the calls of each thread with
their locals. Reads outside the lock are steps of their own. That a client
passes no object whose last reference another thread may drop is a guard of the
client's calls (`MayRelease`).

**WeakTable.** Slots, displacements, counters, sizes and thresholds are those
of the code, with the numbers as parameters; the hash functions are a constant.
The table of entries and the table of an entry's referrers are two tables of one
kind, with the referent and the location itself as keys, as the code for the two
is the same line by line. The size from which the table shrinks is assumed to be
at least the fraction at which it does (1024 and 16 in the code): otherwise it
could shrink to one slot, where every search comes back to where it began.

**RunLoop.** `runs` is the C stack of __CFRunLoopRun: each record has the
per-run data and locals of one activation, `at` the place in the function and
`out` whether it calls out or walks over what it has collected, both without
locks. What other threads do needs the loop's lock where the code takes it,
which is free in callouts, walks and the wait (`Unlocked`). `waking` counts
threads that have given the loop something to do and have yet to call
CFRunLoopWakeUp; that they call it is the contract of the interface for
blocks and sources, and code of CFRunLoopStop, _CFRunLoopStopMode and the
timeout. Modes, and in which of them a block may run, are constants.

**Initialize.** `state` is CLS_INITIALIZING and CLS_INITIALIZED, `mine` the list
of classes of each thread (_objc_pthread_data), `pending` the
pendingInitializeMap, and a frame of `stack` one recursive call of
_class_initialize with the place it is at. What `+initialize` methods do is a
program, a constant: which classes each of them messages, in any order. A method
may throw, which unwinds through the messages of others (`unwinding`), and the
process may fork (`Fork`): the child has one thread and what the others left
behind, and performForkChildInitialize halts it when it needs what they had
begun. `NeverFatal` says that the runtime never calls _objc_fatal on itself.

**MethodCache.** The cache of a class is `buckets`, `mask` and `occupied`;
`slot` and `cap` are the arrays at their addresses, `live` those that are
allocated, `garbage` the list and `emptyBuckets` the shared array of empty
buckets. Readers follow the x86-64 messenger: load mask and buckets, hash, compare keys,
wrap around at the end marker, load the implementation; writers are
cache_fill_nolock, cache_t::reallocate (with the stores in the code's order),
cache_erase_nolock and cache_collect, which looks at the program counter of one
thread after the other (`Look`). lookUpImpOrForward is around them, with
runtimeLock shared for searches and exclusive for changes of methods. An address
may be used again as soon as it is free, so that a reader that is late meets
foreign contents. The instance begins with a cache that is full (`Warm`,
`Cached`), one message away from growing. `WarmAssumption` says what makes that a
state the program can be in: the entries are results of searches, each where a
search for its key comes to it. `Room`, the bound, lets a call begin only while
there are arrays for it. The code has one array of empty buckets for each
capacity above `EmptyCapacity`; the model has one, which is enough because
`MethodCacheAssumption` ends capacities at twice `EmptyCapacity` (in the code, a
class would need more than a thousand cached methods for the next).

**References.** `count` is the reference count, whose protocol is `RefCount`'s;
`held` what the program owns, `tables` and `assoc` the AssociationsHashMap (which
objects have an ObjectAssociationMap, and what is in it), `slot` a property
of each object with its spin lock. A thread has a stack of calls, the innermost
last; a call that releases has the set of what is left to release, which for the
associations of an object is in the order of a hash table. Releasing a value outside the lock may deallocate it, whose `-dealloc` method calls a setter again
and whose own references are released by object_cxxDestruct and
_object_remove_assocations in turn.

**LoadMethods.** `classes` and `categories` are the two lists, with gaps where
an entry was removed; `todo` in a frame of `stack` is a list that
call_class_loads or call_category_loads has detached; `owner` and `depth` are
the recursive loadMethodLock. When the outermost call of call_load_methods has
worked the lists off (`EndCategoryLoads`) it pops the autorelease pool around the
calls, with `loading` still set, and only then clears it (`EndCallLoadMethods`). What is
in the pool is not modelled: with `PoolLoads` any number of `-dealloc` methods
may run there (`PopPool`), each of which loads and unloads images as a `+load`
method does, up to `MaxCalls`. `late` is a history: the images they have loaded
since the lists were last worked off. That dyld maps an image after the images it is
linked against, and unmaps none that is in use, is an assumption about dyld
(`Needs`, `Close`). `Careful` says whether these methods leave alone the
images whose methods are in a detached list, see [what was found](#what-was-found).

## The runs

| Run | Shows | Bounds, and why they are enough |
|---|---|---|
| `refcount` | safety of the count, the refinement of ObjectLifetime, and that every call returns | two threads, one of which can carry a borrow or a move while the other interferes (the proofs are for any number); three references with `RC_HALF` = 1, so that one overflow and one borrow are two calls away; both kinds of class. What is not reached: a borrow that no longer fits (objc-object.h:641), see below |
| `pool` | safety of the pools in all four modes, the refinement of PoolStack, pops end | pages of three entries, so that a page can be full, half full and empty; seven entries are three pages; four calls, so that a pop can be inside a pop |
| `sync` | mutual exclusion and what it rests on | two threads and three objects, so that a lock is given to another object while one thread is on its way out and the other on its way in, and a third item leaves the middle of a cache; objects are nested in any order |
| `weak` | variables are atomic, loads are safe, tables are exact | two threads, two variables, two objects in two stripes, one with its own retain; a thread keeps at most one reference to an object, and two threads can drop the last two |
| `weak_initialize` | what `-dealloc` and `+initialize` do inside other calls | one object and one variable, stacks up to three deep |
| `weak_table` | the hash tables implement a set | five objects and five locations with colliding hashes, tables that start at 4 slots, grow to 8 and shrink; one object with many locations or one location in many objects |
| `runloop` | no wake-up is lost, the order of blocks | two modes, two blocks, a source of each version, two activations |
| `runloop_live` | activations end, stopped by the loop or by the mode or out of time, and blocks run | one activation, no port |
| `initialize` | no thread sees a class too early, none waits in its own family, messages return | two threads; a family of three below the root, of which one has a trivial method, and a class outside; two programs, one in which a method messages a subclass whose superclass messages back, and one in which two classes use each other |
| `method_cache` | readers are safe, no stale implementation, the refinement of Dispatch | two threads, a class and its superclass, one method that changes; a cache of four buckets that is full and grows to eight; four addresses, so that a freed one is used again while a reader has it; a threshold of six, so that one growth makes garbage worth collecting |
| `references` | references are counted, getters are safe, associations end, calls return | two threads; a chain in which the host owns an inner object by a property and that a leaf by an association, so that one release deallocates three objects; two references for each thread |
| `load` | order, once, none forgotten, none unmapped | two threads; four images, the first of which lists a subclass before its superclass, the second without `+load` methods between two that have them, so that scheduling crosses images; three calls for each `+load` or `-dealloc` method, so that one can open, open and close; the pool may hold objects whose `-dealloc` does this |

Each run is a module `MC…`, which gives the constants their sets, and a
configuration with the same prefix:

| Run | Configuration | Properties |
|---|---|---|
| `refcount` | MCRefCount / MCRefCount.cfg | `CountsSound`, `AddressSound`, `BorrowIsNotLast`, `LifetimeSpec`, `CallsReturn` |
| `pool` | MCAutoreleasePool / MCAutoreleasePool.cfg | `PagesSound`, `IfSuffices`, `TokensValid`, `StackSpec`, `PopsEnd` |
| `sync` | MCSync / MCSync.cfg | `CountsSound`, `Exclusion` |
| `weak` | MCWeakReferences / MCWeak.cfg | `TablesSound`, `NoLockCycle`, `WeakSpec` |
| `weak_initialize` | MCWeakReferences / MCWeakInitialize.cfg | `NoDanglingVariable`, `CallsReturn` |
| `weak_table` | MCWeakTable / MCWeakTable.cfg | `TableSound`, `PairsSpec` |
| `runloop` | MCRunLoop / MCRunLoop.cfg | `TypeOK`, `NoLostWakeUp`, `BlocksSpec` |
| `runloop_live` | MCRunLoop / MCRunLoopLive.cfg | `EndsWhenTold`, `BlocksGetRun` |
| `initialize` | MCInitialize / MCInitialize.cfg | `FamiliesSound`, `NeverFatal`, `ReturnsInitialized`, `CallsReturn` |
| `method_cache` | MCMethodCache / MCMethodCache.cfg | `ArraysSound`, `ReadersSafe`, `NoStaleEntry`, `DispatchSpec` |
| `references` | MCReferences / MCReferences.cfg | `CountsSound`, `GettersFindLiving`, `AssociationsEndWithObject`, `CallsReturn` |
| `load` | MCLoadMethods / MCLoadMethods.cfg | `ParentFirst`, `OnceOneAtATime`, `NoneForgotten`, `LoadsMapped` |

Deadlock is checked in every run but two: `initialize`, where the process may be
halted and two threads may wait for each other for ever, and `sync`, where two threads
that nest two objects in opposite orders do. The weak table's constraint `Bounded` cuts
the search one step behind the states in which it is false, so that TLC looks
at their properties but not at what follows; every other bound is in a guard of
an action, and named as a bound in the constants of the module.

With `RC_HALF` = 1 a release that has borrowed adds the borrowed reference less
the one it drops, which is 0, to an `extra_rc` that has grown meanwhile, so that
the overflow check at objc-object.h:641 always passes and `PutBack` is reached only when isa
has become raw or the second store fails as well. That case is covered by the theorems of `SideTableProof`, for
any `RC_HALF`, and not by run `refcount`. It needs `RC_HALF` = 2 and six
references; with these, with `SYMMETRY` over threads and slots, and therefore
without `CallsReturn`, TLC reaches it and finds no error in 270 thousand states.

Safety properties worth reading in the modules, since they say more than their
names: `CountConserved` (with what the holder of the lock carries between table
and word), `RetainCountExact` (a reader takes the count in one step though it is
in two places), `BorrowIsNotLast` (objc-object.h:655), `TokensValid`,
`IfSuffices` (NSObject.mm:844), `ThreadCountExplained` (why a count that goes
down early is never too low), `RegisteredExactly`, `SearchComplete`,
`NoBadTable` (no search finds the table so full that it comes back to where it
began), `NoLostWakeUp`, `Contiguous` and `NoWaitWithinFamily` (the argument of
the long comment at the head of objc-initialize.mm), `ReadersSafe`,
`ArraysOwnedOnce`, `DeallocatedByOne` and `NoneForgotten`.

### Fairness

- `RefCount!FairSpec`: weak fairness of each thread's steps within a call. The
  kernel schedules every thread; locks are held for a few instructions. New calls
  are under no fairness. `CallsReturn` is about behaviours in which clients stop
  calling: a thread whose conditional stores keep failing because others keep
  succeeding may retry for ever, as in the code.
- `AutoreleasePool!FairSpec`: weak fairness of the runtime's own steps. `PopsEnd`
  is about behaviours in which the client stops calling; a `-dealloc` that
  autoreleases for ever keeps a pop going for ever.
- `WeakReferences!LiveSpec`: weak fairness of each thread's steps, and strong
  fairness of taking side table locks, which are os_unfair_locks with many
  users: the kernel wakes up a waiter, but another thread may take the lock in
  between, so that weak fairness is too little and strong fairness assumes that
  nobody is passed over for ever. The program stops making new calls at some point.
- `Initialize!FairSpec`: weak fairness of each thread's steps. `CallsReturn`
  excludes the programs in which the `+initialize` methods of classes that are
  not one another's superclasses use each other in a circle (`OrderlyUses`):
  there two threads may wait for each other, as in the code.
- `References!RefsFairSpec`: strong fairness of each thread's steps, as the
  association lock and the property's spin lock are taken again and again by
  others: a thread is not passed over for ever.
- `RunLoop!FairSpec`: weak fairness of the loop's thread, which includes that
  callouts return, of a thread that is about to wake the loop up, and of a
  timeout that has passed. The lock these need is free for as long as the loop
  waits or calls out.

## What is proved

TLAPS checks every theorem from the assumptions on the constants that the
modules state, for any number of threads and references, any width of
`extra_rc`, any page size of at least two entries, any modes, blocks and sources
of a run loop, any class hierarchy, any assignment of objects to side tables, and
any hash function and size of a weak table.

**SideTableProof, counts**: `CountsAreSound` (from `TypeCorrect`, `Conservation`,
`ExactCount` and `AssertionsHold`), `AddressIsSound` (from `SingleDealloc`,
`NoDanglingCall` and `CleanReuse`) and `BorrowLeavesReferences` for the safety
properties of run `refcount`, and `ImplementsLifetime` for the refinement, from
`RefCountAssumption`.

The sum of the counts alone is not inductive: whether it stays right depends on
what each thread has loaded and on who holds the lock. `IInv` (RefCountInv)
adds, for each thread, who holds the lock at its label (`LockInv`), that the
reference its call is about is its own (`ArgInv`), and what its loaded isa says
whatever the isa has become (`OldInv`); and for the object its shape (a raw isa
carries no count, the side table of a nonpointer one counts in halves), what
is true while references exist (`LiveInv`), while a thread deallocates
(`DyingInv`) and after (`FreedInv`). The halves are why a borrow can never take
more than is there, and the reference a caller owns is why a moved count
cannot meet a deallocation. There is one lemma per action. The refinement maps
each conditional store that changes the sum to Retain or Release and all others to
stutters.

**OwnershipProof, pools**: in the normal mode, `PagesAreSound` (from
`PagesWithinCapacity`, `KilledPagesAreEmpty` and `PlaceholderIsOnePool`),
`IfInsteadOfWhile` and `TokensStayValid`, from `PoolAssumption`. The invariant says that pages are
full below the hot page and empty above it (`Layout`), where the boundaries of
open pools are (`Frames`), and that calls lie one above the other (`Nested`),
including pops in progress, whose stop no client inside them can undercut. With
a page per pool `Layout` is false.

`ImplementsPoolStack` is the refinement of `PoolStack` in the normal mode. The
stack is what the pages hold, the coldest first (`Contents`, a function of the
number of pages), and a call's height is that of the pages below its page and
its place on it. Only the hot page grows or shrinks, and what is freed is empty
(`Layout`); so what the pages below hold stays as it is (`ContentsKept`, by
induction over the pages), no other call changes its height, and the entry that
releaseUntil takes off is the last of the stack and above the stop of its pop.
Each action is the one of the same name, `ReleaseOne` is Release, and
the end of tls_dealloc's pop is PopEnds, which needs that this pop is the lowest
call and goes down to the first entry (`Exits`). With a page per pool the
theorem would say less: `StackSpec` leaves out that mode, where entries are lost.

**SyncProof**: `CountsAreSound` and `SynchronizedExcludes`, from
`SyncAssumption`, which includes that there are finitely many threads: a
count is compared with the number of a lock's users. Both rest on one
invariant (SyncInv). It says, for each step of id2data, who holds the spin lock
and what is known of the item the walk is at; that a thread's caches hold
exactly the items it is inside, as often as it has entered; that no two items
that are in use are for one object; and that the count of an item is the number
of threads that have it cached, are on their way in or have left without having
been inside (`stray`). The count is why an item that is found unused can be given
to another object: nobody has it.

**WeakReferencesProof**: `TablesAreSound`, `NoLockCycles` and `NoDangling`, for
any assignment of objects to side tables and any depth of calls within calls.
A call knows the value of its variable, and may rely on it, from the place where
it has the lock of the value's side table to where it gives it up; so the
invariant (WeakReferencesInv) gives for each call on a thread's stack its place,
what it owns there, which side tables it holds, and which pairs and references
are its own to settle. From this the table of an object differs from the
variables that hold it only while a call that holds the lock is at work on
both. That the objects' memory is there follows from the references: an object
that a variable holds has not gone through clearDeallocating, which takes the
same lock. Two side tables are taken in the order of their addresses, which is
all that `NoLockCycles` needs.

`ImplementsWeakVariables` is the refinement of `WeakVariables`, from the same
invariant and with finitely many threads, since references are counted. What a
variable shows (`Seen`) is its value, or nil when its object is being cleared. So
deallocating is the one step Clear when it has locked the side table, and the
values it then sets to nil one after the other are seen no more: whoever would
read them under the lock waits, and who reads them without cannot retain the
object. `Assign` is Write or Destroy, a load that gets its reference is Load, the
steps that give one up are Release, `CallAlloc` is Alloc, `Free` is Free, and all
others stutter. Each lemma named `...Hides` or `...Seen` is one of these cases.

**RunLoopProof**: `TypesCorrect`; `NoWakeUpIsLost` under the hypothesis that
only `Harmless` callouts run the loop again; and the refinement `BlocksInOrder`
under the hypothesis that no callout from the walk over the blocks does. A loop that goes to sleep has looked for
blocks, for sources, for stops and for the time at four different places, and
each of them may change after it has been looked at. The invariant (RunLoopInv)
therefore follows one activation from the top of the loop to its sleep: of each kind
of work, what has come since the loop looked for it (`CameLate`) has a wake-up
in the port or a thread about to send one (`Awaited`), and the activation does
not ignore wake-ups. Nothing is claimed of the activations below the current
one, which lose wake-ups to it; when the current one ends, the one below either
looks for everything again or does not wait, and that is what makes a callout
harmless. The hypothesis cannot be dropped, see [what was found](#what-was-found).

For `BlocksInOrder` the detached lists of all activations are one sequence with the
blocks that wait (`Pending`), a function of the number of activations. Only the
current activation has detached anything (`PendingIs`, by induction over the
activations below); so to take the list apart and to put it back leaves the sequence
as it is, and the block that is called is the first of it that may run in the mode,
since what was kept may not and what is newer comes later (`CallBlockPerforms`).
With a callout from the walk that runs the loop again this is false (TLC, with
`NestFrom = {"blocks1"}`): the inner run takes a newer block first. The induction
is over a set of numbers (`SetInduction`, from the well-foundedness of `<`).

**MethodCacheProof**: `ArraysAreSound`, `ReadersAreSafe`, `EntriesAreFresh` and the
refinement `CachesImplementDispatch`, from `MethodCacheAssumption` (each chain of
superclasses ends, and capacities end at twice `EmptyCapacity`) and
`WarmAssumption`. All rest on one invariant (MethodCacheInv):

- A reader loads the mask before the buckets and a writer stores the buckets
  before the mask, and masks only grow: so the mask a reader has is at most that
  of the buckets it loads (`ReaderOf`). While a thread is between its two stores,
  the cache is described by the mask it is about to store (`UpdaterOf`). That a
  larger array is never an earlier smaller one again needs that no array is freed
  under a reader: the threads the collector has looked at scan no garbage
  (`LooksOf`), since none of them can find it in a cache any more.
- An entry is stored under a key that the cache did not have, where a search for
  the key comes to it (`Reachable`), and a quarter of the buckets stays unused.
- An entry is what the class finds now, or what it found before the change under
  way, and then its cache is still to be erased by that change (`FreshIn`,
  `Flushing`). Searches hold runtimeLock from the lookup to the store of the entry,
  so none carries a result over a change. That a change touches only what its
  class and subclasses find is `ChangesBelow`.

The method a class finds and the subclasses of a class are recursive functions
over the superclasses; `ResultIs` and `SubclassesIs` prove their equations,
by uniqueness over the classes below which the function is defined, from the assumption that chains
end. In the refinement `Send` is Send, the step to "done" is Answer, `Done` is Return,
`ChangeMethod` and `Erased` begin and end a change, and all others stutter.

**InitializeProof**: `FamiliesAreSound`, `NeverStopsFatally` and
`ReturnsAreInitialized`, from `InitializeAssumption`, for all programs, which
includes that methods throw and that the process forks at any place. The
invariant (InitializeInv) has three ideas:

- The list of classes of a thread is closed upwards, up to the classes that are
  initialized (`List`), since a call goes for its class only when the
  superclass is done or its own thread's (`Knows`). Before a fork a class is in
  one list only (`Owners`); so a thread that waits for a class has none of its
  relatives (`NoRelative`), and a class in the list of another thread has no
  superclass in this one.
- A class is put off because its superclass is being initialized, and whoever has
  the superclass has the class (`Pending`): from the class that is finished,
  down along what was put off, all is in the list of the finishing thread
  (`HasAll`), and _finishInitializing never stops the process.
- In the child of a fork classes may be in no list, and a class may be in the
  lists of several threads, each of which takes what the parent left behind; but
  only the thread that forked has more than the class of its innermost call
  (`Child`), because any other stops the process, or has a trivial class that is
  finished in the same call.

The superclasses of a class are a recursive function. Its equations
(`AncestorsAre`) are proved from the least sets that are closed upwards, and
`ClassInduction` is induction down the tree: a set of classes that has the root,
and each class whose superclass it has, has them all. Both need that chains of
superclasses end, which `InitializeAssumption` says as: each set of classes has
one whose superclass is not in it.

**LoadMethodsProof**: `ParentsAreFirst`, `EachOnce`, `NoneIsForgotten`,
`AllAreCalled` and `LoadsAreMapped`, from `LoadMethodsAssumption`, under the
hypothesis `Careful`: no method unloads an image one of whose methods is in a list
that has been detached. Without it a class that is gone is called.
`AllAreCalled`, that nothing waits when nobody is at work, has the hypothesis
`~PoolLoads` besides; `NoneIsForgotten` does without and says what waits. For both
see [what was found](#what-was-found). The invariant (LoadMethodsInv):

- Only the thread that holds loadMethodLock is beyond the beginning of
  load_images, with three calls at most: `load_images` that is at work, the
  `+load` or `-dealloc` method it has called, and the `load_images` that this
  method has got to (`Others`, `Holder`). That one finds `loading` set and returns, so that no
  method runs inside another (`Lock`).
- An image in memory needs images that have been prepared (`Linked`), as dyld
  loads an image after those it is linked against. So a class that is flagged
  has superclasses that are, which lets schedule_class_load stop at the first
  flagged one (`ClassesSound`).
- What has been prepared has been called or waits in the detached list or in
  the new one (`ClassesSound`, `CategoriesAre`), and what waits has not been
  called and is in no list twice. From the pop of the pool on, and when nobody is at
  work, what waits is of images in `late` (`Left`), and without `PoolLoads` there are none.
- Superclasses come first in each list, and no class of the new list is a
  superclass of one in the detached list. Categories are called only when the
  list of classes is empty, so their classes have been called (`TodoIs`).

schedule_class_load is recursive over the superclasses and its caller a loop
over the classes of an image: `Schedule` and `ScheduleAll` are recursive
functions, and that each step leaves the list sound is proved by induction over
the tree of classes and over the length of the list. Both inductions are over
sets (of classes, of numbers); that the functions exist is proved by uniqueness
over the classes below which they are defined, as for the method caches.

**OwnershipProof, references**: `ReferencesCounted`, `GettersNeverLate` and
`AssociationsEnd`, from `Parameters`, which is what `ReferencesAssumption`
assumes. The three properties of run `references` are not inductive, since they
do not say why the object that a call is about is still there. The invariant
`RefsIInv` (ReferencesInv) adds:

- What lies where on a stack: setters and getters call nothing, and what has
  called something is at work on releases or on a deallocation (`Stacks`). So a
  call that uses an object is the innermost of its thread, and its thread owns a
  reference to the object or runs its `-dealloc` (`Guards`).
- A getter at its retain holds the lock under which it read, so what it read is
  still there, and the association or property still owns it (`Locks`).
- Memory that is free is as for a new object, and who has a table is flagged
  (`Memory`); a deallocation has ended what it is past (`Progress`), and has read
  has_assoc at a time after which nobody can set it, because nobody has a
  reference (`Guards`, `Once`).
- The four sets of references to an object are finite and the count is the sum of
  their sizes (`Counted`): an action adds to each or removes from it one
  reference at most, but for the associations that are removed together and
  become, one by one, those of the call that releases them.

**SideTableProof, weak table**: `TablesAreSearchable` and
`ImplementsWeakPairs`, from `TableAssumption` and `NilAssumption`. The invariant
`TableIInv` (WeakTableInv) says of each hash table that whatever is in it is in a
slot that a search looks at (`Reachable`), that keys are unique (`Unique`), that
the counter is the number of slots that are filled, and that the largest
displacement is below the last one (`HashSound`). Why this is kept:

- Displacements below the size of a table lead to different slots
  (`ModDistinct`), so that by counting there is an empty slot, and the first one
  is at a displacement of at most the number of filled ones (`FreeFound`). A
  table that is less than three quarters full, or has just grown, therefore has
  room for one more and for the end of a search (`GrowMaybeSound`); a table that
  has just shrunk is at most half full, as objc-weak.mm:278 says
  (`HalfDivides`, `CompactMaybeSound`).
- What is moved to a new table arrives there, which is proved by induction on
  the slots of the old one (`RefillSound`); the induction is over a set of
  numbers, and that the recursive function exists is proved on the way.
- A removal empties a slot and nothing else, and the displacement stays
  (`EmptiedSound`). This is why a search must not stop at an empty slot and may
  stop at the displacement.
- The referrers of an entry in line are in no order and need no search; when they
  are moved out of line they are added to a new table (`AppendReferrerSound`).

Each operation changes the values in the table by one entry, which gives the
pairs before and after it (`RegisterStep`, `UnregisterStep`, `ClearStep`) and so
the step of `WeakPairs`.

Every invariant that a run checks is a theorem. Only model-checked are the
debugging modes of the pools (for `PoolStack` too) and all liveness: liveness
under fairness and ENABLED are beyond the prover.

## What was found

No run is expected to fail. The models do show places where a comment or an
assertion says more than the code keeps; each can be seen by asking TLC for the
property named here.

1. **A page per pool leaves children that are not empty.** NSObject.mm:863 says
   "we expect any children to be completely empty" when releaseUntil ends, and
   checks it in debug builds. With OBJC_DEBUG_POOL_ALLOCATION an object that is
   autoreleased without a pool is the first entry of the cold page; when the
   exiting thread releases it and its `-dealloc` leaves a pool pushed, that pool
   is on a second page, which is freed with its contents unreleased
   (`ChildrenEmpty`, with MCAutoreleasePool.cfg). In the normal mode the
   statement is a theorem, and so is the fixme at line 844, which wants a
   `while` to be an `if` (`IfSuffices`, which is stated for the normal mode; TLC
   finds it false with a page per pool).
2. **The fast case of a weak load can see a class that is not initialized.**
   NSObject.mm:538 relies on the default-RR bit never being set before
   `+initialize` is complete, and asserts it, but setInitialized sets that bit
   first (`SetDefaultRR`), and the loading thread holds neither lock. Nothing
   follows from it but the assertion: the object is alive and its class's
   `+initialize` has returned.
3. **A nested run loses the wake-up of its caller's blocks.**
   __CFRunLoopDoBlocks detaches the list while it calls out. If a block runs
   the loop again, the inner activation does not see the blocks behind it, takes
   the message that was sent for them from the port and sleeps, although
   CFRunLoop.c:2670 does not "want to lose a wakeup" (`NoLostWakeUp`, with
   `NestFrom = {"blocks1"}`). More generally a nested run from an observer
   between the top of the loop and its sleep takes wake-ups, and with them the
   news of stops and timeouts, that the outer activation does not look for again
   before it sleeps. `Harmless` (RunLoopInv) lists the other callouts: for these
   `NoLostWakeUp` is a theorem, and for each callout that is not in the list TLC
   finds it false when every activity is observed and mode A may be stopped.
   `runloop` therefore nests in a version 0 source, after which the loop polls.
4. **A `+load` method may be called after its image is gone.**
   remove_class_from_loadable_list (objc-loadmethod.mm:126) is for classes that
   "may have been loadable before", but it looks at the current list only:
   when a `+load` method unloads another image whose method is in the list that
   call_class_loads has detached, that method is still called (`LoadsMapped`,
   with `Careful = FALSE`). `load` therefore assumes that programs leave such
   images alone.
5. **A `+load` method may be left waiting.** The comment of call_load_methods
   (objc-loadmethod.mm:312) says that the outermost call "will handle all loadable
   classes, even those generated while it was running". It looks at the lists for
   the last time at line 360, pops its autorelease pool at line 362 and clears
   `loading` at line 364. When an object that a `+load` method has autoreleased
   loads an image in its `-dealloc`, load_images fills the lists and returns at
   once, because `loading` is set, and the outermost call does not look at them
   again (`AllCalled`, with MCLoadMethods.cfg). The methods are called by the next
   load_images of an image with `+load` methods, if there is one. `NoneForgotten`
   states what does hold: nothing else waits, and it is in the lists. When no
   such `-dealloc` loads an image `AllCalled` is a theorem (`AllAreCalled`).

Other observations, which contradict no statement: the count of a SyncData
(objc-sync.mm:211) goes up for every exit by a thread that is not inside and
never down again, so that the SyncData is never reused
(`ThreadCountExplained` has the term for it); a weak entry that went out of
line stays when its last referrer is unregistered (objc-weak.mm:359) until its
object dies; a source that is added while another thread invalidates it may
stay in a mode, where it is never performed but keeps the mode from being empty;
classes of two families whose `+initialize` methods use each other can make two
threads wait for each other (the reason for `OrderlyUses`);
and a stop that arrives after the last check of an activation goes with it.

## What is left out

Each row of `components` in `PROJECT.json` says why. In short: the tables of
selectors, protocols and images are built under one lock and have no protocol
of their own; containers, strings, property lists, bundles and URLs are
sequential code or plain I/O; trampolines are assembly that makes code; the
messenger is modelled for x86-64, where mask and buckets are loaded one after
the other, which has more interleavings than arm64; the old 32-bit runtime
is not built for these platforms; and the demonstration app and the notes keep
no state. Most of the lines of the repository are C++ files that clang's
rewriter made of the app's classes (`Instance-Investegate/*.cpp` and the like,
some 35,000 lines each, nearly all of them system headers) and the containers,
strings and parsers of CoreFoundation: none of it has behaviour of its own that
a model could check, so that the share of the lines that is modelled is small
and will stay so.

Within the run loop: timers (planned), the main dispatch queue's port,
the bookkeeping of common modes and the Windows branches. Within the method
caches: cache_delete for classes that are disposed of, and the statistics. Within
the accessors: nonatomic accessors, which one thread at a time may call, and
objc_copyStruct and objc_copyCppObjectAtomic, which take two locks in the order
of their addresses, as `WeakReferences` does with side tables (`NoLockCycle`).
Within associations: objects with a raw isa, for which
every deallocation looks for associations. Within `+load`: what dyld does.

## The plan

Done, in this order: `RefCount`, `AutoreleasePool`, `Sync`, `WeakReferences` over
`WeakTable`, `RunLoop`, `Initialize`, `MethodCache` over `Dispatch`, `References`
and `LoadMethods`; and the proofs of `RefCount`, `AutoreleasePool`, `Sync`,
`WeakReferences`, `RunLoop`, `MethodCache`, `Initialize`, `LoadMethods`,
`References` and `WeakTable`.

To come, most important first: `RunLoopTimers`, the order and re-arming of timers
in a mode, composed with `RunLoop`'s wait; and `Categories`, which of several
methods wins, against a reference definition.
