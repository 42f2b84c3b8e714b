# A verification development for nohtyP

nohtyP (`src/nohtyP.c`, `src/nohtyP.h`) is the Python 3 built-in types as a
single C file.  This directory holds TLA+ models of its core, TLC
configurations that check them on small instances, and TLAPS proofs of the most
important results for every value of the constants.

Line numbers are those of `src/nohtyP.c` where no file is named; `yp.py` is
`src/Lib/yp.py`, the Python bindings.

## 1. The system

### 1.1 What kind of program it is

nohtyP is a library: no threads, no I/O, no persistent state.  Its header asks
the caller to serialise calls.  What makes it hard is not parallelism but

* **re-entrancy** — a loop over a container calls out (to a generator's C
  function, to `yp_eq`, to `yp_decref` and so to a deallocator) and the
  callee may change the container, or drop the last reference to an object the
  loop still uses;
* **manual reference counts** — every function steals, borrows or returns
  references, on every error path too;
* **partial failure** — any allocation can fail in the middle of a bulk
  operation, and the object must stay usable;
* **representation tricks** — deleted marks and a search finger inside the hash
  table, inline and over-allocated buffers, tables shared between a dict and
  its copies, one type pair (mutable/immutable) for one layout;
* **weak caches** — the Python bindings know objects by their addresses, which
  are used again, and run Python code while objects are freed;
* **numeric limits** — every length is clamped to a maximum before it is
  multiplied, and integers of the language are 64 bits wide and must report
  overflow instead of wrapping.

### 1.2 Inventory

| component (region, first line) | state | operations | depends on | what makes it correct |
|---|---|---|---|---|
| object header, type pairs (302–1290) | type code, flags, refcount, cached hash | macros | — | the header's fields fit their widths |
| immortals (1291–1690) | static objects | none | — | never counted, never freed |
| allocators (1695–1816) | none of its own | malloc, malloc_resize, free | the C library | sizes never overflow |
| container memory (1821–2184) | data pointer, inline buffer, alloclen | allocate, resize in place or into a new buffer | allocators | the data never outgrows its buffer |
| reference counts and deallocation (2189–2340) | ob_refcnt, the list of objects to free | incref, decref, the dealloc list | every type's dealloc | an object is freed exactly once, when its last reference goes |
| quick iteration (2343–2808) | borrowed or owned cursor | next, remaining | tuples, iterators | each item once, references balanced |
| state objects (2809–2916) | C struct plus references in it | copy, dealloc | refcounts | decrefs exactly what it increfed |
| generators (2917–3441) | function, state, length hint | send, next, close, dealloc, unpack | user functions | a closed generator never runs; close runs the function once |
| freeze, copy, deepcopy (3442–3664) | memo dict | freeze, unfrozen copy, deep copy | all containers | recursive structures end; sharing is kept |
| comparisons (3665–3936) | — | eq, lt … | all types | reflected operation tried once |
| invalidated, exceptions (3937–4267) | static tree of exceptions | isexception | — | subclass test follows the tree |
| type, None, bool (4268–4626) | static | — | — | — |
| int (4627–5976) | a 64-bit value | arithmetic, parsing, intstore in place | — | every overflow is reported |
| float (5977–6466) | a double | arithmetic | libm | — |
| slices and index arithmetic (6467–6683) | — | normalise start/stop/step | — | indices stay inside the sequence |
| codecs and strings (6684–9464) | enc, data, len | encode, decode, find, replace | container memory | the encoding is the smallest that fits |
| codec registry (9465–9875) | two dicts | register, lookup | dict | alias leads to one codec |
| bytes/bytearray (9876–10862), str/chrarray (10863–12201) | data, len, alloclen, hash | sequence operations in place | strings, container memory | — |
| tuple/list (12202–13833) | array, len, alloclen | sequence operations in place | container memory, slices | capacity covers length; items keep order |
| sort (13834–15242) | runs, temp memory | list_sort | yp_lt | sorted permutation, stable; list emptied meanwhile |
| **frozenset/set (15243–17063)** | hash table, fill, len | add, remove, bulk updates, pop, clear, hash | hash table, miniiters | a mathematical set |
| **frozendict/dict (17068–18523)** | shared keyset, values array, len | set, get, pop, update, setdefault, copy | hash table | a mathematical function |
| range (18524–18974) | start, step, len | getitem, slices, index, eq, hash | ints | equal ranges are equal sequences |
| function objects (18975–20166) | parameter list, code, state | call, argument binding | tuples, dicts | each parameter bound once |
| common methods, C-to-C (20167–20915) | — | dispatch on the type table | all | — |
| functions as objects, type table, init (20916–end) | static | initialise once | all | — |
| Python bindings (`yp.py`) | weak cache of proxies by address, callbacks by address | create, call, call back, drop, finalize | the whole library | one proxy per object; each proxy owns one reference |
| test suites, build files, vendored tools | — | — | — | — |

### 1.3 How the parts interact

Everything is a call.  `yp_push(set, x)` dispatches through the type table to
`set_push`, which hashes and compares through the table again.  Containers
own references to their items; dropping the last one pushes the item on the
dealloc list, which is drained by the outermost `yp_decref`.  Dicts hold their
keys in a *keyset*, an object of the set's layout: a dict's value for a key is at the same index
as the key in the keyset's table, and a copy of a dict shares the keyset, so that a
keyset may hold keys a given dict has no value for.  Bulk operations take sets directly
(`_fromset`, walking the other table) and everything else through a
*miniiter* (`_fromiter`), which is where callbacks into user code happen.

A deep copy visits an object through its type's copy function, which visits the
items in turn; a dict, the *memo*, maps the originals to their copies and ends
the recursion. Tuples, lists and their copies are put in it before their
items are copied, sets only when they are complete.

The bindings keep one Python proxy per object in a weak dictionary whose keys
are addresses. A proxy owns one reference, given back in `__del__`;
the last one frees the object, whose memory may be used again before
`yp_free_hook` drops the Python callbacks that were registered for the address. An output parameter
(`c_ypObject_pp`) and the arguments of a callback are cells of memory that a proxy's value is read from.

## 2. What is modelled

| module | models | state | runs |
|---|---|---|---|
| `ypHashTable` | the hash table of sets and keysets: sizes, probing, lookup, insertion, deletion marks | operators only | all set and dict runs |
| `SetSpec` | what a set promises: a mathematical set, changed atomically | `contents`, `call`, `ret` | `set_calls` |
| `ypSet` | one set and every call that changes it, one loop iteration per step | object, resize, frame of the call | `set_calls` |
| `ypSetReentrant` | a set changed by the iterator it is updated from | `ypSet` and a suspended frame | `set_reentrant`, `set_overfill` |
| `DictSpec` | what dicts promise: maps of their own | `items`, `kind`, `call` | `dict_shared`, `dict_items` |
| `ypDict` | several dicts and the keysets they make, share, leave and release | `dicts`, `keysets`, `call`, `resize` | `dict_shared`, `dict_items` |
| `ypDictStale` | `ypDict` with updates that resize before their last item | the same | `dict_stale_keyset` |
| `ypRefs` | reference counts, the dealloc list, generators | counts, places, stack of calls | `refs` |
| `ListSpec` | what a list promises: a sequence, slices as sets of positions, each call with its arguments | `contents`, `calls`, `call` | `list` |
| `ypSlice` | index arithmetic and block moves of all sequences | operators only | `list`, `sort` |
| `ypList` | one list or the tuple it became, its buffer, references and nested calls | `array`, `alloclen`, `inline`, `refs`, `frames` | `list` |
| `ypListCalls` | `ypList` with the call and the arguments of each step, as `ListSpec` sees them | `ypList`'s and `call` | `list` |
| `ypSortOps` | comparisons, searches, natural runs, binary insertion | operators only | `sort`, `list` |
| `ypSortRuns` | the stack of pending runs, whatever the items are | `pending`, `lo`, `nremaining`, `phase` | `sort` |
| `ypSort` | merges, galloping, the temporary array and failures | `m`, `reverse`, `keyed`, `gallopAt`, `alloced`, `result` and `ypSortRuns`' | `sort` |
| `ypDeepCopy` | deep copies and deep freezes of graphs | `graph`, `heap`, `memo`, `stack`, `result` | `deepcopy` |
| `ypProxies` | the proxies, cache, callbacks and references of the Python bindings | `heap`, `hooks`, `proxies`, `cache`, `held`, `argument`, `stack` | `proxies`, `proxies_args` |
| `MCyp...` | the small instances | | |
| `ypOperatorProofs` | lemmas on the operators of `ypHashTable` and `ypSortOps` | | |
| `ypSetProofs`, `ypDictProofs`, `ypListProofs`, `ypSortProofs`, `ypRefsProofs`, `ypProxiesProofs`, `ypDeepCopyProofs` | theorems | | |

### 2.1 Sets

`table`, `alloclen`, `fill` and `len` are the fields of a `ypSetObject`; a slot
is a record of `se_key` and `se_hash`, its key `NULL`, `Dummy` or a key.
`HashOf` is a constant function, so that an instance can choose which keys collide.
`ProbeSequence` is the `i = (i << 2) + i + perturb + 1` loop (15560), `LookKey`
is `_ypSet_lookkey` with the first deleted slot remembered, and `CalcAllocLen` is
`_ypSet_calc_alloclen`. A call begins with a `Begin...` action that
fixes its argument, goes on with one step per iteration (`UpdateStep`,
`RemoveStep`, ...) and returns through `Done`, `IterStop` or `IterRaise`.
`spaceleft` is the local of that name. A push that has no room
starts a resize: `ResizeMove` is one iteration of the loop in `_ypSet_resize`,
`ResizeDone` its end and the push itself. `set_pop` is two actions' worth of
definitions because its search finger lives in the hash field of slot 0.
Memory and size errors are choices in `PushNewKey`. Iterators yield
any keys, may misreport their length in either direction, and may raise. So may the hash of a key
and its comparison with another of the same hash, in any iteration (`KeyRaises`): loops over another set take the hash
from its table and can only fail to compare.

### 2.2 Dicts

A dict is a value array as long as its keyset's table; `ypDict` keeps the
keysets as objects with counts of their own, so that sharing, leaving
and releasing are visible. `Copy` shares the keyset, `PushItem` adds to it or
begins a resize, which moves the values one by one into a keyset of the dict's
own (`ResizeMove`, `ResizeDone`). A key that cannot be hashed or compared ends a call at once (`LookupRaises`) or
an update halfway (`PushRaises`). `PopValue` and `DelItem` leave the
key in the keyset. `PopItem` uses the finger in `ob_alloclen`. In `ypDict` an
update from another dict does not step past a resize unless it was the last item:
what the code does there is `ypDictStale`, a finding.

### 2.3 References and generators

`at[s]` is what a place points to: a field of an object or a variable of the
caller. `refcnt` is `ob_refcnt` and saturates. Dropping the last reference pushes a
`dealloc` frame, whose `waiting` set is the dealloc list. The list's order, first in first
out in the code, is left open: no property depends on it. Closing or
deallocating a generator calls its function, during which the caller does anything it can do
between calls; a `send`, `close`, `store` or `dealloc` frame says where the
library goes on. The function is passed its generator: it may copy it (`CopyArgument`), use its fields, and
send to and close it, while it is closed or deallocated too. The caller may only pass references it owns, and may
not reuse a variable that a call in progress reads. Two more things are left out, as the code is wrong there (disagreements 4 and 9): calls
of a generator whose state is being given up (`Closing`), and a function that leaves a reference to its own generator behind
when it was called because that is deallocated (`FuncExits`). `told` is a history: the generators whose
function was called with `yp_GeneratorExit` by a close.

### 2.4 Lists

`array` holds the cells below `ob_len`; a call that moves items works on an
array as long as the buffer, in which cells that were never written hold `Junk`.
`Buffers(required)` is the decision of `_ypMem_realloc_container_variable`: inline
when it fits, otherwise the same buffer grown in place or a new one,
with any of the sizes in `Slack` more than required. A new list counts as much inline room as its memory has
(`InlineRoom`), later ones as much as the code computes (`InlineLen`), which may be less (the TODO at 1973). Each call is one action,
except the three that let other code run between two of its steps. These
push a record on `frames`: `list_clear` (a discarded item), `list_extend` (an iterator) and
`list_sort` (a key function). While a sort's record holds the items the list is empty
and can be used, frozen and hashed; `Attach` is `_ypTuple_attach_array`, with its three
outcomes. `Timsort` is the sort of fewer than 64 items, one run extended by
binary insertion, and shares its operators with `ypSort`, which has the longer lists.
`refs` counts what the list and its frames own. `ypListCalls` adds to each step the call and the arguments it
stands for. `ListSpec` has the same calls, so that a step refines it only by doing to the sequence what that
call with those arguments should, and by returning what it should.

### 2.5 The sort

`ypSortRuns` is the part of timsort that does not look at items: the stack `pending`, one
push per run that was found (`PushRun`), one merge per step of `merge_collapse`
(`Collapse`) and of `merge_force_collapse`, and the `phase` of `list_sort` it is in. `ypSort` adds the
cells (an item and its key, which the code moves together), and does a merge in steps: `First` cell, one cell, a
whole block found by `Gallop`, or the end. `m.tmp` is what was copied to the temporary array;
`m.held` tells whether that is the left run (`merge_lo`) or the right one (`merge_hi`). Every comparison may meet a
key that cannot be compared, or one (`NaN`) that is less than nothing, which makes the
order inconsistent; the temporary array may not find memory. `Flush` is what `merge_lo` and
`merge_hi` do on their way out: what is held goes back where there is a gap.

### 2.6 Deep copies and deep freezes

`graph` is the originals, any graph of tuples, lists (mutable tuples), frozensets and sets, preallocated
and other integers, functions and invalidated objects that the root reaches. The C stack is `stack`, a frame per
visitor and per container whose items are being copied; a frame owns (`own`) the copy it makes and those of
the items it has visited. `heap` is the copies with
their counts, after four immortals; `memo` is the memo dict, each entry of which owns a reference to
the copy. A container that fails, and the call when it ends, hand what they own to a frame that releases it, one
`yp_decref` a step: `Release` is `_ypTuple_free_detached` and `tuple_dealloc`, the last item first. Each
of the places at which an allocation may fail is a disjunct; no code of the caller's runs,
so that `_ypTuple_attach_array` always finds the copy as it left it. The items of a set are taken in the order of its
table, as the code does. The list that keeps the originals alive (`keep_alive`) is left out. What is within an object
(`Within`) is the least set closed under items, so that no operator is recursive.

### 2.7 The Python bindings

A proxy's value is a cell: one of its `own`, that of an `output` parameter it keeps
alive, or the `argument` cell of a callback. `Steal` and `Borrowed` are `_yp_transmute_and_cache` with
a new reference and with a borrowed one; `DecRef` is `yp_decref` with `yp_free_hook`, which finalizes a callback's
Python objects after the memory is free. Python's side is CPython's: a proxy nobody refers to runs `__del__`
(`Del`), then its weak references go (`Clear`), unless somebody found it
meanwhile, and `__del__` is not run again. The stack says what Python code is suspended where. Objects that hold
others are one number, `stored`: the references they hold to an object.
`Create` makes an object (`NewObject`) and looks for a proxy of its address. An object with a callback is
registered in `_yp_reverse_refs` by the address its proxy has, in a step of its own (`Register`) when that is the proxy
of an earlier object, still dying: then the new object is freed before.
`CallbacksKeepArgs` says whether a callback may leave a reference to a new argument behind; `yp_function`'s own wrapper of a
plain Python function does not.

## 3. Checks

`Spec` has no fairness unless stated. The deadlock check is on in every run but `sort`, where a sort that has returned
really ends.

| run | question | bounds |
|---|---|---|
| `set_calls` | does every history of calls on one set keep the table sound, and implement an atomic set? | 4 keys of which 2 share a hash and a third follows the same probes at first; tables of 4 and 8 slots, which take 2 and 5 keys, so that resizes that grow and resizes that only clean away deleted marks both happen; hints 0 (too low) and 3 |
| `set_reentrant` | does every call return, while iterators change the set they are taken off? | 3 keys, one table size of 4, so that only 2 keys fit; difference and intersection updates |
| `set_overfill` | *disagreement 3* | the same, with updates that add keys |
| `dict_shared` | do dicts that share keysets stay maps of their own? | 2 dicts, 3 places for keysets, 2 colliding keys, 2 values, tables of 2 and 4 |
| `dict_items` | do constructors and updates from iterators keep their promises; does every call return? | 1 dict, 3 keys of which only 2 fit, 2 values, hints 2 and 3 |
| `dict_stale_keyset` | *disagreement 2* | 1 more key than fits |
| `refs` | are counts right, objects freed once, nothing leaked, with any code run by closing generators? | 3 objects, one with two fields and one with one, 2 variables; counts saturate at 3; a call of a generator within one |
| `list` | is a list the sequence `nohtyP.h` describes, whatever its buffer does and whatever runs inside a call? | 2 items, at most 3 at a time, 2 of them inline at first and 1 later, so that moves from the inline buffer to others and back occur; 10 slices in both directions, with steps 1, 2, -1 and -2 and two that are refused; one call of the three that call out at a time; keys of 2 ranks and one that cannot be compared |
| `sort` | does a sort put the items in order and keep equal ones as they were, and lose none when it fails in a merge? | every list of up to 9 keys of 2 ranks; every list of up to 6 of 4 ranks, of 2 and a NaN, of 2 and a key that cannot be compared; two lists made to gallop from either end and one that needs more temporary memory than there is at first; one whose runs, 18, 13, 4, 3, 5 and 1 long, leave the stack out of balance below its top unless four runs are looked at. Runs are extended to 4 (64 in the code), galloping starts after 2 wins (7), the array holds 10 at first (256), so that all of this happens in lists that short |
| `proxies` | has every object one proxy, and every reference an owner, while addresses are used again and finalizers run? | 3 addresses, 3 proxies, 2 references from containers to each object; an object may be created in a finalizer, but not in one within that |
| `proxies_args` | *disagreement 6* | the same, with callbacks that keep their arguments |
| `deepcopy` | is every copy faithful, does the memo end every recursion, are references balanced wherever a copy fails? | every graph of 3 objects of at most 2 items each, in all four modes; recursion limits 1 and 2, so that graphs both reach it and do not |

The table sizes are powers of two smaller than the code's (its least is 8):
every formula over them is the code's, and the interesting events (the last
slot that may be filled, a chain of deleted slots, a resize that only
cleans) need a few keys instead of many. `HintFloor` and `DepthMax` bound what a
caller may do for ever: the number of items an iterator yields beyond
what it announced, and nested calls. Three objects are enough for a deep copy to meet
an item twice, a container in itself, and one in itself through another.

`VIEW` (in `list`) drops what the last call was and returned: no action reads it, and the run's refinement judges
each step's call and result when the step is made. `SYMMETRY` is used only in runs without liveness
properties, over values, keysets, objects, and keys of the same hash.

### 3.1 Fairness

`FairSpec` (dicts) and `RFairSpec` (sets, with `WF` on every step of the library) say that the library goes on with a
call it has begun, as does the `WF` on `Library` of `ypRefs`. nohtyP is
single-threaded code without waits: between two calls out of it
nothing else can run. Nothing is assumed of callers, and a key whose hash or
comparison raises is the caller's choice, outside the fair steps: `CallsReturn`
says that a call ends if its iterator does not yield for ever (hence `HintFloor`), and `LibraryReturns` that control comes
back to the caller, whether or not its functions return.

### 3.2 What each property is about

* **Sets.** `CountsMatch`: the loops `for (i = 0; keysleft > 0; i++)` have no other
  bound than the counter. `NoDuplicates`, `LookupExact`: deleted marks, reuse of slots and resizes. `HashesKept`:
  the finger of `set_pop` replaces no key's hash. `SpaceleftFresh`: the assertion at 15607.
  `NoKeyWithoutSpace`: the assertion at 15604, which `set_overfill` finds violated. `ImplementsSetSpec`: each call, as a whole, is what it should be, also when it fails.
* **Dicts.** `RefsCountUsers`: keysets are freed by their last user.
  `KeysetsSound`, `KeysetsOnlyGrow`: one dict's keys do not move under
  another. `ValuesLineUp`: values are where the keys are. `FixedNeverResized`: a frozendict's inline values never have to
  grow. `ImplementsDictSpec`: keys that other dicts left behind are not seen.
* **References.** `RefsCounted`; `NoDangling`: of the places that own references (a field whose reference was given up may
  still hold the pointer, and the code may not be made to look at it, 3.4); `DeallocatedOnce`; `NothingLeaks`; `ExitIsFinal`: whatever its
  function does with its own generator, once told to exit a generator ends up closed; `LibraryReturns`.
* **Lists.** `BufferFits`; `RefsHeld` (no leak, no double release, no uninitialised cell); `ImplementsListSpec`: each call does
  what it should at the indices, slices and items it was given.
* **Sorts.** `NothingLost`: also when a comparison fails while items are only in the temporary array, or
  contradicts another. `SortedStably`. `RunsAbut`, `StackBalanced`: what the merges assume of the stack, and what
  bounds its height. `TempFits`: the layout of the keys behind the items on the C stack. `RunsSpec`: the
  sort implements `ypSortRuns`, whose theorems hold of it therefore.
* **Deep copies.** `RefsExact`, at every step and on every error path; `CopyFaithful`: shape, sharing, cycles and
  mutability; `NeverWithinItself`: the memo comes in time; `FreezeReachesAll`.
* **Bindings.** `OneProxyPerObject`; `ReferencesOwned` (no leak, no proxy of an object that is gone);
  `CallbacksKept`: no object inherits the callbacks of the one that had its address.

Each property of a passing run is also run against a seeded fault (`PROJECT.json`,
"mutants"): a definition preceded by the comment "Seeded fault" stands in
for the right one, and TLC must find the property violated.

### 3.3 Disagreements

What the code does and its documentation, comments or assertions say otherwise. Those in C were
confirmed with a small program, those in Python by running `yp.py`, but for number 9 and the second part of number 7, which come from reading the code.
Numbers 2, 3 and 6 have runs that find them.

1. Set hash (16681): `set_pop`'s finger goes into the hash of the set once it is
   frozen, and equal frozensets have different hashes; the comment at 1124 has no exception for it.
2. `dict_stale_keyset` (17418): `yp_update` of a dict from a larger dict loses an item and
   reads freed memory, because the loop goes on with the keyset its resize released.
3. `set_overfill` (15914, and 17473 for dicts): a generator that adds items to the set or dict it is updating makes
   the update overfill the table, against the assertions at 15604 and 15607; in the end a lookup does not return.
4. A generator closed while its state is given up (2977) is closed again, and its state is given up twice;
   `nohtyP.h` line 526 promises one last call. `refs` leaves such calls out, so that `ExitIsFinal` holds.
5. Slices that end before they start (12747): `L[3:1] = [x]` overwrites an item and duplicates another, for
   lists and bytearrays; `nohtyP.h` line 616 describes an insertion.
6. `proxies_args` (`yp.py` 2153): a callback that keeps its argument keeps a proxy whose value is a cell
   of the argument array, which the next call overwrites; line 47 promises one proxy per object.
7. A proxy found while it dies (`yp.py` 58, 868, 897): `__del__` frees the object, whose finalizers run
   Python code before the proxy's weak references go; an object that code creates at the same
   address gets the dying proxy, which owns no reference. If that object is one with a callback (1493–1494, 2171–2172), line 65
   frees it at once, and its callback is registered after that, at a free address: nothing finalizes it until the next object there
   is freed, so that a callback may outlive its object, though no object loses its own (`CallbacksKept`).
8. Unfrozen deep copies of sets (15430, 16265) raise `TypeError` where `nohtyP.h` lines 1486–1497 promise
   keys that stay immutable.
9. A generator kept by its own function (2941, 3032): `iter_dealloc` calls the function, which is passed the generator and may keep a
   reference to it; the memory is freed all the same. Nothing tells the function that this call is different from that of `yp_close`,
   and `nohtyP.h` line 521 only calls its argument "the generator iterator object".

Smaller ones: a list that is frozen by the
iterator it is extended from goes on growing as a tuple (12541), though freezing makes it immutable (`nohtyP.h` lines 1470 and 1479)
(`ListSpec` allows that to an extend under way only);
the assertion at 12291 fails when a sort's key function fills the list and freezes it (in builds without assertions the items are put back in the tuple, as in the model);
the assertions at 12297 and 12341 take the inline buffer for as long as the code computes it, but a new list's may be longer (the TODO at 1973); a list that is frozen and hashed by
its sort's key function loses its items (12347), and so does one whose additions
cannot be detached for lack of memory (12358), which the code's comments admit;
`dict_clear`'s assertion at 17719 fails in assertion builds for a dict whose value array was reallocated to
the smallest size; the mini-iterator that runs backwards counts from the end and follows the length of a list that
changes; `yp_deepfreeze` (3492) recurses without the limit that deep copies have.

### 3.4 Restrictions on callers

Releasing an item may run caller's code (a generator's last call). The code marks with
`FIXME What if yp_decref modifies ...` the places where it is not ready for that code
to change the same container (12679, 12711, 12763, 12972, 13049, 13322, 15948, 17260, 17330, 17714).
The modules leave such callers out there and only there; the hazards list each
place. `NoDangling` therefore says nothing of a slot between the release of its old item and the store of the new one.
`refs` also leaves out calls of a generator whose state is being given up (disagreement 4), and functions of dying generators
that keep a reference to them (disagreement 9); they may copy and call them. `set_reentrant` covers difference and intersection updates; for
updates that add keys see disagreement 3, which is also why no run lets iterators change a dict. `proxies` leaves out callbacks that keep new arguments
(disagreement 6), and its `ReferencesOwned` expects nothing of a proxy found while it dies (disagreement 7).

## 4. Proofs

TLAPS checks the following for all keys, hash functions, values, table sizes, arguments, hints, dicts and keysets that satisfy the named
assumptions of `ypHashTable` (`TableConstants`, `ProbeCovers`), `ypSet` (`CallConstants`) and `ypDict` (`DictConstants`):
sizes double from the least to the largest, the probe
sequence of a key visits every slot, there is memory for more keysets than there are dicts, and the largest hint fits a table (the
static assertion at 15296). TLC evaluates the assumptions for the
instances of the runs. The sort's theorems assume of a list only that it has two items, as `list_sort` returns at once
otherwise, and of a key that it is a number, which stands for its rank, NaN, or the key that cannot be compared (`SortAssumption`); those about references
only that there are finitely many places (`RefsConstants`); those about lists that indices and factors are numbers, and that arguments are sequences
of items (`ListAssumption`); those about deep copies that other kinds of objects have no items (`DeepCopyAssumption`).
The theorems about the bindings have two parts: `CallbacksLive` has no condition, the two others need
`~CallbacksKeepArgs`, without which they are false (disagreement 6).

| theorem | says |
|---|---|
| `TypeCorrect` | `Spec => []TypeOK`, for sets |
| `CountsAreRight` | `Spec => []CountsMatch` |
| `KeysAreUnique` | `Spec => []NoDuplicates` |
| `LookupsAreExact` | `Spec => []LookupExact` |
| `SpaceIsRight` | a NULL slot always remains, `SpaceleftFresh`, and a resize has room for what it moves |
| `HashesAreKept` | `Spec => []HashesKept` |
| `Refinement` | `Spec => Abstract!Spec`: the set implements `SetSpec` |
| `KeysetsCounted` | `Spec => []RefsCountUsers`, for dicts |
| `KeysetsStaySound` | `Spec => []KeysetsSound` |
| `ValuesStayLined` | `Spec => []ValuesLineUp` |
| `KeysetsNeverShrink` | `Spec => KeysetsOnlyGrow` |
| `ConstructorsNeverResize` | `Spec => []FixedNeverResized` |
| `DictRefinement` | `Spec => Abstract!Spec`: the dicts implement `DictSpec` |
| `RunsAlwaysAbut` | `RunsSpec => []RunsAbut`, for lists of every length |
| `StackAlwaysBalanced` | `RunsSpec => []StackBalanced` |
| `SortFollowsRuns` | `Spec => RunsSpec`: the sort of any items, with failures, treats its stack as `ypSortRuns` says |
| `SortKeepsStack` | `Spec => [](RunsAbut /\ StackBalanced)`, for the sort itself |
| `SortsStably` | `Spec => []SortedStably`, for lists of every length, and every number and order of merges |
| `NothingIsLost` | `Spec => []NothingLost` |
| `MergesFit` | `Spec => []TempFits` |
| `RefsAreCounted` | `Spec => []RefsCounted`, for objects of every kind, and calls nested to any depth |
| `NothingDangles` | `Spec => []NoDangling`, for places that own references, if no dying generator's function keeps one to it |
| `NothingFreedTwice` | `Spec => []DeallocatedOnce` |
| `NothingIsLeaked` | `Spec => []NothingLeaks` |
| `ExitsAreFinal` | `Spec => []ExitIsFinal`, if nobody calls a generator whose state is being given up |
| `OneProxyEach` | `Spec => []OneProxyPerObject`, if callbacks keep no arguments |
| `ReferencesAreOwned` | `Spec => []ReferencesOwned`, if callbacks keep no arguments |
| `CallbacksLive` | `Spec => []CallbacksKept`, whichever proxy a new object finds at its address |
| `ListInvariant` | `Spec => []ListInv`, for lists of any length up to `LenMax` |
| `BufferAlwaysFits` | `Spec => []BufferFits` |
| `CallsAreListSteps` | `CSpec => Spec`: what the run of `ypListCalls` explores is what the theorems are about |
| `RefsAlwaysHeld` | `Spec => []RefsHeld`, if no slice of step 1 stops before it starts |
| `DeepTypes` | `Spec => []TypeInv`, for deep copies and freezes of graphs of any size |
| `RefsCounted` | `Spec => []RefsExact`, at any recursion limit and wherever a copy fails |
| `CopiesFaithfully` | `Spec => []CopyFaithful` |
| `NeverWithin` | `Spec => []NeverWithinItself` |
| `FreezesAll` | `Spec => []FreezeReachesAll` |

**Sets.** None of the properties is inductive. What makes them so is `TableSound`: every
key can be reached on its probe sequence without passing a NULL slot. Insertion
preserves it because a free slot that a lookup returns is the first on
the path; removal because a mark is not NULL; and a resize because the new table
has no marks, so that a clean slot is found by looking for the first NULL one.
`IInv` adds to it the counters and, during a resize, that the two tables hold
disjoint keys and that the new one has room for what is left. `InitIInv`, one lemma per
action, and PTL give the theorems. For the refinement `RInv` adds to `IInv` what each kind of call has done to the contents
so far, as a relation between `before`, `arg`, `todo` and the contents: an
update has added `arg \ todo`, an intersection keeps `todo` for later, and so on. Steps of loops
then are stutters of `SetSpec`, and returns are its actions.

**Dicts.** `UsersInv` (in `ypDictProofs`) says who uses which keyset: every dict one, a resize one that no dict
uses yet. Each step changes the keyset of at most one dict, and `Recounted`
compares the counts before and after it. `FreshExists` is the pigeonhole argument that a keyset is free when one is needed.
Its second part adds what the keysets and the value arrays hold. `Grown` is how a keyset may change: keys come, and none moves or
goes. `LinedGrown` shows that the values of the dicts that share it stay in line, whichever dict added the key,
so that each action has to be looked at for one dict only (`TablesKept`). During a resize the items are in two
places: `ResizeInv` says that those to move have keys the new keyset does not have yet, and that it has room for them
and for the item that caused the resize. `ItemInv` says that `spaceleft` is the room in the keyset, without which a push could fill its last
NULL slot. It uses the lemmas on tables that the sets use (`ypOperatorProofs`).
`FixedInv` is what keeps constructors from resizes: as long as one runs, its keyset has room for the item that is pending
and for all that are announced, or the dict is not fixed and will hold `AllocHintMax` items before the room ends; no other call
changes a dict that is not mutable.
That the dicts implement `DictSpec` (`DictRefinement`) needs two more parts, `RInv == IInv /\ MovedInv /\ UpdateInv`. `MovedInv`: during a resize each item
that the scan has passed is in the new values, and they hold nothing else. `UpdateInv`: a dict that is updated from another holds the items it had
before the call (`call.before`), overlaid with those whose slots the scan has passed, but the one that is pending. `Holds` says which
map the values beside a keyset's keys are, and `HoldsOne` that they are one map only; as keys come to a keyset and none
goes, `ItemsKept` shows that a step on one dict changes no item of another, although they share the keyset. What remains is one lemma for each
action (`GetItemSimulates`, `ClearSimulates`, ...): most steps of a call are stutters of `DictSpec`, in which it takes effect as a whole when it
returns, or, from an iterator, once for each item.

**Sorts.** After a run is pushed the balance of the stack may be broken at its top, and after a merge below that; `RunsInv`
contains the weaker relation that holds in between, from which `merge_collapse`'s looking at four runs is enough to restore
the balance of them all. `SortInv` adds the items, whatever their keys and however inconsistent the comparisons. Between the
two runs of a merge lies a gap as long as what is held (`Laid`), and `Filled` is the list with the gap filled
from the temporary array. Moving items of the held run leaves that as it is; moving `k` of the other run over the gap exchanges
them with what is held (`Rotates`), so that the same items are there (`TakeContents`), and `Flush` may be called at any time.
`Live` says that both runs have items left as long as a merge goes on, without which the
next comparison would read past one. That the searches end inside the runs (`GallopInRange`,
`BisectInRange`), that `binarysort` and `count_run` lose nothing (`NextRunKeeps`), and that a run is found inside what remains, are proved of the recursive
functions themselves: as the library's induction theorems cannot be used, `TailRecursion` and `StepRecursion` find the function's values by
taking the least number at which they could not be found (`LeastNat`, from the well-founded order of finite sets).

That a sort puts the items in order and keeps equal ones as they were (`SortsStably`) rests on `OrderInv`. The order that is
promised is `Before`: by key, and of equal keys by the place the item was found at (`Origin`, counted from the end if the list is sorted in reverse).
`OrderInv` says of the list with the gap filled (`View`) that each pending run is in that order, but for the
one of a merge, and that each run holds the items found at its own places (`Kept`), from which all of a run's items were before
those of the next: this is what stability hangs on, and why only neighbours may be merged. In the middle of a merge what is left of the two runs lies behind
one another in the view, and every other two places are in order (`Merges`); whichever of the two is held, its last item (or its first, backward)
is known to come last (first), since `merge_at` left out what the other run does not reach. Without that, `CopyRest` could put
the last held item at the wrong end (`RestMayTake`). `TakeOrders` is the step of every merge: `k` items of a run may be moved if
they precede what is left of the other, or follow it (`MayTake`), equal ones by which run is held. The searches' results are read as such
facts (`PlaceRightFinds`, `PlaceLeftFinds`, `SearchesTell`), as are those of `count_run`, which reverses only what descends strictly, and of the insertions (`NextRunOrders`).
All this is under the condition that no key is NaN; where one comparison fails, the sort does, and promises no order.

**Lists.** `ListInv` says what is in the variables in the middle of calls that other calls interrupt: the cells hold
items and no more than the buffer has room for, the buffer is at most `LenMax` long, and each sort under way
holds items that fit the buffer it took away, without which handing them back (`Attach`) would overrun it. It needs no condition on slices.
`RefsHeld` is about what a step changes: `Even` says that it takes references as it puts items in places and gives them back as it
takes items away, and `Balance` says so with the places in suspended sorts counted (`HeldIn`); `Owned` is `RefsHeld` with the places counted as one set.
Counting is the cardinality of a set of places, and a sort keeps it since it comes with a bijection of the places
(`Rearranged` in `ypOperatorProofs`, which the sort's theorems use too). What calls do to cells is proved of the copies and moves themselves: that a grown or shrunk slice is a
splice, in place or into a new buffer (`MovedInPlace`, `MovedApart`, `PutSplices`); that `AdjustIndices` names positions of the list only (`AdjustIs`) and `InvertIndices` the same ones
backwards (`InvertIs`); that the block moves of a deleted slice lose its items and no others (`DelsliceIs`, by `Slid` after each chunk);
that an extended slice exchanges as many items as it names (`PlacedIs`); and that
the doubling copies of a repetition end with every cell filled (`RepeatFills`). `RefsAlwaysHeld` has the condition
`SlicesRunForward`, as it is false without: `L[3:1] = [x]` (disagreement 5) moves items over others. `MCypList` assumes the condition of its slices (`MCSlicesAssumption`), so TLC evaluates it.

**References.** A call changes the counts in pieces: it raises one for a reference it is about to store, or
gives a reference up whose count it has yet to lower. `State(k, c, a, p, fs, x, d)` is the invariant in the middle of that, with `d` the
object whose count is one too high (or `NULL`); it takes the state apart because a step of the model makes several such changes.
`Balanced` says that a count is the number of places that refer to the object (plus `d`), or `Immortal`, and that what is free or
doomed has none, but for a generator whose function runs for the last time. It is not inductive alone, because of what the calls in progress rely on: `FrameOK` says for each frame what its
places still hold (the fields a deallocation has visited own nothing, a store's arguments still refer to what they did), `PairOK` for each two frames
that a call above works on the object of one below only if that waits for its function, or is its deallocation: so calls that a generator's function makes
of its own generator are over before the state is given up. `Charged`, that some call answers
for each field that gave up its reference and kept the pointer; `Emptied`, that what was freed or closed refers to nothing; `Exited`, that
a generator that was told to exit is closed or being closed; `Unreferred`, that nothing refers to a generator any longer once the function has returned
for the last time, which `FuncExits` demands of it.
`Settled` is `yp_decref`: the last reference either
begins a deallocation or, if one runs, joins the objects that wait. `Usable` are the places that the caller may
change, of which no frame speaks (`OpenIsUsable`); each caller's action is made of `LoseAt`, `GainAt`, `CountUp` and `Settled`.

**Bindings.** Again the invariant (`State`) takes the state as parameters and has a set `S` of addresses whose count is still
too high. `Owned` counts owners through the cache: an address has one proxy at most, `cache[a]`, which `Keyed` keeps
true. The rest is about the moments in which that proxy is not live. `Shaped` says how calls lie on one another: a `__del__` only
on top, one callback at most, and under a proxy that is being deleted only the call it was
deleted from, or a finalizer. `Reliable` says that a proxy that is found while it is being cleared (`Bereft`) has lost its object, which is
why Python code never sees a dying proxy of an object that exists (`AllocatedIsLive`), and `Passed` that a proxy in the argument array
stands for the argument of the callback that runs. That last part is what a callback that
keeps its argument breaks. `Dropped` is `yp_decref`, with the finalizer it may start.

**Deep copies.** `DeepInv` has eight parts. `TypeInv` and `StackInv` say what each kind of frame is and owns, and
that a frame that waits has not come to the end of its items. `ChainInv` is why nothing is copied within itself: what a frame above
another copies or visits is within the item the lower one has come to (`Linked`); a tuple that is copied is in the
memo (`Noted`), which ends its second visit, and a set is never within its own keys, as they were hashable
when they were added (`Graphs`). `CalledInv` says that the frame above another is of the
item that one waits for, so that a result is the copy of what was `Wanted`. `FreezeInv` says of what a deep freeze has visited that it is
frozen, and that each of its items was visited or is still ahead in a frame (`Settled`); once no frame is left, what was visited
is closed under items, and so it is everything. `RefsExact` is inductive with these. It counts places, so each step is a
step of four counts, those of the items of copies, of the frames, of the memo and of the result; a frame that releases the last
reference takes the items of the copy over. It also needs that a copy gets its items only once (`Unfilled`). `CopyInv` says, as long
as nothing fails, that each memoized copy is like its original and filled with copies of its items, or will be (`Copied`), that
a frame's copies so far are those of the items before the one it has come to (`Made`), and that no two originals share a copy (`OneToOne`, `Apart`).
A visit of an empty object in a frozen copy gives an immortal (`ImmortalsOf`), which is why `CopyFaithful` lets immortals stand for many.
When the call ends, the memo with those immortals is the function of `CopyFaithful`, and what
it reaches is kept while the memo is released (`DoneInv`): each step of that leaves the items of what it reaches alone, as `RefsExact` gives each copy
that another holds a reference.

Only model-checked: liveness (outside of the prover's reach), sets with
re-entrant iterators, that lists implement `ListSpec` (what is proved of a list's slices counts its items, it says nothing
of their order).

## 5. Not modelled

See the components in `PROJECT.json`, each with its reason. In short: pure dispatch, static
data, floats and the C library are left out for good; the rest is planned.

## 6. Plan

In this order; a step composes with or reuses what is named in brackets.

1. `ypInt`, `ypRange`, slices of ranges [`ypSlice`]: arithmetic on a small width with overflow reported, floor division and modulo;
   range equality, containment and slices against the sequences they stand for.
2. `ypCall`: binding of arguments to parameters, against a reference definition.
3. `ypStr`: encodings that fit, UTF-8 decoding with partial and wrong input, find, replace and strip; in-place calls of bytearray and chrarray [`ypSlice`].
4. `ypMiniIter`: cursors over changing sequences, sets and dicts; unpacking; the codec registry as two dicts [`DictSpec`].

The modules that are algorithms without a history of their own (1–3) share one run over all
small inputs, with a definition that does not look like the code as reference.

Theorem to come: that `ypList` implements `ListSpec`.
