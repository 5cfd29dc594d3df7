# A TLA+ model of ooe

This directory holds TLA+ specifications of ooe: of its protocols, where several
threads or processes share state, and of the data structures and conversions
they carry. TLC checks them on small instances and TLAPS proves the invariants
that matter most for every instance. Paths below are relative to the
repository's root (`src/` in `PROJECT.json`).

## 1. The system

| Part | Source | State it keeps | Operations |
|---|---|---|---|
| memory transport | `foundation/ipc/memory/transport_private.hpp`, `linux/transport.cpp` | a shared page with two lock words and two semaphores | wait, notify, wake_wait, wake_notify |
| memory rpc | `ipc/memory/rpc_forward.hpp`, `io_buffer.hpp`, `allocator.hpp` | the page's header and body, segments of shared memory beside it | one synchronous call |
| memory link | `ipc/memory/link.cpp` | an atom `state`, a thread that polls a local socket | watch the peer, end the other thread's wait |
| memory and socket server | `ipc/memory/server.cpp`, `ipc/socket/server.cpp` | a list of servlets under a mutex, a thread (or two) for each | insert, erase, serve, destroy |
| socket client | `ipc/socket/client.cpp`, `rpc_forward.hpp` | three counters, a map of outstanding calls, a reader thread | call, wait, drop, receive, destroy |
| object pool, switchboard, nameservice | `ipc/pool.hpp`, `switchboard.hpp`, `nameservice.cpp` | live addresses, a vector of functions, a map of names | construct, destruct, verify; insert, execute; find, list |
| serialisation | `ipc/traits*.hpp`, `container.hpp`, `jumbo.hpp` | a buffer | size, write, read |
| registry | `component/registry/` | a set of paths, a multimap of interfaces, facades of modules | insert, find, list, surrogate |
| scripting hosts | `component/lua`, `component/python` | a Lua stack, counted Python objects, tables of functions | find, load, doc, invoke, conversions |
| thread pool | `foundation/parallel/thread_pool*` | for each unit a queue, a count, a semaphore; for each task a state | async, run, wait for a result, destroy |
| page cache | `component/ui/virtual_texture.cpp` | a list in order of use, two maps, a queue of pages read, page tables | load, read, write, unlock, evict |
| page sources | `ui/tile_source.cpp`, `font_source.cpp`, `convert_source.cpp` | files of pages, a cache of glyphs | read, make_tile |
| layout | `ui/bin.cpp`, `box_tree.cpp`, `text_layout.cpp` | trees of boxes; a mapped buffer of glyphs | insert, find, view, input |
| ui programs | `component/ui/server/main.cpp`, `retile`, `tile` | place, zoom, what is pending | events, draw, write |
| opengl, visual, image, math | `foundation/opengl`, `visual`, `image`, `math` | what the device has bound; buffers of a codec; values | draw, attach, write; decode, encode; arithmetic |
| io, executable, utility | `foundation/io`, `executable`, `utility` | sockets, mounts, pipes; rings and counts of pointers | send, receive, poll; find; fork; connect, call |
| test runner | `test/unit/runner.cpp` | a list of children with their pipes and timers | fork, read, time out, collect |

How they interact. A *memory client* sends the descriptor of its shared page to
the server over a local socket; the server starts a *servlet* thread, which maps
the page, starts a *link* thread on the socket, and loops over
`transport.wait( ipc_decode )`. A call writes the page, hands the turn over with
the lock words, and reads the reply from the same page; the *switchboard* is what
the servlet executes, and the *object pool* says which addresses a client may
pass to it. What does not fit in the page is in a segment of shared memory that
one side makes and the other unlinks. A *socket client* instead writes calls to
a stream without waiting, and its reader thread matches the replies, by counting,
with the results that callers hold. The *registry* is a program built of the
memory server; for each library it forks a *surrogate*, another one. The Lua and
Python hosts load a library or connect to a server that the registry finds. The
*thread pool* carries out the reads of the *page cache* and the rows of
`make_tile`; the viewer draws what the page cache has.

What is hard, and what makes each part correct:

* **transport**: two processes, two atomic words, two semaphores and one page, no
  lock around any of it. The page must never be shared, a turn never lost, and a
  reply must answer the request before it.
* **link**: either process may die between any two atomic operations; a third
  thread then enters the rendezvous on behalf of the dead one.
* **servers**: a servlet is destroyed by one of its own threads, while the server
  accepts and while other servlets end. It must be destroyed once.
* **segments and objects**: each call has three steps that may throw, on two
  sides. Every segment is unlinked once, and no object is given to two owners.
* **socket client**: results are dropped, waited for and abandoned in any order
  while replies arrive; condition variables wake up by themselves; the server
  dies anywhere. No reply to a wrong call, no waiter left behind.
* **registry**: the set and the map have a lock each, and between the two a
  surrogate is forked and waited for. What was inserted is found.
* **thread pool**: the count of a queue is kept beside the queue, and sleeping
  depends on both. No wakeup lost, every task run once.
* **page cache**: four indexes of the same pages, filled by threads in any order,
  while the shader samples the last of them. A page table never shows a layer
  that holds another page, and what is drawn with is not evicted.
* **viewer**: whether to wait for an event is decided from counters of what is
  pending. Never asleep with something undrawn.
* **structures and conversions**: a long sequence of legal calls, or a value at
  the edge of its word, where a unit test has one or two cases.

`PROJECT.json` lists every component with its status, and under `hazards` each
of these difficulties at the line where it bites.

## 2. The modules

### ipc and threads

| Module | Models |
|---|---|
| `RpcChannel` | the promise of `ipc::memory::rpc`: one call at a time, executed once, answered with its own outcome |
| `Transport` | `spin_up`, `spin_down`, the lock words and semaphores; one client thread and one servlet thread around the page; refines `RpcChannel` |
| `MemoryLink` | two processes with their link threads, crashes, destruction (extends `Transport`) |
| `MemoryRpc` | the same calls with arguments, results and exceptions that need segments |
| `ServerList` | both kinds of server with their lists of servlets |
| `SocketRpc` | client, reader, waiters, servlet, two streams |
| `ThreadPool` | units, tasks, results, destruction |
| `RemoteObjects` | the pools of objects that clients construct |
| `Serialise` | the traits of types, by which messages are written to a buffer and read |

*Transport.* `lock` and `sem` are the two words and semaphores of
`control` and `control_io`, indexed by direction ("in" carries requests, "out"
replies). Each atomic operation of `spin_up` (`Claim`: the exchange; `Release` and
`Wake`: the two compare_exchanges; `Post`: the semaphore) and of `spin_down`
(`Park`, `Pend`) is an action, so every interleaving of the two processes is
explored. The bounded spin of `spin_down` only reads, and is covered by `Park`
being delayed. `pc["client"]` walks through `rpc::operator()`: store, notify,
load_header, read the value; `pc["servlet"]` through `wait`, `ipc_decode`, and the
loop. `page` keeps a header (a call, an error code) and a body; requests and
replies share it, as they share their bytes in the code. `Implements` is the
refinement of `RpcChannel`: a call is "called" until the servlet has written its
reply, then "served" until the caller returns.

*MemoryLink* adds `lpc` (the link threads), `state`, `alive`, and `hup` (whose end
of the socket polls as readable). The link threads' wakes are the same `SpinUp`
operator as the peers' own. `Crash` stops all threads of one process between any
two actions and hangs up the other's socket. `ClientClose` is `~link_client`,
`ServletStop` is `~servlet` called from the server. An exception in a thread
leaves its `pc` at "thrown": the client's reaches its caller, the servlet's ends
`servlet::main`, a link thread's ends the thread (every thread runs under
`OOE_PRINT`, in `thread.cpp`).

*MemoryRpc* takes the rendezvous as given and looks at the data: `own`, `mapped`
and `linked` say of each segment who made it, who has it mapped, and whether its
name exists; a call's request, result and error text are each in the page or in
a segment.

*ServerList* has `kind` choose between the two servers. `Accept` is the server's
thread in insert, whose steps (construct, start the thread, assign to the list)
interleave with `Thread(c)`, the threads of servlets: they serve, are told that the
client hung up, detach, lock, erase and destroy. `words` is whose turn it is on the
client's page, or on its stream: a client may be gone in the middle of its
hand-over ("cut"), and the link thread's own wake then throws. A memory servlet that
finds no descriptor, and a socket servlet whose send or receive fails, end by an
exception ("thrown") and erase nothing. `Well` says that nothing undefined has
happened (`fault`), and the properties hold of such states; which steps lead to a
fault is in section 5.

*SocketRpc.* A section under `client::mutex` is one action. A call with number n
carries n as its argument and its reply says n: the code sends neither, which is
what makes `RightReply` worth checking. `data` is the reply stored in the map,
`got` (history) the one a result was completed with. `Owner` makes the calls, may
wait for and drop results, and destroys the client; `Waiters` are further threads
that only wait. `After(u, n)` leads to "crashed" where `except()` would read from a
null buffer.

*Serialise.* The traits of a type are a record of the functions `size`, `write` and
`read`, with the `values` of the type and those that come back `whole` (in which no
string contains the character that ends strings). Those of a container, a pair or a
tuple are made of the traits of its parts, as the templates are, so a type is a
sequence of declarations, each of types before it. `StreamWrite` puts a message at
the front of the buffer, over what is there; behind it is what earlier ones left.

*ThreadPool.* `user` is the thread that owns the pool: `Push`, `Count`, `Up` are the
three steps of `thread_unit::enqueue`, `Stop`, `WakeUnit`, `Join` those of
`~thread_unit`. `pc` is `thread_unit::main` of each unit, one action for each access
to a shared object. `waiter` is the holder of each task's result, who may ask, ask
again, or drop it, at any time. `ran` is history: how often a function was run.

### registry and scripting

| Module | Models |
|---|---|
| `Registry` | the server, its surrogates (private and public), the barrier, clients' calls |
| `Facades` | a module's builder, its local, remote and script facades, and the nameservice |
| `ScriptCalls` | find, load, doc and invoke of the Lua and Python hosts, and the libraries they keep open |
| `ScriptObjects` | C++ objects in wrappers of a script: who deletes them |
| `ScriptValues` | conversions of values to and from Lua and Python, with stack slots and reference counts |

`Registry` has a process counter (`pc`) for each call that a servlet thread of the
server runs: the two locks are separate steps, as is everything a surrogate does
until its barrier is notified. `ScriptObjects` follows wrappers through a second use:
what a `destruct` has cleared is looked for all the same, and `broken` says what was
undefined then. In `ScriptCalls` an argument may be one whose type nothing tells
("unknown", such as the wrapper of a destructed object, which a script keeps as
"spent"), and `Undefined` says which arguments are looked at before the call is
refused. The operators of
`ScriptValues` are recursive in the type, as the traits are.

### user interface and libraries

| Module | Models |
|---|---|
| `PageCache` | `page_cache` and `virtual_texture`, with the readers of the pool |
| `PageSources`, `TilePyramid` | the arithmetic of pages; `make_tile` over a pool |
| `Bin`, `BoxTree`, `TextLayout` | layout structures, against what they must return |
| `FixedCache` | the cache of glyphs |
| `Viewer` | the viewer's loop |
| `Geometry`, `Mathematics` | the camera and boxes; vectors, matrices, quaternions over integers |
| `DrawBlock`, `DrawFrame` | inputs and outputs of a draw, as the device is told of them |
| `Images`, `ImageStreams` | formats, levels, conversions; buffers between files and codecs |

*PageCache.* `list`, `map`, `pages` and `table` are the indexes: `list` gives each
slot its place in the order of use, and `pages` each texture its slots, a set as
`insert_page` adds none twice. `shown` is the device's copy of the page table and
`array` what is in each layer. `load` puts a
key in `map` as pending and hands a read to the pool; a reader appends to `queue`
at any time; `write` places one page after the other, evicting the least recently
used unlocked slot, and then copies the page tables it has made dirty. The guards
of `Construct`, `Destroy` and `Unlock` are two duties of the callers (section 5).

### utility, io, programs

| Module | Models |
|---|---|
| `Pointers`, `Signal`, `Binary` | owning and counting pointers; the ring of slots; words, fixed points, tuples |
| `Sockets`, `Files` | a pair of sockets with descriptors, and poll; mounts and archives |
| `TestRunner` | the runner, its children, pipes and timers; `Look` (the wait that does not block), `Visit` (the test of the timer) and `Kill` (signal and verdict) are three steps, between which a child may end |

### instances

`Transport`, `MemoryLink`, `ThreadPool`, `SocketRpc` and `TestRunner` are checked as
they are, each with the configurations that bear its name (`MCTransport.cfg`, ...).
`Ui` makes one instance of each of `Bin`, `FixedCache`, `Viewer`, `DrawFrame`,
`ImageStreams`, `TextLayout` and `TilePyramid`, with a specification for each and
the properties that are required of them, for any constants that satisfy
`UiAssumption`; `MCUi` extends it and `PageCache`, and adds the parts that are
recursive or have no state. `Services` and
`ServicesAssumption` are the same for the services, and `MCServices` extends
`Services`. In `MCUi` and `MCServices`, `part` says which of them a behaviour
is about. Those parts do not call each other in the code beyond what a
module already has inside it (the page cache its pool, the viewer its page cache
as a count of reads, the script hosts their registry as a map), so one part runs
and the others keep their initial state; nothing is lost by not interleaving
them, and a state of one is never multiplied by those of another. (The theorems
about `Ui` and `Services` have the parts interleave.) Modules without
state are evaluated on each `input` of a set, in the initial state that has it.

`TransportProofs` (which covers `MemoryLink` too), `ThreadPoolProofs`,
`SocketRpcProofs`, `PageCacheProofs`, `UiProofs` (about `Ui`), and `OwnersProofs`,
`LookupsProofs` and `DeliveriesProofs` (about `Services`), hold the theorems.

## 3. The runs

| Run | What it shows | Bounds |
|---|---|---|
| `transport` | page exclusion, no invalid lock word, no lost turn; each call returns; `RpcChannel` is implemented | two arguments (one throws); calls unbounded, 223 states |
| `link` | servlets are reclaimed, accepted calls end, destructors return; before a hang-up the link threads disturb nothing | the same, each process may die once; 107,198 states |
| `link_notified` | **violated**: finding 1 | one argument |
| `pool` | counters, wakeups, each task run once, results returned | 1 unit, 3 tasks, task 2 throws; 119,011 states |
| `pool_units` | round robin, the destructor joins units in turn | 2 units, 2 tasks; 74,700 states |
| `pool_errors` | **violated**: finding 2 | 1 unit, 1 task |
| `socket` | replies go to their calls, are conserved, waiters and the destructor return | 3 calls and the flush, call 2 throws, spurious wakeups; 44,273 states |
| `socket_completed` | **violated**: finding 3 | 1 call |
| `socket_waiters` | **violated**: finding 4 | 2 calls, 2 waiting threads, no spurious wakeups |
| `ui` | the user interface: see below | below; 81,817 states |
| `services` | the services: see below | below; 163,238 states |
| `runner_timeout` | **violated**: finding 5 | 2 tests |

### Why the bounds are enough

The transport holds one call at a time and forgets it afterwards, so one round of
calls with a value and with an exception, following each other in any order, is
all of its behaviour; `Transport` has no counter to bound. A process dies once; a
servlet serves one client. For a unit of the pool, tasks beyond the one it runs
and the one being inserted only lengthen the queue; the third shows a task pushed
while one is queued and one is run. Units share nothing but the owner's index,
and two show its round and the order of joining. For the socket, with three calls
one can be in each of: dropped, waited for, on its way; `Limit` bounds the calls
that are made, and the destructor adds one. (`pool` and `socket`'s invariants are
proved for any number.)

`ui`:

| Part | Bounds | Property |
|---|---|---|
| page cache | 2 textures of one tile and the root, 2 layers (fewer than the 4 pages), at most 3 reads under way: a page is evicted, reloaded, and read twice at once | `IndexesAgree`, `ShownRight`, `PendingCounted`, `LockedStays`, `LoadsLand` |
| make_tile | 3 by 5 pages, so that levels have odd sides, and with two units rows of each kind: over in time, not, and made of one that is not; 1 or 2 units | `PagesRight`, `UiProgresses` |
| bin | a rectangle of 4 by 3, any rectangles in it | `PlacesRight` |
| fixed cache | 4 keys, 3 nodes: the fourth evicts | `PlacesRight` |
| frame | 3 outputs of which a device draws 2, images that fit or not | `PlacesRight` |
| streams | a file of 7 bytes in pages of 3, skips of 1 to 4 | `PlacesRight` |
| viewer | zoom up to 4, 2 reads, a drift of 12 | `ViewerDraws`, `UiProgresses` |
| box tree | boxes of depth 2, 8-bit words | `GraphicsRight` |
| text | pairs of texts of two sizes, lines of width 4 and 8, with words that end with the text, in it or in the next | `LayoutSound`, `UiProgresses` |
| camera, draw, images | 2 blocks and buffers; tables of formats, levels of sizes | `GraphicsRight` |
| inputs | words of 8 bits; integer matrices, unit quaternions; sides of up to 20 | `GraphicsRight` |

`services`:

| Part | Bounds | Property |
|---|---|---|
| servers | 2 clients, both kinds, gone at any point of a call | `OwnedOnce`, `ServicesProgress` |
| segments of a call | 3 segments, 2 calls one after the other | `OwnedOnce` |
| remote objects | 2 servlets, 3 objects: one that the other's client knows | `OwnedOnce` |
| pointers | 2 threads with 2 handles each, 3 blocks | `OwnedOnce` |
| script objects | 2 natives, 3 wrappers: an owner, a pointer, and a second use of either | `OwnedOnce` |
| scripts' calls | 2 libraries, 1 server, 2 tables, both hosts | `OwnedOnce`, `LookupsRight` |
| registry | 2 clients, a library, a server, a public surrogate, 2 names | `LookupsRight`, `ServicesProgress` |
| facades | 3 names | `LookupsRight` |
| files | 3 mounts, 4 paths | `LookupsRight` |
| archives | of up to 2 files | `ConversionsRight` |
| conversions | values nested twice, one of them of a wrong type | `ConversionsRight` |
| streams | 10 messages of 4 types, nested up to four deep, one after the other; some strings with a zero | `DeliveriesRight` |
| signal | 3 slots, which connect and disconnect inside a call | `DeliveriesRight` |
| sockets | 2 messages with or without a descriptor, reads of up to 2 bytes | `DeliveriesRight` |
| runner | 2 tests, each of which passes, fails or hangs, and ends or is late between any two steps of the runner | `VerdictsRight`, `ServicesProgress` |

A property of these two runs is a conjunction, one named part for each module;
the part is defined, and explained, in its module. Where the code keeps a promise
only under a condition, the condition is stated there and the exception is listed
in section 5.

Deadlock is checked in `transport`, which never stops. It is off in the other
runs: a closed client, a destroyed pool, a dead process, a finished layout is
where these systems end, and waits that end nowhere are what their liveness
properties look for.

### Fairness

Each thread of a live process has weak fairness on its own steps: the threads are
pthreads under a preemptive scheduler and `spin_down` yields. Posting and waiting
on a semaphore by two threads needs no strong fairness, since a semaphore's post
stays until the one thread that waits on it takes it. Nothing obliges a program
to call, wait, drop, insert or destroy, and nothing obliges a process to die:
`Call`, `Wait` by a user, `Drop`, `Push`, `Destroy`, `Crash`, `ServerDies`,
`SpuriousWakeup` are unfair. Functions called through rpc or by the pool are
assumed to return.

In `MCUi`: the readers of the pool and the loop of `write` (`PageCache!Fairness`), the
units and the caller of `make_tile`, the loop of `text_layout::input`, and of the
viewer drawing, writing and not getting an event when it does not wait for one;
no event has to come, and no texture has to be loaded. In `MCServices`: the server's
insert and the servlets' threads, the children and calls of the registry, the
loop of the runner, the exit of a test that does not hang, and the passing of
time; no client has to call or hang up.

Exceptions the liveness properties state, each of them a limit of the code:

* `ServletReclaimed` excepts `HandOverCut`: a client killed between taking back
  the out word and handing the turn over leaves `in_lock` locked (or the post
  unmade) and `out_lock` locked, so the link server's `spin_up` throws and the
  servlet stays asleep.
* `AcceptedCallEnds` starts from a client that has handed over its request and a
  server that was not withdrawing the servlet; without that, finding 1.
* `TasksRun` and `ResultsReturn` except a pool under destruction: what is in a
  queue then is dropped without a post, and a thread waiting for such a result
  waits for ever.
* `WaitReturns` and `CloseReturns` of the socket client except a waiter that a
  spurious wakeup has misled (`Misled`): itself, which then reads an empty result
  (finding 3); or a later wait, which is woken by the signal that was meant for it. A
  waiter that returns otherwise has its reply, or the connection is down.
* `ServicesProgress` excepts a call of the registry whose surrogate dies before it
  notifies the barrier, and the public surrogate's own call (section 5). Of servlets
  it excepts by name the two that the code leaves behind when a client has gone: one
  that threw stays in the list, its thread ended; and one whose client was cut off in
  its hand-over (`HandOverCut` again) has left the list, its thread asleep.
* `UiProgresses` excepts texts with an indent (section 5), and a viewer told to quit.

### Findings

1. `link_notified`. `link.cpp:64` says "wake client and indicate that an error in
   the link has occurred". If the server dies while the client is still writing
   its request or is inside `spin_up`, the link thread finds a word it does not
   expect, throws, and is gone; the client then sleeps for ever.
2. `pool_errors`. A task's state is "error" while it runs, and `result_base::wait`
   sleeps only in state "wait": a caller that asks during the run gets an
   exception from a function that did not throw (`thread_pool.cpp:62`,
   `thread_pool.hpp:30`). `thread_pool_test.cpp:42` expects the value.
3. `socket_completed`. `client::wait` sleeps in a do-while whose condition is false
   from the start; a spurious wakeup completes the result with an empty tuple,
   and `except()` reads from null (`socket/client.cpp:68-80`).
4. `socket_waiters`. `notify` and `notify_one` serve a single waiter: a second one
   overwrites the first's number (`socket/client.cpp:66`), and a broken connection
   wakes only one of them (`client.cpp:23`).
5. `runner_timeout`. The usage text offers a time out for each test
   (`test/unit/program.cpp:54`); `collect_tests` looks at the timer only between
   reads that block (`runner.cpp:85`), so a test that hangs without writing is never
   timed out.

## 4. The proofs

`TransportProofs` proves, for any `Values`, `Throwing`, `Null` that satisfy the two
assumptions of `Transport`: `TypeCorrect`, `PageIsExclusive`, `LockStateIsValid`,
`TurnIsKept`, and `ImplementsSafely` (the safety half of the refinement). None of
these is inductive: that `spin_up` finds the word it expects depends on where the
other side is. `IInv` adds `LockInv` (what each word and semaphore says of its
waiter's program counter: "sleeping" only if the waiter sleeps, a post exactly when
a sleeper was let go), `TurnInv` (whose turn it is, over all pairs of program
counters) and `PageInv` (the request stays on the page until the reply is written
over it). `NextIInv` has one step for each atomic operation. The refinement is
`InitRefines` and `NextRefines`: `Call`, `Encode`, and `LoadHeader` with an exception
or `LoadValue`, are the three steps of the channel, everything else stutters.
`LinkIsQuiet` carries this to `MemoryLink`: as long as neither end has been hung up
and both processes run (`UpInv`), each of its steps is a step of `Transport` or
leaves all of Transport's variables alone (`UpSteps`), so the whole of `IInv` goes
on; a hang-up is never undone (`HangUpsStay`). `LinkTypeIsKept` is about any crash:
what a third thread does to the lock words leaves them in range.

`ThreadPoolProofs` proves for any `Cores` and `Limit`: `TypeCorrect` (in particular
that `--loads` never happens at zero), `LoadsAreRight`, `WakeupsArrive` and
`ValuesAreOfRuns`. `LoadsCountQueue` carries most of it: it makes `loads` positive
whenever the unit has popped (`UncountInv`). `NoLostWakeup` needs two facts about
what comes before sleeping: a unit that decided to sleep on an empty queue has a
post coming if the queue has since filled (`SleepInv`), and a unit told to stop
either looks before it sleeps or has a post (`StopInv`). `DyingInv` keeps the
destructor within the units. For `ValueAfterRun` a task's state must be followed to
the unit that runs it: `PlaceInv` says that no task is in two places, in two queues
or in a queue and the hands of a unit; `StageInv` ties a task's state to the place,
and `ResultInv` ties the result to `ran`.

`SocketRpcProofs` proves for any `Limit`, `Throwing` and `Waiters`: `TypeCorrect`,
`RepliesAreMatched`, `CallsTravelOnce`. The invariant is that what is on its way is
consecutive: the reply the reader holds, the replies in the stream, the call the
servlet executes and the requests in the other stream are the calls from `in` + 1
to `out`, in order (`OrderInv`, as long as the servlet lives). Counting is then
matching.

`PageCacheProofs` proves for any textures, pages, layers and number of reads:
`IndexesAlwaysAgree`, `ShownIsRight`, `PendingIsCounted` and `LockedKeepSlots`, from
the four assumptions of `PageCache` (there is a layer; the coarsest page is none of
the others; no page has the blank key; the bound on reads is a number). That the
indexes agree is not inductive: placing a page in the victim's slot is right only
if the page is in no other slot. It is not, because what is under way is pending
(`PendingCounted`), under way only once and for a texture that exists (`FlightInv`),
and what has a slot is mapped to it, so not pending (`AssignedIsLanded`). What is
drawn needs two links more: a layer keeps the image of the page that has its slot
(`ArrayInv`), and the device's page table differs from the other only on levels
that are marked, of textures that `write` is about to write (`ShownInv`). The list in
order of use is a permutation of the slots (`ToBackOrders`, `EvictedOrders`), so it
has a first unlocked slot when there is one (`FirstExists`, by well-foundedness of
the subset order on finite sets). After "All pages are locked" only the indexes,
the array and the locks are still promised; nothing calls `write` again.

`UiProofs` is about `Ui`, under `UiAssumption`: a cache has room for an entry, a
program has finitely many outputs with numbers, sizes, the last level of the zoom and the
place that zooming keeps are numbers, a buffer and an image are not empty, and there is a text to lay out, each of which begins at a
number and has a size. It proves `PlacesRight`, part by part, `ViewerDraws`,
`LayoutSound` and `PagesRight`.
* *Bin*: the leaves of the tree are apart and cover the bin (`Packed`). What insert
  cuts of a leaf covers the leaf and is apart (`CarveParts`, over the four ways in
  which a rectangle can fit), and a sequence in which a leaf gives way to such parts
  is packed again (`PackedByParts`). The first leaf that fits exists, by
  well-foundedness of the order of numbers (`LeastExists`).
* *Fixed cache*: list, nodes and map name each other, and the list is as long as the
  map has keys (`NodesInv`). An eviction removes one key and adds another, of the
  same node (`SwappedIsAsLarge`).
* *Frame*: the outputs that were given to the device are those below the number of
  images (`FrameInv`). They are all of them, as finitely many outputs without a gap
  are the numbers below their number. A frame whose attachment was replaced is
  excepted (section 5).
* *Streams*: `StreamsInOrder` with the ranges of its places is inductive.
* *Viewer*: at the moment when it looks for pending pages, nothing is written that is
  not drawn (`ViewInv`); the loop waits only if nothing is pending then. Zooming by
  whole levels leaves the place where what was added for the level it is at has put
  it (`ZoomInv`), so that zooming out takes back what zooming in added; what it adds is
  a recursive function of the level (`AddedAdds`).
* *Text*: the place in the buffer is the number of letters before the place in the texts,
  and the same holds for the two markers that the loop goes back to, where the line
  and where the word began (`Placed`, `Marked`). So a point that is written again is
  of the same glyph (`CountsInv`). The second half, `FallingInv`, is about texts that do
  not grow: the next point is right of, or below, the last one that is kept, as
  the loop goes back only to a place before the one it is at, with the next line
  begun; and a text seems larger than its line only at the line's own marker.
* *make_tile*: a level's rows go to the units in turn, from whichever unit was next when
  it began (`base`); so the row n places before the last is behind it in the queue of the
  same unit exactly if the number of units divides n (`OnTime`). The invariant
  (`TilesInv`) says for each unit which jobs it may have: those of this level whose turn
  was its own, and from levels before only rows that are not on time (`Fit`). What is
  awaited is the last row's result, and its unit has nothing behind it (`LastIs`). So
  when that result is there, all rows on time are over (`Over`). A page is right once
  its row is over if the row is sound (`Sound`): on time, and made of rows that are
  sound. A resampling reads four pages of the level above, or fewer at an odd side, and
  they exist because a side is half, rounded up, of the one above, down to a coarsest
  level of one page. With one unit all rows are sound. Of the other rows, or after
  make_tile has thrown, nothing is said (section 5).

The number of letters up to a text, the powers of two and the sides of a level are
recursive functions of a number, as are the loops of `local::supports` and of vfs over
their names and mounts, and of the traits over the elements of a container. What they return is proved from two lemmas about sets
and functions (`UpTo`: a set that has 0 and, with m, m + 1, has all of `0 .. n`;
`Recursion`: a step can be followed n times). They take sets and functions
as parameters, never operators, and are enough for recursion over numbers.

The next three modules are about `Services`, under `ServicesAssumption`: clients are
none of the other values of the mutex; the registry's three modules are different
and there are finitely many names and tables; the names of functions are numbers, in
whose order the vectors are kept, and finitely many; threads use handles of their
own and begin with one; a signal's root, its slots and null are different, as are
wrappers, tables and what stands for none; a message is a value of a type that is
declared, and a count takes at least one byte. Each theorem has the form of a conjunction of
specifications of parts that imply always a property of all of them, so the
parts may interleave in any way.

`OwnersProofs` proves `OwnedOnce`, part by part.
* *Servlets*: destroyed exactly when they leave the list, by a thread that holds the
  mutex, with the thread detached or ended. An element whose servlet is still
  under construction is the server's own, under the mutex (`EmptyInv`).
* *Segments*: a call leaves none linked. At every turn of it the linked segments are
  those that one of the two sides owns, never the same one twice (`SegmentsInv`);
  what the page and the servlet's buffer name is linked, and a request's segment is
  the client's (`NamedInv`).
* *Objects*: an object that a servlet knows lives, is known to no other servlet, and
  what lives has not been destroyed. This is inductive as it stands.
* *Pointers*: threads copy, assign and drop their handles one atomic word at a time,
  so a count does not equal the number of handles between two words. What it equals
  is the cardinality of two sets (`CountInv`): the handles that hold the block and
  the operations that have added and not yet stored (`Holding` and `Taking`);
  `BetweenStep` and the lemmas after it say what one step does to the sets.
  That one thread destroys a block, once and when the count is zero (`DeleteInv`),
  follows.
* *Script objects and libraries*: of a live object that no C++ owner has, exactly one
  wrapper owns it (`OwnerInv`), so what an owner leads to has not been deleted, however
  wrappers are used after a destruct; a library is open as often as tables refer to it
  (`OpenedInv`), a careful script has a table of what it uses (`CarefulInv`), and what is
  looked at before a call is refused is right up to an argument that nothing tells the
  type of (`RightArguments`, `InvokedStep`).

`LookupsProofs` proves `LookupsRight` for any number of clients, names, functions,
directories and paths.
* *Registry*: a call of `find` takes the lock for each name and lets others insert in
  between. What it has counted for a module is at most the number of names seen that
  the module has, and exactly the number of names seen for one that had them all in
  the beginning (`CountsInv`), since the map only grows and a module enters it whole
  (`MapInv`). That nobody connects to a surrogate before it listens follows from what
  each value of the semaphore says of it (`ChildInv`).
* *Facades*: the five vectors of a module stay the same sequence, and sorted
  (`FacadeInv`): the place of a name that is not there is behind all that are less
  (`BelowIs`), and what is put in at that place keeps the order (`PutIn`,
  `PutInOrder`). `find` and `doc` compare nothing with the name, and are right
  because the place of a name that is there is its own (`PlaceOfName`). The loop of
  `local::supports` never goes back: what it has met of an interface is a beginning
  of it, and if the whole is there nothing behind that has been passed
  (`FollowsAll`). In the nameservice, the map leads to a place of its name
  (`BoardInv`), also when a name is inserted twice; when it is not, the map is a
  one-to-one function from the names onto the places, so `list` is whole
  (`BoardListed`).
* *Files*: what was found last is in the directory in front (`FilesInv`), wherever that
  was in the list before; for a path that no internal directory begins, the path
  that is tried there is the one asked for (`StrippedSame`).

`VerdictsRight` is there too: the runner removes from a list while it walks along it,
and each test without a verdict stays in the list once (`ListInv`, `Removed`); it means
to kill a child only once its time has passed (`KillInv`), whatever the child does until
the signal.

`DeliveriesProofs` proves `DeliveriesRight`.
* *Sockets*: what an end has taken and what is on its way are what the other has sent.
  What poll said of an end stays true until the end is read or closed, since the
  other end can only add to it (`EventsInv`, `EndsStep`).
* *Signals*: the ring and the order agree in both directions, whichever slot is taken
  out (`TakenRing`). For a call under way, the slots it may still come by include
  those that were disconnected and keep their pointers, so that the ring alone says
  too little. The invariant (`Underway`) gives these slots ranks: ranks grow along
  the pointers, and no pointer leaps over a slot that has been connected all along;
  slots pushed at either end take ranks beyond all others, which is why a slot
  that is still pointing must not be pushed inside a call. From this, a call
  never meets a slot twice, and has passed all it should when it comes to the root.
* *Streams*: what the traits of a type must be is said once (`RoundTrips`): they write as
  many bytes as they say, and read back what they wrote *whatever is behind it*; without
  the last words nothing could be said of an element that others follow. The traits
  of numbers, strings and empty types are so, and a container or a pair of types that
  are so is so too (`ContainerRoundTrips`, `PairRoundTrips`): the bytes of the elements
  so far stand before the rest (`Standing`), as many as counted (`ElementsSized`), hence
  each is read where it was written (`ElementsRead`). Every declaration names earlier
  ones only, so there are traits for all of them (`TraitsExist`) and all are so
  (`AllRoundTrip`).

Only model-checked: liveness everywhere, and the fairness half of `Implements`,
which need reasoning about ENABLED; and two invariants, of parts that compute over
data: `ConversionsRight` (script values nested as their types, archives, the room of
a vector) and `GraphicsRight` (the tree of boxes, a pixel as the mean of those it stands for,
sums over a block's inputs, bits of words, and matrices). What the recursive ones
compute for every input is an induction over data, which takes an operator as its
parameter, and the installed provers do not have it; they are written as RECURSIVE
operators, which a module with proofs cannot reach. (What is recursive in the type
could be composed of functions as in `Serialise`, but the conversions of scripts move a
stack or references meanwhile.) Matrices and quaternions are
products of variables, which the SMT solver does not decide. The parts of
`GraphicsRight` that have neither (`DrawBlock`, the camera, the region of a view) could
be proved by themselves; the runs check them.

## 5. What no property states

The models also show the following, for which the code makes no promise that a
property could quote. Properties hold where it does not happen: each is excluded
by a guard or a condition that the module names, or ends a behaviour in `fault`.

*Servers and calls*
* After a connection error the next call on the same memory client never returns:
  a call does not look at the link (`rpc_forward.hpp:165`).
* A link server that takes back the out word from under a sleeping client leaves it
  asleep although its server is alive; the link server's message (`true`, index 0) has
  the same bytes as the reply "no error".
* `erase` detaches through the list's front before it takes the mutex
  (`socket/server.cpp:108`, `memory/server.cpp:107`): the element may still be null;
  a memory servlet reads a member after its link thread, which may destroy it, has
  started (`memory/server.cpp:82`); a surrogate ends, and destroys its server, with
  a servlet alive (`surrogate/main.cpp:59-71`).
* A servlet whose send or receive throws (`socket/server.cpp:61-86`), or that finds no
  descriptor of a page, never calls `erase`: it stays in the list until the server goes.
  The wake that follows an `erase` by a link thread throws when the client had not the
  turn (`link.cpp:34`): the servlet then is awake, unless the client was cut off in the
  middle of its hand-over, which leaves the thread asleep.
* A reply's header overwrites its result when the arguments needed a segment and the
  result does not (`memory/server.cpp:28-32`); the text of an exception too long for
  the page is read from the bytes of the segment's name (`rpc_forward.hpp:87`).
* A `destruct_ptr` leaves the pool as it is verified (`pool.hpp:144`): if a later
  argument is refused the object is never deleted.
* A second insert of a name makes `nameservice::list` write past its vector
  (`nameservice.cpp:89-98,112-119`).
* A string that contains NUL is read short and what follows it is out of step; a copy
  of a vector filled on this side is empty; the allocator's count is in bytes.
* A second thread waiting for a result of the pool sleeps for ever, as does the
  holder of one whose pool is destroyed; a socket result called again after it has
  thrown reads from null; a reply that has arrived is refused once the connection is
  down (`socket/client.cpp:62`).

*Registry, hosts and test runner*
* A public surrogate whose `insert` waits for the server that waits for it never
  starts (`surrogate/main.cpp:52`); a barrier waits for ever if the surrogate dies
  first; a module that failed to load stays in the set and cannot be inserted again
  (`registry/server/main.cpp:78`).
* Lookups by `lower_bound` do not test for equality (`module.cpp:21-34`,
  `local.cpp:64-78`, `tile_source.cpp:37-46`): a name that is not there finds its
  neighbour.
* Functions and objects that a script takes out of a table outlive the library
  (`lua/facade.cpp:61-90`, `python/facade.cpp:58-89`); `find` does not ask whether a
  module has the host's facade; `throw_exception` leaves C++ frames by longjmp.
* A Lua container nested in a map or a tuple is read at an index that has moved
  (`lua/traits.hpp:95,181`); elements of a Python set, and what `load` makes, keep a
  reference (`python/traits.hpp:115`, `facade.cpp:81-87`).
* `destruct` of a wrapper that does not own its object deletes it twice. A wrapper whose
  object was destructed, by a call that may have failed at a later argument, can be
  passed again: in Lua its metatable is gone, and a field of the userdata is taken
  (`lua/traits_forward.hpp:274-277`); in Python its context is null and called as a
  function (`python/traits_forward.hpp:16`, `registry/traits.hpp:80`). No error is
  raised: the behaviours end there (`broken`, `fault`). The same holds in Python of any
  capsule of another module, and of the pointers a script keeps to a deleted object.
* A test that ends well after the runner's `wait` has seen it run, and after its time,
  is called failed (`runner.cpp:77-92`); it is signalled though it has ended.
* The runner stops after the first group that fails (`runner.cpp:254`), and writes the
  byte after its buffer when a read fills it (`runner.cpp:64`).

*User interface*
* A texture constructed at an address whose entries are still in the map, or
  destroyed with reads under way, and `unlock` of a page that is still pending
  (`virtual_texture.cpp:209`): the callers of `page_cache` must not.
* Rows of a level of `make_tile` are not waited for but the last
  (`tile_source.cpp:294,311`): with two units a level may read a finer one that is
  not written. `PagesRight` says which rows cannot, for the number of units there is.
* `box_tree::find` subtracts the root's place twice, and `find_root` shares x and y
  between children (`box_tree.cpp:30-50,176-185`); `saturated_shift` tests one of the
  bits it loses (`binary.hpp:60`).
* A layout does not end when a text's indent leaves no room for a word, or a larger
  text begins after the line's last marker (`text_layout.cpp:79-97,121-134`).
* Zooming by a part of a level and back drifts (`ui/server/main.cpp:34-48`), and a zoom
  of more than one level moves by one (`137-146`); a node of text keeps pages that were
  evicted (`255-265`); `get_region` of a place that is not aligned asks for one page
  too few (`virtual_texture.cpp:98-103`).
* `font_source` looks at its maps outside the mutex (`font_source.cpp:181,195,218`) and
  a crash leaves a page's file short, to be read as whole (`126,245`).
* A texture with generated mipmaps is incomplete until it is written
  (`texture.cpp:215-223`); an input set after a draw keeps the offset and divisor of
  the first (`block.cpp:144-165,210`); a replaced attachment is not checked again
  (`frame.cpp:132-135`); mapping an index buffer changes the binding of another block
  (`buffer.cpp:97-102`).
* The product of a quaternion into one of its factors is wrong (`math.cpp:799-802`), as
  is the rotation between opposite vectors (`944-945`).

*Libraries*
* A slot of a signal keeps its pointers when it is disconnected (`signal.hpp:53-60`):
  disconnecting it again writes through them.
* A socket's `receive` of a descriptor where there is none reads an uninitialised
  buffer (`socket.cpp:95-102`), `receive` of bytes drops a descriptor among them;
  `poll` reports a disconnect before input that is still unread (`poll.cpp:22-33`).
* A tuple of three or more has no order: `operator <` (`tuple.hpp:440-450`) can hold both
  ways.
* `vfs` changes the path it looks for from one mount to the next (`vfs.cpp:52-70`).
* A truncated jpeg reads past its buffer (`jpeg.cpp:50`).

## 6. Not modelled

* The Darwin build (`memory/darwin`): the same control words over named semaphores.
* The examples and benchmarks.
* `mock/inject`, which replaces functions by writing machine code.
* Wrappers of one system call each (directories, memory maps, environment, timers,
  thread-local storage, read_write locks), and what interrupts them: EINTR ends a
  link thread or breaks a rendezvous (`link.cpp:26`), as any exception would, but when it
  comes is not part of the models.
* Libraries: windows and events, FreeType's drawing of a glyph, the png, jpeg and
  jpeg2000 libraries, the interpreters, OpenGL itself. The models have what the code
  tells them and what it takes them to answer.
* Rounding of floats: the arithmetic is that of integers, chosen so that it is exact;
  shaders and their compilation.
* Exhaustion of memory.
* In `utility`, what is only language support: traits, macros, function objects.

## 7. Running

    tlc -workers 2 -config MCTransport.cfg Transport
    tlc -workers 2 -config MCUi.cfg MCUi
    tlc -workers 2 -config MCTestRunner.cfg TestRunner
    tlapm TransportProofs.tla

and so on for the other configurations and the modules named `...Proofs`. `ui` takes
about two minutes, `link`, `pool` and `services` one, the rest seconds.

Definitions marked "Mutant:" are faulty variants of the definition that follows
them, one for each property of the passing runs; `PROJECT.json` says which property
each of them breaks. They are not part of the specifications.
