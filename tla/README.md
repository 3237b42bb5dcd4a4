# TLA+ models of craplib

craplib is a C++ library for programs built around a run loop: worker threads
produce results, and the thread of the loop hands them to callbacks.  This
directory holds TLA+ modules of it, TLC configurations that check them on small
instances, and proofs that TLAPS checks for every instance: of every safety property
that a run checks, in all of the modelled parts.

```
tlc -workers 2 -config MCRunLoop_loop.cfg MCRunLoop         # one run
tlapm RunLoopProofs.tla                                     # the proofs of a module
```

The other modules of proofs are `DequeTheorems` (sequences), `ThreadProofs` (locks and
pointers), `AddrInfoProofs`, `SocketsProofs`, `ServerProofs`, `HTTPRequestProofs` and
`DataProofs` (the streams, `Data` and files).

`PROJECT.json` lists the components, the runs, for every property a mutated
definition that breaks it, the source lines of every definition, the hazards and
the findings.

## 1. The system

### The components

| component | source | state | operations |
|---|---|---|---|
| run loop | `RunLoop.h/.cpp` | `running`, `queue` of messages, sorted `timers`, condition `c`, `processedMsg`, `msgCnt` | `run`, `stop`, `enqueue`, `dequeue`, register, deregister |
| active messages, threads | `ActiveMsg.h`, `Thread.h/.cpp` | a condition per message ("busy"), `destroyed`, a thread | construct, `ActiveCall` (wait, throw, `call`, release), `requestTermination`, `waitTermination`, destroy |
| timers | `Timer.h/.cpp`, `Compare.h`, `Timing.h` | fire time | `set`, `cancel`, fire |
| locks | `Condition.h`, `Mutex.h`, `POSIX.cpp` | a mutex, a condition variable, a flag | the three `CondLock` constructors, `set`, `wait` |
| address resolver | `AsyncAddrInfo.h/.cpp` | waiting requests, free and working workers; per worker a work queue, a result, the current request | create and destroy a request, resolve, answer, quit |
| shared and weak pointers | `SharedPtr.h`, `WeakPtr.h` | two counters per object | copy, drop, watch, `lock` |
| sockets | `AsyncSocket*.h/.cpp`, `StaticRefCounted.h` | sockets, one epoll worker for all of them, its clients, three event queues, a reference count | connect, accept, close, register, deregister, collect and dispatch events |
| other socket workers | `AsyncSocketKevent.*`, `AsyncSocketSelect.*` | as above, over kqueue and select | as above |
| accept loop | `AsyncSocket.h/.cpp` (`Socket`, `RWSocket`, `LASocket`) | a descriptor per socket, the local `sock` of `onCanRead` | listen, accept, take over, close |
| data | `Data.h/.cpp` | reference-counted byte arrays, variables that show a part of one, deques of them, the bridge between streams | construct, cut, copy, lock, write, read, move |
| HTTP | `HTTPRequest.h/.cpp` | the parser (line number, current line, ready, count), the bytes left over (`body`), whose turn it is (`state`) | parse headers, announce them, read, reset, write headers |
| files | `AsyncFile.h` | an offset, a buffer, a timer | read a piece, answer from the timer, destroy |
| network interfaces | `AsyncNetInterface.h/.cpp` | a list of interfaces, a thread, one field for the interface that is announced | enumerate, announce, destroy |
| SSL | `AsyncSSL.h/.cpp`, `AsyncSecureSocket.*` | OpenSSL's engine and two BIOs, two `Data` that wait | `read`, `write`, `transfer_data` |
| utilities | `TLS.h`, `Singleton.h`, `nocopy.h`, `LogUtil.*`, `ExclusiveGuard.h` | - | - |

### How they interact

* Everything asynchronous goes through a **run loop** of one thread.  A worker
  thread constructs an `ActiveCall` on its message, which waits until the
  message is free and keeps the message's mutex; it fills the fields it shares
  with its delegate, and `call()` puts the message in the loop's queue.  The loop
  takes it out, calls `onCall`, and then marks the message free, which wakes the
  worker for the next post.
* The **resolver**, the **socket worker** and the network interfaces are such
  workers.  The resolver keeps two of them in a pool and has, for each, a second
  condition with a work queue in the other direction.  The socket worker is
  shared by all sockets of the program and lives as long as one of them does.
* **Callbacks** run on the loop's thread, inside `onCall` or `onTimer`, and may do
  anything: destroy the message or the socket they are called for, create others,
  set timers, stop the loop.
* A **file** answers through a timer with no delay, the **SSL engine** through
  nothing at all: its program moves bytes from stream to stream by calling, and each
  call takes what it can get.  `Data` goes between all of them by reference.
* Locks are two kinds of mutex with a flag: the loop's (`rl.c`) and the messages'
  (`msg.c`).  Two more are used directly: `has_work_or_quit` of a resolver's
  worker and the `CondVar` a thread is started with.

### What is hard in it

* *Concurrency.*  Exactly-once delivery hangs on three flags (`d_` of the
  message, `d_` of the loop, `destroyed`) and two mutexes; one deque is also
  changed without a mutex.
* *Callbacks that destroy.*  `processedMsg`, the clients of the socket worker and
  the vectors of the resolver are used again after callbacks that may have
  changed them.
* *Teardown.*  Every destructor of a worker joins a thread that may be waiting
  for something only the destructor's thread would do.
* *Late results.*  A worker answers a question that nobody asks any more; events
  carry pointers to sockets that are gone, or whose place another one took.
* *Shared bytes.*  A `Data` is copied by sharing its block, and `lock()` never copies
  it, because `isTheOne()` is true of any count.  What is written shows elsewhere.
* *Partial results.*  `recv`, `send`, `fread`, `accept` and OpenSSL each give a part,
  and the rest has to wait in some buffer, in order, while the next event may
  already have been spent (the sockets are edge-triggered).
* *Progress.*  Wakeups are single signals, and flags stand for the emptiness of
  queues.  Workers that become free must be given the work that waits.

`PROJECT.json` lists these hazards at their lines, with the properties that
would catch them going wrong.

### What makes each component correct

| component | correct when |
|---|---|
| run loop, messages | a post is delivered once, in order, never to a destroyed message; a worker and its delegate never use the shared fields together; no wakeup is lost; destructors, `stop()` and idle loops come to an end |
| timers | they fire when due, the earliest first, at most once per `set`; none is passed over for good |
| locks | one holder, the flag has the wanted value or the deadline has passed, nobody sleeps on a flag that has its value |
| resolver | requests are neither lost nor doubled; a delegate is given its own host's result, which stays put while it looks; only the worker that has a request answers it; a request is served |
| pointers | what a `SharedPtr` holds is alive; object and counters are freed when the last user goes, not before and not later |
| sockets | a callback is never called on a dead socket, nor after `onDisconnect`; an event is heard; the worker lives exactly as long as its sockets |
| accept loop | every descriptor has one owner and is closed once; no client waits behind an event that was spent |
| data | a variable's bytes are its own, whatever blocks are shared (as long as nobody writes where others read); pieces come out of a deque whole and in order |
| files | the delegate gets each byte once and in order, and is told of the end when it has them all |
| interfaces | each one is announced once, in order; the list outlives the thread that reads it; the destructor ends |
| SSL | bytes arrive in order, and all of them; a program that takes nothing is not filled |
| HTTP | what the parser makes of a text does not depend on how it is cut; no byte is lost between parser, leftovers and delegate; headers that came are announced |

## 2. The modules

```
               Server  -- ServerProofs
              /      \
   NetInterfaces    Listener        AddrInfo        Sockets
        |           (accepts on an event that        |   \
        |            Sockets shows is heard)         |    HTTPRequest (its events are
         \                             |            /      heard: an assumption there)
          `------ a mailbox slot for each worker --'
                           |
                        Mailbox            abstract: what messages promise
                           ^  implements (ImplementsMailbox, RunLoopProofs)
                        RunLoop  -- RunLoopProofs -- DequeTheorems
                           .  its steps are critical sections of
                        GuardedLock        abstract: a lock with a flag
                           ^  implements (ImplementsGuardedLock, ThreadProofs)
                        CondVar

   Values   abstract: a Data has its own bytes           SharedPtr (on its own)
     ^  implements (ImplementsValues)
   Data  <--  AsyncFile        Streams (its Data are byte sequences, as Data shows)
```

| module | lines of the code | what it is |
|---|---|---|
| `Deques` | the idioms on `std::deque`s and on pieces of bytes | `Erase`, `InsertBefore`, `LowerBound` as index maps, `Filter` as a concatenation, and the cuts `FirstOf` and `AllAfter`, so that proofs can use them; every module takes them from here |
| `Mailbox` | (abstract) | a slot is free, being filled, posted, being handled, or gone; posted slots are handled one at a time, oldest first |
| `RunLoop` | `RunLoop.*`, `ActiveMsg.h`, `Timer.*` | the loop thread, one worker thread per message, timers and a clock |
| `GuardedLock` | (abstract) | a lock with a flag |
| `CondVar` | `Condition.h`, `Mutex.h`, `POSIX.cpp` | `CondVar`/`CondLock` over pthread calls |
| `AddrInfo` | `AsyncAddrInfo.*` | requests, the pool, the two workers; extends `Mailbox` |
| `SharedPtr` | `SharedPtr.h`, `WeakPtr.h` | the counters of one object, one interlocked operation at a time |
| `Sockets` | `AsyncSocketEpoll.*`, `AsyncSocket.*`, `StaticRefCounted.h` | lifetimes of sockets and worker, the way of an event from epoll to a callback; extends `Mailbox` |
| `HTTPRequest` | `HTTPRequest.*`, `RWSocket::read` | the bytes of a connection: in the socket, left over, parsed, taken by the delegate |
| `Values` | (abstract) | variables that hold bytes of their own, and a stream of bytes |
| `Data` | `Data.*` | variables that share blocks, and `DataDeque`; beside each operation the one of `Values` it should be |
| `AsyncFile` | `AsyncFile.h` | `AsyncFileReader` and the program its delegate is; extends `Data` |
| `Streams` | `AsyncSSL.*`, `DataStreamBridge`, `RWSocket::read` and `write` | two programs, their engines and bridges, and a network |
| `NetInterfaces` | `AsyncNetInterface.*` | the thread and its object; extends `Mailbox` |
| `Listener` | `AsyncSocket.*` | descriptors and the accept loop |
| `Server` | (composition) | `NetInterfaces` and `Listener` on one loop, as `Tests/SocketTests.h` uses them |
| `*Proofs`, `DequeTheorems` | - | the proofs |
| `MC*` | - | small instances for TLC, and symmetry |

### State and actions against the code

**RunLoop.**  `pc` is where the loop thread is: in code that may call the library
(`"user"` around `run()`, `"oncall"`, `"ontimer"`), at the wait of line 31, before
the release at line 42, at the timers of lines 45-59, or in a destructor (`"join"`,
`"erase"`).  `wpc[m]` is where the worker thread of `m` is: free to do anything,
waiting in `ActiveCall`'s constructor, inside with the message's mutex, after
`d_ = true`, inside `push_back`, or about to leave.  An action is one critical
section of a condition (`Pop`, `Clear`, `Enter`, `EndPush`, ...).  Two operations
have two steps, because the code does not hold the lock for both sides:
`RunLoop::dequeue` (`Join`, which looks through the deque, and `EndDestroy`, which
erases there) and the `push_back` of `RunLoop::enqueue` (`BeginPush`, `EndPush`).
When one begins within the other the ghost `raced` becomes true and the deque is
what the last writer makes of its own copy; this is undefined behaviour in C++,
and one outcome stands for it, because every property about messages is stated
for behaviours in which it has not happened (`~raced`).  `RacesNeedTwo` says how
it comes about, and `CalledMeansPending` shows what it costs.

Time is `rem[t]`, the fire time of `t` minus the clock.  It stops at `-Slack`,
because the code tells no two older deadlines apart, so that the state space is
finite without a bound on the clock.  `Slack` is the 0.001 s `run()` adds to the
deadline of its wait.

**AddrInfo.**  Each worker is a slot of the mailbox: `Fill` is the constructor of
its `ActiveCall`, `Post` is `call()`, `Handle` and `Done` frame `onCall`.  The other
direction, `need_work` under `has_work_or_quit`, is modelled here.

The code knows a request by its address (`AsyncAddrInfo.cpp:52,55,77-79`), and so does
the module: `Reqs` are addresses, a request is at `r` while `Alive(r)`, and when it is
destroyed another may be made there, `MaxUses[r]` times in all (`uses` counts them),
for one of `KeysAt[r]`.
The ghost `abandoned` says that a request was destroyed while a worker had it: line 55
clears a parameter that hides the member `addr`, so the worker's pointer stays where it
is, and the worker becomes free without being given what waits.  Its late result may
find three things at that pointer.  No request: freed memory is read (`misused`), and
what is done with it is undefined; the model does no more.  A request for another
host: nothing happens.  A request for the same host, made there since: it is answered,
although it waits or another worker has it (`late`), and answered again when its own
result comes.  `Conserved` holds through all of this, but for one part: that what was
answered is gone from the waiting list and the workers holds only while `~late`.
`OneAnswer` and `Served` promise less once `abandoned` is true, and say so.

**SharedPtr.**  A step is one interlocked operation.  The ghost `lost` counts the
references that successful `lock()`s do not count, `overlapped` says that two
`lock()`s of the object were half way at once.  Once the block is freed its
counters are not counters any more: what a `lock()` reads there is chosen, and whether
a destructor that reads there deletes the object is, too.

A lost reference has the block freed under a handle, and this takes no overlap.  With
`s1` new, `w` made of it and `lock()` into `s2`: dropping `s1` and `s2` frees the
block, and another `lock()` of `w` may hand out the deleted object; dropping `s1`, `w`
and `s2` frees the block before `s2` reads its counter, and the object may stay alive
for ever.  `HeldIsAlive` and `Reclaimed` therefore name a block that was freed as
their exception, besides the overlap in `HeldIsAlive`, and `Reclaimed` says when it
is one: only after a `lock()` has succeeded.  The run `weak_lock` shows the first case.

**Sockets.**  `ready` is what epoll has not yet reported, `batch` the array of one
`epoll_wait`, `queues` the three deques `onCall` drains.  An event is a pointer, and
`reused` says that a new socket was made at a pointer an old event still names.
Destroying the last socket destroys the worker on the spot (`Terminate`, `Join`,
`Delete`), also from a callback the worker itself has called: what its `onCall` does
after that is a use of freed memory, modelled as its end.

**HTTPRequest.**  `socket` is what has come and was not read, `edge` an event epoll
has for it (the sockets are edge-triggered).  `ParseHeaders` is `onCanRead` up to
the delegate's `onHeaders`; it runs the parser over the whole of what it has, with
`Consume` for one iteration of `HTTPHeadersParser::write`.  A parser's `lines` are
what `parseLine` was called with and `fed` what it was made from.  `taken` is
everything that was parsed or read.  The ghost `overtaken` says that the delegate
called `read` with bytes left over in `body`: it gets later bytes first, and the
leftovers go to the parser of the next request.  The model says three things about
the code that are easy to miss, and that its properties are worded for: a line is
parsed when the *next* one begins, so the last header of a request, and a request
line without headers, never are; a request pipelined behind another one waits in
`body` for the next event; and a parser at its limit ignores what comes, without
telling anybody.

**CondVar.**  `pthread_cond_wait` gives up the mutex and sleeps in one step, may end
for no reason, and takes the mutex again; `pthread_cond_signal` wakes one sleeper or
is lost.  `asleep` is who sleeps.

**Data and AsyncFile.**  `data[x]` is what a variable is: a block, a position, a
size.  Blocks nobody has are deleted by `Assign`, so that what is read of one is what
its bytes really are.  Each operation is written as its code is, and beside it, by
`Expect`, the operation of `Values` a program has in mind.  The ghost `torn` says that
somebody wrote to a block that others share, or through a `Data` that does not begin
at its block's first byte, where `lock()` begins: then `Values` has nothing to say any
more.  `AsyncFile` is the program: `Read` is the whole of
`AsyncFileReader::read` with its `fread`, its two `Data` and its timer; `OnChunk`,
`OnEndOfFile` and `OnError` are `onTimer` up to its callback and `Return` the rest.
`junk` is what a new block holds.

**Streams.**  On the network and in the engine's BIOs a record is its length, negated,
before its bytes, and a flight of the handshake is a 0.  OpenSSL is external:
`Exchange`, `Handshake` and `Records` say of it what `AsyncSSL.cpp` relies on, that
`SSL_read` and `SSL_write` go on with the handshake first, that one gives a record at
a time, once it is whole, and the other takes all it is given.  `TransferData`, `Feed`
and `MoveOut` are one call each of `transfer_data` and of `move_data` to either side.

**NetInterfaces.**  `curInterface` is the one field that thread and delegate share,
under the slot of the mailbox; `p` is the thread's place in the list.  The destructor
has three steps (`Terminate`, `Join`, `Delete`), between which the thread runs.

**Listener.**  `la` is the `LASocket`: `"deaf"` when its constructor gave up, which
leaves the descriptor open and nobody told.  `sock` is the local variable of
`onCanRead`, from which a delegate takes the descriptor by a swap.  Descriptor 0 is a
descriptor the kernel may give and `Socket` takes for none; it is never closed.  The
ghost `gaveUp` says that the last `onCanRead` ended at an error.  What `onCanRead`
does when its delegate destroyed the `LASocket` is a use of freed memory, modelled as
its end.

**Server.**  Callbacks take turns: `pc` is in a callback of the interfaces or `turn`
is in one of the listener, and in either the program may destroy anything
(`ProgramRuns`).  A destructor called from the other's callback waits there
(`InDestructor`), with everything else of the loop.

## 3. The runs

Passing runs first; every property has a mutant in `PROJECT.json`, a plausible bug
in the code that the run finds.

| run | bounds | what it checks |
|---|---|---|
| `loop` | two messages, two timers, delays 0 and 1 | `TypeOK`, `Exclusion`, `PostsAreKept`, `NoUseAfterDestroy`, `NoLostWakeup`, `EndsOnlyWhenIdle`, `FiresInOrder`; `Delivery`, `DueFires`, `Terminates`; the refinement `ImplementsMailbox` |
| `locks` | one waiter, with a deadline or without one each time, two setters | `NoSleeperForgotten`, the refinement `ImplementsGuardedLock`, `FlagEndsWait` |
| `resolver` | three addresses, one of them used twice, two hosts, two workers | `Conserved`, `RightAnswer`, `OneAnswer`, `ResultStable`; `Served` |
| `shared_ptr` | three `SharedPtr`s, two `WeakPtr`s | `CountsMatch`, `HeldIsAlive`, `Reclaimed` |
| `sockets` | a pointer used twice, with errors and writes, another used once, with reads; two workers in turn | `WorkerIsShared`, `KeepsListening`, `CallsTheOpen`; `EventsHeard`, `LastDestructorEnds` |
| `http` | texts of six bytes of four kinds, reads of up to three, a limit of six | `InOrder`, `ParsesText`; `Announced` |
| `files` | a file of two bytes, three variables, a deque of two pieces, one error, three uses | `ImplementsValues` (the abstraction `Values`), `FileOrder` |
| `tls` | five bytes against one; chunks of 4, records of 2, four flights, a network of 2 | `InOrder`, `BackPressure`; `AllArrives` |
| `server` | four interfaces, four descriptors, two `RWSocket`s, three clients | `AnnouncedInOrder`, `ListIsThere`, `OneOwner`, `NobodyWaits`; `NifProgress` |

Three runs show where the code does not do what it or its tests say.  Each finds a
counterexample to one property:

| run | property | what happens |
|---|---|---|
| `dequeue_race` | `CalledMeansPending` | `RunLoop::dequeue` (`RunLoop.cpp:72`) takes no lock.  A worker posts while the loop thread destroys another message: the post is lost, and the message stays "between call and onCall" (`ActiveMsg.h:74`) for ever |
| `resolver_quit` | `QuitEnds` | `~Worker` joins its thread with the mutex locked that the thread needs to see that it should quit (`AsyncAddrInfo.cpp:61-63`, 93) |
| `weak_lock` | `LockOfDeletedIsNull` | every `lock()` that succeeds loses a reference on the counters (`SharedPtr.h:33-38`), which the last `SharedPtr` then frees while the `WeakPtr` uses them; the assertion of `Tests/MemoryTests.h:57` reads freed memory |

Two more disagreements are part of the models and have no run.  `run()` on a loop
with nothing registered waits for ever, because "check whether something new is
scheduled.. if not - terminate" (`RunLoop.cpp:56-57`) comes after the wait of line 31
(`Tests/SSLTests.h:15-19` runs such a loop): this is why `Terminates` is about loops
that have left that wait.  And line 55 of `AsyncAddrInfo.cpp` clears the wrong `addr`,
against what line 82 says of it: "will get cancel_work call, which will set addr to 0".
What comes of it (`abandoned`, `misused`, `late`) is reached in the run `resolver`, for
instance so: a request is destroyed while a worker resolves it, another for the same
host is made at its address and waits, or is given to the other worker, and the first
worker's late result answers it.

### The bounds, and why they are enough

* *Messages, created once each.*  What two workers can do to each other goes
  through the deque, its mutex and `processedMsg`; two messages give every pair.  A
  message created anew has the state of one that was never there.  The theorem
  `RacesNeedTwoHolds` shows that one would not be enough.  The proofs are for any number.
* *Timers.*  Two, with delays of nothing and of one tick, give fire times that are
  past, equal and different, and so every order of insertion, replacement and
  expiry; the order of more follows from the lemmas of `DequeTheorems`, proved for
  every length.
* *The waiter of a condition.*  The code has one waiter on each condition.  The
  property `NoSleeperForgotten` depends on it, and the comment there says so.
* *Requests.*  Three addresses for two workers is the least with a request that waits,
  and two hosts the least with a wrong answer.  Using one address twice is the least
  with a request that a stale pointer takes for another: the run reaches the answer
  of one that waits and of one that the other worker has, and a second answer to the
  same request.  The hosts are alike, so the one request at `r1` is for `k1`, and no
  behaviour is lost (`KeysAt`).
* *Handles.*  Three `SharedPtr`s let one be dropped while another is copied and a
  `lock()` makes a third; two `WeakPtr`s let two `lock()`s overlap.
* *Sockets.*  A pointer used twice is the least with an old event for a new socket;
  a second pointer brings the order within a batch and the socket that is destroyed
  by another's callback.  The limit on connections (65000 in the code) is 3 and is not
  met: a socket it turns away is in the state of one that did not connect, which
  `Create` makes at any time.  Errors are taken before the rest, so that the pointer
  that is used again has them; writes take the way of reads, only later.
* *Bytes.*  Four kinds are all the parser tells apart.  Six bytes hold two requests,
  or one with a header and a continued line; reads of three cut every one of them in
  two, and events after each byte in more; the limit of six (4096 in the code) is met
  by the longest texts only.
* *Files.*  Two bytes are read in one piece, in two, or with an error between them, and
  a size past the end is one that `feof` needs.  Three uses are the least that tear
  something in two ways: cut or copy, then write, then look.  `uses` counts what the
  program does in all, in whichever callbacks.
* *Streams.*  A record with its header is longer than the network is and than one
  `recv` gives, so that every record is cut; a chunk is two records, so that one
  waits; the limit is met by one read that follows another.  One side has more to
  send than its peer has room for, the other answers meanwhile.  Four flights have
  each side wait twice.
* *Server.*  Two interfaces that are alike stand around one that is unknown and one of
  the other family, so that there are filters that leave out the first, the last, and one
  between two that they take.
  Four descriptors are one less than what can be asked for at once (standard input,
  the listener, a client in hand, two `RWSocket`s), so that `accept` runs out of them,
  and 0 is among them.
* `CHECK_DEADLOCK FALSE` where the system may stop: nothing in the library makes a
  program call it, and a program may destroy everything it has.

### Fairness

All of it is weak, and all of it is the operating system running a thread that can
run:

* the loop thread goes on inside `run()` and inside destructors, so callbacks
  return; which callback does what is never assumed, nor that `run()` is called;
* a worker thread goes on: its own work ends, and so does `getaddrinfo`;
* time passes (`Tick`);
* in `CondVar`, a thread that can go on does; who of several gets a mutex is not
  assumed, which is why `FlagEndsWait` is about a thread the others leave alone;
* in `HTTPRequest`, an event of the socket is heard and callbacks return;
* in `Streams`, programs call each function again as long as a call changes something,
  their input streams give what they have, and their output streams do not refuse
  everything for ever.  The library has no such caller yet (`AsyncSecureSocket` is a
  stub): `AllArrives` says that the limits do not make two such callers wait for each
  other;
* in `Server`, threads run and callbacks return; nothing of what clients do;
* nothing is assumed of the network, and nothing of how often events come.

`Delivery` and the part of `Terminates` about `stop()` have an assumption in their
formulas as well, `TimersRunOut`: the timers that are due run out now and then.  Without it the loop
fires timers for ever when a callback sets its own with no delay (lines 45-54), and
messages and `stop()` wait; that is how the code is, and `AsyncFile.h` does it while
it has a file to read.

## 4. The proofs

Every module of proofs has one inductive invariant, a lemma for each of its parts or
actions that a step keeps it, a lemma `...Invariant` or `Invariance` that puts them
together, and theorems that add what the invariant implies.

**The run loop.**  `RunLoopProofs` proves, from `MsgsAssumption` (null is not a
message) and `TimeAssumption` (delays and slack are natural numbers, the slack not 0),
for any number of messages and timers: `TypeOK`, `Exclusion`, `PostsAreKept`,
`NoUseAfterDestroy`, `NoLostWakeup`, `RacesNeedTwo` as invariants, and the action
properties `EndsOnlyWhenIdle` and `FiresInOrder`.  No property is inductive alone:

* `PostsAreKept` (a message is marked busy exactly while it is being called, queued
  or in service) needs that a message is in *one* of these places (`PlaceInv`), that
  the deque holds it once (`DequeInv`), and that a push or an erase finds the deque
  as it was when it began (`DequeInv`), which is where the mutex (`MutexInv`) and
  the absence of a race come in.
* `NoUseAfterDestroy` needs what a destructor has established when it is half way
  (`ControlInv`), and that only a destroyed message has lost its worker (`LifeInv`).
* `TypeOK` (the unsigned `msgCnt` does not wrap) and `EndsOnlyWhenIdle` need that
  `msgCnt` is the number of live messages (`CountInv`).
* `NoLostWakeup` needs that what a destructor found in the deque is signalled until
  it has erased there (`WakeInv`), because the erase writes it back.  It holds with
  races, too.
* `FiresInOrder` needs the timer list sorted and without duplicates (`TimerInv`),
  and that rests on `DequeTheorems`: what erasing, `std::lower_bound` and inserting
  do to sorted, distinct sequences of any length.

The parts that follow only without a race (`DequeInv`, `PlaceInv`,
`CalledMeansPending`) are under `~raced` in `Inv`.

**The mailbox.**  `RunLoopProofs` proves `ImplementsMailbox` from `Inv` as well.  The phase of
a message follows from four facts about it: its life, whether its worker is inside its
`ActiveCall`, whether it is in service, whether it is queued.  Most actions leave all
four of every message alone (`Stutters`); the others change those of one (`Moves`), and
`Inv` says that it comes from the phase the mailbox wants.

**The locks.**  `ThreadProofs` proves `ImplementsGuardedLock` from `LockInv`, which is
the type of the variables and what a thread knows whose deadline has passed; and
`NoSleeperForgotten` under `OneWaiter`, an assumption of that theorem alone that the
code meets everywhere (with two, one signal may wake the wrong one).

**The pointers.**  `ThreadProofs` proves `CountsMatch`, `HeldIsAlive` and
`Reclaimed` from `HandlesAssumption` (two finite, disjoint sets of handles).  `PtrInv`
adds what a `lock()` that is half way has seen (`ProbeInv`): one that saw only itself
came after the last `SharedPtr`, one that saw more keeps the object alive, unless
another `lock()` overlapped it.  All of it is about the time until the block is freed,
after which the counters mean nothing; `BlockReclaimed`, which is part of the
invariant, says when that can be.

**The resolver.**  `AddrInfoProofs` proves `Conserved`, `RightAnswer`, `OneAnswer` and
`ResultStable` from `NullAssumption`, `ReqsAssumption` (the types of the two bounds)
and `WorkersAssumption` (finitely many workers).
`PoolInv` says of the vectors that they hold every worker once (`VectorInv`, kept by a
lemma on what the code's swap with the last element does), where the loop thread is in
an answer (`LoopInv`), that a request is in one place, whatever was answered late
(`HolderInv`; what was answered is in none, `Fresh`, until that happens) and, until a
request is taken from a worker, that a worker's job is that of the request it has
(`JobInv`).  A stale pointer needs no part of its own: nothing is said of the `addr`
of a worker that has no request.

**The sockets.**  `SocketsProofs` proves `WorkerIsShared`, `CallsTheOpen` and
`KeepsListening` from `SocketsAssumption`.  `RefInv` says whose references are counted
while the last one is being destroyed, `ClientInv` that a client is alive and that only
the one whose `onDisconnect` runs was told.  The rest of the types is about what is
under way from epoll to a callback: a batch holds pointers that are or were sockets,
and filing it into the three queues (`Filter`) keeps that.

**The server.**  `ServerProofs` proves `OneOwner` and `NobodyWaits` from
`ListenerAssumption`, with the lemma that the kernel has a lowest unopened descriptor
while there is one, and `ListIsThere` from `MsgAssumption`, with the invariant that a
message is not gone while its destructor waits: it rests on the program not running
between two steps of a destructor, so that the object is destroyed once.
`AnnouncedInOrder`, for any list of interfaces, needs what the thread has put into the
shared field (`AnnounceInv`): an interface that is posted is the one before `p`, and
all before that were handled.

**The HTTP request.**  `HTTPRequestProofs` proves `InOrder` and `ParsesText` from
`HTTPAssumption`, for any bytes, pieces, limit and number of requests.  `onCanRead`
gives the parser many bytes in one step, so that the proof is an induction over them:
what holds of a parser before a byte holds after it (`Consume`), and so after the first
*n* bytes of what it is given.  `ParsesText` relates the parser's fields, which know
nothing but the line and the piece they are at, to a definition over the whole text:
where its lines start, what of it is kept for the line that is not yet said, and what
the lines before it are.  Every kind of byte, after every end of the text so far, is a
case.

**The streams.**  `DataProofs` proves `InOrder` and `BackPressure` from
`StreamsAssumption`: for any bytes, chunks, records, limits, network and number of
flights.  `StreamsInv` has four parts.  The types (`StreamsTyped`).  Of the two engines
and the wire between them, in each direction (`Linkage`): the handshake is at the same
place on both sides or one flight apart, that flight is first on the wire, and all that
follows it on the way, wherever the BIOs, `waiting` and the network cut it, is a
sequence of whole records; without this `SSL_read`, which takes a record by its length,
could be shown to read anything.  Of the bytes (`Flow`): what is between two programs,
buffer by buffer, is what one of them sends.  And of the buffers' sizes (`Small`),
which needs that a record is not longer than `Record`.

**Data.**  `DataProofs` proves `ImplementsValues`, for any finite set of variables,
any bound on the pieces and any order of calls.  `DataInv` says that every variable and
piece is inside its block, and, until something is torn, that variables and deque show
what `Values` expects (`Same`).  A step changes one variable, or the deque, or a block;
it has to be shown that nothing else shows a byte of that block:

* a new block (`New`) is one that nobody has a reference to, and there is one, because
  there are more blocks than variables and pieces (`NewFree`, by counting);
* a block that is written without tearing anything has a count of one, which is the
  variable's (`AloneCount`);
* a part of a part is the part of the block at the sum of the positions (`ShownPart`,
  `PartShows`), which is what makes cuts of cuts right, and cutting the first piece of a
  deque takes bytes off its front (`GetKeeps`).

**Files.**  `FileOrder`, from `FileAssumption`, for any file of octets, sizes asked for
and errors.  The invariant `FileInv` adds that the bytes delivered and those in `buffer`
are what was read of the file, that the end was seen only when all was read, and `Own`:
when `buffer` shows bytes, nobody else has its block.  Without `Own` the program, which
writes to blocks in the callbacks, could change what it is given next.

### Induction

The prover has no induction rule that it can use over a data structure.  What the proofs
above need of it is derived in `DequeTheorems`: a set of natural numbers that is not
empty has a least element (`Least`, from the well-foundedness of `<`), hence a set that
contains 0 and with every number the next contains all (`Induction`), and a set of
sequences that contains the empty one and with every sequence those one longer contains
all (`SeqInduction`).  Each is about a set, where the textbook's rule is about a formula.
`FlattenSeq` and with it `Filter` are known from there (`FlattenDef`, `FlattenAppend`,
`FlattenConcat`, `FilterAppend`, `FilterConcat`).

### Only model-checked

Everything with fairness (`Delivery`, `Terminates`, `DueFires`, `Served`,
`EventsHeard`, `LastDestructorEnds`, `FlagEndsWait`, `Announced`, `AllArrives`,
`NifProgress`): liveness and `ENABLED` are beyond the prover.  The three properties
that are violated have a counterexample instead of a proof.

### What the proofs assume

Only the named assumptions on constants, which TLC evaluates in every run, and
`OneWaiter` in `NoSleeperForgotten`.  Most say that sets of handles, workers, pointers,
descriptors and variables are finite, that roles are disjoint and "nobody" has none, that
bounds and sizes are natural numbers, and which of the code's own sizes are not 0.  Two
say more.  In `Streams` chunks end where records do and the limit is not below a record:
both are 64K (`AsyncFile.h:35`, `AsyncSSL.cpp:139`) and a record has 16K
(`AsyncSSL.cpp:128`).  In `AsyncFile` the two variables of the reader are different ones,
and the file is of octets.

## 5. What is not modelled, and why

* *Several loops.*  There is one run loop and one loop thread.  Objects that are
  destroyed on another loop's thread, and the plain `int` of `StaticRefCounted` under
  two threads, are hazards without a property.
* *The wall clock* runs forwards.
* *A failed `pthread_create`*, which throws through the library.
* *Null pointers' counters* (`WeakPtr.h:105`), which only a wrap-around harms.
* *Errors of system calls* that the code does not look at: `socket()`, `getifaddrs` and
  an interface without an address.  The 1024 events `epoll_wait` takes at a time.
* *The kqueue and select workers* are other builds of the same class, and select's is
  compiled nowhere.
* *What callbacks do after destruction*: an `onCall`, `onCanRead` or `HTTPRequest.cpp:160`
  that goes on after its own object was destroyed uses freed memory; the models end
  there.  A delegate that destroys its request in `onHeaders` is left out.
* *What `parseLine` makes of a line*, `HTTPHeadersWriter`, addresses and services:
  formatting and parsing of text nothing else depends on.
* *`Data` of negative size*, and a file that is changed while it is read.
* *Certificates, keys, alerts, `get_verify_error`* and the end of an SSL connection: calls
  of OpenSSL without a state of the library's own.  `AsyncSecureSocket` is a stub.
* *Logging, singletons, thread-local pointers*, the tests.

## 6. Plan

Done, in the order of importance: the run loop with its messages and timers, its
abstract mailbox; the locks beneath; the resolver and the sockets above; the pointers;
the HTTP parser and request; `Data` and files; the SSL engine and its streams; the
network interfaces and the accept loop, composed into a server; and the proofs of what
they rest on.

With these every safety property that a run checks is proved.  What is left:

1. More safety around what is proved: parts of the liveness properties that do not need
   fairness (what a waiting destructor waits for, that a request that is not served is
   queued or worked on).
2. A second run loop in a second thread, for the objects that are destroyed on another
   loop's thread, and the kqueue worker beside the epoll one.
