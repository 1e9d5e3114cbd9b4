# A verification project for node v0.0.1

The repository is node in its first weeks: JavaScript (V8) over one libev loop, with
bindings for files, timers, TCP sockets and an HTTP server, and a pool of threads
(libeio) for what blocks. This directory holds TLA+ modules that model its parts, TLC
configurations that check them on small instances, and proofs that TLAPS checks for
all instances. `PROJECT.json` lists the runs, the lines of code each definition stands
for, the hazards, and the theorems.

Paths below are relative to the repository: `src/node.cc`, `deps/libeio/eio.c`.

## 1. Inventory

| Component | State it keeps | Operations | Talks to |
|---|---|---|---|
| **Thread pool bridge** `src/node.cc` 143-168, `deps/libeio/eio.c`, `ev_async` in `deps/libev/ev.c` | eio's request and result queues, three counters, the workers; the watcher's `sent`, libev's `gotasync`, the pipe | submit, execute, want_poll, poll, stop the watcher | every binding that calls `node_eio_warmup` and `eio_*`; the loop |
| **Event loop** `deps/libev/ev.c` | timer heap, pending events, `mn_now`, `activecnt`, `loop_done` | start and stop watchers, feed, reify, call pending | all watchers |
| **File** `src/file.js`, `src/file.cc` | `_actionQueue` and `fd` of each File, weak handles | open, close, read, write, stat, rename; completions | the pool (a request carries a pointer to the File); the collector |
| **Timers** `src/timers.cc` | one C++ Timer per handle | setTimeout, setInterval, clearTimeout, OnTimeout | the loop |
| **liboi sockets** `deps/liboi/oi_socket.c` | descriptor, two actions, out_stream, three watchers | write, write_eof, close, attach, detach, on_io_event | the loop; the hooks of its user |
| **HTTP server** `src/http.cc` | per connection: parser, list of requests, list of finished ones; per request: output, `done`, its JavaScript object | on_request ... on_complete, respond, Write, on_close | liboi, libebb, JavaScript |
| **HTTP parser** `deps/libebb/ebb_request_parser.rl` | state, current request, body still to read | execute on a buffer, callbacks | http.cc |
| **TCP binding** `src/net.cc` | Socket and Server on liboi's structures, weak handles, `host_`, `port_` | connectTCP (name lookup in the pool), write, close, listenTCP, onX callbacks | liboi, the pool, the collector |
| **Module loader** `src/main.js` | the tree of scaffolds and their completion counters | include, require, loadScript, onLoad | File |
| **Process** `src/process.cc`, `main` in `src/node.cc` | `exit_code` | process.exit, node_fatal_exception | the loop |

Also in the repository, and not modelled: V8 (third-party; it appears as JavaScript
that may call the bindings in any callback and as a collector), liboi's file, async and
TLS parts (not used), the build scripts and the tests.

What is hard in this code:

* *Threads.* Results cross from workers to the loop under two locks, two unlocked flags
  and a pipe.
* *Callbacks.* All JavaScript runs inside some C callback; it may delete, start or
  close the very object whose code called it, or one whose event is already pending.
* *Lifetime.* C++ objects hang on weak handles, while requests and watchers hold bare
  pointers to them.
* *Order.* File methods promise to take effect in order; HTTP responses must leave in the
  order of the requests although JavaScript gives them in any order.
* *Ending.* The loop must go on while something is outstanding and end when nothing is.

What makes each component correct, in a line: the pool finishes every request once and
keeps the loop alive exactly as long; a File's actions take effect one at a time in
order; a timer fires when due, once or at its interval, never after it was cleared; a
connection writes responses whole and in order, is closed once, and its end is always
reported; a Socket leaves no watcher and no descriptor behind, its connect is answered,
and nothing but its end discards data; the parser tells what was sent, however it is
cut, and ends a request exactly where it ends; a module's onLoad runs once, after those
of the modules it includes.

The hazards, each at its line and with the properties that watch it, are in
`PROJECT.json`.

## 2. Plan

| # | Module | Subject | State |
|---|---|---|---|
| 1 | `AsyncRequests` | what the pool promises: each request finished at most once, the process stays | done |
| 2 | `ThreadPool` | the pool and the wake-up protocol; implements 1 | done, proved |
| 3 | `OrderedActions` | what file.js promises of a File | done |
| 4 | `FileQueue` | the action queues over 1; implements 3 | done, proved |
| 5 | `Timers` | timers over the loop's heap, pending list and clock | done, proved |
| 6 | `OiSocket`, `OiServer` | a liboi connection; a listening socket | done, proved as parts of 7 and 8 |
| 7 | `HttpConnection` | requests and responses on 6 | done, proved |
| 8 | `NetBinding` | net.cc's Socket and Server on 6, the lookup in the pool, weak handles | done, proved |
| 9 | `ModuleLoader` | main.js: a tree of scripts, its counters, what fails on the way | done, proved |
| 10 | `RequestParser` | libebb over a stream cut anywhere, and the header lists http.cc makes | done, proved |
| 11 | `TimerHeap` | pure: upheap, downheap, adjustheap against the heap property | later |

`ThreadPool` is composed with `FileQueue` through `AsyncRequests`: the first implements
it (checked and proved, `PromiseKept`), the second instantiates it (`Pool`).
`HttpConnection` and `NetBinding` extend `OiSocket`, whose hooks are phases that they
continue; `NetBinding` extends `OiServer` too, and hands a connection that the HTTP
server accepts over where `HttpConnection` begins (`served`). `RequestParser` is the
inside of what `HttpConnection` takes for the order of the parser's callbacks.
`ModuleLoader` takes from `FileQueue` that the constructor's actions complete in order.

## 3. The modules

### ThreadPool

The main thread is at `mpc`: in JavaScript (`js`), in the part of etp_submit or etp_poll
that may start a thread (`js_spawn`, `drain_spawn`), at the top of ev_loop (`loop`), in
backend_poll, in call_pending (`invoke`), in pipecb (`scan`, `feed`), in thread_pool_cb
(`drain`, `check`). `ret` says where JavaScript returns to: before the loop, to
call_pending, or to etp_poll. A worker is at `wpc[w]`: off, at the queue, waiting with or
without a limit, executing, publishing, in the four steps of ev_async_send, releasing.

A critical section of `reqlock` is one step. `reslock` is a variable, because a worker
calls want_poll, several steps, while it holds it. `sent`, `gotasync` and the pipe are
changed in separate steps, as the code changes them without a lock. eio's counters are
variables of their own, and that they agree with the queues is a property.

eio's queues are sets: node gives every request the same priority, and nothing here rests
on the order among them. Requests are never groups, never cancelled, and no poll limit is
set, so those branches of eio.c are dead. `wanted = max_idle = 4` makes the branch that
ends an idle worker dead too. Memory is sequentially consistent, and threads start when
they are asked for.

The program is told to stop by an exception (`Unloop`: what is in hand is finished
first) or by process.exit (`ProcessExit`: at once). `node_exit` is never called.

### AsyncRequests and OrderedActions

The two abstract specifications. `AsyncRequests`: a request is submitted, finished at most
once, and the process does not end by itself while one is outstanding. `OrderedActions`:
the n-th call on an object begins only when all before it were completed.

### FileQueue

All of it runs on the main thread, so a call from JavaScript and a completion up to the
JavaScript callback are single steps: `AddAction` is `_addAction` with the `_act` it makes
and the `_ffi_` function that calls; `Complete` is After* with the first half of
CallTopCallback; `CallbackReturns` its second half, `_pollActions` with its `_act`. What
an `_ffi_` function does with its arguments is reduced to whether it gets as far as
calling eio (`Accepts`). `fd` is whether the object has that property. `Collect` is the
weak callback: nothing keeps a File alive that only its request refers to.
A File that the program has dropped is one of `Dropped`; the three standard streams are never dropped.

### Timers

A timer is created once; its C++ object is `obj[t]`, its watcher is in `heap`, its event in
`pending`, a sequence taken from its end as call_pending does, with the holes
clear_pending leaves. The heap is the set of its members. `mn_now` is the cached clock.
`current` is the watcher whose JavaScript runs; in it any timer may be created, cleared or
changed. `Other` is an event of anything else.
After a callback that cleared its own timer, OnTimeout reads freed memory: either value
of `repeat` is possible, and the second leads to `corrupt`, where nothing more is claimed.
`earliest` and `expiries` are history.
Delays that are negative or overflow an int are not modelled.

### OiSocket and OiServer

`phase` is where the main thread is with this connection: in the loop's other business
(`idle`), in the parts of on_io_event, or in a hook of the user. One iteration of
on_io_event is read, write, decide; the three watchers, a fed event, and the two actions
are variables. A buffer is sent whole: a part of it sent leaves the state that matters
as it was. A peer sends data, ends its side, resets the connection, or is silent until
the timeout. `stray` is history: close () was called on a number that no longer was this
connection's. `OiServer` is the listening socket with one client in the kernel's backlog.

Not modelled: GnuTLS, the event EV_ERROR, and the failure of system calls other than bind,
connect, recv and send.

### HttpConnection

It adds to the phases those in JavaScript and in Connection::Write (`flush`). The parser
is the order of its callbacks: begin, headers complete, body, end, for one request after
another, or an error; a buffer may end anywhere. respond may be called in
onrequest, in onbody, or in any other callback while the connection is idle.
Connection::Write's loop takes a chunk or a finished request per step. `owed` and `wire`
are history: how much of a response was given when it was finished, and what was sent.

The default build defines NDEBUG, so an assert does nothing. An exception in a callback
of the connection changes nothing in it: the loop ends later, with the process. Chunks
are not empty.

### NetBinding

One Socket, made by JavaScript and connected, or made for a client that the server
accepted; one server, of net.cc or of http.cc. `obj` and `srv` are the JavaScript objects:
`live`, `closed` (on_close has run the destructor) or `collected`. A method of
Socket is an action enabled in any JavaScript (`InJS`): in the callbacks of this very
connection or elsewhere. `lookup` is connectTCP's request, which `Resolve` executes in
the pool and `AfterResolve` completes. A hook is two points: before its JavaScript is
called, and after it returns (`HookReturns`), which is where the destructor, the close or the
attach that follows it in the code is done. `Collect` and `CollectServer` are the weak
callbacks; handles are weak from the constructor on, so they may come at any time. Where
freed memory or an empty pointer would be used, `phase` is `corrupt` and nothing is
claimed of what follows.

net.cc makes two C++ Sockets for an accepted connection: OnConnection calls the
JavaScript constructor, which makes one, and then makes another over the same handle.
The first is attached to nothing, and is not modelled. Nor are:
the encodings (the option is read and dropped; setEncoding changes no state of the
connection), a timeout of 0, calls that only an assertion forbids (a second connectTCP),
and an exception in a callback, which ends the program (ThreadPool, Unloop).

### RequestParser

A byte of the stream has a role and a number. The role is its place in the request as the
client means it: that a line ends a header or the data of a chunk, that a byte is of a
body. The parser sees only `Kind (role)`, the classes between which the grammar makes a
difference for the callbacks; the digits of a number are one byte, the end of a line
is one. `After` is the machine: in a state, the kinds it takes. In the headers the state
is the kind it took last. `Follows` is what the client may send: a request, then another,
for ever, or up to a byte that nothing accepts. That the parser, which sees kinds only, stays
where the client is, is then something to be shown (`KeepsInStep`).

Text is kept by position: `got[e]` lists the positions of the bytes given to the callback of
e, `entries` where the entries of http.cc's two lists begin, `mark[e]` where the mark points.
So "as it was sent" means that a list enumerates a set of positions in order (`Enumerates`).

`Read` is the entry of ebb_request_parser_execute, with the marks moved to the
new buffer and the body that is still to be eaten; `HeadByte` sets marks and tells
elements that end; `HeadersEnd` is body_logic; `ChunkFrame` and `ChunkData` are the chunks,
with `chunk_size` as the code accumulates it; `EndOfBuffer` tells the elements that are
open. `Call` is what http.cc does in the callbacks, `IsBehind` the comparison with header_index
by which it decides that a text belongs to the last entry of a list, and `NamesRunOut`,
CreateJSObject's walk over both lists. `torn` is history: a buffer ended inside a name or a
value.

If a buffer does end inside a name or value, or a value is empty, names and values come
apart: header_index counts from 0, on_header_field from 1. `HeadersAsSent` states both
conditions, and `TextIsKept` what holds without them.

### ModuleLoader

Nothing is cached, so a node is a path from the main script, and a file that two
scripts name is loaded twice. `status` is where a node is: looked for (in the constructor's
queue, `finds`), being read, waiting for its submodules, loaded, failed.
`CatDone` is the callback of File.cat as a whole: the script runs, names its submodules,
and load is called for each, up to one whose name findScript throws at. `Finish` is one call
of finish (), `finishing` the chain of them up to the root. A fault is a property of a file:
absent, unreadable, a syntax error, an exception when it runs or in its onLoad, an absolute
name. `Collect` is the weak callback of File.cat's own File (finding 2): memory is lost,
and nothing more is claimed.

stderr.puts is refused (section 4), so that the messages of main.js are never
printed; its exit code is. Not modelled: joining of paths, exports, the chunks of File.cat,
its close at the end, and what scripts do besides (requests, process.exit).

## 4. The runs

| Run | What it asks | Bounds | Result |
|---|---|---|---|
| ThreadPool_safety | no request lost or doubled (`InOnePlace`), no lost wake-up (`NeverSleepsOnResults`), the watcher on as long as needed (`LoopOutlivesRequests`), the pipe never full (`PipeHoldsOneByte`), `IInv` | 4 requests, 2 workers, 1 other watcher, 1 expired wait; symmetry | holds, 104,684 states |
| ThreadPool_live | every request finished, an idle program ends, AsyncRequests implemented (`PromiseKept`) | 3 requests, 2 workers, 1 other watcher, no expired wait | holds, 81,113 states |
| ThreadPool_expiry | every request finished, with one expired wait | 2 requests, 2 workers | **violated** |
| FileQueue | the head is the one in flight, why a queue stalls, order (`InOrder`, the refinement), every call completed unless refused or collected, `IInv` | a File and the constructor, 3 calls each | holds, 249,869 states |
| FileQueue_gc | a completion finds its File | 2 calls | **violated** |
| Timers | no dangling watcher, fires once and not early, not after clear, none lost, a due timer fires, `IInv` | 2 timers, delays 0-2, time to 3 | holds, 350,102 states |
| Http | responses in order and whole, drained means written, lists in order, closed once, a finished response leaves, a close is reported, `IInv` | 2 requests, 2 chunks each, 3 in total | holds, 400,012 states |
| Http_crash | deleting a connection gets through its requests | 1 request, 1 chunk | **violated** |
| Net | no watcher or descriptor left behind, a program that keeps its sockets is safe, only an end drops data, connectTCP is answered, an ended connection is released, `IInv` | 3 writes | holds, 22,694 states |
| Net_connect | onConnect means connected | 1 write | **violated** |
| Parser | request line and headers as sent, in step with the client, completed in time | 2 pipelined requests, or one broken off anywhere, buffers cut anywhere | holds, 92,095 states |
| Loader | onLoad once, after the submodules'; an exit code of 0 means loaded; a program without faults is loaded, `IInv` | 3 scripts, 2 submodules each, depth 3, one fault | holds, 6,026 states |

Why the bounds are enough to be interesting.

* A wake-up can be lost only when one worker's send overlaps the handling of another's,
  with a stale flag from a third: four requests reach that (the variant
  `SendSentUnlessFlag` is found with no fewer), and two workers are enough because
  `reslock` lets one at a time send.
* Three calls on a File make a queue with a head, one behind it and one added in a callback.
* Two timers may clear one another while both are pending; delays 0, 1 and 2 with time to
  3 let an interval be overdue.
* Two HTTP requests are pipelined, and the second may be answered first; one response of two
  chunks is written in parts while the other request comes in.
* Three writes on a Socket: one being sent, one behind it, one more after the queue was empty or
  in a hook.
* The parser's streams hold every element of length 1 and 2, present and absent, headers with
  and without value, bodies of 1 to 4 bytes and chunks of 1 to 3, each followed by a
  second request, so that one byte too many or too few shows; and a request with every element
  broken off behind each byte where something may be that is not HTTP.
* The programs of Loader are a chain, a fan, a diamond, one that names a file twice, and a
  circle, which MaxDepth cuts; each of the three files is at fault in each way (the main
  script is not looked for, so it is neither absent nor absolute).

The proofs lift these bounds.

Deadlock is checked for ThreadPool, where the end is a step (`Exited`). The others
really stop: the process ends, the connection is gone, or the bounded inputs are used up.

The violated runs are findings:

1. **A request may never be executed** (`eio.c` 1093-1106). A worker whose idle wait has run
   out waits again without a look at the queue. A request pushed between finds nobody to
   signal; no thread is started as enough exist.
2. **A File may be collected while its request is in flight** (`file.cc` 254).
3. **A connection that ends before its request's headers do crashes the server** (`http.cc` 321).
4. **onConnect comes before the connection does** (`oi_socket.c` 406). on_connect takes the
   first event, and attach feeds one itself; liboi's documentation promises otherwise.

The modules contain more that is surprising and that no text of the repository speaks
against. A refused action blocks its File for ever (`StallsOnlyIfRefused` says so), and `puts`
in `file.js` 42-44 is always refused, because it passes the callback for the position. A
connection that should be closed lingers when the response was sent before respond (null)
is called: on_drain, which closes it, has been (`http.cc` 544). close () right behind write ()
discards what is queued, and `test-pingpong.js` relies on the opposite. After an error in recv
or send, http.cc never closes the descriptor. Headers that are cut by a buffer, or empty, may
come apart.

Every property of a passing run has a variant of the code beside the definition it
changes ("Variant: ..."), which breaks it: `mutants` in `PROJECT.json`.

## 5. Fairness

* ThreadPool: the main thread goes on (weak fairness of its steps) except that
  JavaScript owes nothing but to return, and backend_poll owes a return only when the
  pipe is readable. Each worker is scheduled. An expired wait is never owed.
* FileQueue: the pool finishes what it was given, which is ThreadPool's
  `EveryRequestFinishes`, and JavaScript returns.
* Timers: time passes, the loop's steps are taken, JavaScript returns. Other events are
  not owed.
* HttpConnection: one thread runs parser, loop and JavaScript. JavaScript may call
  respond again and again between two steps of the loop, so that the loop's own steps,
  and the return of a callback, are strongly fair: the operating system and V8 let
  both go on. The peer takes what is sent to it now and then, or resets the connection;
  without that nothing can be promised. It need not send, end or time out.
* NetBinding: the pool executes the lookup (ThreadPool) and its completion is delivered;
  callbacks return; the loop takes the steps that need no peer (`OwnStep`); time passes, so that
  a connection that is attached and silent times out; connect () comes to an end,
  established or refused, as TCP sees to it. Nobody need write, close, collect or send.
* ModuleLoader: completions are delivered, scripts return, ev_loop returns when nothing keeps
  it. The collector owes nothing.
* RequestParser has safety properties only: it runs when it is given a buffer.

## 6. Proofs

`ThreadPoolProofs`, `FileQueueProofs`, `TimersProofs`, `NetProofs`, `HttpProofs`,
`LoaderProofs` and `ParserProofs` hold, each, `Inductive` (`Spec => []IInv`) and the component's
safety properties; `NumberFacts` holds lemmas on numbers that two of them use.
The assumptions are those of the modules: finite sets of requests and threads, at least one
thread, names that differ, bounds that are numbers, streams that are made of requests. TLC
checks `IInv` in a run of each but the parser's, where every property is a part of it or one step
away. All together are 8,749 obligations.

* **ThreadPool.** `IInv` joins the conservation of requests and the counters with five
  facts: who holds `reslock` (`LockHeld`); a set `gotasync` has its byte in the pipe or a
  worker about to write it, and then nobody else may (`FlagHasByte`); what is pending is
  real and the loop sleeps or ends with nothing pending (`PendingIsReal`); the watcher is
  started while a request is outstanding and stopped once etp_poll is left without one
  (`WatcherStarted`); and a result in the queue is noted somewhere on the way from its sender to
  etp_poll (`ResultSeen`), which is NeverSleepsOnResults made inductive. From it follow
  `RequestsConserved`, `NoLostWakeup`, `WatcherIsRight`, `PipeNeverFills` and, step by
  step, that the pool implements AsyncRequests (`KeepsPromise`). The counters need
  lemmas on the cardinality of sets with one element more or less.
* **FileQueue.** The queue is the last stretch of the calls, in order (`QueueIsSuffix`); all
  that left it is finished (`LeftAreFinished`); nothing behind the head was begun
  (`OnlyHeadsBegun`); the callback that runs is the head's (`CallingHead`). From it:
  `CompletionsMeetTheirHead`, `StallsAreRefusals`, `ActionsAreOrdered` (the refinement).
* **Timers.** Nothing is pending at the top of the loop, callbacks run inside it, a timer
  that was not created has not expired, a live interval stays in the heap; with
  lemmas on what feeding, clearing and taking do to the pending list. From it:
  `WatchersAreAlive`, `FiresInTime`, `LoopWaits`, and the two action properties
  `ClearedIsSilent` and `NoneIsLost`.
* **Net.** That nothing is left of a Socket that has gone needs that whoever has gone went
  through a destructor (`GoneIsReleased`); that data is not dropped, that what is queued
  is watched (`QueueIsWatched`) and that a write action outlives the loop only after an error
  (`LeftWithoutActions`); that memory is safe, that its corruption is remembered with a cause
  (`CorruptedByOne`). From it: `NothingStays`, and the two action properties `KeepersAreSafe`
  and `EndsDropData`.
* **Http.** Two arguments side by side. *Control*: the descriptor, the watchers and the
  actions agree (`ClosedIsQuiet`, `ReleasedAfterClose`, `AttachedTillClose`, `QueueIsWatched`),
  which gives `CloseOnce`. *Order*: all that liboi ever took is one stream, what is on
  the wire followed by what is queued; each request's output is the rest of what was
  given for it (`OutputIsTheRest`); only the first request that is not finished has begun to write
  (`TakeTurns`); all that was written is in the stream, the last of it at its end (`StreamIsSent`). So
  the next chunk is the next in order (`OrderOfResponses`), and a request that leaves the
  list leaves it with all it owed (`DrainAfterWriting`). `OrderOfLists` needs that a
  JavaScript object belongs to a request that was begun (`ObjectsWereBegun`).
* **Loader.** A parent's counter is the number of its children that are loaded
  (`CountIsLoaded`), and only the children it names were ever started (`SubsAreNamed`).
  Hence a counter that has reached the number of names has reached all of them: a subset of an
  interval with as many members is the interval. So whoever finishes has all its submodules
  loaded (`FinishingIsReady`), and `SubmodulesFirst` follows. It needs that nodes are
  told apart by parent and number (`ChildIsNode`, `NodeIsChild`), for any depth.
  That an exit code of 0 means that all is loaded (`ZeroIsLoaded`) is an argument on depth:
  whoever waits is owed a completion by a submodule that is not loaded (`NoneIsForgotten`);
  of the waiting modules take one of greatest depth; the loop has nothing more to deliver, so
  its submodule can only be waiting, too, and is deeper.
* **Parser.** The machine's state and the count of what is to come are functions of the last
  byte (`InStep`), although it sees kinds only: that is an induction along the stream, and,
  inside a body, along the bytes that count down (`CountDown`, of the bytes that do not fit take
  the first). Then the next byte is of the role the state stands for (`NextByte`), from which
  `ParserKeepsInStep` and `RequestsCompleted` follow. A mark is set while its element lasts, and
  all before it was told (`MarksFit`, `TextIsGiven`); at the end of the headers none is set
  (`TextKept`). The list of values is as long as the count of headers, that of names is one ahead
  between a name's end and its value's (`ListsFit`); so `IsBehind`, off by one as it is, is
  never true unless a header is torn or a value empty (`HeadersSent`). The lemmas are on sequences
  that enumerate sets of positions (`EnumText`, `EnumAppend`).

Induction on numbers is done by a least counterexample (`NumberFacts`, `Least`), as the
induction theorems of the library, whose parameter is an operator, cannot be used.

Only model-checked: every liveness property (TLAPS has no ENABLED), and what a run finds
violated. Every invariant and every action property of a passing run is a theorem.

## 7. Not modelled, and why

* The characters of HTTP requests, the contents of files, encodings: the properties above
  depend on lengths, kinds and order only. Content-Length overflow and the result of -1 that
  AfterRead takes for a length (`file.cc` 459) are therefore out of sight.
* The heap of libev's timers: the set of its members. Which of two due timers comes first
  is free in the model.
* Several connections at once: liboi's sockets share nothing but the loop.
* Machine-level memory order: `sent` and `gotasync` would need store buffers.
* Failing allocations and thread creation, EV_ERROR, descriptors running out.
* What follows the use of freed memory: `crashed`, `corrupt` and `lost` end the claims.
* V8, GnuTLS, liboi's unused parts, build and test scripts.
