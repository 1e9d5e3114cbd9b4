----------------------------- MODULE ThreadPool -----------------------------
(***************************************************************************)
(* The bridge between libev's loop and libeio's threads that node.cc sets  *)
(* up: JavaScript on the main thread submits requests (node_eio_warmup and *)
(* etp_submit), workers execute them (etp_proc) and wake the loop through  *)
(* an ev_async watcher (ev_async_send, pipecb), whose callback             *)
(* (thread_pool_cb) finishes them on the main thread and stops the watcher *)
(* when nothing is left, so that ev_loop can return.                       *)
(*                                                                         *)
(* Every critical section of reqlock is one action; reslock is a variable  *)
(* because a worker calls want_poll, several steps, while it holds it.     *)
(* eio's two queues are sets: nothing here depends on the order in which   *)
(* requests of equal priority leave them.  nreqs is written by the main    *)
(* thread alone, so "--nreqs" joins the step that takes the result.        *)
(***************************************************************************)
EXTENDS Integers, FiniteSets

CONSTANTS
  Reqs,         \* the requests the program may ever submit
  Workers,      \* the threads of the pool: eio.c's "wanted" of them
  MaxOthers,    \* bound: other watchers (timers, sockets) JavaScript starts
  MaxExpiries,  \* bound: idle waits (IDLE_TIMEOUT) that run out
  None          \* "no request", "no thread"

ASSUME ReqsFinite     == IsFiniteSet(Reqs)
ASSUME WorkersFinite  == IsFiniteSet(Workers) /\ Workers # {}
ASSUME NoneOutside    == None \notin Reqs /\ None \notin Workers
ASSUME BoundsAreNat   == MaxOthers \in Nat /\ MaxExpiries \in Nat

VARIABLES
  \* the main thread
  mpc,          \* where the main thread is
  ret,          \* where the JavaScript that is running returns to
  submitted,    \* requests submitted so far
  finished,     \* requests whose finish callback was called
  active,       \* thread_pool_watcher is started (it is in asyncs [])
  others,       \* number of other active watchers
  started,      \* how many of them were ever started (bounded)
  pending,      \* watchers on libev's pending list
  loop_done,    \* ev_unloop was called
  nreqs,        \* eio's count of requests in flight
  \* under reqlock
  req_queue, nready,
  \* under reslock
  reslock, res_queue, npending,
  \* ev_async: shared by main thread and workers without a lock
  gotasync, sent, pipe,
  \* the workers
  wpc, self_req, expiries

mainVars == <<mpc, ret, submitted, finished, active, others, started,
              pending, loop_done, nreqs>>
reqVars  == <<req_queue, nready>>
resVars  == <<reslock, res_queue, npending>>
asyncVars == <<gotasync, sent, pipe>>
workVars == <<wpc, self_req, expiries>>
vars == <<mainVars, reqVars, resVars, asyncVars, workVars>>

Watchers == {"pipe", "async", "other"}
MainPCs == {"js", "js_spawn", "loop", "poll", "invoke", "scan", "feed",
            "drain_spawn", "drain", "check", "exited", "killed"}
Waiting == {"timedwait", "wait"}
Sending == {"send", "test", "flag", "write"}
WorkerPCs == {"off", "fetch", "expired", "exec", "publish", "release"}
               \cup Waiting \cup Sending

\* ev_loop's activecnt: pipeev is unref'ed, so only these two kinds count.
ActiveCnt == others + (IF active THEN 1 ELSE 0)
Running == mpc \notin {"exited", "killed"}
NThreads == Cardinality({w \in Workers : wpc[w] # "off"})

Init ==
  /\ mpc = "js" /\ ret = "loop"
  /\ submitted = {} /\ finished = {}
  /\ active = FALSE /\ others = 0 /\ started = 0
  /\ pending = {} /\ loop_done = FALSE /\ nreqs = 0
  /\ req_queue = {} /\ nready = 0
  /\ reslock = None /\ res_queue = {} /\ npending = 0
  /\ gotasync = FALSE /\ sent = FALSE /\ pipe = 0
  /\ wpc = [w \in Workers |-> "off"]
  /\ self_req = [w \in Workers |-> None]
  /\ expiries = 0

-----------------------------------------------------------------------------
(* JavaScript on the main thread.                                          *)

\* X_COND_SIGNAL wakes one thread that is waiting on the condition, if any.
Signal ==
  LET waiters == {w \in Workers : wpc[w] \in Waiting} IN
  \/ /\ waiters = {}
     /\ wpc' = wpc
  \/ \E w \in waiters : wpc' = [wpc EXCEPT ![w] = "fetch"]

\* node_eio_warmup, then etp_submit up to the end of its critical section.
\* main.js, which runs before ev_loop, opens the program's file and no more.
Submit(r) ==
  /\ mpc = "js"
  /\ r \in Reqs \ submitted
  /\ ret = "loop" => submitted = {}
  /\ submitted' = submitted \cup {r}
  /\ active' = TRUE
  /\ nreqs' = nreqs + 1
  /\ nready' = nready + 1
  /\ req_queue' = req_queue \cup {r}
  /\ Signal
  /\ mpc' = "js_spawn"
  /\ UNCHANGED <<ret, finished, others, started, pending, loop_done, resVars,
                 asyncVars, self_req, expiries>>

\* Variant: one request in flight is not worth a thread.
MaybeStartThreadLate ==
  \/ NThreads + npending - nreqs >= -1 /\ wpc' = wpc
  \/ /\ NThreads + npending - nreqs < -1
     /\ \E w \in Workers : wpc[w] = "off" /\ wpc' = [wpc EXCEPT ![w] = "fetch"]

\* etp_maybe_start_thread: no thread when enough run for what is in flight.
MaybeStartThread ==
  LET off == {w \in Workers : wpc[w] = "off"} IN
  \/ /\ off = {} \/ NThreads + npending - nreqs >= 0
     /\ wpc' = wpc
  \/ /\ NThreads + npending - nreqs < 0
     /\ \E w \in off : wpc' = [wpc EXCEPT ![w] = "fetch"]

\* The two callers: the end of etp_submit, each round of etp_poll.
Spawn ==
  /\ \/ mpc = "js_spawn" /\ mpc' = "js"
     \/ mpc = "drain_spawn" /\ mpc' = "drain"
  /\ MaybeStartThread
  /\ UNCHANGED <<ret, submitted, finished, active, others, started, pending,
                 loop_done, nreqs, reqVars, resVars, asyncVars, self_req,
                 expiries>>

\* JavaScript starts a timer, a socket or a server.
StartOther ==
  /\ mpc = "js" /\ ret # "loop"
  /\ started < MaxOthers
  /\ started' = started + 1
  /\ others' = others + 1
  /\ UNCHANGED <<mpc, ret, submitted, finished, active, pending, loop_done,
                 nreqs, reqVars, resVars, asyncVars, workVars>>

\* node_fatal_exception: ev_unloop (EVUNLOOP_ALL).  One event may make several
\* callbacks, so JavaScript may run again before the loop sees it.
Unloop ==
  /\ mpc = "js" /\ ret # "loop"
  /\ loop_done' = TRUE
  /\ UNCHANGED <<mpc, ret, submitted, finished, active, others, started,
                 pending, nreqs, reqVars, resVars, asyncVars, workVars>>

\* process.exit (): exit () at once, whatever is outstanding.
ProcessExit ==
  /\ mpc = "js" /\ ret # "loop"
  /\ mpc' = "killed"
  /\ UNCHANGED <<ret, submitted, finished, active, others, started, pending,
                 loop_done, nreqs, reqVars, resVars, asyncVars, workVars>>

JSReturn ==
  /\ mpc = "js"
  /\ mpc' = ret
  /\ UNCHANGED <<ret, submitted, finished, active, others, started, pending,
                 loop_done, nreqs, reqVars, resVars, asyncVars, workVars>>

-----------------------------------------------------------------------------
(* ev_loop.                                                                *)

\* The two tests that end the loop; nothing runs between them.
LoopTop ==
  /\ mpc = "loop"
  /\ mpc' = IF ActiveCnt = 0 \/ loop_done THEN "exited" ELSE "poll"
  /\ UNCHANGED <<ret, submitted, finished, active, others, started, pending,
                 loop_done, nreqs, reqVars, resVars, asyncVars, workVars>>

\* backend_poll blocks until a descriptor is readable or a timer is due; it
\* gives up after MAX_BLOCKTIME, with nothing pending.
Poll ==
  /\ mpc = "poll"
  /\ \E other \in SUBSET (IF others > 0 THEN {"other"} ELSE {}) :
       pending' = other \cup (IF pipe > 0 THEN {"pipe"} ELSE {})
  /\ mpc' = "invoke"
  /\ UNCHANGED <<ret, submitted, finished, active, others, started, loop_done,
                 nreqs, reqVars, resVars, asyncVars, workVars>>

\* pipecb: read one byte; if gotasync, clear it and go on to the scan.
InvokePipe ==
  /\ mpc = "invoke" /\ "pipe" \in pending
  /\ pending' = pending \ {"pipe"}
  /\ pipe' = pipe - 1
  /\ gotasync' = FALSE
  /\ mpc' = IF gotasync THEN "scan" ELSE "invoke"
  /\ UNCHANGED <<ret, submitted, finished, active, others, started, loop_done,
                 nreqs, reqVars, resVars, sent, workVars>>

\* pipecb: is the watcher still in asyncs [], and was it sent to?
Scan ==
  /\ mpc = "scan"
  /\ mpc' = IF active /\ sent THEN "feed" ELSE "invoke"
  /\ UNCHANGED <<ret, submitted, finished, active, others, started, pending,
                 loop_done, nreqs, reqVars, resVars, asyncVars, workVars>>

\* pipecb: sent = 0, then ev_feed_event.
Feed ==
  /\ mpc = "feed"
  /\ sent' = FALSE
  /\ pending' = pending \cup {"async"}
  /\ mpc' = "invoke"
  /\ UNCHANGED <<ret, submitted, finished, active, others, started, loop_done,
                 nreqs, reqVars, resVars, gotasync, pipe, workVars>>

\* call_pending calls thread_pool_cb, which enters etp_poll.
InvokeAsync ==
  /\ mpc = "invoke" /\ "async" \in pending
  /\ pending' = pending \ {"async"}
  /\ mpc' = "drain_spawn"
  /\ UNCHANGED <<ret, submitted, finished, active, others, started, loop_done,
                 nreqs, reqVars, resVars, asyncVars, workVars>>

\* Another watcher's callback: it runs JavaScript; its watcher may stop.
InvokeOther ==
  /\ mpc = "invoke" /\ "other" \in pending
  /\ pending' = pending \ {"other"}
  /\ others' \in {others, others - 1}
  /\ mpc' = "js" /\ ret' = "invoke"
  /\ UNCHANGED <<submitted, finished, active, started, loop_done, nreqs,
                 reqVars, resVars, asyncVars, workVars>>

InvokeDone ==
  /\ mpc = "invoke" /\ pending = {}
  /\ mpc' = "loop"
  /\ UNCHANGED <<ret, submitted, finished, active, others, started, pending,
                 loop_done, nreqs, reqVars, resVars, asyncVars, workVars>>

-----------------------------------------------------------------------------
(* thread_pool_cb.                                                         *)

\* One round of etp_poll: take a result, --npending, --nreqs, ETP_FINISH.
\* Every After* of the program returns 0, so the round never ends the loop.
Drain(r) ==
  /\ mpc = "drain" /\ reslock = None
  /\ r \in res_queue
  /\ res_queue' = res_queue \ {r}
  /\ npending' = npending - 1
  /\ nreqs' = nreqs - 1
  /\ finished' = finished \cup {r}
  /\ mpc' = "js" /\ ret' = "drain_spawn"
  /\ UNCHANGED <<submitted, active, others, started, pending, loop_done,
                 reqVars, reslock, asyncVars, workVars>>

DrainEmpty ==
  /\ mpc = "drain" /\ reslock = None
  /\ res_queue = {}
  /\ mpc' = "check"
  /\ UNCHANGED <<ret, submitted, finished, active, others, started, pending,
                 loop_done, nreqs, reqVars, resVars, asyncVars, workVars>>

\* Variants: a request that a worker executes is forgotten; never stopped.
CheckQueuesOnly ==
  /\ mpc = "check"
  /\ IF nready = 0 /\ npending = 0
       THEN active' = FALSE /\ pending' = pending \ {"async"}
       ELSE UNCHANGED <<active, pending>>
  /\ mpc' = "invoke"
  /\ UNCHANGED <<ret, submitted, finished, others, started, loop_done, nreqs,
                 reqVars, resVars, asyncVars, workVars>>

CheckNever ==
  /\ mpc = "check"
  /\ mpc' = "invoke"
  /\ UNCHANGED <<ret, submitted, finished, active, others, started, pending,
                 loop_done, nreqs, reqVars, resVars, asyncVars, workVars>>

\* ev_async_stop (which also clears a pending event) when all three counters
\* are 0.  nreqs is read first and is the main thread's own: once it is 0 no
\* worker holds a request, and the other two reads cannot be overtaken.  (On
\* this platform the counters are read without a lock.)
Check ==
  /\ mpc = "check"
  /\ IF nreqs = 0 /\ nready = 0 /\ npending = 0
       THEN active' = FALSE /\ pending' = pending \ {"async"}
       ELSE UNCHANGED <<active, pending>>
  /\ mpc' = "invoke"
  /\ UNCHANGED <<ret, submitted, finished, others, started, loop_done, nreqs,
                 reqVars, resVars, asyncVars, workVars>>

-----------------------------------------------------------------------------
(* etp_proc, the body of a worker.                                         *)

Move(w, from, to) ==
  /\ Running
  /\ wpc[w] = from
  /\ wpc' = [wpc EXCEPT ![w] = to]

\* Variant: the request is read, not shifted.
FetchPeek(w, r) ==
  /\ Move(w, "fetch", "exec")
  /\ r \in req_queue
  /\ nready' = nready - 1
  /\ self_req' = [self_req EXCEPT ![w] = r]
  /\ UNCHANGED <<mainVars, req_queue, resVars, asyncVars, expiries>>

\* Under reqlock: shift a request ...
Fetch(w, r) ==
  /\ Move(w, "fetch", "exec")
  /\ r \in req_queue
  /\ req_queue' = req_queue \ {r}
  /\ nready' = nready - 1
  /\ self_req' = [self_req EXCEPT ![w] = r]
  /\ UNCHANGED <<mainVars, resVars, asyncVars, expiries>>

\* ... or wait, at most IDLE_TIMEOUT seconds, to be signalled.
FetchNone(w) ==
  /\ Move(w, "fetch", "timedwait")
  /\ req_queue = {}
  /\ UNCHANGED <<mainVars, reqVars, resVars, asyncVars, self_req, expiries>>

\* The wait runs out: the thread is no longer one that a signal can wake.
Expire(w) ==
  /\ Move(w, "timedwait", "expired")
  /\ expiries < MaxExpiries
  /\ expiries' = expiries + 1
  /\ UNCHANGED <<mainVars, reqVars, resVars, asyncVars, self_req>>

\* It has reqlock again: idle > max_idle is false with wanted = max_idle = 4,
\* so it waits without a limit - and without a look at the queue.
WaitAgain(w) ==
  /\ Move(w, "expired", "wait")
  /\ UNCHANGED <<mainVars, reqVars, resVars, asyncVars, self_req, expiries>>

\* ETP_EXECUTE: the blocking system calls.
Execute(w) ==
  /\ Move(w, "exec", "publish")
  /\ UNCHANGED <<mainVars, reqVars, resVars, asyncVars, self_req, expiries>>

\* Under reslock: push the result; the first one in the queue wakes the loop.
Publish(w) ==
  /\ Move(w, "publish", IF res_queue = {} THEN "send" ELSE "release")
  /\ reslock = None
  /\ reslock' = w
  /\ npending' = npending + 1
  /\ res_queue' = res_queue \cup {self_req[w]}
  /\ UNCHANGED <<mainVars, reqVars, asyncVars, self_req, expiries>>

\* Variant: nothing to do for a watcher whose loop is being woken.
SendSentUnlessFlag(w) ==
  /\ Move(w, "send", IF gotasync THEN "release" ELSE "test")
  /\ sent' = (sent \/ ~gotasync)
  /\ UNCHANGED <<mainVars, reqVars, resVars, gotasync, pipe, self_req,
                 expiries>>

\* ev_async_send: w->sent = 1; evpipe_write: if (!*flag), *flag = 1, write.
SendSent(w) ==
  /\ Move(w, "send", "test")
  /\ sent' = TRUE
  /\ UNCHANGED <<mainVars, reqVars, resVars, gotasync, pipe, self_req,
                 expiries>>

\* Variant of the test of *flag: a byte is written whatever it says.
SendTestAlways(w) ==
  /\ Move(w, "test", "flag")
  /\ UNCHANGED <<mainVars, reqVars, resVars, asyncVars, self_req, expiries>>

SendTest(w) ==
  /\ Move(w, "test", IF gotasync THEN "release" ELSE "flag")
  /\ UNCHANGED <<mainVars, reqVars, resVars, asyncVars, self_req, expiries>>

SendFlag(w) ==
  /\ Move(w, "flag", "write")
  /\ gotasync' = TRUE
  /\ UNCHANGED <<mainVars, reqVars, resVars, sent, pipe, self_req, expiries>>

SendWrite(w) ==
  /\ Move(w, "write", "release")
  /\ pipe' = pipe + 1
  /\ UNCHANGED <<mainVars, reqVars, resVars, gotasync, sent, self_req,
                 expiries>>

\* self->req = 0; X_UNLOCK (reslock).
Release(w) ==
  /\ Move(w, "release", "fetch")
  /\ reslock' = None
  /\ self_req' = [self_req EXCEPT ![w] = None]
  /\ UNCHANGED <<mainVars, reqVars, res_queue, npending, asyncVars, expiries>>

-----------------------------------------------------------------------------
JS == (\E r \in Reqs : Submit(r)) \/ StartOther \/ Unloop \/ ProcessExit

Loop ==
  \/ Spawn \/ JSReturn \/ LoopTop
  \/ InvokePipe \/ Scan \/ Feed \/ InvokeAsync \/ InvokeOther \/ InvokeDone
  \/ (\E r \in Reqs : Drain(r)) \/ DrainEmpty \/ Check

Worker(w) ==
  \/ (\E r \in Reqs : Fetch(w, r)) \/ FetchNone(w) \/ WaitAgain(w)
  \/ Execute(w) \/ Publish(w) \/ SendSent(w) \/ SendTest(w) \/ SendFlag(w)
  \/ SendWrite(w) \/ Release(w)

\* The process is over; its threads ended with it.
Exited == ~Running /\ UNCHANGED vars

Next ==
  \/ JS \/ Loop \/ Poll
  \/ \E w \in Workers : Worker(w) \/ Expire(w)
  \/ Exited

\* The main thread and every worker are scheduled; system calls and JavaScript
\* return.  Nothing is owed by other watchers: backend_poll has to return only
\* when the pipe is readable.
Fairness ==
  /\ WF_vars(Loop)
  /\ WF_vars(Poll /\ pipe > 0)
  /\ \A w \in Workers : WF_vars(Worker(w))

Spec == Init /\ [][Next]_vars
FairSpec == Spec /\ Fairness
-----------------------------------------------------------------------------
Outstanding == submitted \ finished
Held == {self_req[w] : w \in {v \in Workers : wpc[v] \in {"exec", "publish"}}}
Locked(w) == wpc[w] \in Sending \cup {"release"}

TypeOK ==
  /\ mpc \in MainPCs /\ ret \in {"loop", "invoke", "drain_spawn"}
  /\ submitted \subseteq Reqs /\ finished \subseteq submitted
  /\ active \in BOOLEAN /\ loop_done \in BOOLEAN
  /\ others \in Nat /\ started \in 0..MaxOthers /\ others <= started
  /\ pending \subseteq Watchers
  /\ nreqs \in Int /\ nready \in Int /\ npending \in Int
  /\ req_queue \subseteq Reqs /\ res_queue \subseteq Reqs
  /\ reslock \in Workers \cup {None}
  /\ gotasync \in BOOLEAN /\ sent \in BOOLEAN /\ pipe \in Int
  /\ wpc \in [Workers -> WorkerPCs]
  /\ self_req \in [Workers -> Reqs \cup {None}]
  /\ expiries \in 0..MaxExpiries

\* Each request that is outstanding is in exactly one of eio's hands: the
\* request queue, one worker, the result queue.  None is lost between two
\* critical sections (eio.c etp_proc, etp_poll) and none is handed out twice,
\* which would free it twice.
InOnePlace ==
  /\ Outstanding = req_queue \cup Held \cup res_queue
  /\ req_queue \cap Held = {}
  /\ req_queue \cap res_queue = {}
  /\ Held \cap res_queue = {}
  /\ \A v, w \in Workers :
       /\ wpc[v] \in {"exec", "publish"} /\ wpc[w] \in {"exec", "publish"}
       /\ self_req[v] = self_req[w]
       => v = w

\* eio's counters, kept under two locks and by no lock at all, say what the
\* queues hold; thread_pool_cb's decision to stop the watcher rests on them.
CountersAgree ==
  /\ nreqs = Cardinality(Outstanding)
  /\ nready = Cardinality(req_queue)
  /\ npending = Cardinality(res_queue)

\* What makes the properties below inductive, part by part.

\* reslock is held by the worker that is past its push, and by nobody else.
LockHeld ==
  /\ \A w \in Workers : Locked(w) <=> reslock = w
  /\ \A w \in Workers : wpc[w] \in {"exec", "publish"} => self_req[w] \in Reqs

\* A flag that is set has its byte in the pipe, or on its way there.
FlagHasByte ==
  /\ pipe \in 0..1
  /\ gotasync <=> pipe = 1 \/ \E w \in Workers : wpc[w] = "write"
  /\ \A w \in Workers : wpc[w] \in {"flag", "write"} => pipe = 0
  /\ \A w \in Workers : wpc[w] = "flag" => ~gotasync

\* Only the main thread takes events off the pending list, and it sleeps, or
\* ends, with the list empty.
PendingIsReal ==
  /\ "pipe" \in pending => pipe = 1
  /\ "other" \in pending => others > 0
  /\ mpc \in {"loop", "poll", "exited"} => pending = {}
  /\ mpc \in {"js", "js_spawn"} /\ ret = "loop" => pending = {}

InJS(to) == mpc \in {"js", "js_spawn", "killed"} /\ ret = to
Draining == mpc \in {"drain_spawn", "drain"} \/ InJS("drain_spawn")

WatcherStarted ==
  /\ Outstanding # {} => active
  /\ active /\ Outstanding = {} => Draining \/ mpc = "check"

\* The event is noted on its way from pipecb to etp_poll.
Noted == mpc = "feed" \/ "async" \in pending \/ Draining

\* A result in the queue will be seen: its sender is not done, or the wake-up
\* is in the pipe, in pipecb, on the pending list or in etp_poll.
ResultSeen ==
  /\ res_queue # {} =>
       \/ \E w \in Workers : wpc[w] \in Sending
       \/ pipe = 1 /\ sent
       \/ mpc = "scan" /\ sent
       \/ Noted
  /\ \A w \in Workers : wpc[w] \in {"test", "flag", "write"} =>
       res_queue # {} /\ (sent \/ Noted)
  /\ \A w \in Workers : wpc[w] = "send" => res_queue # {}

\* The loop never blocks in backend_poll over a finished request: the pipe is
\* readable and pipecb will find both flags set and the watcher started, or a
\* worker is still between pushing the result and waking the loop.
NeverSleepsOnResults ==
  mpc = "poll" /\ res_queue # {} =>
    \/ \E w \in Workers : wpc[w] \in Sending
    \/ pipe > 0 /\ gotasync /\ sent /\ active

\* ev_loop does not return by itself while a request is outstanding: the
\* watcher that thread_pool_cb stops is what keeps it going (node.cc 147-150).
LoopOutlivesRequests ==
  mpc = "exited" /\ ~loop_done => Outstanding = {}

\* The watcher does not keep a program alive that has no request left: at the
\* top of the loop it is started exactly while a request is outstanding.
WatcherOnlyForRequests ==
  mpc \in {"loop", "poll"} => (active <=> Outstanding # {})

\* evpipe_write never finds a byte in the pipe: a worker, which holds reslock
\* there, cannot block on a full pipe, however often it is called.
PipeHoldsOneByte ==
  /\ pipe \in 0..1
  /\ \A w \in Workers : wpc[w] = "write" => pipe = 0

\* The inductive invariant of ThreadPoolProofs.
IInv ==
  /\ TypeOK /\ InOnePlace /\ CountersAgree
  /\ LockHeld /\ FlagHasByte /\ PendingIsReal /\ WatcherStarted /\ ResultSeen
  /\ LoopOutlivesRequests

\* Every request that was submitted is finished, unless the program stops:
\* file.js 64-65, "All file operations are blocking. To get around this they
\* are executed in a thread pool in C++ (libeio)."  It fails when a worker's
\* idle wait runs out as the request arrives (eio.c 1089-1102): the signal
\* finds nobody, and the worker then waits again without a look at the queue.
EveryRequestFinishes ==
  \A r \in Reqs : (r \in submitted) ~> (r \in finished \/ loop_done \/ mpc = "killed")

\* With no request and no other watcher left, the program ends.
IdleProgramEnds ==
  (mpc = "loop" /\ Outstanding = {} /\ others = 0) ~> (mpc = "exited")

\* The pool keeps its promise to the rest of the program.
Promise == INSTANCE AsyncRequests
             WITH unlooped <- loop_done \/ mpc = "killed", running <- Running
PromiseKept == Promise!Spec

=============================================================================
