------------------------------- MODULE Timers -------------------------------
(***************************************************************************)
(* setTimeout, setInterval and clearTimeout (timers.cc) over the timer     *)
(* heap, the pending events and the cached clock of libev (ev.c).  Each    *)
(* timer's JavaScript handle outlives the C++ Timer it points to.          *)
(*                                                                         *)
(* The heap is the set of its members: timers_reify takes one with the     *)
(* least "at", whichever that is among equals.  Other watchers appear as   *)
(* callbacks that may run in between and as the reason the loop goes on:   *)
(* the program itself runs in one, that of the file main.js has opened.    *)
(***************************************************************************)
EXTENDS Integers, Sequences, FiniteSets

CONSTANTS
  Timers,      \* the timers the program may create, each once
  Delays,      \* delays in units of the clock, 0 included
  MaxTime,     \* bound: the clock stops here
  None,        \* a pending entry that clear_pending emptied; no callback
  Other        \* the event of some other watcher, and its callback

ASSUME NamesDiffer == None \notin Timers /\ Other \notin Timers /\ None # Other
ASSUME DelaysAreNat == Delays \subseteq Nat
ASSUME MaxTimeIsNat == MaxTime \in Nat

VARIABLES
  now,         \* the real time
  mn_now,      \* the time libev read last
  obj,         \* the C++ Timer: "none", "live" or "deleted"
  at,          \* ev_at of its watcher
  repeat,      \* the watcher's repeat, 0 for a timer that fires once
  isFunction,  \* the handle's "callback" is a function
  heap,        \* active timers
  pending,     \* pendings [pri], None where w = 0
  phase,       \* of ev_loop: "top", "reify", "call", "ended"; or "exit"
  current,     \* the watcher whose JavaScript callback runs
  io,          \* another watcher keeps the loop going
  unlooped,    \* loop_done
  corrupt,     \* freed memory, or a handle without a Timer, was used
  earliest,    \* history: the soonest its next expiry may come
  expiries     \* history: how often it expired

clock  == <<now, mn_now>>
timer  == <<obj, at, repeat, heap, earliest, expiries>>
vars == <<clock, timer, isFunction, pending, phase, current, io, unlooped, corrupt>>

Init ==
  /\ now = 0 /\ mn_now = 0
  /\ obj = [t \in Timers |-> "none"]
  /\ at = [t \in Timers |-> 0]
  /\ repeat = [t \in Timers |-> 0]
  /\ isFunction = [t \in Timers |-> TRUE]
  /\ heap = {}
  /\ pending = <<>>
  /\ phase = "top"
  /\ current = None
  /\ io = TRUE
  /\ unlooped = FALSE
  /\ corrupt = FALSE
  /\ earliest = [t \in Timers |-> 0]
  /\ expiries = [t \in Timers |-> 0]

-----------------------------------------------------------------------------
(* Operators of ev.c on the pending events.                                *)

IsPending(t) == \E i \in DOMAIN pending : pending[i] = t

\* Variant: ev_timer_stop does not clear the pending event.
ClearNothing(t) == pending

ClearPending(t) == [i \in DOMAIN pending |-> IF pending[i] = t THEN None ELSE pending[i]]

FeedEvent(t) == IF IsPending(t) THEN pending ELSE Append(pending, t)

Latest(a, b) == IF a < b THEN b ELSE a

-----------------------------------------------------------------------------
(* What JavaScript may do in any callback.                                 *)

InJS == ~corrupt /\ phase = "call" /\ current # None

\* new Timer: ev_timer_start counts from the time libev read last.  f tells
\* whether "callback" is a function, d the delay, r the repeat.
New(t, d, r, f) ==
  /\ InJS
  /\ obj[t] = "none"
  /\ mn_now + d < MaxTime
  /\ obj' = [obj EXCEPT ![t] = "live"]
  /\ at' = [at EXCEPT ![t] = mn_now + d]
  /\ repeat' = [repeat EXCEPT ![t] = r]
  /\ isFunction' = [isFunction EXCEPT ![t] = f]
  /\ heap' = heap \cup {t}
  /\ earliest' = [earliest EXCEPT ![t] = mn_now + d]
  /\ UNCHANGED <<clock, pending, phase, current, io, unlooped, corrupt, expiries>>

SetTimeout(t, d, f) == New(t, d, 0, f)
SetInterval(t, d, f) == New(t, d, d, f)

\* Variant: ~Timer leaves the watcher alone.
ClearNoStop(t) ==
  /\ InJS
  /\ obj[t] = "live"
  /\ obj' = [obj EXCEPT ![t] = "deleted"]
  /\ UNCHANGED <<clock, at, repeat, heap, earliest, expiries, isFunction, pending,
                 phase, current, io, unlooped, corrupt>>

\* clearTimeout of a Timer that is there: ~Timer stops the watcher.
Clear(t) ==
  /\ InJS
  /\ obj[t] = "live"
  /\ obj' = [obj EXCEPT ![t] = "deleted"]
  /\ heap' = heap \ {t}
  /\ pending' = ClearPending(t)
  /\ UNCHANGED <<clock, at, repeat, earliest, expiries, isFunction, phase, current,
                 io, unlooped, corrupt>>

\* clearTimeout of a handle whose Timer is gone: Unwrap takes the undefined
\* it finds for a pointer.
ClearAgain(t) ==
  /\ InJS
  /\ obj[t] = "deleted"
  /\ corrupt' = TRUE
  /\ UNCHANGED <<clock, timer, isFunction, pending, phase, current, io, unlooped>>

\* The script assigns to the handle's "callback".
Assign(t) ==
  /\ InJS
  /\ obj[t] # "none"
  /\ isFunction' = [isFunction EXCEPT ![t] = ~@]
  /\ UNCHANGED <<clock, timer, pending, phase, current, io, unlooped, corrupt>>

\* The other watchers are started, or the last of them is stopped.
Others ==
  /\ InJS
  /\ io' = ~io
  /\ pending' = IF io THEN ClearPending(Other) ELSE pending
  /\ UNCHANGED <<clock, timer, isFunction, phase, current, unlooped, corrupt>>

\* process.exit (): exit () at once.
ProcessExit ==
  /\ InJS
  /\ phase' = "exit"
  /\ UNCHANGED <<clock, timer, isFunction, pending, current, io, unlooped, corrupt>>

-----------------------------------------------------------------------------
(* ev_loop.                                                                *)

Tick ==
  /\ now < MaxTime
  /\ now' = now + 1
  /\ UNCHANGED <<mn_now, timer, isFunction, pending, phase, current, io, unlooped, corrupt>>

\* Without an active watcher the loop ends here; otherwise it waits, at most
\* until the first timer is due, and reads the clock; backend_poll may feed the
\* event of another watcher.
Poll ==
  /\ ~corrupt /\ phase = "top"
  /\ IF heap = {} /\ ~io
       THEN phase' = "ended" /\ UNCHANGED clock
       ELSE phase' = "reify" /\ mn_now' = now /\ UNCHANGED now
  /\ IF phase' = "reify" /\ io THEN pending' \in {pending, FeedEvent(Other)}
                               ELSE UNCHANGED pending
  /\ UNCHANGED <<timer, isFunction, current, io, unlooped, corrupt>>

Due(t) ==
  /\ t \in heap
  /\ at[t] < mn_now
  /\ \A u \in heap : at[t] <= at[u]

\* Variants: the event is fed before the watcher is stopped; every watcher stays
\* in the heap.
ExpireFeedFirst(t) ==
  /\ ~corrupt /\ phase = "reify" /\ Due(t)
  /\ expiries' = [expiries EXCEPT ![t] = @ + 1]
  /\ earliest' = [earliest EXCEPT ![t] = @ + repeat[t]]
  /\ IF repeat[t] > 0
       THEN /\ at' = [at EXCEPT ![t] = Latest(@ + repeat[t], mn_now)]
            /\ pending' = FeedEvent(t)
            /\ UNCHANGED heap
       ELSE /\ heap' = heap \ {t}
            /\ pending' = ClearPending(t)
            /\ UNCHANGED at
  /\ UNCHANGED <<clock, obj, repeat, isFunction, phase, current, io, unlooped, corrupt>>

ExpireStaysActive(t) ==
  /\ ~corrupt /\ phase = "reify" /\ Due(t)
  /\ expiries' = [expiries EXCEPT ![t] = @ + 1]
  /\ earliest' = [earliest EXCEPT ![t] = @ + repeat[t]]
  /\ at' = [at EXCEPT ![t] = Latest(@ + repeat[t], mn_now)]
  /\ pending' = FeedEvent(t)
  /\ UNCHANGED <<clock, obj, repeat, isFunction, heap, phase, current, io, unlooped, corrupt>>

\* One turn of timers_reify: a repeating timer is rescheduled, never into the
\* past; the other kind is stopped.
Expire(t) ==
  /\ ~corrupt /\ phase = "reify" /\ Due(t)
  /\ expiries' = [expiries EXCEPT ![t] = @ + 1]
  /\ earliest' = [earliest EXCEPT ![t] = @ + repeat[t]]
  /\ at' = [at EXCEPT ![t] = IF repeat[t] > 0 THEN Latest(@ + repeat[t], mn_now) ELSE @]
  /\ heap' = IF repeat[t] > 0 THEN heap ELSE heap \ {t}
  /\ pending' = FeedEvent(t)
  /\ UNCHANGED <<clock, obj, repeat, isFunction, phase, current, io, unlooped, corrupt>>

\* A check watcher's event is fed after the timers'.
ReifyDone ==
  /\ ~corrupt /\ phase = "reify"
  /\ ~\E t \in heap : Due(t)
  /\ phase' = "call"
  /\ IF io THEN pending' \in {pending, FeedEvent(Other)} ELSE UNCHANGED pending
  /\ UNCHANGED <<clock, timer, isFunction, current, io, unlooped, corrupt>>

\* call_pending takes the event that was fed last.  A timer without a function
\* is left as it is.
Invoke ==
  /\ ~corrupt /\ phase = "call" /\ current = None
  /\ pending # <<>>
  /\ LET t == pending[Len(pending)]
     IN  current' = IF t = Other \/ (t # None /\ isFunction[t]) THEN t ELSE None
  /\ pending' = SubSeq(pending, 1, Len(pending) - 1)
  /\ UNCHANGED <<clock, timer, isFunction, phase, io, unlooped, corrupt>>

\* Variant: OnTimeout deletes no timer.
ReturnKeeps(thrown) ==
  /\ InJS
  /\ unlooped' = (unlooped \/ thrown)
  /\ current' = None
  /\ UNCHANGED <<clock, timer, isFunction, pending, phase, io, corrupt>>

\* The callback returns, or throws and node_fatal_exception unloops; OnTimeout
\* then deletes a timer that does not repeat.  If the callback cleared its own
\* timer, "repeat" is read from freed memory, whose value decides.
Return(thrown) ==
  /\ InJS
  /\ unlooped' = (unlooped \/ thrown)
  /\ current' = None
  /\ IF current = Other \/ (obj[current] = "live" /\ repeat[current] > 0)
       THEN UNCHANGED <<obj, heap, pending, corrupt>>
       ELSE IF obj[current] = "live"
         THEN /\ obj' = [obj EXCEPT ![current] = "deleted"]
              /\ heap' = heap \ {current}
              /\ pending' = ClearPending(current)
              /\ UNCHANGED corrupt
         ELSE /\ corrupt' \in BOOLEAN
              /\ UNCHANGED <<obj, heap, pending>>
  /\ UNCHANGED <<clock, at, repeat, earliest, expiries, isFunction, phase, io>>

\* The pending events are done: ev_loop's condition.
CallDone ==
  /\ ~corrupt /\ phase = "call" /\ current = None
  /\ pending = <<>>
  /\ phase' = IF (heap # {} \/ io) /\ ~unlooped THEN "top" ELSE "ended"
  /\ UNCHANGED <<clock, timer, isFunction, pending, current, io, unlooped, corrupt>>

Next ==
  \/ \E t \in Timers, d \in Delays, f \in BOOLEAN : SetTimeout(t, d, f)
  \/ \E t \in Timers, d \in Delays, f \in BOOLEAN : SetInterval(t, d, f)
  \/ \E t \in Timers : Clear(t)
  \/ \E t \in Timers : ClearAgain(t)
  \/ \E t \in Timers : Assign(t)
  \/ Others
  \/ ProcessExit
  \/ Tick
  \/ Poll
  \/ \E t \in Timers : Expire(t)
  \/ ReifyDone
  \/ Invoke
  \/ \E thrown \in BOOLEAN : Return(thrown)
  \/ CallDone

Spec == Init /\ [][Next]_vars

\* Time passes, JavaScript returns, and the loop's own steps are one thread's.
\* Other watchers need not fire.
FairSpec ==
  /\ Spec
  /\ WF_vars(Tick)
  /\ WF_vars(Poll \/ (\E t \in Timers : Expire(t)) \/ ReifyDone)
  /\ WF_vars(Invoke \/ CallDone)
  /\ WF_vars(\E thrown \in BOOLEAN : Return(thrown))

-----------------------------------------------------------------------------
Phases == {"top", "reify", "call", "ended", "exit"}

TypeOK ==
  /\ now \in 0..MaxTime /\ mn_now \in 0..now
  /\ obj \in [Timers -> {"none", "live", "deleted"}]
  /\ at \in [Timers -> Nat]
  /\ repeat \in [Timers -> Nat]
  /\ isFunction \in [Timers -> BOOLEAN]
  /\ heap \subseteq Timers
  /\ pending \in Seq(Timers \cup {None, Other})
  /\ phase \in Phases
  /\ current \in Timers \cup {None, Other}
  /\ io \in BOOLEAN /\ unlooped \in BOOLEAN /\ corrupt \in BOOLEAN
  /\ earliest \in [Timers -> Nat] /\ expiries \in [Timers -> Nat]

\* libev never keeps a watcher whose memory is gone (ev.pod 1031-1034), in its
\* heap or among the pending events, whatever a callback deletes.
NoDangling ==
  \A t \in Timers : t \in heap \/ IsPending(t) => obj[t] = "live"

\* A timer has one event pending at most, and none once it has stopped and run:
\* one that does not repeat fires once.
FiresOnce ==
  /\ \A i, j \in DOMAIN pending : pending[i] = pending[j] /\ pending[i] # None => i = j
  /\ \A t \in Timers : repeat[t] = 0 =>
       /\ expiries[t] <= 1
       /\ expiries[t] = 1 => t \notin heap

\* No expiry is early: the k-th comes later than k delays after the call, by
\* the clock libev read at the call (which may be behind the real one).
NeverEarly ==
  \A t \in heap : earliest[t] <= at[t]

\* test-setTimeout.js 14: "this timer shouldn't execute": once cleared, a timer
\* starts no callback, even if its event was already pending.
ClearedNeverFires ==
  [][\A t \in Timers : obj[t] = "deleted" /\ current # t => current' # t]_vars

\* A Timer is lost - it neither runs, waits nor was deleted - only when its
\* callback was no function at the time it expired.
LostOnlyWithoutFunction ==
  [][\A t \in Timers :
       /\ (t \in heap \/ IsPending(t) \/ current = t) /\ obj[t] = "live"
       /\ ~(t \in heap' \/ IsPending(t)' \/ current' = t) /\ obj'[t] = "live"
       => ~isFunction[t]]_vars

\* The program does not end by itself while a timer has to run.
LoopWaitsForTimers ==
  phase = "ended" => unlooped \/ (heap = {} /\ \A t \in Timers : ~IsPending(t))

\* The inductive invariant of TimersProofs.
NothingPendingAtTop == phase = "top" => pending = <<>>

CallsInLoop == current # None => phase \in {"call", "exit"}

FreshTimers == \A t \in Timers : obj[t] = "none" => expiries[t] = 0

RepeatersStay == \A t \in Timers : obj[t] = "live" /\ repeat[t] > 0 => t \in heap

IInv ==
  /\ TypeOK /\ NoDangling /\ FiresOnce /\ NeverEarly /\ LoopWaitsForTimers
  /\ NothingPendingAtTop /\ CallsInLoop /\ FreshTimers /\ RepeatersStay

\* A timer that is due runs, is cleared, or the program ends.
DueTimerFires ==
  \A t \in Timers :
    (t \in heap /\ at[t] < MaxTime) ~>
      (current = t \/ ~isFunction[t] \/ obj[t] = "deleted" \/ phase \in {"ended", "exit"} \/ corrupt)
=============================================================================
