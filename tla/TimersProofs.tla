---------------------------- MODULE TimersProofs ----------------------------
(***************************************************************************)
(* For any set of timers, delays and clock bound: libev never holds a       *)
(* deleted watcher, a cleared timer starts no callback, none fires early,   *)
(* and none is lost unless its callback is no function.                    *)
(***************************************************************************)
EXTENDS Timers, TLAPS

Events == Timers \cup {None, Other}
Has(q, u) == \E i \in DOMAIN q : q[i] = u
NoDuplicates(q) == \A i, j \in DOMAIN q : q[i] = q[j] /\ q[i] # None => i = j

-----------------------------------------------------------------------------
(* What the operators of ev.c do to the pending events.                    *)

\* Feeding an event makes it pending, once, and touches no other.
LEMMA Feed ==
  ASSUME pending \in Seq(Events), NoDuplicates(pending), NEW t \in Timers \cup {Other}
  PROVE  /\ FeedEvent(t) \in Seq(Events)
         /\ NoDuplicates(FeedEvent(t))
         /\ \A u \in Timers : Has(FeedEvent(t), u) <=> Has(pending, u) \/ u = t
<1>1. CASE IsPending(t)
  BY <1>1 DEF FeedEvent, IsPending, Has
<1>2. CASE ~IsPending(t)
  <2> DEFINE q == Append(pending, t)
  <2>1. FeedEvent(t) = q
    BY <1>2 DEF FeedEvent
  <2>2. /\ q \in Seq(Events) /\ Len(q) = Len(pending) + 1 /\ Len(pending) \in Nat
        /\ DOMAIN q = 1..Len(q) /\ DOMAIN pending = 1..Len(pending)
        /\ q[Len(q)] = t /\ \A i \in 1..Len(pending) : q[i] = pending[i]
    BY DEF Events
  <2> HIDE DEF q
  <2>3. \A i \in DOMAIN pending : pending[i] # t
    BY <1>2 DEF IsPending
  <2>4. NoDuplicates(q)
    BY <2>2, <2>3 DEF NoDuplicates
  <2>5. \A u \in Timers : Has(q, u) <=> Has(pending, u) \/ u = t
    BY <2>2 DEF Has
  <2> QED BY <2>1, <2>2, <2>4, <2>5
<1> QED BY <1>1, <1>2

\* Clearing an event empties its entry and touches no other.
LEMMA Clears ==
  ASSUME pending \in Seq(Events), NoDuplicates(pending), NEW t \in Timers \cup {Other}
  PROVE  /\ ClearPending(t) \in Seq(Events)
         /\ Len(ClearPending(t)) = Len(pending)
         /\ NoDuplicates(ClearPending(t))
         /\ \A u \in Timers : Has(ClearPending(t), u) <=> Has(pending, u) /\ u # t
<1>1. t # None
  BY NamesDiffer
<1>2. DOMAIN ClearPending(t) = DOMAIN pending /\ DOMAIN pending = 1..Len(pending)
  BY DEF ClearPending
<1>3. \A i \in DOMAIN pending :
        ClearPending(t)[i] = IF pending[i] = t THEN None ELSE pending[i]
  BY DEF ClearPending
<1>4. ClearPending(t) \in Seq(Events) /\ Len(ClearPending(t)) = Len(pending)
  <2>1. Len(pending) \in Nat
    OBVIOUS
  <2>2. \A i \in 1..Len(pending) : ClearPending(t)[i] \in Events
    BY <1>2, <1>3 DEF Events
  <2> QED BY <1>2, <2>1, <2>2 DEF ClearPending
<1>5. NoDuplicates(ClearPending(t))
  BY <1>2, <1>3 DEF NoDuplicates
<1>6. \A u \in Timers : Has(ClearPending(t), u) <=> Has(pending, u) /\ u # t
  BY <1>1, <1>2, <1>3, NamesDiffer DEF Has
<1> QED BY <1>4, <1>5, <1>6

\* Taking the last event leaves the others.
LEMMA Takes ==
  ASSUME pending \in Seq(Events), NoDuplicates(pending), pending # <<>>,
         NEW q, q = SubSeq(pending, 1, Len(pending) - 1)
  PROVE  /\ q \in Seq(Events)
         /\ NoDuplicates(q)
         /\ pending[Len(pending)] \in Events
         /\ Has(pending, pending[Len(pending)])
         /\ \A u \in Timers :
              Has(q, u) <=> Has(pending, u) /\ u # pending[Len(pending)]
<1>1. /\ Len(pending) \in Nat \ {0} /\ DOMAIN pending = 1..Len(pending)
      /\ q \in Seq(Events) /\ DOMAIN q = 1..(Len(pending) - 1)
      /\ \A i \in 1..(Len(pending) - 1) : q[i] = pending[i]
  OBVIOUS
<1>2. NoDuplicates(q)
  BY <1>1 DEF NoDuplicates
<1>3. \A u \in Timers : Has(q, u) <=> Has(pending, u) /\ u # pending[Len(pending)]
  <2> SUFFICES ASSUME NEW u \in Timers
               PROVE  Has(q, u) <=> Has(pending, u) /\ u # pending[Len(pending)]
    OBVIOUS
  <2>1. u # None
    BY NamesDiffer
  <2>2. ASSUME NEW i \in 1..(Len(pending) - 1), q[i] = u
        PROVE  Has(pending, u) /\ u # pending[Len(pending)]
    <3>1. pending[i] = u /\ i \in DOMAIN pending /\ Len(pending) \in DOMAIN pending
          /\ i # Len(pending)
      <4> DEFINE n == Len(pending)
      <4>1. n \in Nat \ {0} /\ i \in 1..(n - 1)
        BY <1>1
      <4> HIDE DEF n
      <4>2. i \in 1..n /\ n \in 1..n /\ i # n
        BY <4>1
      <4> QED BY <1>1, <2>2, <4>2 DEF n
    <3>2. Has(pending, u)
      BY <3>1 DEF Has
    <3>3. pending[i] = pending[Len(pending)] => pending[i] = None
      BY <3>1 DEF NoDuplicates
    <3> QED BY <2>1, <3>1, <3>2, <3>3
  <2>3. ASSUME NEW i \in 1..Len(pending), pending[i] = u, u # pending[Len(pending)]
        PROVE  Has(q, u)
    <3>1. i \in 1..(Len(pending) - 1)
      BY <1>1, <2>3
    <3> QED BY <1>1, <2>3, <3>1 DEF Has
  <2> QED BY <1>1, <2>2, <2>3 DEF Has
<1> QED BY <1>1, <1>2, <1>3 DEF Has

-----------------------------------------------------------------------------
(* The invariant.                                                          *)

\* The invariant in terms of Has and NoDuplicates.
IParts ==
  /\ TypeOK
  /\ \A t \in Timers : t \in heap \/ Has(pending, t) => obj[t] = "live"
  /\ NoDuplicates(pending)
  /\ \A t \in Timers : repeat[t] = 0 =>
       expiries[t] <= 1 /\ (expiries[t] = 1 => t \notin heap)
  /\ \A t \in heap : earliest[t] <= at[t]
  /\ phase = "ended" => unlooped \/ (heap = {} /\ \A t \in Timers : ~Has(pending, t))
  /\ phase = "top" => pending = <<>>
  /\ current # None => phase \in {"call", "exit"}
  /\ \A t \in Timers : obj[t] = "none" => expiries[t] = 0
  /\ \A t \in Timers : obj[t] = "live" /\ repeat[t] > 0 => t \in heap

\* It is the invariant, in this state
LEMMA Parts == IInv <=> IParts
  BY DEF IInv, NoDangling, FiresOnce, NeverEarly, LoopWaitsForTimers,
         NothingPendingAtTop, CallsInLoop, FreshTimers, RepeatersStay, IsPending,
         Has, NoDuplicates, IParts

\* and in the next.
LEMMA PartsNext == IInv' <=> IParts'
  BY DEF IInv, NoDangling, FiresOnce, NeverEarly, LoopWaitsForTimers,
         NothingPendingAtTop, CallsInLoop, FreshTimers, RepeatersStay, IsPending,
         Has, NoDuplicates, IParts

\* The sequence of pending events is one that Feed, Clears and Takes accept.
LEMMA PendingType == IInv => pending \in Seq(Events) /\ NoDuplicates(pending)
  BY Parts DEF TypeOK, Events, IParts

\* Nothing exists before the script runs.
LEMMA InitInv == Init => IInv
<1> SUFFICES ASSUME Init PROVE IInv
  OBVIOUS
<1>1. /\ now \in 0..MaxTime /\ mn_now \in 0..now
      /\ at \in [Timers -> Nat] /\ repeat \in [Timers -> Nat]
      /\ earliest \in [Timers -> Nat] /\ expiries \in [Timers -> Nat]
  BY MaxTimeIsNat DEF Init
<1>2. /\ obj \in [Timers -> {"none", "live", "deleted"}]
      /\ pending \in Seq(Timers \cup {None, Other}) /\ phase \in Phases
      /\ heap \subseteq Timers /\ current \in Timers \cup {None, Other}
  BY DEF Init, Phases
<1>3. isFunction \in [Timers -> BOOLEAN] /\ io \in BOOLEAN /\ unlooped \in BOOLEAN
      /\ corrupt \in BOOLEAN
  BY DEF Init
<1>4. TypeOK
  BY <1>1, <1>2, <1>3 DEF TypeOK
<1>5. \A t \in Timers : ~Has(pending, t) /\ expiries[t] = 0 /\ repeat[t] = 0
  BY DEF Init, Has
<1>6. NoDuplicates(pending)
  BY DEF Init, NoDuplicates
<1> QED BY <1>4, <1>5, <1>6, Parts DEF Init, IParts

\* A new timer is active, and fed to nobody.
LEMMA NewStep ==
  ASSUME IInv, NEW t \in Timers, NEW d \in Nat, NEW r \in Nat, NEW f \in BOOLEAN,
         New(t, d, r, f)
  PROVE  IInv'
<1>1. /\ obj[t] = "none" /\ obj' = [obj EXCEPT ![t] = "live"]
      /\ at' = [at EXCEPT ![t] = mn_now + d]
      /\ repeat' = [repeat EXCEPT ![t] = r]
      /\ isFunction' = [isFunction EXCEPT ![t] = f]
      /\ heap' = heap \cup {t}
      /\ earliest' = [earliest EXCEPT ![t] = mn_now + d]
      /\ UNCHANGED <<now, mn_now, pending, phase, current, io, unlooped, corrupt, expiries>>
      /\ phase = "call" /\ current # None
  BY DEF New, InJS, clock
<1>2. TypeOK /\ mn_now + d \in Nat
  BY DEF IInv, TypeOK
<1>3. TypeOK'
  <2>1. at' \in [Timers -> Nat] /\ repeat' \in [Timers -> Nat]
        /\ earliest' \in [Timers -> Nat]
    BY <1>1, <1>2 DEF TypeOK
  <2>2. obj' \in [Timers -> {"none", "live", "deleted"}] /\ heap' \subseteq Timers
    BY <1>1, <1>2 DEF TypeOK
  <2>3. isFunction' \in [Timers -> BOOLEAN]
    BY <1>1, <1>2 DEF TypeOK
  <2> QED BY <1>1, <1>2, <2>1, <2>2, <2>3 DEF TypeOK
<1>4. \A u \in Timers :
        /\ obj'[u] = IF u = t THEN "live" ELSE obj[u]
        /\ at'[u] = IF u = t THEN mn_now + d ELSE at[u]
        /\ earliest'[u] = IF u = t THEN mn_now + d ELSE earliest[u]
        /\ repeat'[u] = IF u = t THEN r ELSE repeat[u]
  BY <1>1, <1>2 DEF TypeOK
<1>5. expiries[t] = 0 /\ phase # "ended"
  BY <1>1, Parts DEF IParts
<1>6. \A u \in Timers : repeat'[u] = 0 =>
        expiries[u] <= 1 /\ (expiries[u] = 1 => u \notin heap')
  BY <1>1, <1>4, <1>5, Parts DEF IParts
<1>7. \A u \in heap' : earliest'[u] <= at'[u]
  <2>1. heap \subseteq Timers
    BY <1>2 DEF TypeOK
  <2> QED BY <1>1, <1>2, <1>4, <2>1, Parts DEF IParts
<1>8. \A u \in Timers : /\ u \in heap' \/ Has(pending, u) => obj'[u] = "live"
                        /\ obj'[u] = "none" => expiries[u] = 0
                        /\ obj'[u] = "live" /\ repeat'[u] > 0 => u \in heap'
  BY <1>1, <1>4, Parts DEF IParts
<1> QED BY <1>1, <1>3, <1>5, <1>6, <1>7, <1>8, Parts, PartsNext DEF Has, IParts

\* ~Timer, from clearTimeout or at the end of OnTimeout.
LEMMA DeleteStep ==
  ASSUME IInv, NEW t \in Timers, obj[t] = "live", phase # "ended",
         obj' = [obj EXCEPT ![t] = "deleted"],
         heap' = heap \ {t},
         pending' = ClearPending(t),
         current' \in {current, None},
         unlooped' \in BOOLEAN, unlooped => unlooped',
         UNCHANGED <<clock, at, repeat, earliest, expiries, isFunction, phase, io, corrupt>>
  PROVE  IInv'
<1>1. UNCHANGED <<now, mn_now, at, repeat, earliest, expiries, isFunction, phase, io, corrupt>>
  BY DEF clock
<1>2. TypeOK /\ pending \in Seq(Events) /\ NoDuplicates(pending)
  BY PendingType DEF IInv
<1>3. /\ pending' \in Seq(Events) /\ NoDuplicates(pending')
      /\ Len(pending') = Len(pending)
      /\ \A u \in Timers : Has(pending', u) <=> Has(pending, u) /\ u # t
  BY <1>2, Clears
<1>4. \A u \in Timers : obj'[u] = IF u = t THEN "deleted" ELSE obj[u]
  BY <1>2 DEF TypeOK
<1>5. TypeOK'
  <2>1. obj' \in [Timers -> {"none", "live", "deleted"}] /\ heap' \subseteq Timers
        /\ pending' \in Seq(Timers \cup {None, Other})
        /\ current' \in Timers \cup {None, Other}
    BY <1>2, <1>3 DEF TypeOK, Events
  <2> QED BY <1>1, <1>2, <2>1 DEF TypeOK
<1>6. pending = <<>> => pending' = <<>>
  BY <1>2, <1>3
<1>7. \A u \in Timers : /\ u \in heap' \/ Has(pending', u) => obj'[u] = "live"
                        /\ obj'[u] = "none" => expiries[u] = 0
                        /\ obj'[u] = "live" /\ repeat[u] > 0 => u \in heap'
  BY <1>3, <1>4, Parts DEF IParts
<1> QED BY <1>1, <1>3, <1>5, <1>6, <1>7, Parts, PartsNext DEF IParts

\* An expiry feeds the event of a live timer.
LEMMA ExpireStep ==
  ASSUME IInv, NEW t \in Timers, Expire(t)
  PROVE  IInv'
<1>1. /\ phase = "reify" /\ t \in heap
      /\ expiries' = [expiries EXCEPT ![t] = @ + 1]
      /\ earliest' = [earliest EXCEPT ![t] = @ + repeat[t]]
      /\ at' = [at EXCEPT ![t] = IF repeat[t] > 0 THEN Latest(@ + repeat[t], mn_now) ELSE @]
      /\ heap' = IF repeat[t] > 0 THEN heap ELSE heap \ {t}
      /\ pending' = FeedEvent(t)
      /\ UNCHANGED <<now, mn_now, obj, repeat, isFunction, phase, current, io, unlooped, corrupt>>
  BY DEF Expire, Due, clock
<1>2. TypeOK /\ pending \in Seq(Events) /\ NoDuplicates(pending)
  BY PendingType DEF IInv
<1>3. /\ pending' \in Seq(Events) /\ NoDuplicates(pending')
      /\ \A u \in Timers : Has(pending', u) <=> Has(pending, u) \/ u = t
  BY <1>1, <1>2, Feed
<1>4. /\ repeat[t] \in Nat /\ at[t] \in Nat /\ earliest[t] \in Nat /\ expiries[t] \in Nat
      /\ mn_now \in Nat
  BY <1>2 DEF TypeOK
<1>5. \A u \in Timers :
        /\ expiries'[u] = IF u = t THEN expiries[t] + 1 ELSE expiries[u]
        /\ earliest'[u] = IF u = t THEN earliest[t] + repeat[t] ELSE earliest[u]
        /\ u # t => at'[u] = at[u]
        /\ u = t /\ repeat[t] > 0 => at'[u] >= at[t] + repeat[t]
  BY <1>1, <1>2, <1>4 DEF TypeOK, Latest
<1>6. TypeOK'
  <2>1. at' \in [Timers -> Nat] /\ earliest' \in [Timers -> Nat]
        /\ expiries' \in [Timers -> Nat]
    <3>1. Latest(at[t] + repeat[t], mn_now) \in Nat
      BY <1>4 DEF Latest
    <3>2. at' \in [Timers -> Nat]
      BY <1>1, <1>2, <1>4, <3>1 DEF TypeOK
    <3>3. earliest' \in [Timers -> Nat]
      BY <1>1, <1>2, <1>4 DEF TypeOK
    <3>4. expiries' \in [Timers -> Nat]
      BY <1>1, <1>2, <1>4 DEF TypeOK
    <3> QED BY <3>2, <3>3, <3>4
  <2>2. heap' \subseteq Timers /\ pending' \in Seq(Timers \cup {None, Other})
    BY <1>1, <1>2, <1>3 DEF TypeOK, Events
  <2> QED BY <1>1, <1>2, <2>1, <2>2 DEF TypeOK
<1>7. \A u \in Timers : repeat[u] = 0 =>
        expiries'[u] <= 1 /\ (expiries'[u] = 1 => u \notin heap')
  <2> SUFFICES ASSUME NEW u \in Timers, repeat[u] = 0
               PROVE  expiries'[u] <= 1 /\ (expiries'[u] = 1 => u \notin heap')
    OBVIOUS
  <2>1. CASE u = t
    <3>1. expiries[t] = 0
      BY <1>1, <1>4, <2>1, Parts DEF IParts
    <3> QED BY <1>1, <1>5, <2>1, <3>1
  <2>2. CASE u # t
    BY <1>1, <1>5, <2>2, Parts DEF IParts
  <2> QED BY <2>1, <2>2
<1>8. \A u \in heap' : earliest'[u] <= at'[u]
  <2> SUFFICES ASSUME NEW u \in heap' PROVE earliest'[u] <= at'[u]
    OBVIOUS
  <2>1. u \in heap /\ u \in Timers /\ earliest[u] <= at[u]
    BY <1>1, <1>2, Parts DEF TypeOK, IParts
  <2>2. CASE u # t
    BY <1>5, <2>1, <2>2
  <2>3. CASE u = t
    <3>1. repeat[t] > 0
      BY <1>1, <2>3
    <3>2. at'[t] \in Nat
      BY <1>6 DEF TypeOK
    <3> QED BY <1>4, <1>5, <2>1, <2>3, <3>1, <3>2
  <2> QED BY <2>2, <2>3
<1>9. \A u \in Timers : /\ u \in heap' \/ Has(pending', u) => obj[u] = "live"
                        /\ obj[u] = "none" => expiries'[u] = 0
                        /\ obj[u] = "live" /\ repeat[u] > 0 => u \in heap'
  BY <1>1, <1>3, <1>5, Parts DEF IParts
<1> QED BY <1>1, <1>3, <1>6, <1>7, <1>8, <1>9, Parts, PartsNext DEF IParts

\* call_pending takes an event away; nothing becomes pending.
LEMMA InvokeStep ==
  ASSUME IInv, Invoke
  PROVE  /\ IInv'
         /\ \A t \in Timers : current' = t => obj[t] = "live"
         /\ \A t \in Timers : Has(pending, t) /\ ~Has(pending', t) =>
              current' = t \/ ~isFunction[t]
<1> DEFINE e == pending[Len(pending)]
<1>1. /\ phase = "call" /\ current = None /\ pending # <<>>
      /\ current' = IF e = Other \/ (e # None /\ isFunction[e]) THEN e ELSE None
      /\ pending' = SubSeq(pending, 1, Len(pending) - 1)
      /\ UNCHANGED <<now, mn_now, obj, at, repeat, heap, earliest, expiries, isFunction,
                     phase, io, unlooped, corrupt>>
  BY DEF Invoke, clock, timer
<1>2. TypeOK /\ pending \in Seq(Events) /\ NoDuplicates(pending)
  BY PendingType DEF IInv
<1>3. /\ pending' \in Seq(Events) /\ NoDuplicates(pending')
      /\ e \in Events /\ Has(pending, e)
      /\ \A u \in Timers : Has(pending', u) <=> Has(pending, u) /\ u # e
  BY <1>1, <1>2, Takes
<1> HIDE DEF e
<1>4. current' \in {e, None} /\ current' \in Timers \cup {None, Other}
  BY <1>1, <1>3 DEF Events
<1>5. TypeOK'
  <2>1. pending' \in Seq(Timers \cup {None, Other})
    BY <1>3 DEF Events
  <2> QED BY <1>1, <1>2, <1>4, <2>1 DEF TypeOK
<1>6. \A u \in Timers : u \in heap \/ Has(pending', u) => obj[u] = "live"
  BY <1>3, Parts DEF IParts
<1>7. IInv'
  BY <1>1, <1>3, <1>5, <1>6, Parts, PartsNext DEF IParts
<1>8. \A t \in Timers : current' = t => obj[t] = "live"
  BY <1>3, <1>4, NamesDiffer, Parts DEF IParts
<1>9. \A t \in Timers : Has(pending, t) /\ ~Has(pending', t) =>
        current' = t \/ ~isFunction[t]
  BY <1>1, <1>3, NamesDiffer
<1> QED BY <1>7, <1>8, <1>9

\* Steps of the loop that may feed the event of another watcher.
LEMMA LoopStep ==
  ASSUME IInv, Poll \/ ReifyDone
  PROVE  IInv' /\ UNCHANGED <<heap, obj, current>>
         /\ \A u \in Timers : Has(pending', u) <=> Has(pending, u)
<1>0. TypeOK /\ pending \in Seq(Events) /\ NoDuplicates(pending)
  BY PendingType DEF IInv
<1>1. /\ UNCHANGED <<now, obj, at, repeat, heap, earliest, expiries, isFunction,
                     current, io, unlooped, corrupt>>
      /\ pending' = pending \/ (pending' = FeedEvent(Other) /\ phase' \in {"reify", "call"})
      /\ mn_now' \in {mn_now, now}
      /\ \/ phase = "top" /\ phase' = "ended" /\ heap = {} /\ pending' = pending
         \/ phase = "top" /\ phase' = "reify"
         \/ phase = "reify" /\ phase' = "call"
  <2>1. CASE Poll /\ heap = {} /\ ~io
    BY <2>1 DEF Poll, clock, timer
  <2>2. CASE Poll /\ ~(heap = {} /\ ~io)
    BY <2>2 DEF Poll, clock, timer
  <2>3. CASE ReifyDone
    BY <2>3 DEF ReifyDone, clock, timer
  <2> QED BY <2>1, <2>2, <2>3
<1>2. /\ pending' \in Seq(Events) /\ NoDuplicates(pending')
      /\ \A u \in Timers : Has(pending', u) <=> Has(pending, u)
  <2>1. CASE pending' = pending
    BY <1>0, <2>1
  <2>2. CASE pending' = FeedEvent(Other)
    BY <1>0, <2>2, Feed, NamesDiffer
  <2> QED BY <1>1, <2>1, <2>2
<1>3. TypeOK'
  <2>1. mn_now' \in 0..now /\ phase' \in Phases
    BY <1>0, <1>1 DEF TypeOK, Phases
  <2>2. pending' \in Seq(Timers \cup {None, Other})
    BY <1>2 DEF Events
  <2> QED BY <1>0, <1>1, <2>1, <2>2 DEF TypeOK
<1>4. phase = "top" => current = None /\ pending = <<>>
  BY Parts DEF IParts
<1>5. phase = "reify" => current = None
  BY Parts DEF IParts
<1>6. \A u \in Timers : u \in heap \/ Has(pending', u) => obj[u] = "live"
  BY <1>2, Parts DEF IParts
<1>7. phase' = "ended" => heap = {} /\ \A u \in Timers : ~Has(pending', u)
  BY <1>1, <1>2, <1>4 DEF Has
<1>8. phase' # "top" /\ current = None
  BY <1>1, <1>4, <1>5
<1>9. IInv'
  BY <1>1, <1>2, <1>3, <1>6, <1>7, <1>8, Parts, PartsNext DEF IParts
<1> QED BY <1>1, <1>2, <1>9

\* Steps that touch neither a watcher nor an event.
LEMMA QuietStep ==
  ASSUME IInv,
         UNCHANGED <<mn_now, timer, pending, io>>,
         now' \in now..MaxTime, isFunction' \in [Timers -> BOOLEAN],
         phase' \in Phases, unlooped' \in BOOLEAN, corrupt' \in BOOLEAN,
         current' \in {current, None},
         \/ phase' = phase /\ (unlooped => unlooped')
         \/ phase = "call" /\ phase' = "exit"
         \/ /\ phase = "call" /\ current = None /\ pending = <<>>
            /\ phase' \in {"top", "ended"} /\ unlooped' = unlooped
            /\ phase' = "ended" => unlooped \/ heap = {}
  PROVE  IInv'
<1>1. /\ TypeOK
      /\ UNCHANGED <<mn_now, obj, at, repeat, heap, earliest, expiries, pending, io>>
  BY DEF IInv, timer
<1>2. TypeOK'
  <2>1. now' \in 0..MaxTime /\ mn_now \in 0..now'
    BY <1>1 DEF TypeOK
  <2>2. current' \in Timers \cup {None, Other}
    BY <1>1 DEF TypeOK
  <2> QED BY <1>1, <2>1, <2>2 DEF TypeOK
<1>3. pending = <<>> => \A u \in Timers : ~Has(pending, u)
  BY DEF Has
<1>5. phase' = "ended" => unlooped' \/ (heap = {} /\ \A u \in Timers : ~Has(pending, u))
  BY <1>3, Parts DEF IParts
<1>6. phase' = "top" => pending = <<>>
  BY Parts DEF IParts
<1>7. current' # None => phase' \in {"call", "exit"}
  BY Parts DEF IParts
<1> QED BY <1>1, <1>2, <1>5, <1>6, <1>7, Parts, PartsNext DEF IParts

\* The other steps of Next.
Quiet ==
  \/ \E t \in Timers : ClearAgain(t) \/ Assign(t)
  \/ ProcessExit \/ Tick \/ CallDone
  \/ UNCHANGED vars

\* They are quiet ones.
LEMMA OtherStep ==
  ASSUME IInv, Quiet
  PROVE  IInv' /\ UNCHANGED <<heap, pending, obj, current>>
<1>0. /\ TypeOK /\ now \in Nat /\ now <= MaxTime /\ isFunction \in [Timers -> BOOLEAN]
      /\ phase \in Phases /\ unlooped \in BOOLEAN /\ corrupt \in BOOLEAN
  BY MaxTimeIsNat DEF IInv, TypeOK
<1>1. CASE \E t \in Timers : ClearAgain(t)
  <2>1. /\ UNCHANGED <<now, mn_now, timer, pending, io, isFunction, phase, unlooped, current>>
        /\ corrupt' = TRUE
    BY <1>1 DEF ClearAgain, clock
  <2>2. now' \in now..MaxTime
    BY <1>0, <2>1, MaxTimeIsNat
  <2> QED BY <1>0, <2>1, <2>2, QuietStep DEF timer
<1>2. CASE \E t \in Timers : Assign(t)
  <2>1. /\ UNCHANGED <<now, mn_now, timer, pending, io, corrupt, phase, unlooped, current>>
        /\ \E t \in Timers : isFunction' = [isFunction EXCEPT ![t] = ~@]
    BY <1>2 DEF Assign, clock
  <2>2. now' \in now..MaxTime
    BY <1>0, <2>1, MaxTimeIsNat
  <2>3. isFunction' \in [Timers -> BOOLEAN]
    BY <1>0, <2>1
  <2> QED BY <1>0, <2>1, <2>2, <2>3, QuietStep DEF timer
<1>3. CASE ProcessExit
  <2>1. /\ UNCHANGED <<now, mn_now, timer, pending, io, isFunction, corrupt, unlooped, current>>
        /\ phase = "call" /\ phase' = "exit"
    BY <1>3 DEF ProcessExit, InJS, clock
  <2>2. now' \in now..MaxTime /\ phase' \in Phases
    BY <1>0, <2>1, MaxTimeIsNat DEF Phases
  <2> QED BY <1>0, <2>1, <2>2, QuietStep DEF timer
<1>7. CASE Tick
  <2>1. /\ UNCHANGED <<mn_now, timer, pending, io, isFunction, corrupt, phase, unlooped, current>>
        /\ now < MaxTime /\ now' = now + 1
    BY <1>7 DEF Tick
  <2>2. now' \in now..MaxTime
    BY <1>0, <2>1, MaxTimeIsNat
  <2> QED BY <1>0, <2>1, <2>2, QuietStep DEF timer
<1>5. CASE CallDone
  <2>1. /\ UNCHANGED <<now, mn_now, timer, pending, io, isFunction, corrupt, unlooped, current>>
        /\ phase = "call" /\ current = None /\ pending = <<>>
    BY <1>5 DEF CallDone, clock
  <2>2. phase' \in {"top", "ended"} /\ (phase' = "ended" => unlooped \/ heap = {})
    BY <1>5 DEF CallDone
  <2>3. now' \in now..MaxTime /\ phase' \in Phases
    BY <1>0, <2>1, <2>2, MaxTimeIsNat DEF Phases
  <2> QED BY <1>0, <2>1, <2>2, <2>3, QuietStep DEF timer
<1>6. CASE UNCHANGED vars
  <2>1. UNCHANGED <<now, mn_now, timer, pending, io, isFunction, corrupt, phase,
                    unlooped, current>>
    BY <1>6 DEF vars, clock
  <2>2. now' \in now..MaxTime
    BY <1>0, <2>1, MaxTimeIsNat
  <2> QED BY <1>0, <2>1, <2>2, QuietStep DEF timer
<1> QED BY <1>1, <1>2, <1>3, <1>5, <1>6, <1>7 DEF Quiet

\* Stopping the other watchers clears their event and touches no timer.
LEMMA OthersStep ==
  ASSUME IInv, Others
  PROVE  IInv' /\ UNCHANGED <<heap, obj, current>>
         /\ \A u \in Timers : Has(pending', u) <=> Has(pending, u)
<1>0. TypeOK /\ pending \in Seq(Events) /\ NoDuplicates(pending)
  BY PendingType DEF IInv
<1>1. /\ UNCHANGED <<now, mn_now, obj, at, repeat, heap, earliest, expiries, isFunction,
                     phase, current, unlooped, corrupt>>
      /\ pending' = pending \/ pending' = ClearPending(Other)
      /\ io' \in BOOLEAN /\ phase = "call"
  BY <1>0 DEF Others, InJS, clock, timer, TypeOK
<1>2. /\ pending' \in Seq(Events) /\ NoDuplicates(pending')
      /\ \A u \in Timers : Has(pending', u) <=> Has(pending, u)
  <2>1. CASE pending' = pending
    BY <1>0, <2>1
  <2>2. CASE pending' = ClearPending(Other)
    BY <1>0, <2>2, Clears, NamesDiffer
  <2> QED BY <1>1, <2>1, <2>2
<1>3. TypeOK'
  <2>1. pending' \in Seq(Timers \cup {None, Other})
    BY <1>2 DEF Events
  <2> QED BY <1>0, <1>1, <2>1 DEF TypeOK
<1>4. \A u \in Timers : u \in heap \/ Has(pending', u) => obj[u] = "live"
  BY <1>2, Parts DEF IParts
<1>5. IInv'
  BY <1>1, <1>2, <1>3, <1>4, Parts, PartsNext DEF IParts
<1> QED BY <1>1, <1>2, <1>5

\* JavaScript returns to OnTimeout, or to another watcher's callback.
LEMMA ReturnStep ==
  ASSUME IInv, NEW thrown \in BOOLEAN, Return(thrown)
  PROVE  /\ IInv' /\ current' = None
         /\ \A t \in Timers : (t \in heap \/ Has(pending, t)) /\ obj'[t] = "live" =>
              t \in heap' \/ Has(pending', t)
         /\ \A t \in Timers : current = t /\ obj'[t] = "live" => t \in heap'
         /\ \A t \in Timers : obj[t] = "deleted" => obj'[t] = "deleted"
<1>0. /\ TypeOK /\ pending \in Seq(Events) /\ NoDuplicates(pending)
      /\ current \in Timers \cup {Other} /\ current # None /\ phase # "ended"
      /\ now \in Nat /\ now <= MaxTime
  <2>1. current # None /\ phase = "call"
    BY DEF Return, InJS
  <2>2. TypeOK /\ NoDuplicates(pending)
    BY Parts DEF IParts
  <2>3. now \in Nat /\ now <= MaxTime /\ current \in Timers \cup {Other}
    BY <2>1, <2>2, MaxTimeIsNat DEF TypeOK
  <2> QED BY <2>1, <2>2, <2>3, PendingType
<1>1. /\ unlooped' = (unlooped \/ thrown) /\ current' = None
      /\ UNCHANGED <<clock, at, repeat, earliest, expiries, isFunction, phase, io>>
  BY DEF Return
<1>2. unlooped' \in BOOLEAN /\ (unlooped => unlooped')
  BY <1>1
<1>3. CASE current = Other \/ (obj[current] = "live" /\ repeat[current] > 0)
  <2>1. UNCHANGED <<obj, heap, pending, corrupt>>
    BY <1>3 DEF Return
  <2>2. /\ now' \in now..MaxTime /\ isFunction' \in [Timers -> BOOLEAN]
        /\ phase' \in Phases /\ corrupt' \in BOOLEAN
    BY <1>0, <1>1, <2>1, MaxTimeIsNat DEF TypeOK, clock
  <2>3. IInv'
    BY <1>0, <1>1, <1>2, <2>1, <2>2, QuietStep DEF timer, clock
  <2>4. \A t \in Timers : current = t /\ obj'[t] = "live" => t \in heap'
    BY <1>3, <2>1, NamesDiffer, Parts DEF IParts
  <2> QED BY <1>1, <2>1, <2>3, <2>4
<1>4. CASE current # Other /\ obj[current] = "live" /\ ~(repeat[current] > 0)
  <2>1. /\ obj' = [obj EXCEPT ![current] = "deleted"]
        /\ heap' = heap \ {current} /\ pending' = ClearPending(current)
        /\ corrupt' = corrupt /\ current \in Timers
    BY <1>0, <1>4 DEF Return
  <2>2. IInv'
    BY <1>0, <1>1, <1>2, <1>4, <2>1, DeleteStep
  <2>3. \A t \in Timers : obj'[t] = IF t = current THEN "deleted" ELSE obj[t]
    BY <1>0, <2>1 DEF TypeOK
  <2>4. \A t \in Timers : Has(pending', t) <=> Has(pending, t) /\ t # current
    BY <1>0, <2>1, Clears
  <2> QED BY <1>1, <2>1, <2>2, <2>3, <2>4
<1>5. CASE current # Other /\ obj[current] # "live"
  <2>1. UNCHANGED <<obj, heap, pending>> /\ corrupt' \in BOOLEAN /\ current \in Timers
    BY <1>0, <1>5 DEF Return
  <2>2. /\ now' \in now..MaxTime /\ isFunction' \in [Timers -> BOOLEAN]
        /\ phase' \in Phases
    BY <1>0, <1>1, <2>1, MaxTimeIsNat DEF TypeOK, clock
  <2>3. IInv'
    BY <1>0, <1>1, <1>2, <2>1, <2>2, QuietStep DEF timer, clock
  <2> QED BY <1>1, <1>5, <2>1, <2>3
<1> QED BY <1>3, <1>4, <1>5

\* clearTimeout removes its timer from everywhere, and no other.
LEMMA ClearStep ==
  ASSUME IInv, NEW t \in Timers, Clear(t)
  PROVE  /\ IInv' /\ current' = current
         /\ \A u \in Timers : obj'[u] = IF u = t THEN "deleted" ELSE obj[u]
         /\ \A u \in Timers : u # t => /\ u \in heap' <=> u \in heap
                                       /\ Has(pending', u) <=> Has(pending, u)
<1>1. /\ obj[t] = "live" /\ obj' = [obj EXCEPT ![t] = "deleted"]
      /\ heap' = heap \ {t} /\ pending' = ClearPending(t)
      /\ UNCHANGED <<clock, at, repeat, earliest, expiries, isFunction, phase, current,
                     io, unlooped, corrupt>>
      /\ phase # "ended"
  BY Parts DEF Clear, InJS, IParts
<1>2. TypeOK /\ pending \in Seq(Events) /\ NoDuplicates(pending) /\ unlooped \in BOOLEAN
  BY PendingType DEF IInv, TypeOK
<1>3. IInv'
  BY <1>1, <1>2, DeleteStep
<1>4. \A u \in Timers : obj'[u] = IF u = t THEN "deleted" ELSE obj[u]
  BY <1>1, <1>2 DEF TypeOK
<1>5. \A u \in Timers : Has(pending', u) <=> Has(pending, u) /\ u # t
  BY <1>1, <1>2, Clears
<1> QED BY <1>1, <1>3, <1>4, <1>5

\* What one step of Next may do to a timer, besides keeping the invariant: the
\* callback it starts is that of a live timer, and a live timer that is active,
\* pending or running remains one of these, unless its callback is no function.
StartsLive == \A t \in Timers : obj[t] = "deleted" /\ current # t => current' # t

LosesNone ==
  \A t \in Timers :
    /\ (t \in heap \/ IsPending(t) \/ current = t) /\ obj[t] = "live"
    /\ ~(t \in heap' \/ IsPending(t)' \/ current' = t) /\ obj'[t] = "live"
    => ~isFunction[t]

\* Every step has the three effects.
LEMMA NextStep == IInv /\ [Next]_vars => IInv' /\ StartsLive /\ LosesNone
<1> SUFFICES ASSUME IInv, [Next]_vars PROVE IInv' /\ StartsLive /\ LosesNone
  OBVIOUS
<1> USE DEF IsPending, Has
<1>1. ASSUME NEW t \in Timers, NEW d \in Delays, NEW f \in BOOLEAN,
             SetTimeout(t, d, f) \/ SetInterval(t, d, f)
      PROVE  IInv' /\ StartsLive /\ LosesNone
  <2>1. PICK r \in Nat : New(t, d, r, f) /\ d \in Nat
    BY <1>1, DelaysAreNat DEF SetTimeout, SetInterval
  <2>2. IInv'
    BY <2>1, NewStep
  <2>3. heap' = heap \cup {t} /\ pending' = pending /\ current' = current
    BY <2>1 DEF New
  <2> QED BY <2>2, <2>3 DEF StartsLive, LosesNone
<1>2. ASSUME NEW t \in Timers, Clear(t)
      PROVE  IInv' /\ StartsLive /\ LosesNone
  BY <1>2, ClearStep DEF StartsLive, LosesNone
<1>3. ASSUME NEW t \in Timers, Expire(t)
      PROVE  IInv' /\ StartsLive /\ LosesNone
  <2>1. IInv'
    BY <1>3, ExpireStep
  <2>2. /\ current' = current /\ heap \ {t} \subseteq heap' /\ pending' = FeedEvent(t)
    BY <1>3 DEF Expire
  <2>3. \A u \in Timers : Has(pending', u) <=> Has(pending, u) \/ u = t
    BY <2>2, PendingType, Feed
  <2> QED BY <2>1, <2>2, <2>3 DEF StartsLive, LosesNone
<1>4. CASE Invoke
  <2>1. heap' = heap /\ obj' = obj /\ current = None
    BY <1>4 DEF Invoke, timer
  <2> QED BY <1>4, <2>1, InvokeStep, NamesDiffer DEF StartsLive, LosesNone
<1>5. CASE Poll \/ ReifyDone
  BY <1>5, LoopStep DEF StartsLive, LosesNone
<1>8. CASE Others
  BY <1>8, OthersStep DEF StartsLive, LosesNone
<1>6. ASSUME NEW thrown \in BOOLEAN, Return(thrown)
      PROVE  IInv' /\ StartsLive /\ LosesNone
  BY <1>6, ReturnStep, NamesDiffer DEF StartsLive, LosesNone
<1>7. CASE Quiet
  BY <1>7, OtherStep DEF StartsLive, LosesNone
<1> QED BY <1>1, <1>2, <1>3, <1>4, <1>5, <1>6, <1>7, <1>8 DEF Next, Quiet

-----------------------------------------------------------------------------
(* The theorems.                                                           *)

\* The invariant holds in every reachable state.
THEOREM Inductive == Spec => []IInv
<1>1. Init => IInv
  BY InitInv
<1>2. IInv /\ [Next]_vars => IInv'
  BY NextStep
<1> QED BY <1>1, <1>2, PTL DEF Spec

\* The state of timers.cc and of the loop has its type.
THEOREM TypeCorrect == Spec => []TypeOK
<1>1. IInv => TypeOK
  BY DEF IInv
<1> QED BY <1>1, Inductive, PTL

\* libev never holds the watcher of a deleted Timer.
THEOREM WatchersAreAlive == Spec => []NoDangling
<1>1. IInv => NoDangling
  BY DEF IInv
<1> QED BY <1>1, Inductive, PTL

\* A timer of setTimeout fires at most once, and no timer before its time.
THEOREM FiresInTime == Spec => [](FiresOnce /\ NeverEarly)
<1>1. IInv => FiresOnce /\ NeverEarly
  BY DEF IInv
<1> QED BY <1>1, Inductive, PTL

\* The loop ends by itself only when no timer has to run.
THEOREM LoopWaits == Spec => []LoopWaitsForTimers
<1>1. IInv => LoopWaitsForTimers
  BY DEF IInv
<1> QED BY <1>1, Inductive, PTL

\* A cleared timer starts no callback (test-setTimeout.js 14-16), though its event
\* may be pending when another timer's callback clears it.
THEOREM ClearedIsSilent == Spec => ClearedNeverFires
<1>1. IInv /\ [Next]_vars => [StartsLive]_vars
  BY NextStep
<1>2. [][StartsLive]_vars => ClearedNeverFires
  BY PTL DEF StartsLive, ClearedNeverFires
<1> QED BY <1>1, <1>2, Inductive, PTL DEF Spec

\* No timer is forgotten while its callback is a function.
THEOREM NoneIsLost == Spec => LostOnlyWithoutFunction
<1>1. IInv /\ [Next]_vars => [LosesNone]_vars
  BY NextStep
<1>2. [][LosesNone]_vars => LostOnlyWithoutFunction
  BY PTL DEF LosesNone, LostOnlyWithoutFunction
<1> QED BY <1>1, <1>2, Inductive, PTL DEF Spec
=============================================================================
