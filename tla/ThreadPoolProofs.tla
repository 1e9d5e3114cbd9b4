-------------------------- MODULE ThreadPoolProofs --------------------------
(***************************************************************************)
(* For every finite set of requests, every pool of threads and every bound *)
(* on the other watchers and on idle waits: the safety properties of       *)
(* ThreadPool, and that it implements AsyncRequests.                       *)
(***************************************************************************)
EXTENDS ThreadPool, FiniteSetTheorems, TLAPS

(* One lemma for each part of the invariant: every step preserves it.      *)

\* Every action leaves every variable in its type.
LEMMA TypeStep == IInv /\ [Next]_vars => TypeOK'
<1> SUFFICES ASSUME IInv, [Next]_vars PROVE TypeOK'
  OBVIOUS
<1> USE NoneOutside, BoundsAreNat
<1> USE DEF mainVars, reqVars, resVars, asyncVars, workVars
<1>1. CASE JS
  <2>1. ASSUME NEW r \in Reqs, Submit(r) PROVE TypeOK'
    BY <2>1 DEF IInv, TypeOK, Submit, Signal, MainPCs, WorkerPCs, Waiting
  <2>2. CASE StartOther
    BY <2>2 DEF IInv, TypeOK, StartOther
  <2>3. CASE Unloop
    BY <2>3 DEF IInv, TypeOK, Unloop
  <2>4. CASE ProcessExit
    BY <2>4 DEF IInv, TypeOK, ProcessExit, MainPCs
  <2> QED BY <1>1, <2>1, <2>2, <2>3, <2>4 DEF JS
<1>2. CASE Loop
  <2>1. CASE Spawn
    BY <2>1 DEF IInv, TypeOK, Spawn, MaybeStartThread, MainPCs, WorkerPCs
  <2>2. CASE JSReturn
    BY <2>2 DEF IInv, TypeOK, JSReturn, MainPCs
  <2>3. CASE LoopTop
    BY <2>3 DEF IInv, TypeOK, LoopTop, MainPCs
  <2>4. CASE InvokePipe
    <3>1. mpc' \in MainPCs
      BY <2>4 DEF InvokePipe, MainPCs
    <3>2. gotasync' \in BOOLEAN
      BY <2>4 DEF InvokePipe
    <3>3. pending' \subseteq Watchers /\ pipe' \in Int
      BY <2>4 DEF InvokePipe, IInv, TypeOK
    <3> QED BY <2>4, <3>1, <3>2, <3>3 DEF IInv, TypeOK, InvokePipe
  <2>5. CASE Scan
    BY <2>5 DEF IInv, TypeOK, Scan, MainPCs
  <2>6. CASE Feed
    BY <2>6 DEF IInv, TypeOK, Feed, MainPCs, Watchers
  <2>7. CASE InvokeAsync
    BY <2>7 DEF IInv, TypeOK, InvokeAsync, MainPCs
  <2>8. CASE InvokeOther
    BY <2>8 DEF IInv, TypeOK, PendingIsReal, InvokeOther, MainPCs
  <2>9. CASE InvokeDone
    BY <2>9 DEF IInv, TypeOK, InvokeDone, MainPCs
  <2>10. ASSUME NEW r \in Reqs, Drain(r) PROVE TypeOK'
    BY <2>10 DEF IInv, TypeOK, Drain, MainPCs, InOnePlace, Outstanding
  <2>11. CASE DrainEmpty
    BY <2>11 DEF IInv, TypeOK, DrainEmpty, MainPCs
  <2>12. CASE Check
    BY <2>12 DEF IInv, TypeOK, Check, MainPCs
  <2> QED
    BY <1>2, <2>1, <2>2, <2>3, <2>4, <2>5, <2>6, <2>7, <2>8, <2>9, <2>10,
       <2>11, <2>12 DEF Loop
<1>3. CASE Poll
  BY <1>3 DEF IInv, TypeOK, Poll, MainPCs, Watchers
<1>4. ASSUME NEW w \in Workers, Worker(w) \/ Expire(w) PROVE TypeOK'
  <2> USE DEF Move, WorkerPCs, Waiting, Sending
  <2>1. ASSUME NEW r \in Reqs, Fetch(w, r) PROVE TypeOK'
    BY <2>1 DEF IInv, TypeOK, Fetch
  <2>2. CASE FetchNone(w)
    BY <2>2 DEF IInv, TypeOK, FetchNone
  <2>3. CASE WaitAgain(w)
    BY <2>3 DEF IInv, TypeOK, WaitAgain
  <2>4. CASE Execute(w)
    BY <2>4 DEF IInv, TypeOK, Execute
  <2>5. CASE Publish(w)
    BY <2>5 DEF IInv, TypeOK, LockHeld, Publish
  <2>6. CASE SendSent(w)
    BY <2>6 DEF IInv, TypeOK, SendSent
  <2>7. CASE SendTest(w)
    BY <2>7 DEF IInv, TypeOK, SendTest
  <2>8. CASE SendFlag(w)
    BY <2>8 DEF IInv, TypeOK, SendFlag
  <2>9. CASE SendWrite(w)
    BY <2>9 DEF IInv, TypeOK, SendWrite
  <2>10. CASE Release(w)
    BY <2>10 DEF IInv, TypeOK, Release
  <2>11. CASE Expire(w)
    BY <2>11 DEF IInv, TypeOK, Expire
  <2> QED
    BY <1>4, <2>1, <2>2, <2>3, <2>4, <2>5, <2>6, <2>7, <2>8, <2>9, <2>10,
       <2>11 DEF Worker
<1>5. CASE Exited \/ UNCHANGED vars
  BY <1>5 DEF IInv, TypeOK, Exited, vars
<1> QED BY <1>1, <1>2, <1>3, <1>4, <1>5 DEF Next

-----------------------------------------------------------------------------
(* Requests, queues, counters and reslock.                                 *)

\* What most steps of the main thread leave alone.
Quiet == UNCHANGED <<submitted, finished, nreqs, reqVars, resVars, wpc, self_req>>

\* Only four kinds of step touch a request.
LEMMA FewTouchRequests ==
  ASSUME [Next]_vars
  PROVE  \/ \E r \in Reqs : Submit(r) \/ Drain(r)
         \/ Spawn
         \/ \E w \in Workers : Worker(w) \/ Expire(w)
         \/ Quiet
  BY DEF Next, JS, Loop, StartOther, Unloop, ProcessExit, JSReturn, LoopTop, InvokePipe,
         Scan, Feed, InvokeAsync, InvokeOther, InvokeDone, DrainEmpty, Check,
         Poll, Exited, vars, mainVars, Quiet, reqVars, resVars, workVars

\* reslock and self_req of the threads that hold something.
LEMMA LockStep == IInv /\ [Next]_vars => LockHeld'
<1> SUFFICES ASSUME IInv, [Next]_vars PROVE LockHeld'
  OBVIOUS
<1> USE NoneOutside DEF LockHeld, Locked
<1>0. LockHeld /\ TypeOK
  BY DEF IInv
<1>1. ASSUME NEW r \in Reqs, Submit(r) PROVE LockHeld'
  <2>1. UNCHANGED <<reslock, self_req>> /\ Signal
    BY <1>1 DEF Submit, resVars
  <2>2. CASE wpc' = wpc
    BY <1>0, <2>1, <2>2
  <2>3. ASSUME NEW v \in Workers, wpc[v] \in Waiting,
               wpc' = [wpc EXCEPT ![v] = "fetch"]
        PROVE  LockHeld'
    BY <1>0, <2>1, <2>3 DEF TypeOK, Sending, Waiting
  <2> QED BY <2>1, <2>2, <2>3 DEF Signal
<1>2. ASSUME NEW r \in Reqs, Drain(r) PROVE LockHeld'
  BY <1>0, <1>2 DEF Drain, workVars
<1>3. CASE Spawn
  <2>1. UNCHANGED <<reslock, self_req>> /\ MaybeStartThread
    BY <1>3 DEF Spawn, resVars
  <2>2. CASE wpc' = wpc
    BY <1>0, <2>1, <2>2
  <2>3. ASSUME NEW v \in Workers, wpc[v] = "off",
               wpc' = [wpc EXCEPT ![v] = "fetch"]
        PROVE  LockHeld'
    BY <1>0, <2>1, <2>3 DEF TypeOK, Sending
  <2> QED BY <2>1, <2>2, <2>3 DEF MaybeStartThread
<1>4. ASSUME NEW w \in Workers, Worker(w) \/ Expire(w) PROVE LockHeld'
  <2> USE DEF Move, Waiting, Sending, resVars
  <2>1. ASSUME NEW r \in Reqs, Fetch(w, r) PROVE LockHeld'
    BY <1>0, <2>1 DEF Fetch, TypeOK
  <2>2. CASE FetchNone(w)
    BY <1>0, <2>2 DEF FetchNone, TypeOK
  <2>3. CASE WaitAgain(w)
    BY <1>0, <2>3 DEF WaitAgain, TypeOK
  <2>4. CASE Execute(w)
    BY <1>0, <2>4 DEF Execute, TypeOK
  <2>5. CASE Publish(w)
    BY <1>0, <2>5 DEF Publish, TypeOK
  <2>6. CASE SendSent(w)
    BY <1>0, <2>6 DEF SendSent, TypeOK
  <2>7. CASE SendTest(w)
    BY <1>0, <2>7 DEF SendTest, TypeOK
  <2>8. CASE SendFlag(w)
    BY <1>0, <2>8 DEF SendFlag, TypeOK
  <2>9. CASE SendWrite(w)
    BY <1>0, <2>9 DEF SendWrite, TypeOK
  <2>10. CASE Release(w)
    BY <1>0, <2>10 DEF Release, TypeOK
  <2>11. CASE Expire(w)
    BY <1>0, <2>11 DEF Expire, TypeOK
  <2> QED
    BY <1>4, <2>1, <2>2, <2>3, <2>4, <2>5, <2>6, <2>7, <2>8, <2>9, <2>10,
       <2>11 DEF Worker
<1>5. CASE Quiet
  BY <1>0, <1>5 DEF Quiet, resVars
<1> QED BY <1>1, <1>2, <1>3, <1>4, <1>5, FewTouchRequests

Holds(w) == wpc[w] \in {"exec", "publish"}

\* A thread that holds no request before and none after leaves Held alone,
\* whatever it does to its own self_req.
LEMMA HeldKept ==
  ASSUME TypeOK, NEW w \in Workers, NEW to,
         to \in {"exec", "publish"} <=> Holds(w),
         wpc' = [wpc EXCEPT ![w] = to],
         \A v \in Workers : Holds(v) => self_req'[v] = self_req[v]
  PROVE  /\ Held' = Held
         /\ \A v \in Workers : Holds(v)' <=> Holds(v)
<1>1. \A v \in Workers : Holds(v)' <=> Holds(v)
  BY DEF TypeOK, Holds
<1>2. Held' = Held
  BY <1>1 DEF Held, Holds
<1> QED BY <1>1, <1>2

\* Each request stays in exactly one place.
LEMMA PlaceStep == IInv /\ [Next]_vars => InOnePlace'
<1> SUFFICES ASSUME IInv, [Next]_vars PROVE InOnePlace'
  OBVIOUS
<1>0. InOnePlace /\ TypeOK /\ LockHeld
  BY DEF IInv
<1>a. ASSUME NEW w \in Workers, NEW to, wpc' = [wpc EXCEPT ![w] = to],
             to \in {"exec", "publish"} <=> Holds(w),
             \A v \in Workers : Holds(v) => self_req'[v] = self_req[v],
             UNCHANGED <<submitted, finished, req_queue, res_queue>>
      PROVE  InOnePlace'
  <2>1. Held' = Held /\ \A v \in Workers : Holds(v)' <=> Holds(v)
    BY <1>0, <1>a, HeldKept
  <2> QED BY <1>0, <1>a, <2>1 DEF InOnePlace, Outstanding, Holds
<1>b. ASSUME wpc' = wpc, self_req' = self_req,
             UNCHANGED <<submitted, finished, req_queue, res_queue>>
      PROVE  InOnePlace'
  BY <1>0, <1>b DEF InOnePlace, Outstanding, Held
<1>1. ASSUME NEW r \in Reqs, Submit(r) PROVE InOnePlace'
  <2>1. /\ submitted' = submitted \cup {r} /\ r \notin submitted
        /\ req_queue' = req_queue \cup {r}
        /\ UNCHANGED <<finished, res_queue, self_req>>
        /\ Signal
    BY <1>1 DEF Submit, resVars
  <2>2. Held' = Held /\ \A v \in Workers : Holds(v)' <=> Holds(v)
    <3>1. CASE wpc' = wpc
      BY <2>1, <3>1 DEF Held, Holds
    <3>2. ASSUME NEW w \in Workers, wpc[w] \in Waiting,
                 wpc' = [wpc EXCEPT ![w] = "fetch"]
          PROVE  Held' = Held /\ \A v \in Workers : Holds(v)' <=> Holds(v)
      BY <1>0, <2>1, <3>2, HeldKept DEF Waiting, Holds
    <3> QED BY <2>1, <3>1, <3>2 DEF Signal
  <2>3. Outstanding' = Outstanding \cup {r} /\ r \notin Outstanding
    BY <1>0, <2>1 DEF Outstanding, TypeOK
  <2> QED BY <1>0, <2>1, <2>2, <2>3 DEF InOnePlace, Holds
<1>2. ASSUME NEW r \in Reqs, Drain(r) PROVE InOnePlace'
  <2>1. /\ finished' = finished \cup {r} /\ r \in res_queue
        /\ res_queue' = res_queue \ {r}
        /\ UNCHANGED <<submitted, req_queue, wpc, self_req>>
    BY <1>2 DEF Drain, reqVars, workVars
  <2>2. Held' = Held
    BY <2>1 DEF Held
  <2>3. Outstanding' = Outstanding \ {r}
    BY <2>1 DEF Outstanding
  <2> QED BY <1>0, <2>1, <2>2, <2>3 DEF InOnePlace
<1>3. CASE Spawn
  <2>1. UNCHANGED <<submitted, finished, req_queue, res_queue, self_req>>
    BY <1>3 DEF Spawn, reqVars, resVars
  <2>2. CASE wpc' = wpc
    BY <1>b, <2>1, <2>2
  <2>3. ASSUME NEW v \in Workers, wpc[v] = "off",
               wpc' = [wpc EXCEPT ![v] = "fetch"]
        PROVE  InOnePlace'
    BY <1>a, <2>1, <2>3 DEF Holds
  <2> QED BY <1>3, <2>2, <2>3 DEF Spawn, MaybeStartThread
<1>4. ASSUME NEW w \in Workers, Worker(w) \/ Expire(w) PROVE InOnePlace'
  <2> USE DEF Move, mainVars, reqVars, resVars
  <2>1. ASSUME NEW r \in Reqs, Fetch(w, r) PROVE InOnePlace'
    <3>1. /\ wpc[w] = "fetch" /\ wpc' = [wpc EXCEPT ![w] = "exec"]
          /\ r \in req_queue /\ req_queue' = req_queue \ {r}
          /\ self_req' = [self_req EXCEPT ![w] = r]
          /\ UNCHANGED <<submitted, finished, res_queue>>
      BY <2>1 DEF Fetch
    <3>2. \A v \in Workers : Holds(v)' <=> Holds(v) \/ v = w
      BY <1>0, <3>1 DEF TypeOK, Holds
    <3>3. \A v \in Workers : self_req'[v] = IF v = w THEN r ELSE self_req[v]
      BY <1>0, <3>1 DEF TypeOK
    <3>4. ~Holds(w)
      BY <3>1 DEF Holds
    <3>5. Held' = Held \cup {r}
      BY <3>2, <3>3, <3>4 DEF Held, Holds
    <3>6. r \notin Held /\ r \notin res_queue
      BY <1>0, <3>1 DEF InOnePlace
    <3>7. \A v \in Workers : Holds(v) => self_req[v] \in Held
      BY DEF Held, Holds
    <3>8. Outstanding' = Outstanding
      BY <3>1 DEF Outstanding
    <3>9. \A u, v \in Workers :
            Holds(u)' /\ Holds(v)' /\ self_req'[u] = self_req'[v] => u = v
      BY <1>0, <3>2, <3>3, <3>6, <3>7 DEF InOnePlace, Holds
    <3> QED BY <1>0, <3>1, <3>5, <3>6, <3>8, <3>9 DEF InOnePlace, Holds
  <2>2. CASE FetchNone(w)
    BY <1>a, <2>2 DEF FetchNone, Holds
  <2>3. CASE WaitAgain(w)
    BY <1>a, <2>3 DEF WaitAgain, Holds
  <2>4. CASE Execute(w)
    BY <1>a, <2>4 DEF Execute, Holds
  <2>5. CASE Publish(w)
    <3> DEFINE r == self_req[w]
    <3>1. /\ wpc[w] = "publish"
          /\ wpc' = [wpc EXCEPT ![w] = IF res_queue = {} THEN "send" ELSE "release"]
          /\ res_queue' = res_queue \cup {r}
          /\ UNCHANGED <<submitted, finished, req_queue, self_req>>
      BY <2>5 DEF Publish
    <3>2. \A v \in Workers : Holds(v)' <=> Holds(v) /\ v # w
      BY <1>0, <3>1 DEF TypeOK, Holds
    <3>3. Holds(w) /\ r \in Held
      BY <3>1 DEF Holds, Held
    <3>4. \A v \in Workers : Holds(v) /\ self_req[v] = r => v = w
      BY <1>0, <3>3 DEF InOnePlace, Holds
    <3>5. Held' = Held \ {r}
      BY <3>1, <3>2, <3>4 DEF Held, Holds
    <3>6. r \notin req_queue
      BY <1>0, <3>3 DEF InOnePlace
    <3>7. Outstanding' = Outstanding
      BY <3>1 DEF Outstanding
    <3>8. \A u, v \in Workers :
            Holds(u)' /\ Holds(v)' /\ self_req'[u] = self_req'[v] => u = v
      BY <1>0, <3>1, <3>2 DEF InOnePlace, Holds
    <3> HIDE DEF r
    <3> QED BY <1>0, <3>1, <3>3, <3>5, <3>6, <3>7, <3>8 DEF InOnePlace, Holds
  <2>6. CASE SendSent(w)
    BY <1>a, <2>6 DEF SendSent, Holds
  <2>7. CASE SendTest(w)
    BY <1>a, <2>7 DEF SendTest, Holds
  <2>8. CASE SendFlag(w)
    BY <1>a, <2>8 DEF SendFlag, Holds
  <2>9. CASE SendWrite(w)
    BY <1>a, <2>9 DEF SendWrite, Holds
  <2>10. CASE Release(w)
    BY <1>0, <1>a, <2>10 DEF Release, Holds, TypeOK
  <2>11. CASE Expire(w)
    BY <1>a, <2>11 DEF Expire, Holds
  <2> QED
    BY <1>4, <2>1, <2>2, <2>3, <2>4, <2>5, <2>6, <2>7, <2>8, <2>9, <2>10,
       <2>11 DEF Worker
<1>5. CASE Quiet
  BY <1>b, <1>5 DEF Quiet, reqVars, resVars
<1> QED BY <1>1, <1>2, <1>3, <1>4, <1>5, FewTouchRequests

\* Everything that is counted is finite.
LEMMA AllFinite ==
  ASSUME IInv
  PROVE  IsFiniteSet(Outstanding) /\ IsFiniteSet(req_queue) /\ IsFiniteSet(res_queue)
<1>1. Outstanding \subseteq Reqs /\ req_queue \subseteq Reqs /\ res_queue \subseteq Reqs
  BY DEF IInv, TypeOK, Outstanding
<1> QED BY <1>1, ReqsFinite, FS_Subset

\* Each counter follows its queue.
LEMMA CountStep == IInv /\ [Next]_vars => CountersAgree'
<1> SUFFICES ASSUME IInv, [Next]_vars PROVE CountersAgree'
  OBVIOUS
<1>0. CountersAgree /\ TypeOK /\ InOnePlace
  BY DEF IInv
<1>f. IsFiniteSet(Outstanding) /\ IsFiniteSet(req_queue) /\ IsFiniteSet(res_queue)
  BY AllFinite
<1>1. ASSUME NEW r \in Reqs, Submit(r) PROVE CountersAgree'
  <2>1. /\ submitted' = submitted \cup {r} /\ r \notin submitted
        /\ req_queue' = req_queue \cup {r}
        /\ nreqs' = nreqs + 1 /\ nready' = nready + 1
        /\ UNCHANGED <<finished, res_queue, npending>>
    BY <1>1 DEF Submit, resVars
  <2>2. Outstanding' = Outstanding \cup {r} /\ r \notin Outstanding
    BY <1>0, <2>1 DEF Outstanding, TypeOK
  <2>3. r \notin req_queue
    BY <1>0, <2>2 DEF InOnePlace
  <2>4. Cardinality(Outstanding') = Cardinality(Outstanding) + 1
    BY <1>f, <2>2, FS_AddElement
  <2>5. Cardinality(req_queue') = Cardinality(req_queue) + 1
    BY <1>f, <2>1, <2>3, FS_AddElement
  <2> QED BY <1>0, <2>1, <2>4, <2>5 DEF CountersAgree
<1>2. ASSUME NEW r \in Reqs, Drain(r) PROVE CountersAgree'
  <2>1. /\ finished' = finished \cup {r}
        /\ r \in res_queue /\ res_queue' = res_queue \ {r}
        /\ nreqs' = nreqs - 1 /\ npending' = npending - 1
        /\ UNCHANGED <<submitted, req_queue, nready>>
    BY <1>2 DEF Drain, reqVars
  <2>2. Outstanding' = Outstanding \ {r} /\ r \in Outstanding
    BY <1>0, <2>1 DEF Outstanding, InOnePlace
  <2>3. Cardinality(Outstanding') = Cardinality(Outstanding) - 1
    BY <1>f, <2>2, FS_RemoveElement
  <2>4. Cardinality(res_queue') = Cardinality(res_queue) - 1
    BY <1>f, <2>1, FS_RemoveElement
  <2> QED BY <1>0, <2>1, <2>3, <2>4 DEF CountersAgree
<1>3. ASSUME UNCHANGED <<submitted, finished, nreqs, reqVars, res_queue, npending>>
      PROVE  CountersAgree'
  BY <1>0, <1>3 DEF CountersAgree, Outstanding, reqVars
<1>4. ASSUME NEW w \in Workers, Worker(w) \/ Expire(w) PROVE CountersAgree'
  <2>1. ASSUME NEW r \in Reqs, Fetch(w, r) PROVE CountersAgree'
    <3>1. /\ r \in req_queue /\ req_queue' = req_queue \ {r}
          /\ nready' = nready - 1
          /\ UNCHANGED <<submitted, finished, nreqs, res_queue, npending>>
      BY <2>1 DEF Fetch, mainVars, resVars
    <3>2. Cardinality(req_queue') = Cardinality(req_queue) - 1
      BY <1>f, <3>1, FS_RemoveElement
    <3> QED BY <1>0, <3>1, <3>2 DEF CountersAgree, Outstanding
  <2>2. CASE Publish(w)
    <3> DEFINE r == self_req[w]
    <3>1. /\ res_queue' = res_queue \cup {r} /\ npending' = npending + 1
          /\ wpc[w] = "publish"
          /\ UNCHANGED <<submitted, finished, nreqs, reqVars>>
      BY <2>2 DEF Publish, Move, mainVars
    <3>2. r \in Held
      BY <3>1 DEF Held
    <3>3. r \notin res_queue
      BY <1>0, <3>2 DEF InOnePlace
    <3> HIDE DEF r
    <3>4. Cardinality(res_queue') = Cardinality(res_queue) + 1
      BY <1>f, <3>1, <3>3, FS_AddElement
    <3> QED BY <1>0, <3>1, <3>4 DEF CountersAgree, Outstanding, reqVars
  <2>3. \/ \E r \in Reqs : Fetch(w, r)
        \/ Publish(w)
        \/ UNCHANGED <<submitted, finished, nreqs, reqVars, res_queue, npending>>
    BY <1>4 DEF Worker, FetchNone, WaitAgain, Execute, SendSent, SendTest,
                SendFlag, SendWrite, Release, Expire, mainVars, resVars
  <2> QED BY <1>3, <2>1, <2>2, <2>3
<1>5. Spawn \/ Quiet => UNCHANGED <<submitted, finished, nreqs, reqVars, res_queue, npending>>
  BY DEF Spawn, Quiet, resVars
<1> QED BY <1>1, <1>2, <1>3, <1>4, <1>5, FewTouchRequests

-----------------------------------------------------------------------------
(* The way of a wake-up: flag, pipe, pending list, thread_pool_cb.         *)

\* What the threads do that are not sending changes no flag and no byte.
LEMMA FlagStep == IInv /\ [Next]_vars => FlagHasByte'
<1> SUFFICES ASSUME IInv, [Next]_vars PROVE FlagHasByte'
  OBVIOUS
<1>0. FlagHasByte /\ TypeOK /\ LockHeld
  BY DEF IInv
<1>a. ASSUME NEW w \in Workers, NEW to, wpc' = [wpc EXCEPT ![w] = to],
             wpc[w] \notin {"flag", "write"}, to \notin {"flag", "write"},
             UNCHANGED <<gotasync, pipe>>
      PROVE  FlagHasByte'
  <2>1. \A v \in Workers : \A x \in {"flag", "write"} :
          wpc'[v] = x <=> wpc[v] = x
    BY <1>0, <1>a DEF TypeOK
  <2> QED BY <1>0, <1>a, <2>1 DEF FlagHasByte
<1>b. ASSUME wpc' = wpc, UNCHANGED <<gotasync, pipe>> PROVE FlagHasByte'
  BY <1>0, <1>b DEF FlagHasByte
<1>1. ASSUME NEW r \in Reqs, Submit(r) PROVE FlagHasByte'
  <2>1. Signal /\ UNCHANGED <<gotasync, pipe>>
    BY <1>1 DEF Submit, asyncVars
  <2> QED BY <1>a, <1>b, <2>1 DEF Signal, Waiting
<1>2. CASE Spawn
  <2>1. MaybeStartThread /\ UNCHANGED <<gotasync, pipe>>
    BY <1>2 DEF Spawn, asyncVars
  <2> QED BY <1>a, <1>b, <2>1 DEF MaybeStartThread
<1>3. CASE InvokePipe
  <2>1. pipe = 1
    BY <1>3 DEF InvokePipe, IInv, PendingIsReal
  <2>2. \A w \in Workers : wpc[w] \notin {"flag", "write"}
    BY <1>0, <2>1 DEF FlagHasByte
  <2>3. wpc' = wpc /\ pipe' = 0 /\ ~gotasync'
    BY <1>3, <2>1 DEF InvokePipe, workVars
  <2> QED BY <2>2, <2>3 DEF FlagHasByte
<1>4. ASSUME NEW w \in Workers, Worker(w) \/ Expire(w) PROVE FlagHasByte'
  <2> USE DEF Move, asyncVars
  <2>1. CASE Publish(w)
    BY <1>a, <2>1 DEF Publish
  <2>2. CASE SendTest(w)
    <3>1. CASE gotasync
      BY <1>a, <2>2, <3>1 DEF SendTest
    <3>2. CASE ~gotasync
      <4>1. wpc' = [wpc EXCEPT ![w] = "flag"] /\ UNCHANGED <<gotasync, pipe>>
        BY <2>2, <3>2 DEF SendTest
      <4>2. pipe = 0 /\ \A v \in Workers : wpc[v] # "write"
        BY <1>0, <3>2 DEF FlagHasByte
      <4>3. \A v \in Workers : wpc'[v] # "write"
        BY <1>0, <4>1, <4>2 DEF TypeOK
      <4> QED BY <3>2, <4>1, <4>2, <4>3 DEF FlagHasByte
    <3> QED BY <3>1, <3>2
  <2>3. CASE SendFlag(w)
    <3>1. /\ wpc[w] = "flag" /\ wpc' = [wpc EXCEPT ![w] = "write"]
          /\ gotasync' /\ pipe' = pipe
      BY <2>3 DEF SendFlag
    <3>2. \A v \in Workers : wpc[v] = "flag" => v = w
      BY <1>0, <3>1 DEF LockHeld, Locked, Sending
    <3>3. \A v \in Workers : wpc'[v] # "flag" /\ wpc'[w] = "write"
      BY <1>0, <3>1, <3>2 DEF TypeOK
    <3>4. pipe = 0
      BY <1>0, <3>1 DEF FlagHasByte
    <3> QED BY <3>1, <3>3, <3>4 DEF FlagHasByte
  <2>4. CASE SendWrite(w)
    <3>1. /\ wpc[w] = "write" /\ wpc' = [wpc EXCEPT ![w] = "release"]
          /\ gotasync' = gotasync /\ pipe' = pipe + 1
      BY <2>4 DEF SendWrite
    <3>2. \A v \in Workers : wpc[v] \in {"flag", "write"} => v = w
      BY <1>0, <3>1 DEF LockHeld, Locked, Sending
    <3>3. \A v \in Workers : wpc'[v] \notin {"flag", "write"}
      BY <1>0, <3>1, <3>2 DEF TypeOK
    <3>4. pipe = 0 /\ gotasync
      BY <1>0, <3>1 DEF FlagHasByte
    <3> QED BY <3>1, <3>3, <3>4 DEF FlagHasByte
  <2>5. \/ Publish(w) \/ SendTest(w) \/ SendFlag(w) \/ SendWrite(w)
        \/ \E to : /\ wpc' = [wpc EXCEPT ![w] = to]
                   /\ wpc[w] \notin {"flag", "write"}
                   /\ to \notin {"flag", "write"}
                   /\ UNCHANGED <<gotasync, pipe>>
    <3>1. \A r \in Reqs : Fetch(w, r) =>
            /\ wpc' = [wpc EXCEPT ![w] = "exec"] /\ wpc[w] = "fetch"
            /\ UNCHANGED <<gotasync, pipe>>
      BY DEF Fetch
    <3>2. FetchNone(w) =>
            /\ wpc' = [wpc EXCEPT ![w] = "timedwait"] /\ wpc[w] = "fetch"
            /\ UNCHANGED <<gotasync, pipe>>
      BY DEF FetchNone
    <3>3. WaitAgain(w) =>
            /\ wpc' = [wpc EXCEPT ![w] = "wait"] /\ wpc[w] = "expired"
            /\ UNCHANGED <<gotasync, pipe>>
      BY DEF WaitAgain
    <3>4. Execute(w) =>
            /\ wpc' = [wpc EXCEPT ![w] = "publish"] /\ wpc[w] = "exec"
            /\ UNCHANGED <<gotasync, pipe>>
      BY DEF Execute
    <3>5. SendSent(w) =>
            /\ wpc' = [wpc EXCEPT ![w] = "test"] /\ wpc[w] = "send"
            /\ UNCHANGED <<gotasync, pipe>>
      BY DEF SendSent
    <3>6. Release(w) =>
            /\ wpc' = [wpc EXCEPT ![w] = "fetch"] /\ wpc[w] = "release"
            /\ UNCHANGED <<gotasync, pipe>>
      BY DEF Release
    <3>7. Expire(w) =>
            /\ wpc' = [wpc EXCEPT ![w] = "expired"] /\ wpc[w] = "timedwait"
            /\ UNCHANGED <<gotasync, pipe>>
      BY DEF Expire
    <3> QED BY <1>4, <3>1, <3>2, <3>3, <3>4, <3>5, <3>6, <3>7 DEF Worker
  <2> QED BY <1>a, <2>1, <2>2, <2>3, <2>4, <2>5
<1>5. \/ \E r \in Reqs : Submit(r)
      \/ Spawn \/ InvokePipe
      \/ \E w \in Workers : Worker(w) \/ Expire(w)
      \/ UNCHANGED <<wpc, gotasync, pipe>>
  BY DEF Next, JS, Loop, StartOther, Unloop, ProcessExit, JSReturn, LoopTop, Scan, Feed,
         InvokeAsync, InvokeOther, InvokeDone, Drain, DrainEmpty, Check, Poll,
         Exited, vars, workVars, asyncVars
<1> QED BY <1>b, <1>1, <1>2, <1>3, <1>4, <1>5

\* Workers add bytes only, and nothing but the main thread's list is at stake.
LEMMA PendingStep == IInv /\ [Next]_vars => PendingIsReal'
<1> SUFFICES ASSUME IInv, [Next]_vars PROVE PendingIsReal'
  OBVIOUS
<1>0. PendingIsReal /\ TypeOK /\ FlagHasByte
  BY DEF IInv
<1> USE DEF PendingIsReal, asyncVars
<1>1. CASE JS
  BY <1>0, <1>1 DEF JS, Submit, StartOther, Unloop, ProcessExit, TypeOK
<1>2. CASE Loop
  <2>1. CASE Spawn
    BY <1>0, <2>1 DEF Spawn
  <2>2. CASE JSReturn
    BY <1>0, <2>2 DEF JSReturn, TypeOK
  <2>3. CASE LoopTop
    BY <1>0, <2>3 DEF LoopTop
  <2>4. CASE InvokePipe
    <3>1. /\ mpc' = "scan" \/ mpc' = "invoke"
          /\ pending' = pending \ {"pipe"} /\ others' = others
      BY <2>4 DEF InvokePipe
    <3> QED BY <1>0, <3>1
  <2>5. CASE Scan
    <3>1. /\ mpc' = "feed" \/ mpc' = "invoke"
          /\ UNCHANGED <<pending, others, pipe>>
      BY <2>5 DEF Scan
    <3> QED BY <1>0, <3>1
  <2>6. CASE Feed
    BY <1>0, <2>6 DEF Feed
  <2>7. CASE InvokeAsync
    BY <1>0, <2>7 DEF InvokeAsync
  <2>8. CASE InvokeOther
    BY <1>0, <2>8 DEF InvokeOther
  <2>9. CASE InvokeDone
    BY <1>0, <2>9 DEF InvokeDone
  <2>10. ASSUME NEW r \in Reqs, Drain(r) PROVE PendingIsReal'
    BY <1>0, <2>10 DEF Drain
  <2>11. CASE DrainEmpty
    BY <1>0, <2>11 DEF DrainEmpty
  <2>12. CASE Check
    BY <1>0, <2>12 DEF Check
  <2> QED
    BY <1>2, <2>1, <2>2, <2>3, <2>4, <2>5, <2>6, <2>7, <2>8, <2>9, <2>10,
       <2>11, <2>12 DEF Loop
<1>3. CASE Poll
  <2>1. PICK other \in SUBSET (IF others > 0 THEN {"other"} ELSE {}) :
          pending' = other \cup (IF pipe > 0 THEN {"pipe"} ELSE {})
    BY <1>3 DEF Poll
  <2>2. mpc' = "invoke" /\ UNCHANGED <<others, pipe>>
    BY <1>3 DEF Poll
  <2>3. "pipe" \in pending' => pipe = 1
    BY <1>0, <2>1 DEF FlagHasByte
  <2>4. "other" \in pending' => others > 0
    BY <2>1
  <2> QED BY <2>2, <2>3, <2>4
<1>4. ASSUME NEW w \in Workers, Worker(w) \/ Expire(w) PROVE PendingIsReal'
  <2>1. CASE SendWrite(w)
    <3>1. "pipe" \notin pending
      BY <1>0, <2>1 DEF SendWrite, Move, FlagHasByte
    <3> QED BY <1>0, <2>1, <3>1 DEF SendWrite, mainVars
  <2>2. ~SendWrite(w) => UNCHANGED <<mainVars, pipe>>
    BY <1>4 DEF Worker, Fetch, FetchNone, WaitAgain, Execute, Publish, SendSent,
                SendTest, SendFlag, Release, Expire
  <2> QED BY <1>0, <2>1, <2>2 DEF mainVars
<1>5. CASE Exited \/ UNCHANGED vars
  BY <1>0, <1>5 DEF Exited, vars, mainVars
<1> QED BY <1>1, <1>2, <1>3, <1>4, <1>5 DEF Next

\* The watcher is started with the first request and stopped after the last:
\* the three counters are 0 exactly when no request is outstanding.
LEMMA StartedStep == IInv /\ [Next]_vars => WatcherStarted'
<1> SUFFICES ASSUME IInv, [Next]_vars PROVE WatcherStarted'
  OBVIOUS
<1>0. WatcherStarted /\ TypeOK /\ InOnePlace /\ CountersAgree /\ PendingIsReal
  BY DEF IInv
<1> USE DEF WatcherStarted, Draining, InJS
<1>1. ASSUME NEW r \in Reqs, Submit(r) PROVE WatcherStarted'
  BY <1>0, <1>1 DEF Submit, Outstanding, TypeOK
<1>2. ASSUME NEW r \in Reqs, Drain(r) PROVE WatcherStarted'
  <2>1. active
    BY <1>0, <1>2 DEF Drain, InOnePlace
  <2> QED BY <1>2, <2>1 DEF Drain
<1>3. CASE Check
  <2>1. nreqs = 0 /\ nready = 0 /\ npending = 0 <=> Outstanding = {}
    <3>1. IsFiniteSet(Outstanding)
      BY AllFinite
    <3>2. nreqs = 0 <=> Outstanding = {}
      BY <1>0, <3>1, FS_EmptySet DEF CountersAgree
    <3>3. Outstanding = {} => req_queue = {} /\ res_queue = {}
      BY <1>0 DEF InOnePlace
    <3>4. Outstanding = {} => nready = 0 /\ npending = 0
      BY <1>0, <3>3, FS_EmptySet DEF CountersAgree
    <3> QED BY <3>2, <3>4
  <2>2. CASE Outstanding = {}
    BY <1>3, <2>1, <2>2 DEF Check, Outstanding
  <2>3. CASE Outstanding # {}
    BY <1>0, <1>3, <2>1, <2>3 DEF Check, Outstanding
  <2> QED BY <2>2, <2>3
<1>4. ASSUME UNCHANGED <<submitted, finished, active>>,
             Draining \/ mpc = "check" => Draining' \/ mpc' = "check"
      PROVE  WatcherStarted'
  BY <1>0, <1>4 DEF Outstanding
<1>8. CASE ProcessExit
  BY <1>4, <1>8 DEF ProcessExit
<1>5. CASE StartOther \/ Unloop \/ (\E w \in Workers : Worker(w) \/ Expire(w))
           \/ Exited \/ UNCHANGED vars
  <2>1. UNCHANGED <<submitted, finished, active, mpc, ret>>
    BY <1>5 DEF StartOther, Unloop, Worker, Fetch, FetchNone, WaitAgain,
                Execute, Publish, SendSent, SendTest, SendFlag, SendWrite,
                Release, Expire, Exited, vars, mainVars
  <2> QED BY <1>4, <2>1
<1>6. CASE Spawn \/ JSReturn \/ DrainEmpty
  <2>1. UNCHANGED <<submitted, finished, active, ret>>
    BY <1>6 DEF Spawn, JSReturn, DrainEmpty
  <2>2. Draining \/ mpc = "check" => Draining' \/ mpc' = "check"
    BY <1>6, <2>1 DEF Spawn, JSReturn, DrainEmpty
  <2> QED BY <1>4, <2>1, <2>2
<1>7. CASE LoopTop \/ InvokePipe \/ Scan \/ Feed \/ InvokeAsync \/ InvokeOther
           \/ InvokeDone \/ Poll
  <2>1. UNCHANGED <<submitted, finished, active>>
    BY <1>7 DEF LoopTop, InvokePipe, Scan, Feed, InvokeAsync, InvokeOther,
                InvokeDone, Poll
  <2>2. mpc \in {"loop", "invoke", "scan", "feed", "poll"}
    BY <1>7 DEF LoopTop, InvokePipe, Scan, Feed, InvokeAsync, InvokeOther,
                InvokeDone, Poll
  <2> QED BY <1>4, <2>1, <2>2
<1> QED
  BY <1>1, <1>2, <1>3, <1>5, <1>6, <1>7, <1>8 DEF Next, JS, Loop

\* The loop ends only at its top, where no request is outstanding or it was
\* told to end; afterwards nothing changes.
LEMMA OutlivesStep == IInv /\ [Next]_vars => LoopOutlivesRequests'
<1> SUFFICES ASSUME IInv, [Next]_vars PROVE LoopOutlivesRequests'
  OBVIOUS
<1>0. LoopOutlivesRequests /\ TypeOK /\ WatcherStarted
  BY DEF IInv
<1> USE DEF LoopOutlivesRequests, Outstanding
<1>1. CASE LoopTop
  <2>1. UNCHANGED <<submitted, finished, loop_done>>
    BY <1>1 DEF LoopTop
  <2>2. mpc' = "exited" => ActiveCnt = 0 \/ loop_done
    BY <1>1 DEF LoopTop
  <2>3. ActiveCnt = 0 => ~active
    BY <1>0 DEF ActiveCnt, TypeOK
  <2> QED BY <1>0, <2>1, <2>2, <2>3 DEF WatcherStarted
<1>2. CASE Exited \/ UNCHANGED vars
  BY <1>0, <1>2 DEF Exited, vars, mainVars
<1>3. ASSUME NEW w \in Workers, Worker(w) \/ Expire(w) PROVE LoopOutlivesRequests'
  <2>1. UNCHANGED mainVars
    BY <1>3 DEF Worker, Fetch, FetchNone, WaitAgain, Execute, Publish, SendSent,
                SendTest, SendFlag, SendWrite, Release, Expire
  <2> QED BY <1>0, <2>1 DEF mainVars
<1>4. CASE JSReturn
  BY <1>0, <1>4 DEF JSReturn, TypeOK
<1>5. (Loop /\ ~LoopTop /\ ~JSReturn) \/ JS \/ Poll => mpc' # "exited"
  BY DEF Loop, JS, Poll, Spawn, InvokePipe, Scan, Feed, InvokeAsync,
         InvokeOther, InvokeDone, Drain, DrainEmpty, Check, Submit,
         StartOther, Unloop, ProcessExit
<1> QED BY <1>1, <1>2, <1>3, <1>4, <1>5 DEF Next

\* A finished request is never forgotten.  The hard cases: a result pushed
\* after etp_poll found the queue empty, and a wake-up sent while pipecb is
\* between clearing gotasync and clearing sent.
LEMMA SeenStep == IInv /\ [Next]_vars => ResultSeen'
<1> SUFFICES ASSUME IInv, [Next]_vars PROVE ResultSeen'
  OBVIOUS
<1>0. /\ ResultSeen /\ TypeOK /\ LockHeld /\ FlagHasByte
      /\ WatcherStarted /\ InOnePlace /\ PendingIsReal
  BY DEF IInv
<1>a. ASSUME \A v \in Workers : \A x \in Sending : wpc'[v] = x <=> wpc[v] = x,
             UNCHANGED <<res_queue, sent, pipe>>,
             Noted => Noted',
             mpc = "scan" => (mpc' = "scan" \/ ~sent \/ Noted' \/ res_queue = {})
      PROVE  ResultSeen'
  <2>1. \A v \in Workers : wpc'[v] \in Sending <=> wpc[v] \in Sending
    BY <1>a
  <2>2. \A v \in Workers : wpc'[v] \in {"test", "flag", "write"}
                             <=> wpc[v] \in {"test", "flag", "write"}
    BY <1>a DEF Sending
  <2>3. \A v \in Workers : wpc'[v] = "send" <=> wpc[v] = "send"
    BY <1>a DEF Sending
  <2> QED BY <1>0, <1>a, <2>1, <2>2, <2>3 DEF ResultSeen
<1>b. \A w \in Workers : reslock = None => wpc[w] \notin Sending
  BY <1>0, NoneOutside DEF LockHeld, Locked
<1>1. ASSUME NEW r \in Reqs, Submit(r) PROVE ResultSeen'
  <2>1. \A v \in Workers : \A x \in Sending : wpc'[v] = x <=> wpc[v] = x
    BY <1>0, <1>1 DEF Submit, Signal, TypeOK, Waiting, Sending
  <2>2. /\ mpc = "js" /\ mpc' = "js_spawn"
        /\ UNCHANGED <<res_queue, sent, pipe, pending, ret>>
    BY <1>1 DEF Submit, resVars, asyncVars
  <2>3. Noted => Noted'
    BY <2>2 DEF Noted, Draining, InJS
  <2> QED BY <1>a, <2>1, <2>2, <2>3
<1>2. CASE Spawn
  <2>1. \A v \in Workers : \A x \in Sending : wpc'[v] = x <=> wpc[v] = x
    BY <1>0, <1>2 DEF Spawn, MaybeStartThread, TypeOK, Sending
  <2>2. /\ \/ mpc = "js_spawn" /\ mpc' = "js"
           \/ mpc = "drain_spawn" /\ mpc' = "drain"
        /\ UNCHANGED <<res_queue, sent, pipe, pending, ret>>
    BY <1>2 DEF Spawn, resVars, asyncVars
  <2>3. Noted => Noted'
    BY <2>2 DEF Noted, Draining, InJS
  <2> QED BY <1>a, <2>1, <2>2, <2>3
<1>c. CASE ProcessExit
  <2>1. /\ mpc = "js" /\ mpc' = "killed"
        /\ UNCHANGED <<wpc, ret, pending, res_queue, sent, pipe>>
    BY <1>c DEF ProcessExit, resVars, asyncVars, workVars
  <2>2. Noted => Noted'
    BY <2>1 DEF Noted, Draining, InJS
  <2> QED BY <1>a, <2>1, <2>2
<1>3. CASE StartOther \/ Unloop \/ Exited \/ UNCHANGED vars
  <2>1. UNCHANGED <<wpc, mpc, ret, pending, res_queue, sent, pipe>>
    BY <1>3 DEF StartOther, Unloop, Exited, vars, mainVars, resVars, asyncVars,
                workVars
  <2> QED BY <1>a, <2>1 DEF Noted, Draining, InJS
<1>4. CASE JSReturn \/ LoopTop \/ InvokeAsync \/ InvokeOther \/ InvokeDone
  <2>1. UNCHANGED <<wpc, res_queue, sent, pipe>> /\ mpc # "scan"
    BY <1>4 DEF JSReturn, LoopTop, InvokeAsync, InvokeOther, InvokeDone,
                resVars, asyncVars, workVars
  <2>2. Noted => Noted'
    BY <1>0, <1>4 DEF JSReturn, LoopTop, InvokeAsync, InvokeOther, InvokeDone,
                Noted, Draining, InJS
  <2> QED BY <1>a, <2>1, <2>2
<1>5. CASE Poll
  <2>1. UNCHANGED <<wpc, res_queue, sent, pipe>> /\ mpc = "poll"
    BY <1>5 DEF Poll, resVars, asyncVars, workVars
  <2>2. ~Noted
    BY <1>0, <2>1 DEF Noted, Draining, InJS, PendingIsReal
  <2> QED BY <1>a, <2>1, <2>2
<1>6. CASE InvokePipe
  <2>1. mpc = "invoke" /\ pipe = 1 /\ gotasync
    BY <1>0, <1>6 DEF InvokePipe, PendingIsReal, FlagHasByte
  <2>2. mpc' = "scan" /\ UNCHANGED <<wpc, res_queue, sent, ret>>
    BY <1>6, <2>1 DEF InvokePipe, resVars, workVars
  <2>3. Noted => Noted'
    BY <1>6, <2>1 DEF InvokePipe, Noted, Draining, InJS
  <2> QED BY <1>0, <2>1, <2>2, <2>3 DEF ResultSeen
<1>7. CASE Scan
  <2>1. UNCHANGED <<wpc, res_queue, sent, pipe, pending, ret>> /\ mpc = "scan"
    BY <1>7 DEF Scan, resVars, asyncVars, workVars
  <2>2. Noted => Noted'
    BY <2>1 DEF Noted, Draining, InJS
  <2>3. res_queue # {} => active
    BY <1>0 DEF InOnePlace, WatcherStarted
  <2>4. active /\ sent => Noted'
    BY <1>7 DEF Scan, Noted
  <2> QED BY <1>a, <2>1, <2>2, <2>3, <2>4
<1>8. CASE Feed
  <2>1. Noted' /\ UNCHANGED <<wpc, res_queue>>
    BY <1>8 DEF Feed, Noted, resVars, workVars
  <2> QED BY <1>0, <2>1 DEF ResultSeen
<1>9. ASSUME NEW r \in Reqs, Drain(r) PROVE ResultSeen'
  <2>1. Noted' /\ wpc' = wpc /\ reslock = None
    BY <1>9 DEF Drain, Noted, Draining, InJS, workVars
  <2> QED BY <1>b, <2>1 DEF ResultSeen, Sending
<1>10. CASE DrainEmpty
  <2>1. res_queue' = {} /\ wpc' = wpc /\ reslock = None
    BY <1>10 DEF DrainEmpty, resVars, workVars
  <2> QED BY <1>b, <2>1 DEF ResultSeen, Sending
<1>11. CASE Check
  <2>1. UNCHANGED <<wpc, res_queue, sent, pipe>> /\ mpc = "check"
    BY <1>11 DEF Check, resVars, asyncVars, workVars
  <2>2. CASE res_queue = {}
    <3>1. \A w \in Workers : wpc[w] \notin Sending
      BY <1>0, <2>2 DEF ResultSeen, Sending
    <3> QED BY <2>1, <2>2, <3>1 DEF ResultSeen, Sending
  <2>3. CASE res_queue # {}
    <3>1. nreqs # 0
      <4>1. Outstanding # {} /\ IsFiniteSet(Outstanding)
        BY <1>0, <2>3, AllFinite DEF InOnePlace
      <4> QED BY <4>1, FS_EmptySet DEF IInv, CountersAgree
    <3>2. pending' = pending
      BY <1>11, <3>1 DEF Check
    <3>3. Noted => Noted'
      BY <2>1, <3>2 DEF Noted, Draining, InJS
    <3> QED BY <1>a, <2>1, <3>3
  <2> QED BY <2>2, <2>3
<1>12. ASSUME NEW w \in Workers, Worker(w) \/ Expire(w) PROVE ResultSeen'
  <2> USE DEF Move, resVars, asyncVars
  <2>0. UNCHANGED <<mpc, ret, pending>> /\ (Noted <=> Noted')
    <3>1. UNCHANGED <<mpc, ret, pending>>
      BY <1>12 DEF Worker, Fetch, FetchNone, WaitAgain, Execute, Publish,
                   SendSent, SendTest, SendFlag, SendWrite, Release, Expire,
                   mainVars
    <3> QED BY <3>1 DEF Noted, Draining, InJS
  <2>1. CASE Publish(w)
    <3>1. /\ res_queue' # {} /\ UNCHANGED <<sent, pipe>> /\ reslock = None
          /\ wpc[w] = "publish"
          /\ wpc' = [wpc EXCEPT ![w] = IF res_queue = {} THEN "send" ELSE "release"]
      BY <2>1 DEF Publish
    <3>2. \A v \in Workers : wpc[v] \notin Sending
      BY <1>b, <3>1
    <3>3. CASE res_queue = {}
      <4>1. wpc'[w] = "send" /\ \A v \in Workers : v # w => wpc'[v] \notin Sending
        BY <1>0, <3>1, <3>2, <3>3 DEF TypeOK
      <4>2. \A v \in Workers : wpc'[v] \notin {"test", "flag", "write"}
        BY <4>1 DEF Sending
      <4> QED BY <3>1, <4>1, <4>2 DEF ResultSeen, Sending
    <3>4. CASE res_queue # {}
      <4>1. \A v \in Workers : wpc'[v] \notin Sending
        BY <1>0, <3>1, <3>2, <3>4 DEF TypeOK, Sending
      <4>2. \/ pipe = 1 /\ sent
            \/ mpc = "scan" /\ sent
            \/ Noted
        BY <1>0, <3>2, <3>4 DEF ResultSeen
      <4> QED BY <2>0, <3>1, <4>1, <4>2 DEF ResultSeen, Sending
    <3> QED BY <3>3, <3>4
  <2>2. CASE SendSent(w)
    <3>1. /\ wpc[w] = "send" /\ wpc' = [wpc EXCEPT ![w] = "test"]
          /\ sent' /\ res_queue' = res_queue
      BY <2>2 DEF SendSent
    <3>2. res_queue # {} /\ wpc'[w] \in Sending
      BY <1>0, <3>1 DEF ResultSeen, TypeOK, Sending
    <3> QED BY <3>1, <3>2 DEF ResultSeen
  <2>3. CASE SendTest(w)
    <3>1. /\ wpc[w] = "test" /\ UNCHANGED <<res_queue, sent, pipe, gotasync>>
          /\ res_queue # {} /\ (sent \/ Noted)
      BY <1>0, <2>3 DEF SendTest, ResultSeen
    <3>2. \A v \in Workers : wpc[v] \in Sending => v = w
      BY <1>0, <3>1 DEF LockHeld, Locked, Sending
    <3>3. CASE gotasync
      <4>1. wpc' = [wpc EXCEPT ![w] = "release"]
        BY <2>3, <3>3 DEF SendTest
      <4>2. \A v \in Workers : wpc'[v] \notin Sending
        BY <1>0, <3>2, <4>1 DEF TypeOK, Sending
      <4>3. pipe = 1
        <5>1. \A v \in Workers : wpc[v] # "write"
          BY <3>1, <3>2 DEF Sending
        <5> QED BY <1>0, <3>3, <5>1 DEF FlagHasByte
      <4> QED BY <2>0, <3>1, <4>2, <4>3 DEF ResultSeen, Sending
    <3>4. CASE ~gotasync
      <4>1. wpc' = [wpc EXCEPT ![w] = "flag"]
        BY <2>3, <3>4 DEF SendTest
      <4>2. wpc'[w] \in Sending
        BY <1>0, <4>1 DEF TypeOK, Sending
      <4> QED BY <2>0, <3>1, <4>2 DEF ResultSeen
    <3> QED BY <3>3, <3>4
  <2>4. CASE SendFlag(w)
    <3>1. /\ wpc[w] = "flag" /\ wpc' = [wpc EXCEPT ![w] = "write"]
          /\ UNCHANGED <<res_queue, sent>>
      BY <2>4 DEF SendFlag
    <3>2. res_queue # {} /\ (sent \/ Noted) /\ wpc'[w] \in Sending
      BY <1>0, <3>1 DEF ResultSeen, TypeOK, Sending
    <3> QED BY <2>0, <3>1, <3>2 DEF ResultSeen
  <2>5. CASE SendWrite(w)
    <3>1. /\ wpc[w] = "write" /\ wpc' = [wpc EXCEPT ![w] = "release"]
          /\ UNCHANGED <<res_queue, sent>> /\ pipe' = pipe + 1
      BY <2>5 DEF SendWrite
    <3>2. res_queue # {} /\ (sent \/ Noted) /\ pipe' = 1
      BY <1>0, <3>1 DEF ResultSeen, FlagHasByte
    <3> QED BY <2>0, <3>1, <3>2 DEF ResultSeen
  <2>6. CASE \/ \E r \in Reqs : Fetch(w, r)
             \/ FetchNone(w) \/ WaitAgain(w) \/ Execute(w) \/ Release(w)
             \/ Expire(w)
    <3>1. /\ UNCHANGED <<res_queue, sent, pipe>>
          /\ wpc[w] \notin Sending
          /\ \E to : to \notin Sending /\ wpc' = [wpc EXCEPT ![w] = to]
      BY <2>6 DEF Fetch, FetchNone, WaitAgain, Execute, Release, Expire, Sending
    <3>2. \A v \in Workers : \A x \in Sending : wpc'[v] = x <=> wpc[v] = x
      BY <1>0, <3>1 DEF TypeOK
    <3> QED BY <1>a, <2>0, <3>1, <3>2
  <2> QED BY <1>12, <2>1, <2>2, <2>3, <2>4, <2>5, <2>6 DEF Worker
<1> QED
  BY <1>1, <1>2, <1>3, <1>4, <1>5, <1>6, <1>7, <1>8, <1>9, <1>10, <1>11, <1>12, <1>c
     DEF Next, JS, Loop

-----------------------------------------------------------------------------
(* The theorems.                                                           *)

\* The invariant holds when the script starts to run.
LEMMA InitInv == Init => IInv
<1> SUFFICES ASSUME Init PROVE IInv
  OBVIOUS
<1> USE NoneOutside, BoundsAreNat DEF Init
<1>1. TypeOK
  <2>1. /\ mpc \in MainPCs /\ ret \in {"loop", "invoke", "drain_spawn"}
        /\ wpc \in [Workers -> WorkerPCs]
        /\ self_req \in [Workers -> Reqs \cup {None}]
    BY DEF MainPCs, WorkerPCs
  <2>2. active \in BOOLEAN /\ loop_done \in BOOLEAN
    OBVIOUS
  <2>3. gotasync \in BOOLEAN /\ sent \in BOOLEAN
    OBVIOUS
  <2>4. /\ others \in Nat /\ started \in 0..MaxOthers /\ others <= started
        /\ nreqs \in Int /\ nready \in Int /\ npending \in Int /\ pipe \in Int
        /\ expiries \in 0..MaxExpiries
    OBVIOUS
  <2>5. /\ submitted \subseteq Reqs /\ finished \subseteq submitted
        /\ pending \subseteq Watchers
        /\ req_queue \subseteq Reqs /\ res_queue \subseteq Reqs
        /\ reslock \in Workers \cup {None}
    OBVIOUS
  <2> QED BY <2>1, <2>2, <2>3, <2>4, <2>5 DEF TypeOK
<1>2. Held = {} /\ Outstanding = {}
  BY DEF Held, Outstanding
<1>3. InOnePlace
  BY <1>2 DEF InOnePlace
<1>4. CountersAgree
  BY <1>2, FS_EmptySet DEF CountersAgree
<1>5. LockHeld /\ FlagHasByte
  BY DEF LockHeld, Locked, Sending, FlagHasByte
<1>6. PendingIsReal /\ WatcherStarted /\ LoopOutlivesRequests
  BY <1>2 DEF PendingIsReal, WatcherStarted, LoopOutlivesRequests
<1>7. ResultSeen
  BY DEF ResultSeen
<1> QED BY <1>1, <1>3, <1>4, <1>5, <1>6, <1>7 DEF IInv

\* IInv is inductive.
THEOREM Inductive == Spec => []IInv
<1>1. Init => IInv
  BY InitInv
<1>2. IInv /\ [Next]_vars => IInv'
  BY TypeStep, PlaceStep, CountStep, LockStep, FlagStep, PendingStep,
     StartedStep, SeenStep, OutlivesStep DEF IInv
<1> QED BY <1>1, <1>2, PTL DEF Spec

\* Every variable keeps its type.
THEOREM TypeCorrect == Spec => []TypeOK
<1>1. IInv => TypeOK
  BY DEF IInv
<1> QED BY <1>1, Inductive, PTL

\* No request is lost or handed out twice, and eio's counters are right.
THEOREM RequestsConserved == Spec => [](InOnePlace /\ CountersAgree)
<1>1. IInv => InOnePlace /\ CountersAgree
  BY DEF IInv
<1> QED BY <1>1, Inductive, PTL

\* The loop never sleeps over a finished request (no lost wake-up).
THEOREM NoLostWakeup == Spec => []NeverSleepsOnResults
<1>1. IInv => NeverSleepsOnResults
  <2> SUFFICES ASSUME IInv, mpc = "poll", res_queue # {},
                      \A w \in Workers : wpc[w] \notin Sending
               PROVE  pipe > 0 /\ gotasync /\ sent /\ active
    BY DEF NeverSleepsOnResults
  <2>1. ~Noted
    BY DEF IInv, PendingIsReal, Noted, Draining, InJS
  <2>2. pipe = 1 /\ sent
    BY <2>1 DEF IInv, ResultSeen
  <2>3. gotasync
    BY <2>2 DEF IInv, FlagHasByte
  <2>4. active
    BY DEF IInv, InOnePlace, WatcherStarted
  <2> QED BY <2>2, <2>3, <2>4
<1> QED BY <1>1, Inductive, PTL

\* ev_loop does not return by itself while a request is outstanding, and the
\* watcher keeps it going for nothing else.
THEOREM WatcherIsRight == Spec => [](LoopOutlivesRequests /\ WatcherOnlyForRequests)
<1>1. IInv => LoopOutlivesRequests
  BY DEF IInv
<1>2. IInv => WatcherOnlyForRequests
  BY DEF IInv, WatcherStarted, WatcherOnlyForRequests, Draining, InJS
<1> QED BY <1>1, <1>2, Inductive, PTL

\* The pipe never holds more than one byte, so no worker blocks in write.
THEOREM PipeNeverFills == Spec => []PipeHoldsOneByte
<1>1. IInv => PipeHoldsOneByte
  BY DEF IInv, FlagHasByte, PipeHoldsOneByte
<1> QED BY <1>1, Inductive, PTL

-----------------------------------------------------------------------------
(* ThreadPool implements AsyncRequests.                                    *)

\* Every step is one of AsyncRequests, or changes nothing it speaks of.
LEMMA StepRefines == IInv /\ [Next]_vars => [Promise!Next]_(Promise!vars)
<1> SUFFICES ASSUME IInv, [Next]_vars PROVE [Promise!Next]_(Promise!vars)
  OBVIOUS
<1> USE DEF Promise!vars, Promise!Next, Promise!Outstanding, Running
<1>1. ASSUME NEW r \in Reqs, Submit(r) PROVE Promise!Submit(r)
  BY <1>1 DEF Submit, Promise!Submit
<1>2. ASSUME NEW r \in Reqs, Drain(r) PROVE Promise!Finish(r)
  BY <1>2 DEF Drain, Promise!Finish, IInv, InOnePlace, Outstanding
<1>3. ASSUME Unloop PROVE Promise!Unloop
  BY <1>3 DEF Unloop, Promise!Unloop
<1>8. ASSUME ProcessExit PROVE Promise!Exit
  BY <1>8 DEF ProcessExit, Promise!Exit
<1>4. CASE LoopTop
  <2>1. /\ UNCHANGED <<submitted, finished, loop_done>>
        /\ mpc = "loop" /\ mpc' # "killed"
    BY <1>4 DEF LoopTop
  <2>2. CASE mpc' = "exited"
    <3>1. LoopOutlivesRequests'
      BY OutlivesStep
    <3>2. Outstanding = {} \/ loop_done
      BY <2>1, <2>2, <3>1 DEF LoopOutlivesRequests, Outstanding
    <3> QED BY <2>1, <2>2, <3>2 DEF Promise!End, Outstanding
  <2>3. CASE mpc' # "exited"
    BY <2>1, <2>3
  <2> QED BY <2>2, <2>3
<1>5. ASSUME UNCHANGED <<submitted, finished, loop_done>>,
             (Running /\ Running') \/ mpc' = mpc
      PROVE  UNCHANGED Promise!vars
  BY <1>5
<1>6. CASE Spawn \/ StartOther \/ JSReturn \/ InvokePipe \/ Scan \/ Feed
           \/ InvokeAsync \/ InvokeOther \/ InvokeDone \/ DrainEmpty \/ Check
           \/ Poll
  <2>1. UNCHANGED <<submitted, finished, loop_done>>
    BY <1>6 DEF Spawn, StartOther, JSReturn, InvokePipe, Scan, Feed,
                InvokeAsync, InvokeOther, InvokeDone, DrainEmpty, Check, Poll
  <2>2. /\ mpc # "exited" /\ mpc' # "exited"
        /\ mpc # "killed" /\ mpc' # "killed"
    <3>1. CASE JSReturn
      BY <3>1 DEF JSReturn, IInv, TypeOK
    <3>2. CASE InvokePipe
      BY <3>2 DEF InvokePipe
    <3>3. CASE ~JSReturn /\ ~InvokePipe
      BY <1>6, <3>3 DEF Spawn, StartOther, Scan, Feed, InvokeAsync, InvokeOther,
                        InvokeDone, DrainEmpty, Check, Poll
    <3> QED BY <3>1, <3>2, <3>3
  <2> QED BY <1>5, <2>1, <2>2
<1>7. CASE Exited \/ UNCHANGED vars \/ \E w \in Workers : Worker(w) \/ Expire(w)
  <2>1. UNCHANGED mainVars
    BY <1>7 DEF Exited, vars, Worker, Fetch, FetchNone, WaitAgain, Execute,
                Publish, SendSent, SendTest, SendFlag, SendWrite, Release,
                Expire
  <2> QED BY <1>5, <2>1 DEF mainVars
<1> QED BY <1>1, <1>2, <1>3, <1>4, <1>6, <1>7, <1>8 DEF Next, JS, Loop

\* Every behaviour of the pool is one that AsyncRequests allows: requests
\* finish at most once, and the process ends early only when told to.
THEOREM KeepsPromise == Spec => PromiseKept
<1>1. Init => Promise!Init
  BY DEF Init, Promise!Init, Running
<1>2. IInv /\ [Next]_vars => [Promise!Next]_(Promise!vars)
  BY StepRefines
<1> QED BY <1>1, <1>2, Inductive, PTL DEF Spec, PromiseKept, Promise!Spec
=============================================================================
