--------------------------- MODULE FileQueueProofs ---------------------------
(***************************************************************************)
(* For any number of File objects and of calls on them: the completion that *)
(* arrives is the one of the queue's head, a queue stalls only over a       *)
(* refused head, and the methods of an object take effect in order.         *)
(***************************************************************************)
EXTENDS FileQueue, TLAPS

USE DEF Pool!Outstanding

\* The head of a queue and what a call appends to it.
LEMMA HeadId ==
  ASSUME IInv, NEW o \in Objects, queue[o] # <<>>
  PROVE  /\ queue[o][1] \in Actions
         /\ Len(queue[o]) \in Nat \ {0}
         /\ queue[o][1].id = Left(o) + 1
         /\ HeadOf(o) = <<o, Left(o) + 1>>
         /\ Left(o) + 1 \in Ids
<1>1. queue[o] \in Seq(Actions) /\ Len(queue[o]) \in Nat \ {0}
  BY DEF IInv, TypeOK
<1>2. queue[o][1] \in Actions
  BY <1>1
<1>3. queue[o][1].id = Left(o) + 1
  BY <1>1 DEF IInv, QueueIsSuffix
<1>4. queue[o][1].id \in Ids
  BY <1>2 DEF Actions
<1> QED BY <1>1, <1>2, <1>3, <1>4 DEF HeadOf

\* The calls that have left a queue, and those still in it, are all that were made.
LEMMA LeftRange ==
  ASSUME IInv, NEW o \in Objects
  PROVE  /\ Left(o) \in 0..MaxActions /\ Left(o) <= added[o]
         /\ added[o] \in 0..MaxActions
         /\ Len(queue[o]) = added[o] - Left(o)
         /\ queue[o] = <<>> => Left(o) = added[o]
  BY MaxIsNat DEF IInv, TypeOK, QueueIsSuffix, Left

-----------------------------------------------------------------------------
(* The two steps that change a queue.                                      *)

\* A step that appends one action to o's queue and, when it is alone there,
\* acts on it.
LEMMA AddStep ==
  ASSUME IInv, NEW o \in Objects, NEW m \in Methods(o), NEW g \in BOOLEAN,
         AddAction(o, m, g)
  PROVE  IInv'
<1> DEFINE a == [id |-> added[o] + 1, method |-> m, good |-> g]
           q == Append(queue[o], a)
<1>0. /\ TypeOK /\ QueueIsSuffix /\ LeftAreFinished /\ OnlyHeadsBegun
      /\ CallingHead /\ InFlightIsHead /\ StallsOnlyIfRefused
  BY DEF IInv
<1>1. /\ added[o] < MaxActions /\ added' = [added EXCEPT ![o] = @ + 1]
      /\ queue' = [queue EXCEPT ![o] = q]
      /\ IF Len(q) = 1 THEN Act(o, q) ELSE UNCHANGED <<refused, poolVars>>
      /\ UNCHANGED <<fd, calling, freed, crashed>> /\ ~crashed
  BY DEF AddAction, Alive
<1>2. queue[o] \in Seq(Actions) /\ added[o] \in 0..MaxActions
  BY <1>0 DEF TypeOK
<1>3. a \in Actions /\ a.id = added[o] + 1 /\ added[o] + 1 \in Ids
  BY <1>1, <1>2, MaxIsNat DEF Actions, Ids, Methods
<1> HIDE DEF a
<1>4. /\ q \in Seq(Actions) /\ q # <<>>
      /\ Len(q) = Len(queue[o]) + 1
      /\ q[Len(q)] = a
      /\ \A i \in 1..Len(queue[o]) : q[i] = queue[o][i]
  BY <1>2, <1>3
<1> HIDE DEF q
<1>5. \A x \in Objects :
        /\ queue'[x] = IF x = o THEN q ELSE queue[x]
        /\ added'[x] = IF x = o THEN added[o] + 1 ELSE added[x]
  BY <1>0, <1>1 DEF TypeOK
<1>6. \A x \in Objects : Left(x)' = Left(x)
  <2>1. Len(queue[o]) \in Nat
    BY <1>2
  <2>2. Left(o)' = Left(o)
    BY <1>2, <1>4, <1>5, <2>1 DEF Left
  <2> QED BY <1>5, <2>2 DEF Left
<1>7. \A x \in Objects : queue[x] # <<>> => queue'[x] # <<>> /\ HeadOf(x)' = HeadOf(x)
  <2> SUFFICES ASSUME NEW x \in Objects, queue[x] # <<>>
               PROVE  queue'[x] # <<>> /\ queue'[x][1] = queue[x][1]
    BY DEF HeadOf
  <2>1. Len(queue[x]) \in Nat \ {0}
    BY HeadId
  <2> QED BY <1>4, <1>5, <2>1
<1>8. queue[o] = <<>> => Len(q) = 1 /\ q[1] = a /\ added[o] = Left(o)
  BY <1>4, LeftRange
<1>9. queue[o] # <<>> => UNCHANGED <<refused, submitted, finished, unlooped, running>>
  BY <1>1, <1>2, <1>4 DEF poolVars
<1>s. QueueIsSuffix'
  <2> SUFFICES ASSUME NEW x \in Objects
               PROVE  /\ Len(queue'[x]) <= added'[x]
                      /\ \A i \in 1..Len(queue'[x]) : queue'[x][i].id = Left(x) + i
    BY <1>6 DEF QueueIsSuffix
  <2>1. CASE x # o
    BY <1>0, <1>5, <2>1 DEF QueueIsSuffix
  <2>2. CASE x = o
    <3>1. Len(queue[o]) \in Nat /\ Len(queue[o]) <= added[o]
      BY <1>0, <1>2 DEF QueueIsSuffix
    <3>2. Len(q) <= added[o] + 1
      BY <1>2, <1>4, <3>1
    <3>3. \A i \in 1..Len(queue[o]) : q[i].id = Left(o) + i
      BY <1>0, <1>4 DEF QueueIsSuffix
    <3>4. q[Len(q)].id = Left(o) + Len(q)
      BY <1>2, <1>3, <1>4, <3>1 DEF Left
    <3> QED BY <1>4, <1>5, <2>2, <3>1, <3>2, <3>3, <3>4
  <2> QED BY <2>1, <2>2
<1>10. CASE queue[o] # <<>> \/ (queue[o] = <<>> /\ ~Accepts(o, a))
  <2>1. /\ UNCHANGED <<submitted, finished, unlooped, running>>
        /\ refused \subseteq refused' /\ refused' \subseteq Objects \X Ids
        /\ queue[o] = <<>> => <<o, added[o] + 1>> \in refused'
    BY <1>0, <1>1, <1>3, <1>4, <1>8, <1>9, <1>10 DEF Act, poolVars, TypeOK
  <2>2. TypeOK'
    <3>1. added' \in [Objects -> 0..MaxActions]
      BY <1>0, <1>1, <1>2, MaxIsNat DEF TypeOK
    <3>2. queue' \in [Objects -> Seq(Actions)]
      BY <1>0, <1>1, <1>4 DEF TypeOK
    <3> QED BY <1>0, <1>1, <2>1, <3>1, <3>2 DEF TypeOK
  <2>3. QueueIsSuffix'
    BY <1>s
  <2>4. LeftAreFinished'
    BY <1>0, <1>6, <2>1 DEF LeftAreFinished
  <2>5. OnlyHeadsBegun'
    BY <1>0, <1>6, <1>7, <2>1 DEF OnlyHeadsBegun
  <2>6. CallingHead'
    BY <1>0, <1>1, <1>7, <2>1 DEF CallingHead, TypeOK
  <2>7. InFlightIsHead'
    <3> SUFFICES ASSUME NEW r \in submitted \ finished
                 PROVE  /\ queue'[r[1]] # <<>> /\ HeadOf(r[1])' = r
                        /\ calling # r[1]
      BY <1>1, <2>1 DEF InFlightIsHead
    <3>1. r[1] \in Objects
      BY <1>0 DEF TypeOK
    <3> QED BY <1>0, <1>7, <3>1 DEF InFlightIsHead
  <2>8. StallsOnlyIfRefused'
    <3> SUFFICES ASSUME NEW x \in Objects, queue'[x] # <<>>, calling # x,
                        InFlight(x)' = {}
                 PROVE  HeadOf(x)' \in refused' \/ (HeadOf(x)' \in finished /\ unlooped)
      BY <1>1, <2>1 DEF StallsOnlyIfRefused
    <3>1. InFlight(x) = {}
      BY <2>1 DEF InFlight
    <3>2. CASE queue[x] # <<>>
      BY <1>0, <1>1, <1>7, <2>1, <3>1, <3>2 DEF StallsOnlyIfRefused
    <3>3. CASE queue[x] = <<>> /\ x = o
      <4>1. HeadOf(o)' = <<o, added[o] + 1>>
        BY <1>3, <1>5, <1>8, <3>3 DEF HeadOf
      <4> QED BY <2>1, <3>3, <4>1
    <3>4. CASE queue[x] = <<>> /\ x # o
      BY <1>5, <3>4
    <3> QED BY <3>2, <3>3, <3>4
  <2> QED BY <2>2, <2>3, <2>4, <2>5, <2>6, <2>7, <2>8 DEF IInv
<1>11. CASE queue[o] = <<>> /\ Accepts(o, a)
  <2> DEFINE r0 == <<o, added[o] + 1>>
  <2>1. /\ submitted' = submitted \cup {r0} /\ r0 \notin submitted
        /\ UNCHANGED <<finished, unlooped, running, refused>>
        /\ r0 \in Objects \X Ids
    BY <1>1, <1>3, <1>4, <1>8, <1>11 DEF Act, Pool!Submit
  <2>2. TypeOK'
    <3>1. added' \in [Objects -> 0..MaxActions]
      BY <1>0, <1>1, <1>2, MaxIsNat DEF TypeOK
    <3>2. queue' \in [Objects -> Seq(Actions)]
      BY <1>0, <1>1, <1>4 DEF TypeOK
    <3> QED BY <1>0, <1>1, <2>1, <3>1, <3>2 DEF TypeOK
  <2>3. QueueIsSuffix'
    BY <1>s
  <2>4. LeftAreFinished'
    BY <1>0, <1>6, <2>1 DEF LeftAreFinished
  <2>5. OnlyHeadsBegun'
    <3> SUFFICES ASSUME NEW x \in Objects, NEW n \in Ids, <<x, n>> \in submitted'
                 PROVE  n <= Left(x) \/ (queue'[x] # <<>> /\ n = Left(x) + 1)
      BY <1>6 DEF OnlyHeadsBegun
    <3>1. CASE <<x, n>> \in submitted
      BY <1>0, <1>7, <3>1 DEF OnlyHeadsBegun
    <3>2. CASE <<x, n>> = r0
      BY <1>4, <1>5, <1>8, <1>11, <3>2
    <3> QED BY <2>1, <3>1, <3>2
  <2>6. CallingHead'
    BY <1>0, <1>1, <1>7, <2>1 DEF CallingHead, TypeOK
  <2>7. InFlightIsHead'
    <3> SUFFICES ASSUME NEW r \in submitted' \ finished'
                 PROVE  /\ queue'[r[1]] # <<>> /\ HeadOf(r[1])' = r
                        /\ calling' # r[1]
      BY DEF InFlightIsHead
    <3>1. CASE r \in submitted
      <4>1. r[1] \in Objects /\ r \in submitted \ finished
        BY <1>0, <2>1, <3>1 DEF TypeOK
      <4> QED BY <1>0, <1>1, <1>7, <4>1 DEF InFlightIsHead
    <3>2. CASE r = r0
      <4>1. HeadOf(o)' = r0 /\ queue'[o] # <<>>
        BY <1>3, <1>4, <1>5, <1>8, <1>11 DEF HeadOf
      <4>2. calling # o
        BY <1>0, <1>11, NoneNotObject DEF CallingHead, Objects
      <4> QED BY <1>1, <3>2, <4>1, <4>2
    <3> QED BY <2>1, <3>1, <3>2
  <2>8. StallsOnlyIfRefused'
    <3> SUFFICES ASSUME NEW x \in Objects, queue'[x] # <<>>, calling # x,
                        InFlight(x)' = {}
                 PROVE  HeadOf(x)' \in refused' \/ (HeadOf(x)' \in finished' /\ unlooped')
      BY <1>1 DEF StallsOnlyIfRefused
    <3>1. x # o
      <4>1. r0 \notin finished
        BY <1>0, <2>1 DEF TypeOK
      <4>2. r0 \in InFlight(o)'
        BY <2>1, <4>1 DEF InFlight
      <4> QED BY <4>2
    <3>2. InFlight(x) = {}
      BY <2>1 DEF InFlight
    <3>3. queue[x] # <<>>
      BY <1>5, <3>1
    <3> QED BY <1>0, <1>1, <1>7, <2>1, <3>2, <3>3 DEF StallsOnlyIfRefused
  <2> QED BY <2>2, <2>3, <2>4, <2>5, <2>6, <2>7, <2>8 DEF IInv
<1> QED BY <1>10, <1>11

\* _pollActions: the head, which was completed, leaves; the next one is acted on.
LEMMA ReturnStep ==
  ASSUME IInv, NEW o \in Objects, calling = o, CallbackReturns
  PROVE  IInv'
<1> DEFINE q == Tail(queue[o])
<1>0. /\ TypeOK /\ QueueIsSuffix /\ LeftAreFinished /\ OnlyHeadsBegun
      /\ CallingHead /\ InFlightIsHead /\ StallsOnlyIfRefused
  BY DEF IInv
<1>1. /\ queue' = [queue EXCEPT ![o] = q]
      /\ Act(o, q) /\ calling' = None
      /\ UNCHANGED <<added, fd, freed, crashed>> /\ ~crashed
  BY <1>0 DEF CallbackReturns, Alive, TypeOK
<1>2. queue[o] \in Seq(Actions) /\ queue[o] # <<>> /\ HeadOf(o) \in finished
  BY <1>0, <1>1, NoneNotObject DEF TypeOK, CallingHead, Objects
<1>3. Len(queue[o]) \in Nat \ {0} /\ HeadOf(o) = <<o, Left(o) + 1>>
  BY <1>1, <1>2, HeadId
<1>4. /\ q \in Seq(Actions) /\ Len(q) = Len(queue[o]) - 1
      /\ \A i \in 1..Len(q) : q[i] = queue[o][i + 1]
  BY <1>2, <1>3
<1> HIDE DEF q
<1>5. \A x \in Objects : queue'[x] = IF x = o THEN q ELSE queue[x]
  BY <1>0, <1>1 DEF TypeOK
<1>6. Left(o)' = Left(o) + 1 /\ \A x \in Objects : x # o => Left(x)' = Left(x)
  <2>1. added[o] \in Int
    BY <1>0, <1>1 DEF TypeOK
  <2> QED BY <1>1, <1>3, <1>4, <1>5, <2>1 DEF Left
<1>7. \A x \in Objects : x # o => HeadOf(x)' = HeadOf(x)
  BY <1>5 DEF HeadOf
<1>8. q # <<>> => /\ q[1] \in Actions /\ q[1].id = Left(o) + 2
                  /\ HeadOf(o)' = <<o, Left(o) + 2>> /\ Left(o) + 2 \in Ids
  <2> SUFFICES ASSUME q # <<>>
               PROVE  /\ q[1] \in Actions /\ q[1].id = Left(o) + 2
                      /\ HeadOf(o)' = <<o, Left(o) + 2>> /\ Left(o) + 2 \in Ids
    OBVIOUS
  <2>1. Len(q) \in Nat \ {0} /\ q[1] \in Actions
    BY <1>4
  <2>2. q[1] = queue[o][2] /\ 2 \in 1..Len(queue[o])
    BY <1>3, <1>4, <2>1
  <2>3. q[1].id = Left(o) + 2
    BY <1>0, <1>1, <2>2 DEF QueueIsSuffix
  <2>4. q[1].id \in Ids
    BY <2>1 DEF Actions
  <2> QED BY <1>1, <1>5, <2>1, <2>3, <2>4 DEF HeadOf
<1>9. \A r \in submitted \ finished : r[1] # o
  BY <1>0 DEF InFlightIsHead
<1>10. QueueIsSuffix'
  <2> SUFFICES ASSUME NEW x \in Objects
               PROVE  /\ Len(queue'[x]) <= added[x]
                      /\ \A i \in 1..Len(queue'[x]) : queue'[x][i].id = Left(x)' + i
    BY <1>1 DEF QueueIsSuffix
  <2>1. CASE x # o
    BY <1>0, <1>5, <1>6, <2>1 DEF QueueIsSuffix
  <2>2. CASE x = o
    <3>1. Len(q) <= added[o] /\ Left(o) \in Int
      BY <1>0, <1>1, <1>3, <1>4 DEF QueueIsSuffix, TypeOK, Left
    <3>2. \A i \in 1..Len(q) : q[i].id = Left(o) + (i + 1)
      BY <1>0, <1>1, <1>3, <1>4 DEF QueueIsSuffix
    <3>3. Left(x)' = Left(o) + 1 /\ queue'[x] = q
      BY <1>5, <1>6, <2>2
    <3>4. \A i \in 1..Len(q) : q[i].id = (Left(o) + 1) + i
      BY <3>1, <3>2
    <3> QED BY <2>2, <3>1, <3>3, <3>4
  <2> QED BY <2>1, <2>2
<1>11. Left(o) \in 0..MaxActions
  BY <1>1, LeftRange
<1>12. finished' = finished /\ unlooped' = unlooped /\ running' = running
  BY <1>1 DEF Act, Pool!Submit, poolVars
<1>13. LeftAreFinished'
  <2> SUFFICES ASSUME NEW x \in Objects, NEW k \in Ids, k <= Left(x)'
               PROVE  <<x, k>> \in finished
    BY <1>12 DEF LeftAreFinished
  <2>1. CASE x # o \/ k <= Left(o)
    BY <1>0, <1>6, <2>1 DEF LeftAreFinished
  <2>2. CASE x = o /\ ~(k <= Left(o))
    <3>1. k = Left(o) + 1
      BY <1>6, <1>11, <2>2 DEF Ids
    <3> QED BY <1>2, <1>3, <2>2, <3>1
  <2> QED BY <2>1, <2>2
<1>14. CallingHead'
  BY <1>1 DEF CallingHead
<1>15. queue' \in [Objects -> Seq(Actions)]
  BY <1>0, <1>1, <1>4 DEF TypeOK
<1>16. CASE q = <<>> \/ ~Accepts(o, q[1])
  <2>1. /\ submitted' = submitted
        /\ refused \subseteq refused' /\ refused' \subseteq Objects \X Ids
        /\ q # <<>> => HeadOf(o)' \in refused'
    BY <1>0, <1>1, <1>8, <1>16 DEF Act, poolVars, TypeOK
  <2>2. TypeOK'
    BY <1>0, <1>1, <1>12, <1>15, <2>1 DEF TypeOK
  <2>3. OnlyHeadsBegun'
    <3> SUFFICES ASSUME NEW x \in Objects, NEW n \in Ids, <<x, n>> \in submitted
                 PROVE  n <= Left(x)' \/ (queue'[x] # <<>> /\ n = Left(x)' + 1)
      BY <2>1 DEF OnlyHeadsBegun
    <3> QED BY <1>0, <1>5, <1>6, <1>11 DEF OnlyHeadsBegun, Ids
  <2>4. InFlightIsHead'
    <3> SUFFICES ASSUME NEW r \in submitted \ finished
                 PROVE  /\ queue'[r[1]] # <<>> /\ HeadOf(r[1])' = r
                        /\ calling' # r[1]
      BY <1>12, <2>1 DEF InFlightIsHead
    <3>1. r[1] \in Objects /\ r[1] # o
      BY <1>0, <1>9 DEF TypeOK
    <3> QED BY <1>0, <1>1, <1>5, <1>7, <3>1, NoneNotObject DEF InFlightIsHead, Objects
  <2>5. StallsOnlyIfRefused'
    <3> SUFFICES ASSUME NEW x \in Objects, queue'[x] # <<>>, InFlight(x)' = {}
                 PROVE  HeadOf(x)' \in refused' \/ (HeadOf(x)' \in finished /\ unlooped)
      BY <1>12 DEF StallsOnlyIfRefused
    <3>1. CASE x = o
      BY <1>5, <2>1, <3>1
    <3>2. CASE x # o
      <4>1. InFlight(x) = {}
        BY <1>12, <2>1 DEF InFlight
      <4> QED BY <1>0, <1>1, <1>5, <1>7, <2>1, <3>2, <4>1 DEF StallsOnlyIfRefused
    <3> QED BY <3>1, <3>2
  <2> QED BY <1>10, <1>13, <1>14, <2>2, <2>3, <2>4, <2>5 DEF IInv
<1>17. CASE q # <<>> /\ Accepts(o, q[1])
  <2> DEFINE r0 == <<o, Left(o) + 2>>
  <2>1. /\ submitted' = submitted \cup {r0} /\ r0 \notin submitted
        /\ refused' = refused /\ r0 \in Objects \X Ids /\ HeadOf(o)' = r0
    BY <1>1, <1>8, <1>17 DEF Act, Pool!Submit
  <2>2. TypeOK'
    BY <1>0, <1>1, <1>12, <1>15, <2>1 DEF TypeOK
  <2>3. OnlyHeadsBegun'
    <3> SUFFICES ASSUME NEW x \in Objects, NEW n \in Ids, <<x, n>> \in submitted'
                 PROVE  n <= Left(x)' \/ (queue'[x] # <<>> /\ n = Left(x)' + 1)
      BY DEF OnlyHeadsBegun
    <3>1. CASE <<x, n>> \in submitted
      BY <1>0, <1>5, <1>6, <1>11, <3>1 DEF OnlyHeadsBegun, Ids
    <3>2. CASE <<x, n>> = r0
      <4>1. x = o /\ n = Left(o)' + 1
        BY <1>6, <1>11, <3>2
      <4> QED BY <1>5, <1>17, <4>1
    <3> QED BY <2>1, <3>1, <3>2
  <2>4. InFlightIsHead'
    <3> SUFFICES ASSUME NEW r \in submitted' \ finished'
                 PROVE  /\ queue'[r[1]] # <<>> /\ HeadOf(r[1])' = r
                        /\ calling' # r[1]
      BY DEF InFlightIsHead
    <3>1. CASE r \in submitted
      <4>1. r[1] \in Objects /\ r[1] # o /\ r \in submitted \ finished
        BY <1>0, <1>9, <1>12, <3>1 DEF TypeOK
      <4> QED BY <1>0, <1>1, <1>5, <1>7, <4>1, NoneNotObject DEF InFlightIsHead, Objects
    <3>2. CASE r = r0
      BY <1>1, <1>5, <1>17, <2>1, <3>2, NoneNotObject DEF Objects
    <3> QED BY <2>1, <3>1, <3>2
  <2>5. StallsOnlyIfRefused'
    <3> SUFFICES ASSUME NEW x \in Objects, queue'[x] # <<>>, InFlight(x)' = {}
                 PROVE  HeadOf(x)' \in refused' \/ (HeadOf(x)' \in finished /\ unlooped)
      BY <1>12 DEF StallsOnlyIfRefused
    <3>1. x # o
      <4>1. r0 \notin finished
        BY <1>0, <2>1 DEF TypeOK
      <4>2. r0 \in InFlight(o)'
        BY <1>12, <2>1, <4>1 DEF InFlight
      <4> QED BY <4>2
    <3>2. InFlight(x) = {}
      BY <1>12, <2>1 DEF InFlight
    <3> QED BY <1>0, <1>1, <1>5, <1>7, <2>1, <3>1, <3>2 DEF StallsOnlyIfRefused
  <2> QED BY <1>10, <1>13, <1>14, <2>2, <2>3, <2>4, <2>5 DEF IInv
<1> QED BY <1>16, <1>17

-----------------------------------------------------------------------------
(* The steps that leave the queues alone.                                  *)

\* A completion moves one request from "in flight" to "finished".
LEMMA CompleteStep ==
  ASSUME IInv, NEW o \in Objects, NEW n \in Ids,
         Complete(o, n) \/ CompleteFreed(o, n)
  PROVE  IInv'
<1>0. /\ TypeOK /\ QueueIsSuffix /\ LeftAreFinished /\ OnlyHeadsBegun
      /\ CallingHead /\ InFlightIsHead /\ StallsOnlyIfRefused
  BY DEF IInv
<1>1. /\ <<o, n>> \in submitted \ finished /\ finished' = finished \cup {<<o, n>>}
      /\ UNCHANGED <<queue, added, refused, freed, submitted, unlooped, running>>
      /\ calling = None /\ (calling' = o \/ (calling' = None /\ crashed'))
  BY DEF Complete, CompleteFreed, Pool!Finish
<1>2. queue[o] # <<>> /\ HeadOf(o) = <<o, n>>
  BY <1>0, <1>1 DEF InFlightIsHead
<1>3. fd' \in [Files -> BOOLEAN] /\ crashed' \in BOOLEAN
  <2>1. CASE Complete(o, n)
    <3>1. After(o, queue[o][1]) /\ crashed' = crashed
      BY <2>1 DEF Complete
    <3>2. fd' = fd \/ \E b \in BOOLEAN : fd' = [fd EXCEPT ![o] = b]
      BY <3>1 DEF After
    <3> QED BY <1>0, <3>1, <3>2 DEF TypeOK
  <2>2. CASE CompleteFreed(o, n)
    BY <1>0, <2>2 DEF CompleteFreed, TypeOK
  <2> QED BY <2>1, <2>2
<1>4. TypeOK'
  BY <1>0, <1>1, <1>3 DEF TypeOK
<1>5. QueueIsSuffix' /\ LeftAreFinished' /\ OnlyHeadsBegun'
  BY <1>0, <1>1 DEF QueueIsSuffix, LeftAreFinished, OnlyHeadsBegun, Left
<1>6. CallingHead'
  BY <1>1, <1>2 DEF CallingHead, HeadOf
<1>7. InFlightIsHead'
  <2> SUFFICES ASSUME NEW r \in submitted \ finished, r # <<o, n>>
               PROVE  queue[r[1]] # <<>> /\ HeadOf(r[1]) = r /\ calling' # r[1]
    BY <1>1 DEF InFlightIsHead, HeadOf
  <2>1. queue[r[1]] # <<>> /\ HeadOf(r[1]) = r /\ r[1] \in Objects
    BY <1>0 DEF InFlightIsHead, TypeOK
  <2>2. r[1] # o
    BY <1>2, <2>1
  <2> QED BY <1>1, <2>1, <2>2, NoneNotObject DEF Objects
<1>8. StallsOnlyIfRefused'
  <2> SUFFICES ASSUME ~crashed', NEW x \in Objects, queue[x] # <<>>,
                      calling' # x, InFlight(x)' = {}
               PROVE  HeadOf(x) \in refused \/ (HeadOf(x) \in finished' /\ unlooped)
    BY <1>1 DEF StallsOnlyIfRefused, HeadOf
  <2>1. calling' = o /\ x # o /\ ~crashed
    BY <1>1 DEF Complete, CompleteFreed, Alive
  <2>2. InFlight(x) = {}
    BY <1>1, <2>1 DEF InFlight
  <2>3. calling # x
    BY <1>1, NoneNotObject DEF Objects
  <2> QED BY <1>0, <1>1, <2>1, <2>2, <2>3 DEF StallsOnlyIfRefused
<1> QED BY <1>4, <1>5, <1>6, <1>7, <1>8 DEF IInv

\* The remaining steps touch no queue and no request.
LEMMA OtherStep ==
  ASSUME IInv,
         \/ CallbackThrows \/ ThrowElsewhere \/ ProcessExit \/ Exit
         \/ \E f \in Files : Collect(f)
         \/ UNCHANGED vars
  PROVE  IInv'
<1>0. /\ TypeOK /\ QueueIsSuffix /\ LeftAreFinished /\ OnlyHeadsBegun
      /\ CallingHead /\ InFlightIsHead /\ StallsOnlyIfRefused
  BY DEF IInv
<1>1. /\ UNCHANGED <<queue, added, fd, refused, crashed, submitted, finished>>
      /\ calling' = calling \/ (calling' = None /\ unlooped')
      /\ unlooped => unlooped'
  BY DEF CallbackThrows, ThrowElsewhere, ProcessExit, Exit, Collect, vars, poolVars,
         Pool!Unloop, Pool!Exit, Pool!End
<1>2. unlooped' \in BOOLEAN /\ running' \in BOOLEAN /\ freed' \subseteq Files
  <2>1. CASE CallbackThrows \/ ThrowElsewhere \/ ProcessExit
    BY <1>0, <2>1 DEF CallbackThrows, ThrowElsewhere, ProcessExit, Pool!Unloop, Pool!Exit, TypeOK
  <2>2. CASE Exit
    BY <1>0, <2>2 DEF Exit, Pool!End, TypeOK
  <2>3. CASE (\E f \in Files : Collect(f)) \/ UNCHANGED vars
    BY <1>0, <2>3 DEF Collect, vars, poolVars, TypeOK
  <2> QED BY <2>1, <2>2, <2>3
<1>3. TypeOK'
  BY <1>0, <1>1, <1>2 DEF TypeOK
<1>4. QueueIsSuffix' /\ LeftAreFinished' /\ OnlyHeadsBegun'
  BY <1>0, <1>1 DEF QueueIsSuffix, LeftAreFinished, OnlyHeadsBegun, Left
<1>5. CallingHead'
  BY <1>0, <1>1 DEF CallingHead, HeadOf
<1>6. InFlightIsHead'
  <2> SUFFICES ASSUME NEW r \in submitted \ finished
               PROVE  queue[r[1]] # <<>> /\ HeadOf(r[1]) = r /\ calling' # r[1]
    BY <1>1 DEF InFlightIsHead, HeadOf
  <2>1. queue[r[1]] # <<>> /\ HeadOf(r[1]) = r /\ r[1] \in Objects /\ calling # r[1]
    BY <1>0 DEF InFlightIsHead, TypeOK
  <2> QED BY <1>1, <2>1, NoneNotObject DEF Objects
<1>7. StallsOnlyIfRefused'
  <2> SUFFICES ASSUME ~crashed, NEW x \in Objects, queue[x] # <<>>,
                      calling' # x, InFlight(x) = {}
               PROVE  HeadOf(x) \in refused \/ (HeadOf(x) \in finished /\ unlooped')
    BY <1>1 DEF StallsOnlyIfRefused, HeadOf, InFlight
  <2>1. CASE calling # x
    BY <1>0, <1>1, <2>1 DEF StallsOnlyIfRefused
  <2>2. CASE calling = x
    BY <1>0, <1>1, <2>2, NoneNotObject DEF CallingHead, Objects
  <2> QED BY <2>1, <2>2
<1> QED BY <1>3, <1>4, <1>5, <1>6, <1>7 DEF IInv
-----------------------------------------------------------------------------
(* The invariant, and the theorems that rest on it.                        *)

\* Every queue is empty at the start.
LEMMA InitInv == Init => IInv
<1> SUFFICES ASSUME Init PROVE IInv
  OBVIOUS
<1>1. /\ \A o \in Objects : queue[o] = <<>> /\ added[o] = 0
      /\ calling = None /\ refused = {} /\ freed = {} /\ crashed = FALSE
      /\ submitted = {} /\ finished = {} /\ unlooped = FALSE /\ running = TRUE
  BY DEF Init, Pool!Init
<1>2. TypeOK
  <2>1. queue \in [Objects -> Seq(Actions)] /\ added \in [Objects -> 0..MaxActions]
    BY MaxIsNat DEF Init
  <2>2. fd \in [Files -> BOOLEAN]
    BY DEF Init
  <2> QED BY <1>1, <2>1, <2>2 DEF TypeOK
<1>3. \A o \in Objects : Len(queue[o]) = 0 /\ Left(o) = 0
  BY <1>1 DEF Left
<1>4. QueueIsSuffix
  BY <1>1, <1>3 DEF QueueIsSuffix
<1>5. LeftAreFinished
  BY <1>3, MaxIsNat DEF LeftAreFinished, Ids
<1>6. OnlyHeadsBegun /\ CallingHead /\ InFlightIsHead /\ StallsOnlyIfRefused
  BY <1>1 DEF OnlyHeadsBegun, CallingHead, InFlightIsHead, StallsOnlyIfRefused
<1> QED BY <1>2, <1>4, <1>5, <1>6 DEF IInv

\* Every step preserves the invariant.
LEMMA NextInv == IInv /\ [Next]_vars => IInv'
<1> SUFFICES ASSUME IInv, [Next]_vars PROVE IInv'
  OBVIOUS
<1>1. ASSUME NEW o \in Objects, NEW m \in Methods(o), NEW g \in Good(m),
             AddAction(o, m, g)
      PROVE  IInv'
  <2>1. g \in BOOLEAN
    BY DEF Good
  <2> QED BY <1>1, <2>1, AddStep
<1>2. ASSUME NEW o \in Objects, NEW n \in Ids, Complete(o, n) \/ CompleteFreed(o, n)
      PROVE  IInv'
  BY <1>2, CompleteStep
<1>3. CASE CallbackReturns
  <2>1. calling \in Objects
    BY <1>3 DEF CallbackReturns, IInv, TypeOK
  <2> QED BY <1>3, <2>1, ReturnStep
<1>4. CASE \/ CallbackThrows \/ ThrowElsewhere \/ ProcessExit \/ Exit
           \/ \E f \in Files : Collect(f)
           \/ UNCHANGED vars
  BY <1>4, OtherStep
<1> QED BY <1>1, <1>2, <1>3, <1>4 DEF Next

\* The invariant holds in every reachable state.
THEOREM Inductive == Spec => []IInv
<1>1. Init => IInv
  BY InitInv
<1>2. IInv /\ [Next]_vars => IInv'
  BY NextInv
<1> QED BY <1>1, <1>2, PTL DEF Spec

\* The state of the File binding has its type, however many objects there are.
THEOREM TypeCorrect == Spec => []TypeOK
<1>1. IInv => TypeOK
  BY DEF IInv
<1> QED BY <1>1, Inductive, PTL

\* A completion that CallTopCallback (file.cc) is called for is the one of the
\* action at the head of the object's queue, and the only one in flight.
THEOREM CompletionsMeetTheirHead == Spec => []InFlightIsHead
<1>1. IInv => InFlightIsHead
  BY DEF IInv
<1> QED BY <1>1, Inductive, PTL

\* A queue stands still only over a head that its _ffi_ function refused, or
\* because a callback threw (file.js, _pollActions).
THEOREM StallsAreRefusals == Spec => []StallsOnlyIfRefused
<1>1. IInv => StallsOnlyIfRefused
  BY DEF IInv
<1> QED BY <1>1, Inductive, PTL

-----------------------------------------------------------------------------
(* The queues implement OrderedActions.                                    *)

\* A call either waits its turn or takes effect at once.
LEMMA AddRefines ==
  ASSUME IInv, NEW o \in Objects, NEW m \in Methods(o), NEW g \in BOOLEAN,
         AddAction(o, m, g)
  PROVE  Ordered!Add(o) \/ Ordered!AddAndBegin(o)
<1> DEFINE a == [id |-> added[o] + 1, method |-> m, good |-> g]
           q == Append(queue[o], a)
<1>1. /\ added' = [added EXCEPT ![o] = @ + 1]
      /\ IF Len(q) = 1 THEN Act(o, q) ELSE UNCHANGED <<refused, poolVars>>
  BY DEF AddAction
<1>2. queue[o] \in Seq(Actions) /\ added[o] \in 0..MaxActions
  BY DEF IInv, TypeOK
<1>3. /\ Len(q) = Len(queue[o]) + 1 /\ q # <<>> /\ a.id = added[o] + 1
      /\ queue[o] = <<>> => q[1] = a
  BY <1>2
<1> HIDE DEF q, a
<1>4. CASE queue[o] # <<>> \/ ~Accepts(o, q[1])
  <2>1. UNCHANGED <<submitted, finished>>
    BY <1>1, <1>2, <1>3, <1>4 DEF Act, poolVars
  <2> QED BY <1>1, <2>1 DEF Ordered!Add
<1>5. CASE queue[o] = <<>> /\ Accepts(o, q[1])
  <2>1. /\ submitted' = submitted \cup {<<o, added[o] + 1>>}
        /\ <<o, added[o] + 1>> \notin submitted /\ finished' = finished
    BY <1>1, <1>2, <1>3, <1>5 DEF Act, Pool!Submit
  <2>2. Left(o) = added[o]
    BY <1>5, LeftRange
  <2>3. \A k \in Ids : k <= added[o] => <<o, k>> \in finished
    BY <2>2 DEF IInv, LeftAreFinished
  <2> QED BY <1>1, <2>1, <2>3 DEF Ordered!AddAndBegin, Ordered!Ids, Ids
<1> QED BY <1>4, <1>5

\* _pollActions begins the next action, if any, in its turn.
LEMMA ReturnRefines ==
  ASSUME IInv, NEW o \in Objects, calling = o, CallbackReturns
  PROVE  (\E n \in Ids : Ordered!Begin(o, n)) \/ UNCHANGED Ordered!vars
<1> DEFINE q == Tail(queue[o])
<1>1. Act(o, q) /\ added' = added
  BY DEF CallbackReturns
<1>2. queue[o] \in Seq(Actions) /\ queue[o] # <<>> /\ HeadOf(o) \in finished
  BY NoneNotObject DEF IInv, TypeOK, CallingHead, Objects
<1>3. Len(queue[o]) \in Nat \ {0} /\ HeadOf(o) = <<o, Left(o) + 1>>
  BY <1>2, HeadId
<1>4. q # <<>> => Len(queue[o]) >= 2 /\ q[1] = queue[o][2] /\ q[1] \in Actions
  BY <1>2, <1>3
<1> HIDE DEF q
<1>5. Left(o) \in 0..MaxActions /\ added[o] \in 0..MaxActions
      /\ Len(queue[o]) = added[o] - Left(o)
  BY LeftRange
<1>6. CASE q = <<>> \/ ~Accepts(o, q[1])
  BY <1>1, <1>6 DEF Act, poolVars, Ordered!vars
<1>7. CASE q # <<>> /\ Accepts(o, q[1])
  <2>1. q[1].id = Left(o) + 2
    <3>1. 2 \in 1..Len(queue[o])
      BY <1>3, <1>4, <1>7
    <3> QED BY <1>4, <1>7, <3>1 DEF IInv, QueueIsSuffix
  <2>2. Left(o) + 2 \in Ids /\ Left(o) + 2 <= added[o]
    BY <1>4, <1>5, <1>7, MaxIsNat DEF Ids
  <2>3. /\ submitted' = submitted \cup {<<o, Left(o) + 2>>}
        /\ <<o, Left(o) + 2>> \notin submitted /\ finished' = finished
    BY <1>1, <1>7, <2>1 DEF Act, Pool!Submit
  <2>4. \A k \in Ids : k < Left(o) + 2 => <<o, k>> \in finished
    <3> SUFFICES ASSUME NEW k \in Ids, k < Left(o) + 2 PROVE <<o, k>> \in finished
      OBVIOUS
    <3>1. CASE k <= Left(o)
      BY <3>1 DEF IInv, LeftAreFinished
    <3>2. CASE k = Left(o) + 1
      BY <1>2, <1>3, <3>2
    <3> QED BY <1>5, <3>1, <3>2 DEF Ids
  <2>5. Ordered!Begin(o, Left(o) + 2)
    BY <1>1, <2>2, <2>3, <2>4 DEF Ordered!Begin, Ordered!Turn, Ordered!Ids, Ids
  <2> QED BY <2>2, <2>5
<1> QED BY <1>6, <1>7

\* Every step of the queues is a step of OrderedActions or changes nothing there.
LEMMA StepRefines == IInv /\ [Next]_vars => [Ordered!Next]_(Ordered!vars)
<1> SUFFICES ASSUME IInv, [Next]_vars PROVE [Ordered!Next]_(Ordered!vars)
  OBVIOUS
<1>1. ASSUME NEW o \in Objects, NEW m \in Methods(o), NEW g \in Good(m),
             AddAction(o, m, g)
      PROVE  Ordered!Next
  <2>1. g \in BOOLEAN
    BY DEF Good
  <2> QED BY <1>1, <2>1, AddRefines DEF Ordered!Next
<1>2. ASSUME NEW o \in Objects, NEW n \in Ids, Complete(o, n) \/ CompleteFreed(o, n)
      PROVE  Ordered!Next
  <2>1. Ordered!Finish(o, n)
    BY <1>2 DEF Complete, CompleteFreed, Pool!Finish, Ordered!Finish
  <2> QED BY <2>1 DEF Ordered!Next, Ordered!Ids, Ids
<1>3. CASE CallbackReturns
  <2>1. calling \in Objects
    BY <1>3 DEF CallbackReturns, IInv, TypeOK
  <2> QED BY <1>3, <2>1, ReturnRefines DEF Ordered!Next, Ordered!Ids, Ids
<1>4. CASE \/ CallbackThrows \/ ThrowElsewhere \/ ProcessExit \/ Exit
           \/ \E f \in Files : Collect(f)
           \/ UNCHANGED vars
  <2>1. UNCHANGED <<added, submitted, finished>>
    BY <1>4 DEF CallbackThrows, ThrowElsewhere, ProcessExit, Exit, Collect, vars, poolVars,
                Pool!Unloop, Pool!Exit, Pool!End
  <2> QED BY <2>1 DEF Ordered!vars
<1> QED BY <1>1, <1>2, <1>3, <1>4 DEF Next

\* What file.js (62-86) promises: the methods of every object take effect one
\* at a time in the order of the calls.
THEOREM ActionsAreOrdered == Spec => InOrder
<1>1. Init => Ordered!Init
  BY DEF Init, Pool!Init, Ordered!Init
<1>2. IInv /\ [Next]_vars => [Ordered!Next]_(Ordered!vars)
  BY StepRefines
<1> QED BY <1>1, <1>2, Inductive, PTL DEF Spec, InOrder, Ordered!Spec
=============================================================================
