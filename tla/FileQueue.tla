------------------------------ MODULE FileQueue ------------------------------
(***************************************************************************)
(* The File binding: the _actionQueue of every File object and of the File *)
(* constructor itself (file.js), the _ffi_* functions that hand the head   *)
(* of a queue to the thread pool, and the After* functions that call its   *)
(* callback and poll the queue (file.cc).  The pool is AsyncRequests.      *)
(*                                                                         *)
(* All of this runs on the main thread, one callback at a time: a call     *)
(* made by JavaScript, and a completion up to the point where it enters    *)
(* JavaScript, are single steps.                                           *)
(***************************************************************************)
EXTENDS Integers, Sequences, FiniteSets

CONSTANTS
  Files,        \* File objects
  StdFiles,     \* those main.js and file.js give a descriptor (stdout, ...)
  Dropped,      \* those the program may drop its last reference to
  Shared,       \* the File constructor: rename, stat, exists
  MaxActions,   \* bound: calls made on one object
  None

ASSUME StdAreFiles   == StdFiles \subseteq Files /\ Dropped \subseteq Files
ASSUME SharedNotFile == Shared \notin Files
ASSUME NoneNotObject == None \notin Files \cup {Shared}
ASSUME MaxIsNat      == MaxActions \in Nat

Objects == Files \cup {Shared}
Ids == 1..MaxActions

VARIABLES
  queue,       \* _actionQueue of each object
  added,       \* number of actions ever put on it
  fd,          \* the object has the property "fd"
  calling,     \* the object whose completion callback runs, or None
  refused,     \* actions whose _ffi_ function returned, or threw, at once
  freed,       \* Files that File::MakeWeak has deleted
  crashed,     \* an After* function was entered with a deleted File
  submitted, finished, unlooped, running    \* AsyncRequests

poolVars == <<submitted, finished, unlooped, running>>
vars == <<queue, added, fd, calling, refused, freed, crashed, poolVars>>

Pool == INSTANCE AsyncRequests WITH Reqs <- Objects \X Ids

Methods(o) == IF o = Shared THEN {"stat"} ELSE {"open", "close", "write", "read"}

\* What a call leaves in the queue; "good" tells whether the arguments have
\* the types the _ffi_ function asks for.  "puts" is a write that is not good:
\* it passes its callback where Write expects a position.
Good(m) == IF m = "close" THEN {TRUE} ELSE BOOLEAN

InFlight(o) == {r \in Pool!Outstanding : r[1] = o}
HeadOf(o) == <<o, queue[o][1].id>>

Init ==
  /\ queue = [o \in Objects |-> <<>>]
  /\ added = [o \in Objects |-> 0]
  /\ fd = [f \in Files |-> f \in StdFiles]
  /\ calling = None
  /\ refused = {}
  /\ freed = {}
  /\ crashed = FALSE
  /\ Pool!Init

\* Does the _ffi_ function get as far as calling eio?  close and read do not
\* look at fd; open throws when it is there, write returns when it is not.
Accepts(o, a) ==
  /\ a.good
  /\ a.method = "open" => ~fd[o]
  /\ a.method = "write" => fd[o]

\* _act on the new contents q of o's queue.
Act(o, q) ==
  IF q = <<>>
    THEN UNCHANGED <<refused, poolVars>>
    ELSE IF Accepts(o, q[1])
      THEN Pool!Submit(<<o, q[1].id>>) /\ UNCHANGED refused
      ELSE refused' = refused \cup {<<o, q[1].id>>} /\ UNCHANGED poolVars

Alive == running /\ ~crashed

\* Variant: every call is executed at once.
AddActionAtOnce(o, m, g) ==
  /\ Alive /\ o \notin freed
  /\ added[o] < MaxActions
  /\ added' = [added EXCEPT ![o] = @ + 1]
  /\ LET a == [id |-> added[o] + 1, method |-> m, good |-> g]
     IN  queue' = [queue EXCEPT ![o] = Append(@, a)] /\ Act(o, <<a>>)
  /\ UNCHANGED <<fd, calling, freed, crashed>>

\* _addAction, called by any JavaScript that has a reference to the object, in
\* whatever callback; a refusal leaves the action in the queue.
AddAction(o, m, g) ==
  /\ Alive /\ o \notin freed
  /\ added[o] < MaxActions
  /\ added' = [added EXCEPT ![o] = @ + 1]
  /\ LET q == Append(queue[o], [id |-> added[o] + 1, method |-> m, good |-> g])
     IN  /\ queue' = [queue EXCEPT ![o] = q]
         /\ IF Len(q) = 1 THEN Act(o, q) ELSE UNCHANGED <<refused, poolVars>>
  /\ UNCHANGED <<fd, calling, freed, crashed>>

\* AfterOpen and AfterClose set and delete fd, unless the call failed.
After(o, a) ==
  \/ UNCHANGED fd
  \/ a.method \in {"open", "close"} /\ fd' = [fd EXCEPT ![o] = (a.method = "open")]

\* eio_poll calls After*, and CallTopCallback the callback of queue [0].
Complete(o, n) ==
  /\ Alive /\ calling = None /\ o \notin freed
  /\ Pool!Finish(<<o, n>>)
  /\ After(o, queue[o][1])
  /\ calling' = o
  /\ UNCHANGED <<queue, added, refused, freed, crashed>>

\* The request's File is gone: After* follows a pointer to freed memory.
CompleteFreed(o, n) ==
  /\ Alive /\ calling = None /\ o \in freed
  /\ Pool!Finish(<<o, n>>)
  /\ crashed' = TRUE
  /\ UNCHANGED <<queue, added, fd, calling, refused, freed>>

\* Variant: _pollActions shifts the queue and leaves it at that.
CallbackReturnsIdle ==
  /\ Alive /\ calling # None
  /\ queue' = [queue EXCEPT ![calling] = Tail(@)]
  /\ calling' = None
  /\ UNCHANGED <<added, fd, refused, freed, crashed, poolVars>>

\* The callback returns, or there is none: _pollActions.
CallbackReturns ==
  /\ Alive /\ calling # None
  /\ LET q == Tail(queue[calling])
     IN  /\ queue' = [queue EXCEPT ![calling] = q]
         /\ Act(calling, q)
  /\ calling' = None
  /\ UNCHANGED <<added, fd, freed, crashed>>

\* The callback throws: node_fatal_exception, and no _pollActions.
CallbackThrows ==
  /\ Alive /\ calling # None
  /\ Pool!Unloop
  /\ calling' = None
  /\ UNCHANGED <<queue, added, fd, refused, freed, crashed>>

\* The collector finds a File that only its own queue refers to: a request in
\* flight holds a pointer to it, but no handle that would keep it.
Collect(f) ==
  /\ Alive
  /\ f \in Dropped \ freed
  /\ calling # f
  /\ freed' = freed \cup {f}
  /\ UNCHANGED <<queue, added, fd, calling, refused, crashed, poolVars>>

\* ev_loop returns; the pool lets it when nothing is outstanding.
Exit ==
  /\ Alive /\ calling = None
  /\ Pool!End
  /\ UNCHANGED <<queue, added, fd, calling, refused, freed, crashed>>

\* An exception in any other callback.
ThrowElsewhere ==
  /\ Alive
  /\ Pool!Unloop
  /\ UNCHANGED <<queue, added, fd, calling, refused, freed, crashed>>

\* process.exit (), in whatever callback.
ProcessExit ==
  /\ Alive
  /\ Pool!Exit
  /\ UNCHANGED <<queue, added, fd, calling, refused, freed, crashed>>

Next ==
  \/ \E o \in Objects :
       \E m \in Methods(o) : \E g \in Good(m) : AddAction(o, m, g)
  \/ \E o \in Objects, n \in Ids : Complete(o, n)
  \/ \E o \in Objects, n \in Ids : CompleteFreed(o, n)
  \/ CallbackReturns
  \/ CallbackThrows
  \/ ThrowElsewhere
  \/ ProcessExit
  \/ \E f \in Files : Collect(f)
  \/ Exit

Spec == Init /\ [][Next]_vars

\* The pool finishes what it was given (ThreadPool!EveryRequestFinishes) and
\* JavaScript returns.
FairSpec ==
  /\ Spec
  /\ \A o \in Objects, n \in Ids : WF_vars(Complete(o, n))
  /\ WF_vars(CallbackReturns \/ CallbackThrows)

-----------------------------------------------------------------------------
Actions == [id : Ids, method : {"stat", "open", "close", "write", "read"},
            good : BOOLEAN]

TypeOK ==
  /\ queue \in [Objects -> Seq(Actions)]
  /\ added \in [Objects -> 0..MaxActions]
  /\ fd \in [Files -> BOOLEAN]
  /\ calling \in Objects \cup {None}
  /\ refused \subseteq Objects \X Ids
  /\ freed \subseteq Files
  /\ crashed \in BOOLEAN
  /\ submitted \subseteq Objects \X Ids
  /\ finished \subseteq submitted
  /\ unlooped \in BOOLEAN /\ running \in BOOLEAN

\* The request that is in flight for an object is the head of its queue, so
\* that CallTopCallback, which looks at queue [0] only, calls the callback of
\* the call that completed; and there is at most one (file.js 67-68, 80-83).
InFlightIsHead ==
  \A r \in Pool!Outstanding :
    /\ queue[r[1]] # <<>>
    /\ HeadOf(r[1]) = r
    /\ calling # r[1]

\* The inductive invariant of FileQueueProofs: the queue holds the last calls in
\* their order, everything that left it was completed, and nothing behind its
\* head was begun.
Left(o) == added[o] - Len(queue[o])

QueueIsSuffix ==
  \A o \in Objects :
    /\ Len(queue[o]) <= added[o]
    /\ \A i \in 1..Len(queue[o]) : queue[o][i].id = Left(o) + i

LeftAreFinished ==
  \A o \in Objects, k \in Ids : k <= Left(o) => <<o, k>> \in finished

OnlyHeadsBegun ==
  \A o \in Objects, n \in Ids : <<o, n>> \in submitted =>
    n <= Left(o) \/ (queue[o] # <<>> /\ n = Left(o) + 1)

CallingHead ==
  calling # None => queue[calling] # <<>> /\ HeadOf(calling) \in finished

\* A queue that holds actions, none of which is at the pool or being called
\* back, stalled for one of two reasons only: its head was refused by the
\* _ffi_ function, or a callback threw and the program is ending.
StallsOnlyIfRefused ==
  ~crashed => \A o \in Objects :
    queue[o] # <<>> /\ calling # o /\ InFlight(o) = {} =>
      HeadOf(o) \in refused \/ (HeadOf(o) \in finished /\ unlooped)

IInv ==
  /\ TypeOK /\ QueueIsSuffix /\ LeftAreFinished /\ OnlyHeadsBegun
  /\ CallingHead /\ InFlightIsHead /\ StallsOnlyIfRefused

\* "When an action has completed, the C++ side is going to look at the first
\* element of _actionQueue" (file.js 80-82): a completion finds the File it is
\* for.  Violated: a File with a request in flight may be collected.
CompletionFindsFile == ~crashed

\* The methods of every object take effect in order, one at a time.
Ordered == INSTANCE OrderedActions WITH begun <- submitted, done <- finished
InOrder == Ordered!Spec

\* Every action is completed, unless one before it, or itself, was refused, its
\* File was collected, or the program is ending or has crashed.
EveryActionCompletes ==
  \A o \in Objects, n \in Ids :
    (added[o] >= n) ~>
      \/ <<o, n>> \in finished
      \/ \E k \in 1..n : <<o, k>> \in refused
      \/ unlooped
      \/ o \in freed
      \/ crashed
=============================================================================
