--------------------------- MODULE AsyncRequests ---------------------------
(***************************************************************************)
(* What the thread pool promises the rest of the program: a request that   *)
(* JavaScript submits is finished - its After* callback runs on the main   *)
(* thread - at most once, in no promised order, and the process does not   *)
(* end by itself while a request is outstanding.  Only an exception nobody *)
(* catches (node_fatal_exception) and process.exit () end it sooner.       *)
(***************************************************************************)
CONSTANT Reqs

VARIABLES submitted,   \* requests handed to eio so far
          finished,    \* requests whose After* callback has been called
          unlooped,    \* the program was told to stop
          running      \* the process has not ended

vars == <<submitted, finished, unlooped, running>>

Outstanding == submitted \ finished

Init ==
  /\ submitted = {}
  /\ finished = {}
  /\ unlooped = FALSE
  /\ running = TRUE

Submit(r) ==
  /\ running
  /\ r \in Reqs \ submitted
  /\ submitted' = submitted \cup {r}
  /\ UNCHANGED <<finished, unlooped, running>>

Finish(r) ==
  /\ running
  /\ r \in Outstanding
  /\ finished' = finished \cup {r}
  /\ UNCHANGED <<submitted, unlooped, running>>

\* node_fatal_exception: what is in hand is still done.
Unloop ==
  /\ running
  /\ unlooped' = TRUE
  /\ UNCHANGED <<submitted, finished, running>>

\* process.exit (): the process ends at once.
Exit ==
  /\ running
  /\ unlooped' = TRUE
  /\ running' = FALSE
  /\ UNCHANGED <<submitted, finished>>

\* ev_loop returns, and main () after it.
End ==
  /\ running
  /\ Outstanding = {} \/ unlooped
  /\ running' = FALSE
  /\ UNCHANGED <<submitted, finished, unlooped>>

Next ==
  \/ \E r \in Reqs : Submit(r) \/ Finish(r)
  \/ Unloop
  \/ Exit
  \/ End

Spec == Init /\ [][Next]_vars
============================================================================
