--------------------------- MODULE OrderedActions ---------------------------
(***************************************************************************)
(* What file.js (lines 62-86) promises of the methods of a File: they take *)
(* effect in the order of the calls, one at a time, each at most once, and *)
(* a later one not before the callback of every earlier one was called.    *)
(* The n-th call on object o is the action <<o, n>>.                       *)
(***************************************************************************)
EXTENDS Naturals

CONSTANTS Objects, MaxActions

VARIABLES added,    \* number of calls made on each object
          begun,    \* actions handed to the thread pool
          done      \* actions whose completion callback was called

vars == <<added, begun, done>>

Ids == 1..MaxActions

Init ==
  /\ added = [o \in Objects |-> 0]
  /\ begun = {}
  /\ done = {}

\* It is n's turn on o: it was asked for, and nothing before it is unfinished.
Turn(o, n) ==
  /\ n <= added[o]
  /\ <<o, n>> \notin begun
  /\ \A k \in Ids : k < n => <<o, k>> \in done

Add(o) ==
  /\ added' = [added EXCEPT ![o] = @ + 1]
  /\ UNCHANGED <<begun, done>>

\* A call on an object with nothing to do takes effect at once.
AddAndBegin(o) ==
  /\ added' = [added EXCEPT ![o] = @ + 1]
  /\ <<o, added[o] + 1>> \notin begun
  /\ \A k \in Ids : k <= added[o] => <<o, k>> \in done
  /\ begun' = begun \cup {<<o, added[o] + 1>>}
  /\ UNCHANGED done

Begin(o, n) ==
  /\ Turn(o, n)
  /\ begun' = begun \cup {<<o, n>>}
  /\ UNCHANGED <<added, done>>

Finish(o, n) ==
  /\ <<o, n>> \in begun \ done
  /\ done' = done \cup {<<o, n>>}
  /\ UNCHANGED <<added, begun>>

Next ==
  \E o \in Objects :
    \/ Add(o) \/ AddAndBegin(o)
    \/ \E n \in Ids : Begin(o, n) \/ Finish(o, n)

Spec == Init /\ [][Next]_vars
============================================================================
