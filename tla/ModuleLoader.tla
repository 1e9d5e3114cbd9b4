---------------------------- MODULE ModuleLoader ----------------------------
(***************************************************************************)
(* Start-up (main in node.cc) and the module loader (main.js).  A script   *)
(* names its submodules with require and include while it runs; each is    *)
(* looked for, read and run in turn, and when all have been loaded its     *)
(* onLoad is called.  Nothing is cached: a file that two scripts name is   *)
(* loaded twice, so what is loaded is a tree, whose nodes are the paths    *)
(* from the main script: <<>>, <<1>>, <<2>>, <<2, 1>>, ...                 *)
(*                                                                         *)
(* File.exists is an action of the constructor File, whose queue takes one *)
(* at a time; File.cat uses a File of its own.  FileQueue has the details, *)
(* ThreadPool what lies between a request and its completion.              *)
(***************************************************************************)
EXTENDS Integers, Sequences, FiniteSets

CONSTANTS
  Files,      \* the scripts
  Main,       \* ARGV[1]
  Programs,   \* programs: for each file the sequence of files it names
  Faults,     \* for each file "none", or what is wrong with it
  MaxDepth,   \* bound: length of a path (scripts may name each other for ever)
  MaxSubs     \* bound: how many submodules a script names

ASSUME MainIsFile == Main \in Files
ASSUME BoundsAreNat == MaxDepth \in Nat /\ MaxSubs \in Nat
ASSUME ProgramsAreBounded ==
  Programs \subseteq [Files -> UNION {[1..k -> Files] : k \in 0..MaxSubs}]

Nodes == UNION {[1..d -> 1..MaxSubs] : d \in 0..MaxDepth}
Root == <<>>
NoNode == <<0>>

VARIABLES
  names,      \* the program
  fault,
  file,       \* for each node the file it is loaded from, once it is named
  status,     \* for each node "none", "find", "cat", "subs", "loaded" or "failed"
  ncomplete,  \* for each node how many of its submodules have been loaded
  finds,      \* the constructor's queue, whose head is being executed
  finishing,  \* the node whose finish () is running, or NoNode
  order,      \* history: the nodes whose onLoad was called, if they have one
  loop,       \* "start", "running", "unloop" or "exited"; "lost" if memory is
  code        \* exit_code

vars == <<names, fault, file, status, ncomplete, finds, finishing, order, loop, code>>

Init ==
  /\ names \in Programs /\ fault \in Faults
  /\ file = [n \in Nodes |-> Main]
  /\ status = [n \in Nodes |-> "none"]
  /\ ncomplete = [n \in Nodes |-> 0]
  /\ finds = <<>>
  /\ finishing = NoNode
  /\ order = <<>>
  /\ loop = "start" /\ code = 0

Named(n) == names[file[n]]
FaultOf(n) == fault[file[n]]

Child(n, i) == Append(n, i)
Parent(n) == SubSeq(n, 1, Len(n) - 1)

\* After ev_unloop the completions at hand are still delivered.
Delivers == loop \in {"running", "unloop"} /\ finishing = NoNode

\* exit (1): process.exit of main.js, or ExecuteString.
Exit1 == loop' = "exited" /\ code' = 1

\* node_fatal_exception.
Fatal == loop' = "unloop" /\ code' = 1

-----------------------------------------------------------------------------
\* main () runs file.js and main.js, which loads ARGV[1] where it is.
StartUp ==
  /\ loop = "start"
  /\ loop' = "running"
  /\ status' = [status EXCEPT ![Root] = "cat"]
  /\ UNCHANGED <<names, fault, file, ncomplete, finds, finishing, order, code>>

\* The callback of File.exists, in Sub.load, and _pollActions.
FindDone ==
  /\ Delivers /\ finds # <<>>
  /\ finds' = Tail(finds)
  /\ IF FaultOf(Head(finds)) = "absent"
       THEN Exit1 /\ UNCHANGED status
       ELSE status' = [status EXCEPT ![Head(finds)] = "cat"] /\ UNCHANGED <<loop, code>>
  /\ UNCHANGED <<names, fault, file, ncomplete, finishing, order>>

\* The submodules that are looked for: findScript throws at an absolute name, and
\* with it the loop in loadScript.
Searched(n) ==
  {i \in DOMAIN Named(n) : \A j \in 1..i : fault[Named(n)[j]] # "absolute"}

\* The callback of File.cat cannot use what it gets: the file is not readable, or
\* does not compile (exit), or throws when it runs.
CatFails(n) ==
  /\ Delivers /\ status[n] = "cat"
  /\ \/ FaultOf(n) \in {"unreadable", "syntax"} /\ Exit1
     \/ FaultOf(n) = "throws" /\ Fatal
  /\ status' = [status EXCEPT ![n] = "failed"]
  /\ UNCHANGED <<names, fault, file, ncomplete, finds, finishing, order>>

\* It runs the script, and calls load of each submodule, or finish ().
CatDone(n) ==
  /\ Delivers /\ status[n] = "cat"
  /\ FaultOf(n) \notin {"unreadable", "syntax", "throws"}
  /\ Named(n) # <<>> => Len(n) < MaxDepth
  /\ LET subs == {Child(n, i) : i \in Searched(n)}
     IN  /\ file' = [m \in Nodes |-> IF m \in subs THEN Named(n)[m[Len(m)]] ELSE file[m]]
         /\ status' = [m \in Nodes |->
              IF m \in subs THEN "find" ELSE IF m = n THEN "subs" ELSE status[m]]
  /\ finds' = finds \o [i \in Searched(n) |-> Child(n, i)]
  /\ finishing' = IF Named(n) = <<>> THEN n ELSE NoNode
  /\ IF Searched(n) = DOMAIN Named(n) THEN UNCHANGED <<loop, code>> ELSE Fatal
  /\ UNCHANGED <<names, fault, ncomplete, order>>

\* Variant: the first submodule that is loaded completes its parent.
IsAny(count, n) == count >= 1

IsComplete(count, n) == count = Len(Named(n))

\* Variant: the parent is not told.
NotTold(n) == finishing' = NoNode /\ UNCHANGED ncomplete

\* The callback of finish (): the parent counts, and may finish in its turn.
Tell(n) ==
  IF n = Root
    THEN finishing' = NoNode /\ UNCHANGED ncomplete
    ELSE LET p == Parent(n)
         IN  /\ ncomplete' = [ncomplete EXCEPT ![p] = @ + 1]
             /\ finishing' = IF IsComplete(ncomplete[p] + 1, p) THEN p ELSE NoNode

\* finish (): onLoad, and the callback unless onLoad throws.
Finish ==
  /\ finishing # NoNode /\ loop \in {"running", "unloop"}
  /\ order' = Append(order, finishing)
  /\ IF FaultOf(finishing) = "onload"
       THEN /\ status' = [status EXCEPT ![finishing] = "failed"]
            /\ finishing' = NoNode /\ Fatal /\ UNCHANGED ncomplete
       ELSE /\ status' = [status EXCEPT ![finishing] = "loaded"]
            /\ Tell(finishing) /\ UNCHANGED <<loop, code>>
  /\ UNCHANGED <<names, fault, file, finds>>

\* ev_loop returns, by ev_unloop or because nothing keeps it, and main with it.
LoopReturns ==
  /\ finishing = NoNode
  /\ \/ loop = "unloop"
     \/ loop = "running" /\ finds = <<>> /\ \A n \in Nodes : status[n] # "cat"
  /\ loop' = "exited"
  /\ UNCHANGED <<names, fault, file, status, ncomplete, finds, finishing, order, code>>

\* The collector deletes the File of a cat, to which only its own queue refers.
Collect ==
  /\ loop \in {"running", "unloop"}
  /\ \E n \in Nodes : status[n] = "cat"
  /\ loop' = "lost"
  /\ UNCHANGED <<names, fault, file, status, ncomplete, finds, finishing, order, code>>

Cat(n) == CatFails(n) \/ CatDone(n)

Next ==
  \/ StartUp \/ FindDone \/ Finish \/ LoopReturns \/ Collect
  \/ \E n \in Nodes : CatFails(n)
  \/ \E n \in Nodes : CatDone(n)

Spec == Init /\ [][Next]_vars

\* The pool executes every request, and the loop goes on.
FairSpec ==
  /\ Spec
  /\ WF_vars(StartUp) /\ WF_vars(FindDone) /\ WF_vars(Finish) /\ WF_vars(LoopReturns)
  /\ \A n \in Nodes : WF_vars(Cat(n))

-----------------------------------------------------------------------------
TypeOK ==
  /\ names \in Programs /\ fault \in Faults
  /\ file \in [Nodes -> Files]
  /\ status \in [Nodes -> {"none", "find", "cat", "subs", "loaded", "failed"}]
  /\ ncomplete \in [Nodes -> 0..MaxSubs]
  /\ finds \in Seq(Nodes)
  /\ finishing \in Nodes \cup {NoNode}
  /\ order \in Seq(Nodes)
  /\ loop \in {"start", "running", "unloop", "exited", "lost"}
  /\ code \in {0, 1}

Subs(n) == {Child(n, i) : i \in DOMAIN Named(n)}
Before(k) == {order[j] : j \in 1..(k - 1)}

\* onLoad is called once for each module, after that of all its submodules, in
\* whatever order their files are found and read.
SubsComeFirst ==
  \A k \in DOMAIN order : order[k] \notin Before(k) /\ Subs(order[k]) \subseteq Before(k)

\* Nodes that may have submodules.
Inner == {n \in Nodes : Len(n) < MaxDepth}

\* A module waits for those it names, and counts the ones that are loaded.
SubsAreNamed ==
  \A n \in Inner, i \in 1..MaxSubs :
    status[Child(n, i)] # "none" =>
      i \in DOMAIN Named(n) /\ (status[n] = "subs" \/ \E k \in DOMAIN order : order[k] = n)

CountIsLoaded ==
  \A n \in Inner : ncomplete[n] = Cardinality({i \in 1..MaxSubs : status[Child(n, i)] = "loaded"})

\* Whoever is finishing, or has finished, has all its submodules loaded.
HasItsSubs(n) == \A i \in DOMAIN Named(n) : n \in Inner /\ status[Child(n, i)] = "loaded"

FinishingIsReady == finishing # NoNode => status[finishing] = "subs" /\ HasItsSubs(finishing)

OrderIsLoaded ==
  /\ \A k \in DOMAIN order : status[order[k]] \in {"loaded", "failed"} /\ HasItsSubs(order[k])
  /\ \A n \in Nodes : status[n] = "loaded" => \E k \in DOMAIN order : order[k] = n

\* What is in the constructor's queue is looked for, once.
FindsAreSought ==
  \A k \in DOMAIN finds :
    status[finds[k]] = "find" /\ \A j \in DOMAIN finds : finds[j] = finds[k] => j = k

NotStarted == loop = "start" => \A n \in Nodes : status[n] = "none"

\* The process does not end with 0 before the main script's onLoad: no submodule
\* is forgotten, and none that fails leaves the program to end in silence.
ZeroMeansLoaded ==
  loop = "exited" /\ code = 0 => \E k \in DOMAIN order : order[k] = Root

\* As long as the exit code is 0 nothing has failed, what is looked for is in the
\* queue, and whoever waits has begun with all its submodules, and some of them are
\* not loaded.
Waiting(n) ==
  /\ \A i \in DOMAIN Named(n) : n \in Inner => status[Child(n, i)] # "none"
  /\ n # finishing => n \in Inner /\ ncomplete[n] # Len(Named(n))

NoneIsForgotten ==
  code = 0 =>
    /\ loop # "unloop"
    /\ loop # "start" => status[Root] # "none"
    /\ \A n \in Nodes :
         /\ status[n] # "failed"
         /\ status[n] = "find" => \E k \in DOMAIN finds : finds[k] = n
         /\ status[n] = "subs" => Waiting(n)

\* The inductive invariant.
IInv ==
  /\ TypeOK /\ SubsAreNamed /\ CountIsLoaded /\ FinishingIsReady /\ OrderIsLoaded
  /\ FindsAreSought /\ NotStarted /\ SubsComeFirst /\ NoneIsForgotten /\ ZeroMeansLoaded

\* No script names itself, through whatever others.
Acyclic ==
  \E rank \in [Files -> 0..MaxDepth] :
    \A f \in Files : \A i \in DOMAIN names[f] : rank[names[f][i]] < rank[f]

\* A program without faults and cycles gets to its main script's onLoad.
MainIsLoaded ==
  Acyclic /\ (\A f \in Files : fault[f] = "none") =>
    <>(status[Root] = "loaded" \/ loop = "lost")
=============================================================================
