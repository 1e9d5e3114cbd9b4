---------------------------- MODULE LoaderProofs ----------------------------
(***************************************************************************)
(* For any scripts, programs and faults: a module's onLoad is called once, *)
(* after those of all its submodules, and the process does not end with 0  *)
(* before that of the main script.                                         *)
(***************************************************************************)
EXTENDS ModuleLoader, SequenceTheorems, FiniteSetTheorems, NumberFacts, TLAPS

-----------------------------------------------------------------------------
(* Nodes and their names.                                                  *)

\* A node is a sequence of numbers of submodules, MaxDepth at most.
LEMMA NodeIsSeq ==
  ASSUME NEW n \in Nodes
  PROVE  /\ n \in Seq(1..MaxSubs) /\ Len(n) \in 0..MaxDepth /\ DOMAIN n = 1..Len(n)
         /\ Len(n) \in Nat
<1> PICK d \in 0..MaxDepth : n \in [1..d -> 1..MaxSubs]
  BY DEF Nodes
<1>1. d \in Nat
  BY BoundsAreNat
<1>2. n \in Seq(1..MaxSubs)
  BY <1>1, SeqDef
<1> QED BY <1>1, <1>2, LenProperties

\* And every such sequence is a node.
LEMMA SeqIsNode ==
  ASSUME NEW s \in Seq(1..MaxSubs), Len(s) <= MaxDepth
  PROVE  s \in Nodes
<1>1. Len(s) \in Nat /\ s \in [1..Len(s) -> 1..MaxSubs]
  BY LenProperties
<1>2. Len(s) \in 0..MaxDepth
  BY <1>1, BoundsAreNat
<1> QED BY <1>1, <1>2 DEF Nodes

\* A child is the parent's path with one more step.
LEMMA ChildIsNode ==
  ASSUME NEW n \in Inner, NEW i \in 1..MaxSubs
  PROVE  /\ Child(n, i) \in Nodes /\ Len(Child(n, i)) = Len(n) + 1
         /\ Child(n, i)[Len(Child(n, i))] = i
         /\ Child(n, i) # n /\ Child(n, i) # Root
         /\ \A m \in Inner, j \in 1..MaxSubs : Child(n, i) = Child(m, j) => n = m /\ i = j
<1>1. n \in Seq(1..MaxSubs) /\ Len(n) \in Nat /\ Len(n) < MaxDepth
  BY NodeIsSeq DEF Inner
<1>2. /\ Child(n, i) \in Seq(1..MaxSubs) /\ Len(Child(n, i)) = Len(n) + 1
      /\ Child(n, i)[Len(n) + 1] = i
  BY <1>1, AppendProperties DEF Child
<1>3. Child(n, i) \in Nodes
  BY <1>1, <1>2, SeqIsNode, BoundsAreNat
<1>4. Child(n, i) # n /\ Child(n, i) # Root
  BY <1>1, <1>2 DEF Root
<1>5. ASSUME NEW m \in Inner, NEW j \in 1..MaxSubs, Child(n, i) = Child(m, j) PROVE n = m /\ i = j
  <2>1. m \in Seq(1..MaxSubs)
    BY NodeIsSeq DEF Inner
  <2> QED BY <1>1, <1>5, <2>1, AppendInjective DEF Child
<1> QED BY <1>2, <1>3, <1>4, <1>5

\* Every node but the root is a child of its parent.
LEMMA NodeIsChild ==
  ASSUME NEW n \in Nodes, n # Root
  PROVE  Parent(n) \in Inner /\ \E i \in 1..MaxSubs : n = Child(Parent(n), i)
<1> DEFINE d == Len(n)
<1>1. n \in Seq(1..MaxSubs) /\ d \in Nat /\ d <= MaxDepth /\ d # 0
  <2>1. n \in Seq(1..MaxSubs) /\ d \in 0..MaxDepth /\ d \in Nat
    BY NodeIsSeq
  <2>2. d # 0
    BY <2>1, EmptySeq DEF Root
  <2> QED BY <2>1, <2>2, BoundsAreNat
<1>2. /\ Parent(n) \in Seq(1..MaxSubs) /\ Len(Parent(n)) = d - 1
      /\ \A i \in 1..(d - 1) : Parent(n)[i] = n[i]
  <2>1. d - 1 \in Int /\ \A i \in 1..(d - 1) : n[i] \in 1..MaxSubs
    <3>1. \A i \in 1..(d - 1) : i \in 1..Len(n)
      BY <1>1
    <3>2. \A i \in 1..(d - 1) : n[i] \in 1..MaxSubs
      BY <1>1, <3>1, ElementOfSeq
    <3>3. d - 1 \in Int
      BY <1>1
    <3> QED BY <3>2, <3>3
  <2>2. /\ SubSeq(n, 1, d - 1) \in Seq(1..MaxSubs)
        /\ Len(SubSeq(n, 1, d - 1)) = IF 1 <= d - 1 THEN (d - 1) - 1 + 1 ELSE 0
        /\ \A i \in 1..((d - 1) - 1 + 1) : SubSeq(n, 1, d - 1)[i] = n[1 + i - 1]
    BY <1>1, <2>1, SubSeqProperties
  <2>3. (IF 1 <= d - 1 THEN (d - 1) - 1 + 1 ELSE 0) = d - 1 /\ (d - 1) - 1 + 1 = d - 1
    <3>1. d \in Nat /\ d # 0
      BY <1>1
    <3> HIDE DEF d
    <3> QED BY <3>1
  <2>4. \A i \in 1..(d - 1) : 1 + i - 1 = i
    BY <1>1
  <2> QED BY <2>2, <2>3, <2>4 DEF Parent
<1>3. Parent(n) \in Inner
  <2>1. d - 1 <= MaxDepth /\ d - 1 < MaxDepth
    BY <1>1, BoundsAreNat
  <2> QED BY <1>2, <2>1, SeqIsNode DEF Inner
<1>4. n[d] \in 1..MaxSubs
  <2>1. d \in 1..Len(n)
    BY <1>1
  <2> QED BY <1>1, <2>1, ElementOfSeq
<1>5. n = Child(Parent(n), n[d])
  <2> DEFINE c == Child(Parent(n), n[d])
  <2>1. /\ c \in Seq(1..MaxSubs) /\ Len(c) = (d - 1) + 1
        /\ \A i \in 1..(d - 1) : c[i] = Parent(n)[i]
        /\ c[(d - 1) + 1] = n[d]
    BY <1>2, <1>4, AppendProperties DEF Child
  <2>2. Len(c) = d /\ c[d] = n[d]
    BY <1>1, <2>1
  <2>3. ASSUME NEW i \in 1..d PROVE c[i] = n[i]
    <3>1. i \in 1..(d - 1) \/ i = d
      BY <1>1
    <3> QED BY <1>2, <2>1, <2>2, <3>1
  <2> QED BY <1>1, <2>1, <2>2, <2>3, SeqEqual
<1> QED BY <1>3, <1>4, <1>5

\* The mark for no node is none.
LEMMA NoNodeIsNone == NoNode \notin Nodes
<1> SUFFICES ASSUME NoNode \in Nodes PROVE FALSE
  OBVIOUS
<1>1. NoNode \in Seq(1..MaxSubs) /\ Len(NoNode) = 1 /\ NoNode[1] = 0
  BY NodeIsSeq DEF NoNode
<1>2. NoNode[1] \in 1..MaxSubs
  <2>1. 1 \in 1..Len(NoNode)
    BY <1>1
  <2> QED BY <1>1, <2>1, ElementOfSeq
<1> QED BY <1>1, <1>2, BoundsAreNat

\* The main script is one, whatever the bounds.
LEMMA RootIsNode == Root \in Nodes
<1>1. Root \in Seq(1..MaxSubs) /\ Len(Root) = 0
  BY EmptySeq DEF Root
<1>2. Len(Root) <= MaxDepth
  BY <1>1, BoundsAreNat
<1> QED BY <1>1, <1>2, SeqIsNode

\* What a file names is a sequence of files, of no more than MaxSubs.
LEMMA NamedIsSeq ==
  ASSUME names \in Programs, file \in [Nodes -> Files], NEW n \in Nodes
  PROVE  /\ Named(n) \in Seq(Files) /\ Len(Named(n)) \in 0..MaxSubs
         /\ DOMAIN Named(n) = 1..Len(Named(n)) /\ DOMAIN Named(n) \subseteq 1..MaxSubs
         /\ \A i \in DOMAIN Named(n) : Named(n)[i] \in Files
         /\ (Named(n) = <<>> <=> DOMAIN Named(n) = {})
<1>1. names \in [Files -> UNION {[1..k -> Files] : k \in 0..MaxSubs}] /\ file[n] \in Files
  BY ProgramsAreBounded
<1>2. PICK k \in 0..MaxSubs : Named(n) \in [1..k -> Files]
  BY <1>1 DEF Named
<1>3. k \in Nat /\ Named(n) \in Seq(Files)
  BY <1>2, BoundsAreNat, SeqDef
<1>4. Len(Named(n)) \in Nat /\ DOMAIN Named(n) = 1..Len(Named(n))
  BY <1>3, LenProperties
<1>5. Len(Named(n)) = k
  BY <1>2, <1>3, <1>4
<1>6. \A i \in DOMAIN Named(n) : Named(n)[i] \in Files
  BY <1>3, <1>4, ElementOfSeq
<1>7. Named(n) = <<>> <=> DOMAIN Named(n) = {}
  <2>1. Named(n) = <<>> <=> Len(Named(n)) = 0
    BY <1>3, <1>4, EmptySeq
  <2>2. Len(Named(n)) = 0 <=> 1..Len(Named(n)) = {}
    <3>1. Len(Named(n)) # 0 => 1 \in 1..Len(Named(n))
      BY <1>4
    <3> QED BY <3>1
  <2> QED BY <1>4, <2>1, <2>2
<1>8. 1..k \subseteq 1..MaxSubs
  BY <1>2, BoundsAreNat
<1> QED BY <1>2, <1>3, <1>4, <1>5, <1>6, <1>7, <1>8

\* Submodules are looked for from the first on.
LEMMA SearchedIsPrefix ==
  ASSUME names \in Programs, file \in [Nodes -> Files], NEW n \in Nodes
  PROVE  \E k \in 0..MaxSubs : Searched(n) = 1..k /\ 1..k \subseteq DOMAIN Named(n)
<1> DEFINE S == Searched(n)
           k == Cardinality(S)
<1>1. /\ Len(Named(n)) \in 0..MaxSubs /\ DOMAIN Named(n) = 1..Len(Named(n))
      /\ S \subseteq DOMAIN Named(n)
  BY NamedIsSeq DEF Searched
<1>2. IsFiniteSet(S) /\ k \in Nat
  <2>1. IsFiniteSet(DOMAIN Named(n))
    BY <1>1, BoundsAreNat, FS_Interval
  <2> QED BY <1>1, <2>1, FS_Subset, FS_CardinalityType
<1>3. ASSUME NEW x \in S PROVE 1..x \subseteq S /\ x <= k
  <2>1. x \in Nat /\ x <= Len(Named(n)) /\ Len(Named(n)) \in Nat
    BY <1>1, BoundsAreNat
  <2>2. 1..x \subseteq S
    <3> SUFFICES ASSUME NEW y \in 1..x PROVE y \in S
      OBVIOUS
    <3>1. y \in 1..Len(Named(n)) /\ 1..y \subseteq 1..x
      BY <2>1
    <3> QED BY <1>1, <3>1 DEF Searched
  <2>3. Cardinality(1..x) = x
    BY <2>1, FS_Interval
  <2>4. Cardinality(1..x) <= k
    BY <1>2, <2>2, FS_Subset
  <2> QED BY <2>2, <2>3, <2>4
<1>4. S \subseteq 1..k
  BY <1>1, <1>2, <1>3, BoundsAreNat
<1>5. S = 1..k
  <2>1. IsFiniteSet(1..k) /\ Cardinality(1..k) = k
    BY <1>2, FS_Interval
  <2> QED BY <1>4, <2>1, FS_Subset
<1>6. k <= MaxSubs
  <2>1. 1..k \subseteq 1..MaxSubs
    <3>1. Len(Named(n)) \in Nat /\ Len(Named(n)) <= MaxSubs
      BY <1>1, BoundsAreNat
    <3>2. 1..k \subseteq 1..Len(Named(n))
      BY <1>1, <1>5
    <3> HIDE DEF k, S
    <3> QED BY <3>1, <3>2, BoundsAreNat
  <2> HIDE DEF k, S
  <2> QED BY <1>2, <2>1, BoundsAreNat
<1> QED BY <1>1, <1>2, <1>5, <1>6, BoundsAreNat
-----------------------------------------------------------------------------
(* The invariant.                                                          *)

\* What it says of statuses and counts, besides the types.
Parts ==
  /\ SubsAreNamed /\ CountIsLoaded /\ FinishingIsReady /\ OrderIsLoaded
  /\ FindsAreSought /\ NotStarted /\ SubsComeFirst

\* The invariant holds when main () begins.
LEMMA InitInv == Init => IInv
<1> SUFFICES ASSUME Init PROVE IInv
  OBVIOUS
<1> USE DEF Init
<1>1. TypeOK
  BY EmptySeq, BoundsAreNat, MainIsFile DEF TypeOK
<1>2. \A n \in Inner, i \in 1..MaxSubs : Child(n, i) \in Nodes
  BY ChildIsNode
<1>3. CountIsLoaded
  <2> SUFFICES ASSUME NEW n \in Inner
               PROVE  0 = Cardinality({i \in 1..MaxSubs : status[Child(n, i)] = "loaded"})
    BY DEF CountIsLoaded, Inner
  <2>1. {i \in 1..MaxSubs : status[Child(n, i)] = "loaded"} = {}
    BY <1>2
  <2> QED BY <2>1, FS_EmptySet
<1>4. DOMAIN order = {} /\ DOMAIN finds = {}
  BY EmptySeq, LenProperties
<1>5. SubsAreNamed /\ FinishingIsReady /\ OrderIsLoaded /\ FindsAreSought /\ NotStarted /\ SubsComeFirst
  BY <1>2, <1>4 DEF SubsAreNamed, FinishingIsReady, OrderIsLoaded, FindsAreSought, NotStarted, SubsComeFirst
<1>6. NoneIsForgotten /\ ZeroMeansLoaded
  BY DEF NoneIsForgotten, ZeroMeansLoaded
<1> QED BY <1>1, <1>3, <1>5, <1>6 DEF IInv

\* A step that changes none of what the invariant is about.
LEMMA SameParts ==
  ASSUME Parts, UNCHANGED <<names, fault, file, status, ncomplete, finds, finishing, order>>,
         loop' = "start" => loop = "start"
  PROVE  Parts'
<1>1. SubsAreNamed' /\ CountIsLoaded'
  BY DEF Parts, SubsAreNamed, CountIsLoaded, Named
<1>2. FinishingIsReady'
  BY DEF Parts, FinishingIsReady, HasItsSubs, Named
<1>3. OrderIsLoaded'
  BY DEF Parts, OrderIsLoaded, HasItsSubs, Named
<1>4. FindsAreSought' /\ NotStarted'
  BY DEF Parts, FindsAreSought, NotStarted
<1>5. SubsComeFirst'
  BY DEF Parts, SubsComeFirst, Before, Subs, Named
<1> QED BY <1>1, <1>2, <1>3, <1>4, <1>5 DEF Parts

\* A step after which some nodes, none of them loaded, finishing or having
\* submodules, are at another place short of that.
LEMMA ShiftParts ==
  ASSUME TypeOK, Parts,
         UNCHANGED <<names, file, ncomplete, finishing, order>>,
         NEW n \in Nodes, status[n] \in {"find", "cat"} \/ (n = Root /\ status[n] = "none"),
         NEW s \in {"cat", "failed"}, status' = [status EXCEPT ![n] = s]
  PROVE  (SubsAreNamed /\ CountIsLoaded /\ FinishingIsReady /\ OrderIsLoaded /\ SubsComeFirst)'
<1> USE DEF TypeOK
<1>1. /\ status'[n] = s /\ \A m \in Nodes : m # n => status'[m] = status[m]
      /\ \A m \in Nodes : (status'[m] = "loaded" <=> status[m] = "loaded")
      /\ \A m \in Nodes : status[m] \in {"subs", "loaded", "failed"} => status'[m] = status[m]
  OBVIOUS
<1>2. \A m \in Nodes : Named(m)' = Named(m) /\ Subs(m)' = Subs(m)
  BY DEF Named, Subs
<1>3. SubsAreNamed'
  <2> SUFFICES ASSUME NEW m \in Inner, NEW i \in 1..MaxSubs, status'[Child(m, i)] # "none"
               PROVE  i \in DOMAIN Named(m) /\ (status'[m] = "subs" \/ \E k \in DOMAIN order : order[k] = m)
    BY <1>2 DEF SubsAreNamed, Inner
  <2>1. status[Child(m, i)] # "none"
    BY <1>1, ChildIsNode
  <2> QED BY <1>1, <2>1 DEF Parts, SubsAreNamed, Inner
<1>4. CountIsLoaded'
  <2>1. \A m \in Inner : {i \in 1..MaxSubs : status'[Child(m, i)] = "loaded"}
                         = {i \in 1..MaxSubs : status[Child(m, i)] = "loaded"}
    BY <1>1, ChildIsNode
  <2> QED BY <2>1 DEF Parts, CountIsLoaded
<1>5. \A m \in Nodes : HasItsSubs(m) => HasItsSubs(m)'
  <2> SUFFICES ASSUME NEW m \in Nodes, HasItsSubs(m), NEW i \in DOMAIN Named(m)
               PROVE  m \in Inner /\ status'[Child(m, i)] = "loaded"
    BY <1>2 DEF HasItsSubs
  <2>1. m \in Inner /\ status[Child(m, i)] = "loaded" /\ i \in 1..MaxSubs
    BY NamedIsSeq DEF HasItsSubs
  <2> QED BY <1>1, <2>1, ChildIsNode
<1>6. FinishingIsReady' /\ OrderIsLoaded'
  <2>1. \A k \in DOMAIN order : order[k] \in Nodes
    BY LenProperties, ElementOfSeq
  <2> QED BY <1>1, <1>5, <2>1 DEF Parts, FinishingIsReady, OrderIsLoaded
<1>7. SubsComeFirst'
  <2>1. \A k \in DOMAIN order : order[k] \in Nodes /\ Before(k)' = Before(k)
    BY LenProperties, ElementOfSeq DEF Before
  <2> QED BY <1>2, <2>1 DEF Parts, SubsComeFirst
<1> QED BY <1>3, <1>4, <1>6, <1>7

\* main.js begins to load ARGV[1].
LEMMA StartUpStep == TypeOK /\ Parts /\ StartUp => TypeOK' /\ Parts'
<1> SUFFICES ASSUME TypeOK, Parts, StartUp PROVE TypeOK' /\ Parts'
  OBVIOUS
<1>1. \A n \in Nodes : status[n] = "none"
  BY DEF StartUp, Parts, NotStarted
<1>2. TypeOK'
  BY RootIsNode DEF StartUp, TypeOK
<1>3. (SubsAreNamed /\ CountIsLoaded /\ FinishingIsReady /\ OrderIsLoaded /\ SubsComeFirst)'
  BY <1>1, RootIsNode, ShiftParts DEF StartUp
<1>4. FindsAreSought' /\ NotStarted'
  <2>1. \A k \in DOMAIN finds : finds[k] \in Nodes /\ status[finds[k]] = "find"
    BY LenProperties, ElementOfSeq DEF TypeOK, Parts, FindsAreSought
  <2>2. DOMAIN finds = {}
    BY <1>1, <2>1
  <2> QED BY <2>2 DEF StartUp, FindsAreSought, NotStarted
<1> QED BY <1>2, <1>3, <1>4 DEF Parts

\* A submodule was found, or the process exits.
LEMMA FindDoneStep == TypeOK /\ Parts /\ FindDone => TypeOK' /\ Parts'
<1> SUFFICES ASSUME TypeOK, Parts, FindDone PROVE TypeOK' /\ Parts'
  OBVIOUS
<1> DEFINE h == Head(finds)
<1>0. /\ finds \in Seq(Nodes) /\ finds # <<>> /\ finds' = Tail(finds)
      /\ UNCHANGED <<names, fault, file, ncomplete, finishing, order>>
  BY DEF FindDone, TypeOK
<1>1. /\ h \in Nodes /\ Tail(finds) \in Seq(Nodes) /\ h = finds[1]
      /\ Len(finds) \in Nat /\ Len(finds) # 0
      /\ DOMAIN finds = 1..Len(finds) /\ DOMAIN Tail(finds) = 1..(Len(finds) - 1)
      /\ \A k \in 1..(Len(finds) - 1) : Tail(finds)[k] = finds[k + 1]
  BY <1>0, HeadTailProperties, EmptySeq, LenProperties
<1>2. status[h] = "find"
  BY <1>1 DEF Parts, FindsAreSought
<1>3. \A k \in 1..(Len(finds) - 1) : /\ k + 1 \in DOMAIN finds /\ finds[k + 1] \in Nodes
                                    /\ finds[k + 1] # h /\ status[finds[k + 1]] = "find"
  <2> SUFFICES ASSUME NEW k \in 1..(Len(finds) - 1)
               PROVE  /\ k + 1 \in DOMAIN finds /\ finds[k + 1] \in Nodes
                      /\ finds[k + 1] # h /\ status[finds[k + 1]] = "find"
    OBVIOUS
  <2>1. k + 1 \in DOMAIN finds /\ k + 1 \in 1..Len(finds) /\ 1 \in DOMAIN finds /\ k + 1 # 1
    BY <1>1
  <2>2. finds[k + 1] \in Nodes
    BY <1>0, <2>1, ElementOfSeq
  <2> QED BY <1>1, <2>1, <2>2 DEF Parts, FindsAreSought
<1>4. FindsAreSought' /\ NotStarted'
  <2>1. \A k \in 1..(Len(finds) - 1) : status'[finds[k + 1]] = "find"
    BY <1>1, <1>3 DEF FindDone, TypeOK
  <2>2. \A k, j \in 1..(Len(finds) - 1) : finds[k + 1] = finds[j + 1] => k = j
    BY <1>1, <1>3 DEF Parts, FindsAreSought
  <2>3. loop' # "start"
    BY DEF FindDone, Delivers, Exit1
  <2> QED BY <1>0, <1>1, <2>1, <2>2, <2>3 DEF FindsAreSought, NotStarted
<1>5. CASE FaultOf(h) = "absent"
  <2>1. UNCHANGED status /\ Exit1
    BY <1>5 DEF FindDone
  <2>2. TypeOK'
    BY <1>0, <1>1, <2>1 DEF TypeOK, Exit1
  <2>3. (SubsAreNamed /\ CountIsLoaded)'
    BY <1>0, <2>1 DEF Parts, SubsAreNamed, CountIsLoaded, Named
  <2>4. (FinishingIsReady /\ OrderIsLoaded)'
    BY <1>0, <2>1 DEF Parts, FinishingIsReady, OrderIsLoaded, HasItsSubs, Named
  <2>5. SubsComeFirst'
    <3>1. \A k : Before(k)' = Before(k)
      BY <1>0 DEF Before
    <3>2. \A m : Subs(m)' = Subs(m)
      BY <1>0 DEF Subs, Named
    <3> QED BY <1>0, <3>1, <3>2 DEF Parts, SubsComeFirst, Subs, Named
  <2> QED BY <1>4, <2>2, <2>3, <2>4, <2>5 DEF Parts
<1>6. CASE FaultOf(h) # "absent"
  <2>1. status' = [status EXCEPT ![h] = "cat"] /\ UNCHANGED <<loop, code>>
    BY <1>6 DEF FindDone
  <2>2. TypeOK'
    BY <1>0, <1>1, <2>1 DEF TypeOK
  <2>3. (SubsAreNamed /\ CountIsLoaded /\ FinishingIsReady /\ OrderIsLoaded /\ SubsComeFirst)'
    BY <1>0, <1>1, <1>2, <2>1, ShiftParts
  <2> QED BY <1>4, <2>2, <2>3 DEF Parts
<1> QED BY <1>5, <1>6

\* A script could not be read, compiled or run.
LEMMA CatFailsStep ==
  ASSUME TypeOK, Parts, NEW n \in Nodes, CatFails(n)
  PROVE  TypeOK' /\ Parts'
<1>0. /\ UNCHANGED <<names, fault, file, ncomplete, finds, finishing, order>>
      /\ status[n] = "cat" /\ status' = [status EXCEPT ![n] = "failed"]
      /\ loop' \in {"exited", "unloop"} /\ code' = 1
  BY DEF CatFails, Exit1, Fatal
<1>1. TypeOK'
  BY <1>0 DEF TypeOK
<1>2. (SubsAreNamed /\ CountIsLoaded /\ FinishingIsReady /\ OrderIsLoaded /\ SubsComeFirst)'
  BY <1>0, ShiftParts
<1>3. FindsAreSought' /\ NotStarted'
  <2>1. \A k \in DOMAIN finds : finds[k] \in Nodes /\ status[finds[k]] = "find"
    BY LenProperties, ElementOfSeq DEF TypeOK, Parts, FindsAreSought
  <2>2. \A k \in DOMAIN finds : status'[finds[k]] = "find"
    BY <1>0, <2>1 DEF TypeOK
  <2> QED BY <1>0, <2>2 DEF Parts, FindsAreSought, NotStarted
<1> QED BY <1>1, <1>2, <1>3 DEF Parts

\* A script has run: its submodules are named, all of them new.
LEMMA CatDoneStep ==
  ASSUME TypeOK, Parts, NEW n \in Nodes, CatDone(n)
  PROVE  TypeOK' /\ Parts'
<1> DEFINE S == {Child(n, i) : i \in Searched(n)}
           new == [i \in Searched(n) |-> Child(n, i)]
<1>0. /\ status[n] = "cat" /\ finishing = NoNode
      /\ (Named(n) # <<>> => Len(n) < MaxDepth)
      /\ file' = [m \in Nodes |-> IF m \in S THEN Named(n)[m[Len(m)]] ELSE file[m]]
      /\ status' = [m \in Nodes |->
            IF m \in S THEN "find" ELSE IF m = n THEN "subs" ELSE status[m]]
      /\ finds' = finds \o new
      /\ finishing' = IF Named(n) = <<>> THEN n ELSE NoNode
      /\ loop' # "start" /\ loop' \in {"running", "unloop"} /\ code' \in {0, 1}
      /\ UNCHANGED <<names, fault, ncomplete, order>>
  BY DEF CatDone, Delivers, Fatal, TypeOK
<1>t. /\ names \in Programs /\ file \in [Nodes -> Files]
      /\ status \in [Nodes -> {"none", "find", "cat", "subs", "loaded", "failed"}]
      /\ finds \in Seq(Nodes) /\ order \in Seq(Nodes)
  BY DEF TypeOK
<1>1. PICK k \in 0..MaxSubs : Searched(n) = 1..k /\ 1..k \subseteq DOMAIN Named(n)
  BY <1>t, SearchedIsPrefix
<1>2. /\ DOMAIN Named(n) \subseteq 1..MaxSubs
      /\ \A i \in DOMAIN Named(n) : n \in Inner /\ Named(n)[i] \in Files
      /\ (Named(n) = <<>> <=> DOMAIN Named(n) = {})
  BY <1>0, <1>t, NamedIsSeq DEF Inner
<1>3. \A i \in Searched(n) : /\ n \in Inner /\ i \in 1..MaxSubs /\ i \in DOMAIN Named(n)
                             /\ Child(n, i) \in Nodes /\ Child(n, i) # n
                             /\ Child(n, i)[Len(Child(n, i))] = i
  BY <1>1, <1>2, ChildIsNode
<1>o. \A j \in DOMAIN order : order[j] \in Nodes /\ status[order[j]] \in {"loaded", "failed"}
  BY <1>t, LenProperties, ElementOfSeq DEF Parts, OrderIsLoaded
<1>4. \A i \in 1..MaxSubs : n \in Inner => status[Child(n, i)] = "none"
  BY <1>0, <1>o DEF Parts, SubsAreNamed
<1>5. \A m \in S : m \in Nodes /\ m # n /\ status[m] = "none"
  BY <1>3, <1>4
<1>6. /\ status'[n] = "subs"
      /\ \A m \in S : status'[m] = "find"
      /\ \A m \in Nodes : m \notin S /\ m # n => status'[m] = status[m]
      /\ \A m \in Nodes : status'[m] = "loaded" <=> status[m] = "loaded"
      /\ \A m \in Nodes : status[m] \in {"find", "subs", "loaded", "failed"} => status'[m] = status[m]
  BY <1>0, <1>5
<1>7. \A m \in Nodes : status[m] # "none" => m \notin S /\ Named(m)' = Named(m)
  BY <1>0, <1>5 DEF Named
<1>8. TypeOK'
  <2>1. file' \in [Nodes -> Files]
    BY <1>0, <1>t, <1>2, <1>3
  <2>2. new \in Seq(Nodes)
    <3>1. new \in [1..k -> Nodes] /\ k \in Nat
      BY <1>1, <1>3, BoundsAreNat
    <3> HIDE DEF new
    <3> QED BY <3>1, SeqDef
  <2>3. finds' \in Seq(Nodes)
    BY <1>0, <1>t, <2>2, ConcatProperties
  <2>4. status' \in [Nodes -> {"none", "find", "cat", "subs", "loaded", "failed"}]
    BY <1>0, <1>t
  <2>5. finishing' \in Nodes \cup {NoNode}
    BY <1>0
  <2>6. loop' \in {"start", "running", "unloop", "exited", "lost"} /\ code' \in {0, 1}
    BY <1>0
  <2> QED BY <1>0, <2>1, <2>3, <2>4, <2>5, <2>6 DEF TypeOK
<1>9. SubsAreNamed'
  <2> SUFFICES ASSUME NEW m \in Inner, NEW i \in 1..MaxSubs, status'[Child(m, i)] # "none"
               PROVE  i \in DOMAIN Named(m)' /\ (status'[m] = "subs" \/ \E j \in DOMAIN order : order[j] = m)
    BY <1>0 DEF SubsAreNamed, Inner
  <2> DEFINE c == Child(m, i)
  <2>0. m \in Nodes /\ c \in Nodes
    BY ChildIsNode DEF Inner
  <2>1. CASE c \in S
    <3>1. m = n /\ i \in DOMAIN Named(n)
      BY <1>3, <2>1, ChildIsNode
    <3> QED BY <1>0, <1>6, <1>7, <3>1
  <2>2. CASE c \notin S
    <3>1. status[c] # "none"
      BY <1>0, <1>6, <2>0, <2>2
    <3>2. m # n
      BY <1>4, <3>1
    <3>3. i \in DOMAIN Named(m) /\ (status[m] = "subs" \/ \E j \in DOMAIN order : order[j] = m)
      BY <3>1 DEF Parts, SubsAreNamed
    <3>4. status[m] \in {"subs", "loaded", "failed"}
      BY <1>o, <3>3
    <3> QED BY <1>6, <1>7, <2>0, <3>3, <3>4
  <2> QED BY <2>1, <2>2
<1>10. CountIsLoaded'
  <2>1. \A m \in Inner : {i \in 1..MaxSubs : status'[Child(m, i)] = "loaded"}
                         = {i \in 1..MaxSubs : status[Child(m, i)] = "loaded"}
    BY <1>6, ChildIsNode
  <2> QED BY <1>0, <2>1 DEF Parts, CountIsLoaded
<1>11. \A m \in Nodes : status[m] # "none" /\ HasItsSubs(m) => HasItsSubs(m)'
  <2> SUFFICES ASSUME NEW m \in Nodes, status[m] # "none", HasItsSubs(m), NEW i \in DOMAIN Named(m)
               PROVE  m \in Inner /\ status'[Child(m, i)] = "loaded"
    BY <1>7 DEF HasItsSubs
  <2>1. m \in Inner /\ status[Child(m, i)] = "loaded" /\ i \in 1..MaxSubs
    BY <1>t, NamedIsSeq DEF HasItsSubs
  <2> QED BY <1>6, <2>1, ChildIsNode
<1>12. FinishingIsReady'
  <2> SUFFICES ASSUME finishing' # NoNode PROVE status'[finishing'] = "subs" /\ HasItsSubs(finishing)'
    BY DEF FinishingIsReady
  <2>1. finishing' = n /\ Named(n) = <<>>
    BY <1>0
  <2>2. Named(n)' = Named(n) /\ DOMAIN Named(n) = {}
    BY <1>0, <1>2, <1>7, <2>1
  <2>3. HasItsSubs(finishing)'
    BY <2>1, <2>2 DEF HasItsSubs, Named
  <2> QED BY <1>6, <2>1, <2>3
<1>13. OrderIsLoaded'
  <2>1. \A j \in DOMAIN order : HasItsSubs(order[j])
    BY DEF Parts, OrderIsLoaded
  <2>2. \A j \in DOMAIN order : HasItsSubs(order[j])'
    <3> SUFFICES ASSUME NEW j \in DOMAIN order PROVE HasItsSubs(order[j])'
      BY <1>0
    <3>1. PICK m \in Nodes : m = order[j] /\ status[m] # "none"
      BY <1>o
    <3>2. HasItsSubs(m)'
      BY <1>11, <2>1, <3>1
    <3>3. order'[j] = m
      BY <1>0, <3>1
    <3> QED BY <3>2, <3>3 DEF HasItsSubs, Named
  <2>3. \A j \in DOMAIN order : status'[order[j]] \in {"loaded", "failed"}
    BY <1>o, <1>6
  <2> QED BY <1>0, <1>6, <2>2, <2>3 DEF Parts, OrderIsLoaded
<1>14. FindsAreSought'
  <2>0. /\ k \in Nat /\ new \in Seq(Nodes) /\ Len(new) = k /\ \A i \in 1..k : new[i] = Child(n, i)
    <3>1. new \in [1..k -> Nodes] /\ k \in Nat /\ DOMAIN new = 1..k
      BY <1>1, <1>3, BoundsAreNat
    <3>2. \A i \in 1..k : new[i] = Child(n, i)
      BY <1>1
    <3> HIDE DEF new
    <3>3. new \in Seq(Nodes)
      BY <3>1, SeqDef
    <3> QED BY <3>1, <3>2, <3>3
  <2> DEFINE L == Len(finds)
  <2>1. /\ L \in Nat /\ DOMAIN finds = 1..L
        /\ DOMAIN finds' = 1..(L + k)
        /\ \A j \in 1..(L + k) : finds'[j] = IF j <= L THEN finds[j] ELSE new[j - L]
    <3>1. finds' \in Seq(Nodes) /\ Len(finds') = L + k /\ L \in Nat
      BY <1>0, <1>t, <2>0, ConcatProperties, LenProperties
    <3>2. \A j \in 1..(L + k) : finds'[j] = IF j <= L THEN finds[j] ELSE new[j - L]
      BY <1>0, <1>t, <2>0, ConcatProperties
    <3> QED BY <1>t, <3>1, <3>2, LenProperties
  <2>2. ASSUME NEW j \in 1..L
        PROVE  /\ finds'[j] = finds[j] /\ finds[j] \in Nodes /\ finds[j] \notin S
               /\ status'[finds[j]] = "find"
    <3>1. finds'[j] = finds[j] /\ finds[j] \in Nodes
      <4>1. j \in 1..(L + k) /\ j <= L
        <5> HIDE DEF L, S, new
        <5> QED BY <2>0, <2>1
      <4>2. finds[j] \in Nodes
        BY <1>t, ElementOfSeq
      <4> HIDE DEF L, S, new
      <4> QED BY <2>1, <4>1, <4>2
    <3>2. status[finds[j]] = "find"
      BY <2>1 DEF Parts, FindsAreSought
    <3> QED BY <1>6, <1>7, <3>1, <3>2
  <2>3. ASSUME NEW j \in 1..(L + k), j > L
        PROVE  /\ j - L \in 1..k /\ finds'[j] = Child(n, j - L) /\ finds'[j] \in S
               /\ status'[finds'[j]] = "find"
    <3>1. j - L \in 1..k
      BY <2>0, <2>1, <2>3
    <3>2. finds'[j] = Child(n, j - L)
      <4>1. ~(j <= L)
        <5> HIDE DEF L, S, new
        <5> QED BY <2>0, <2>1, <2>3
      <4> HIDE DEF L, S, new
      <4> QED BY <2>0, <2>1, <3>1, <4>1
    <3> QED BY <1>1, <1>6, <3>1, <3>2
  <2>4. ASSUME NEW j \in 1..(L + k), NEW i \in 1..(L + k), finds'[i] = finds'[j] PROVE i = j
    <3>1. CASE i \in 1..L /\ j \in 1..L
      BY <2>1, <2>2, <2>4, <3>1 DEF Parts, FindsAreSought
    <3>2. CASE i > L /\ j > L
      <4>1. i - L = j - L
        <5>1. Child(n, i - L) = Child(n, j - L) /\ i - L \in 1..k /\ j - L \in 1..k
          BY <2>3, <2>4, <3>2
        <5>2. n \in Inner /\ i - L \in 1..MaxSubs /\ j - L \in 1..MaxSubs
          BY <1>1, <1>3, <5>1
        <5> QED BY <5>1, <5>2, ChildIsNode
      <4> QED BY <2>1, <4>1
    <3>3. i \in 1..L \/ i > L
      BY <2>0, <2>1
    <3>4. j \in 1..L \/ j > L
      BY <2>0, <2>1
    <3> QED BY <2>2, <2>3, <2>4, <3>1, <3>2, <3>3, <3>4
  <2>5. \A j \in 1..(L + k) : j \in 1..L \/ j > L
    BY <2>0, <2>1
  <2> QED BY <2>1, <2>2, <2>3, <2>4, <2>5 DEF FindsAreSought
<1>15. NotStarted'
  BY <1>0 DEF NotStarted
<1>16. SubsComeFirst'
  <2>1. \A j \in DOMAIN order : Before(j)' = Before(j)
    BY <1>0 DEF Before
  <2>2. \A j \in DOMAIN order : Named(order[j])' = Named(order[j])
    BY <1>0, <1>o, <1>7 DEF Named
  <2>3. \A j \in DOMAIN order : Subs(order[j])' = Subs(order[j])
    <3> SUFFICES ASSUME NEW j \in DOMAIN order PROVE Subs(order[j])' = Subs(order[j])
      OBVIOUS
    <3>1. order'[j] = order[j] /\ Named(order[j])' = Named(order[j])
      BY <1>0, <2>2
    <3> QED BY <3>1 DEF Subs
  <2> QED BY <1>0, <2>1, <2>3 DEF Parts, SubsComeFirst
<1> QED BY <1>8, <1>9, <1>10, <1>12, <1>13, <1>14, <1>15, <1>16 DEF Parts

\* The submodules of n that are loaded.
LoadedOf(n) == {i \in 1..MaxSubs : status[Child(n, i)] = "loaded"}

\* There are MaxSubs of them at most.
LEMMA LoadedIsFinite ==
  ASSUME BoundsAreNat, NEW T \in SUBSET (1..MaxSubs)
  PROVE  IsFiniteSet(T) /\ Cardinality(T) \in 0..MaxSubs
<1>1. IsFiniteSet(1..MaxSubs) /\ Cardinality(1..MaxSubs) = MaxSubs
  BY BoundsAreNat, FS_Interval
<1>2. IsFiniteSet(T) /\ Cardinality(T) <= MaxSubs
  BY <1>1, FS_Subset
<1>3. Cardinality(T) \in Nat
  BY <1>2, FS_CardinalityType
<1> QED BY <1>2, <1>3, BoundsAreNat

\* finish (): what it appends to the history, and the parent it tells.
LEMMA FinishStep ==
  ASSUME TypeOK, Parts, Finish
  PROVE  TypeOK' /\ Parts'
<1> DEFINE f == finishing
           s == IF FaultOf(f) = "onload" THEN "failed" ELSE "loaded"
           L == Len(order)
<1>t. /\ names \in Programs /\ file \in [Nodes -> Files]
      /\ status \in [Nodes -> {"none", "find", "cat", "subs", "loaded", "failed"}]
      /\ finds \in Seq(Nodes) /\ order \in Seq(Nodes) /\ ncomplete \in [Nodes -> 0..MaxSubs]
  BY DEF TypeOK
<1>0. /\ f \in Nodes /\ status[f] = "subs" /\ HasItsSubs(f)
      /\ order' = Append(order, f) /\ status' = [status EXCEPT ![f] = s]
      /\ UNCHANGED <<names, fault, file, finds>>
  BY DEF Finish, TypeOK, Parts, FinishingIsReady
<1>1. /\ s \in {"loaded", "failed"} /\ status'[f] = s
      /\ \A m \in Nodes : m # f => status'[m] = status[m]
      /\ \A m \in Nodes : status[m] # "subs" => status'[m] = status[m]
      /\ \A m \in Nodes : status'[m] # "none" => status[m] # "none"
  BY <1>0, <1>t
<1>n. \A m : Named(m)' = Named(m) /\ Subs(m)' = Subs(m)
  BY <1>0 DEF Named, Subs
<1>2. /\ L \in Nat /\ DOMAIN order = 1..L /\ order' \in Seq(Nodes) /\ DOMAIN order' = 1..(L + 1)
      /\ \A k \in 1..L : order'[k] = order[k]
      /\ order'[L + 1] = f
  BY <1>0, <1>t, AppendProperties, LenProperties
<1>3. \A k \in 1..(L + 1) : k \in 1..L \/ k = L + 1
  BY <1>2
<1>4. \A k \in 1..L : order[k] \in Nodes /\ order[k] # f /\ status[order[k]] \in {"loaded", "failed"}
                     /\ HasItsSubs(order[k])
  BY <1>0, <1>t, <1>2, ElementOfSeq DEF Parts, OrderIsLoaded
<1>5. SubsAreNamed'
  <2> SUFFICES ASSUME NEW m \in Inner, NEW i \in 1..MaxSubs, status'[Child(m, i)] # "none"
               PROVE  i \in DOMAIN Named(m) /\ (status'[m] = "subs" \/ \E k \in DOMAIN order' : order'[k] = m)
    BY <1>n DEF SubsAreNamed, Inner
  <2>1. m \in Nodes /\ Child(m, i) \in Nodes
    BY ChildIsNode DEF Inner
  <2>2. i \in DOMAIN Named(m) /\ (status[m] = "subs" \/ \E k \in DOMAIN order : order[k] = m)
    BY <1>1, <2>1 DEF Parts, SubsAreNamed
  <2>3. CASE m = f
    <3>1. L + 1 \in 1..(L + 1)
      BY <1>2
    <3> QED BY <1>2, <2>2, <2>3, <3>1
  <2>4. CASE m # f /\ status[m] = "subs"
    BY <1>1, <2>1, <2>2, <2>4
  <2>5. CASE \E k \in DOMAIN order : order[k] = m
    <3>1. PICK k \in 1..L : order[k] = m
      BY <1>2, <2>5
    <3>2. k \in 1..(L + 1)
      BY <1>2
    <3> QED BY <1>2, <2>2, <3>1, <3>2
  <2> QED BY <2>2, <2>3, <2>4, <2>5
<1>6. \A m \in Nodes : HasItsSubs(m) => HasItsSubs(m)'
  <2> SUFFICES ASSUME NEW m \in Nodes, HasItsSubs(m), NEW i \in DOMAIN Named(m)
               PROVE  m \in Inner /\ status'[Child(m, i)] = "loaded"
    BY <1>n DEF HasItsSubs
  <2>1. m \in Inner /\ status[Child(m, i)] = "loaded" /\ i \in 1..MaxSubs
    BY <1>t, NamedIsSeq DEF HasItsSubs
  <2> QED BY <1>1, <2>1, ChildIsNode
<1>7. OrderIsLoaded'
  <2>1. ASSUME NEW k \in 1..(L + 1)
        PROVE  status'[order'[k]] \in {"loaded", "failed"} /\ HasItsSubs(order[k])'
    <3>1. PICK m \in Nodes : m = order'[k] /\ HasItsSubs(m) /\ (m = f \/ status[m] \in {"loaded", "failed"})
      BY <1>0, <1>2, <1>3, <1>4
    <3>2. HasItsSubs(m)'
      BY <1>6, <3>1
    <3> QED BY <1>1, <3>1, <3>2 DEF HasItsSubs, Named
  <2>2. ASSUME NEW n \in Nodes, status'[n] = "loaded" PROVE \E k \in 1..(L + 1) : order'[k] = n
    <3>1. CASE n = f
      <4>1. L + 1 \in 1..(L + 1)
        BY <1>2
      <4> QED BY <1>2, <3>1, <4>1
    <3>2. CASE n # f
      <4>1. PICK k \in 1..L : order[k] = n
        BY <1>1, <1>2, <2>2, <3>2 DEF Parts, OrderIsLoaded
      <4>2. k \in 1..(L + 1)
        BY <1>2
      <4> QED BY <1>2, <4>1, <4>2
    <3> QED BY <3>1, <3>2
  <2> QED BY <1>2, <2>1, <2>2 DEF OrderIsLoaded
<1>8. SubsComeFirst'
  <2> SUFFICES ASSUME NEW k \in 1..(L + 1)
               PROVE  /\ order'[k] \notin {order'[j] : j \in 1..(k - 1)}
                      /\ Subs(order'[k]) \subseteq {order'[j] : j \in 1..(k - 1)}
    BY <1>2, <1>n DEF SubsComeFirst, Before, Subs, Named
  <2>1. \A j \in 1..(k - 1) : j \in 1..L /\ order'[j] = order[j]
    BY <1>2
  <2>2. {order'[j] : j \in 1..(k - 1)} = Before(k)
    BY <2>1 DEF Before
  <2>3. CASE k \in 1..L
    BY <1>2, <2>2, <2>3 DEF Parts, SubsComeFirst
  <2>4. CASE k = L + 1
    <3>1. f \notin Before(k)
      BY <1>4, <2>1 DEF Before
    <3>2. Subs(f) \subseteq Before(k)
      <4> SUFFICES ASSUME NEW i \in DOMAIN Named(f) PROVE Child(f, i) \in Before(k)
        BY DEF Subs
      <4>1. f \in Inner /\ status[Child(f, i)] = "loaded" /\ i \in 1..MaxSubs
        BY <1>0, <1>t, NamedIsSeq DEF HasItsSubs
      <4>2. PICK j \in 1..L : order[j] = Child(f, i)
        BY <1>2, <4>1, ChildIsNode DEF Parts, OrderIsLoaded
      <4>3. j \in 1..(k - 1)
        BY <1>2, <2>4
      <4> QED BY <4>2, <4>3 DEF Before
    <3> QED BY <1>2, <2>2, <2>4, <3>1, <3>2
  <2> QED BY <1>3, <2>3, <2>4
<1>9. FindsAreSought'
  <2>1. \A k \in DOMAIN finds : finds[k] \in Nodes /\ status[finds[k]] = "find"
    BY <1>t, LenProperties, ElementOfSeq DEF Parts, FindsAreSought
  <2> QED BY <1>0, <1>1, <2>1 DEF Parts, FindsAreSought
<1>10. NotStarted' /\ loop' # "start" /\ loop' \in {"running", "unloop"} /\ code' \in {0, 1}
  BY DEF Finish, Fatal, NotStarted, TypeOK
\* The cases in which no one counts.
<1>11. ASSUME FaultOf(f) = "onload" \/ f = Root
       PROVE  finishing' = NoNode /\ UNCHANGED ncomplete /\ CountIsLoaded'
  <2>1. finishing' = NoNode /\ UNCHANGED ncomplete
    BY <1>11 DEF Finish, Tell
  <2>2. \A m \in Inner : {i \in 1..MaxSubs : status'[Child(m, i)] = "loaded"} = LoadedOf(m)
    <3> SUFFICES ASSUME NEW m \in Inner, NEW i \in 1..MaxSubs
                 PROVE  status'[Child(m, i)] = "loaded" <=> status[Child(m, i)] = "loaded"
      BY DEF LoadedOf
    <3>1. Child(m, i) \in Nodes /\ Child(m, i) # Root
      BY ChildIsNode
    <3> QED BY <1>0, <1>1, <1>11, <3>1
  <2> QED BY <2>1, <2>2 DEF Parts, CountIsLoaded, LoadedOf
\* The case in which the parent does.
<1>12. ASSUME ~(FaultOf(f) = "onload" \/ f = Root)
       PROVE  /\ ncomplete' \in [Nodes -> 0..MaxSubs] /\ finishing' \in Nodes \cup {NoNode}
              /\ CountIsLoaded' /\ FinishingIsReady'
  <2> DEFINE p == Parent(f)
             T == LoadedOf(p)
  <2>1. PICK i \in 1..MaxSubs : p \in Inner /\ f = Child(p, i)
    BY <1>0, <1>12, NodeIsChild
  <2>2. /\ ncomplete' = [ncomplete EXCEPT ![p] = @ + 1]
        /\ finishing' = IF IsComplete(ncomplete[p] + 1, p) THEN p ELSE NoNode
        /\ s = "loaded" /\ p \in Nodes
    BY <1>12, <2>1 DEF Finish, Tell, Inner
  <2>3. {j \in 1..MaxSubs : status'[Child(p, j)] = "loaded"} = T \cup {i}
    <3> SUFFICES ASSUME NEW j \in 1..MaxSubs
                 PROVE  status'[Child(p, j)] = "loaded" <=> status[Child(p, j)] = "loaded" \/ j = i
      BY DEF LoadedOf
    <3>1. Child(p, j) \in Nodes /\ (Child(p, j) = f <=> j = i)
      BY <2>1, ChildIsNode
    <3> QED BY <1>1, <2>2, <3>1
  <2>4. \A m \in Inner : m # p => {j \in 1..MaxSubs : status'[Child(m, j)] = "loaded"} = LoadedOf(m)
    <3> SUFFICES ASSUME NEW m \in Inner, m # p, NEW j \in 1..MaxSubs
                 PROVE  status'[Child(m, j)] = "loaded" <=> status[Child(m, j)] = "loaded"
      BY DEF LoadedOf
    <3>1. Child(m, j) \in Nodes /\ Child(m, j) # f
      BY <2>1, ChildIsNode
    <3> QED BY <1>1, <3>1
  <2>5. /\ T \in SUBSET (1..MaxSubs) /\ T \cup {i} \in SUBSET (1..MaxSubs) /\ i \notin T
    BY <1>0, <2>1 DEF LoadedOf
  <2>6. /\ Cardinality(T \cup {i}) = ncomplete[p] + 1
        /\ ncomplete[p] + 1 \in 0..MaxSubs
    <3>1. ncomplete[p] = Cardinality(T)
      BY <2>1 DEF Parts, CountIsLoaded, LoadedOf
    <3>2. IsFiniteSet(T) /\ Cardinality(T \cup {i}) \in 0..MaxSubs
      BY <2>5, LoadedIsFinite, BoundsAreNat
    <3>3. Cardinality(T \cup {i}) = Cardinality(T) + 1
      BY <2>5, <3>2, FS_AddElement
    <3> QED BY <3>1, <3>2, <3>3
  <2>7. CountIsLoaded'
    <3> SUFFICES ASSUME NEW m \in Inner
                 PROVE  ncomplete'[m] = Cardinality({j \in 1..MaxSubs : status'[Child(m, j)] = "loaded"})
      BY DEF CountIsLoaded, Inner
    <3>1. CASE m = p
      BY <1>t, <2>2, <2>3, <2>6, <3>1
    <3>2. CASE m # p
      <4>1. ncomplete'[m] = ncomplete[m] /\ ncomplete[m] = Cardinality(LoadedOf(m))
        BY <1>t, <2>2, <3>2 DEF Parts, CountIsLoaded, LoadedOf, Inner
      <4> QED BY <2>4, <3>2, <4>1
    <3> QED BY <3>1, <3>2
  <2>8. ASSUME IsComplete(ncomplete[p] + 1, p), NEW q \in Nodes, q = p
        PROVE  status'[q] = "subs" /\ HasItsSubs(q)'
    <3>1. i \in DOMAIN Named(p) /\ (status[p] = "subs" \/ \E k \in DOMAIN order : order[k] = p)
      BY <1>0, <2>1 DEF Parts, SubsAreNamed
    <3>2. ~\E k \in DOMAIN order : order[k] = p
      <4> SUFFICES ASSUME NEW k \in 1..L, order[k] = p PROVE FALSE
        BY <1>2
      <4>1. status[Child(p, i)] = "loaded"
        BY <1>4, <3>1 DEF HasItsSubs
      <4> QED BY <1>0, <2>1, <4>1
    <3>3. status'[p] = "subs"
      <4>1. p # f
        BY <2>1, ChildIsNode
      <4> QED BY <1>1, <2>2, <3>1, <3>2, <4>1
    <3>4. DOMAIN Named(p) = 1..(ncomplete[p] + 1) /\ ncomplete[p] + 1 \in Nat
      BY <1>t, <2>2, <2>6, <2>8, NamedIsSeq, BoundsAreNat DEF IsComplete
    <3>5. T \cup {i} \subseteq DOMAIN Named(p)
      <4> SUFFICES ASSUME NEW j \in T PROVE j \in DOMAIN Named(p)
        BY <3>1
      <4>1. j \in 1..MaxSubs /\ status[Child(p, j)] # "none"
        BY DEF LoadedOf
      <4> QED BY <2>1, <4>1 DEF Parts, SubsAreNamed
    <3>6. T \cup {i} = DOMAIN Named(p)
      <4>1. IsFiniteSet(1..(ncomplete[p] + 1)) /\ Cardinality(1..(ncomplete[p] + 1)) = ncomplete[p] + 1
        BY <3>4, FS_Interval
      <4> QED BY <2>6, <3>4, <3>5, <4>1, FS_Subset
    <3>7. \A j \in DOMAIN Named(p) : status'[Child(p, j)] = "loaded"
      BY <2>3, <3>6
    <3>8. \A j \in DOMAIN Named(q) : status'[Child(q, j)] = "loaded"
      BY <2>8, <3>7
    <3>9. Named(q)' = Named(q) /\ q \in Inner /\ status'[q] = "subs"
      BY <1>n, <2>1, <2>8, <3>3
    <3> QED BY <3>8, <3>9 DEF HasItsSubs, Inner
  <2>9. FinishingIsReady'
    <3>1. CASE IsComplete(ncomplete[p] + 1, p)
      <4>1. PICK q \in Nodes : q = p
        BY <2>2
      <4>2. finishing' = q /\ status'[q] = "subs" /\ HasItsSubs(q)'
        BY <2>2, <2>8, <3>1, <4>1
      <4> QED BY <4>2 DEF FinishingIsReady, HasItsSubs, Named
    <3>2. CASE ~IsComplete(ncomplete[p] + 1, p)
      BY <2>2, <3>2 DEF FinishingIsReady
    <3> QED BY <3>1, <3>2
  <2>10. ncomplete' \in [Nodes -> 0..MaxSubs] /\ finishing' \in Nodes \cup {NoNode}
    BY <1>t, <2>2, <2>6
  <2> QED BY <2>7, <2>9, <2>10
<1>13. TypeOK' /\ CountIsLoaded' /\ FinishingIsReady'
  <2>1. status' \in [Nodes -> {"none", "find", "cat", "subs", "loaded", "failed"}]
    BY <1>0, <1>t, <1>1
  <2>2. loop' \in {"start", "running", "unloop", "exited", "lost"}
    BY <1>10
  <2>3. CASE FaultOf(f) = "onload" \/ f = Root
    <3>1. finishing' = NoNode /\ UNCHANGED ncomplete /\ CountIsLoaded'
      BY <1>11, <2>3
    <3> QED BY <1>0, <1>2, <1>10, <2>1, <2>2, <3>1 DEF TypeOK, FinishingIsReady
  <2>4. CASE ~(FaultOf(f) = "onload" \/ f = Root)
    <3>1. /\ ncomplete' \in [Nodes -> 0..MaxSubs] /\ finishing' \in Nodes \cup {NoNode}
          /\ CountIsLoaded' /\ FinishingIsReady'
      BY <1>12, <2>4
    <3> QED BY <1>0, <1>2, <1>10, <2>1, <2>2, <3>1 DEF TypeOK
  <2> QED BY <2>3, <2>4
<1> QED BY <1>5, <1>7, <1>8, <1>9, <1>10, <1>13 DEF Parts

-----------------------------------------------------------------------------
(* As long as the exit code is 0.                                          *)

\* Whoever waits goes on waiting in a step that leaves its count alone.
LEMMA StillWaiting ==
  ASSUME NEW n \in Nodes, Waiting(n), names \in Programs, file \in [Nodes -> Files],
         UNCHANGED names, file'[n] = file[n], ncomplete'[n] = ncomplete[n],
         n = finishing => n = finishing',
         \A m \in Nodes : status[m] # "none" => status'[m] # "none"
  PROVE  Waiting(n)'
<1>1. Named(n)' = Named(n)
  BY DEF Named
<1>2. \A i \in DOMAIN Named(n) : i \in 1..MaxSubs
  BY NamedIsSeq
<1>3. \A i \in DOMAIN Named(n) : n \in Inner => status'[Child(n, i)] # "none"
  BY <1>2, ChildIsNode DEF Waiting
<1> QED BY <1>1, <1>3 DEF Waiting, Inner

\* Nothing waits when the main script is to be read.
LEMMA StartUpNone == TypeOK /\ Parts /\ NoneIsForgotten /\ StartUp => NoneIsForgotten'
<1> SUFFICES ASSUME TypeOK, Parts, StartUp PROVE NoneIsForgotten'
  OBVIOUS
<1>1. /\ \A n \in Nodes : status'[n] \in {"none", "cat"}
      /\ status'[Root] = "cat" /\ loop' = "running"
  BY RootIsNode DEF StartUp, Parts, NotStarted, TypeOK
<1> QED BY <1>1 DEF NoneIsForgotten

\* What is found leaves the queue, and nothing else does.
LEMMA FindDoneNone == TypeOK /\ Parts /\ NoneIsForgotten /\ FindDone => NoneIsForgotten'
<1> SUFFICES ASSUME TypeOK, Parts, NoneIsForgotten, FindDone, code' = 0 PROVE NoneIsForgotten'
  BY DEF NoneIsForgotten
<1> DEFINE h == Head(finds)
<1>0. /\ finds \in Seq(Nodes) /\ finds # <<>> /\ finds' = Tail(finds)
      /\ names \in Programs /\ file \in [Nodes -> Files]
      /\ status \in [Nodes -> {"none", "find", "cat", "subs", "loaded", "failed"}]
      /\ status' = [status EXCEPT ![h] = "cat"]
      /\ UNCHANGED <<names, file, ncomplete, finishing, loop, code>> /\ loop # "start"
  BY DEF FindDone, Delivers, TypeOK, Exit1
<1>1. /\ h \in Nodes /\ h = finds[1] /\ Len(finds) \in Nat /\ Len(finds) # 0
      /\ DOMAIN finds = 1..Len(finds) /\ DOMAIN finds' = 1..(Len(finds) - 1)
      /\ \A k \in 1..(Len(finds) - 1) : finds'[k] = finds[k + 1]
  BY <1>0, HeadTailProperties, EmptySeq, LenProperties
<1>2. /\ status'[h] = "cat" /\ \A m \in Nodes : m # h => status'[m] = status[m]
      /\ \A m \in Nodes : status[m] # "none" => status'[m] # "none"
  BY <1>0, <1>1
<1>3. loop # "unloop" /\ status[Root] # "none"
  BY <1>0 DEF NoneIsForgotten
<1>4. ASSUME NEW n \in Nodes
      PROVE  /\ status'[n] # "failed"
             /\ status'[n] = "find" => \E k \in DOMAIN finds' : finds'[k] = n
             /\ status'[n] = "subs" => Waiting(n)'
  <2>1. status'[n] # "failed"
    BY <1>0, <1>2 DEF NoneIsForgotten
  <2>2. ASSUME status'[n] = "find" PROVE \E k \in DOMAIN finds' : finds'[k] = n
    <3>1. n # h
      BY <1>2, <2>2
    <3>2. PICK k \in DOMAIN finds : finds[k] = n
      BY <1>0, <1>2, <2>2, <3>1 DEF NoneIsForgotten
    <3>3. k # 1 /\ k - 1 \in 1..(Len(finds) - 1) /\ (k - 1) + 1 = k
      BY <1>1, <3>1, <3>2
    <3> QED BY <1>1, <3>2, <3>3
  <2>3. ASSUME status'[n] = "subs" PROVE Waiting(n)'
    <3>1. status[n] = "subs"
      BY <1>2, <2>3
    <3>2. Waiting(n)
      BY <1>0, <3>1 DEF NoneIsForgotten
    <3> QED BY <1>0, <1>2, <3>2, StillWaiting
  <2> QED BY <2>1, <2>2, <2>3
<1> QED BY <1>0, <1>2, <1>3, <1>4, RootIsNode DEF NoneIsForgotten

\* A script that names submodules waits for all of them, unless one is absolute.
LEMMA CatDoneNone ==
  ASSUME TypeOK, Parts, NoneIsForgotten, NEW n \in Nodes, CatDone(n)
  PROVE  NoneIsForgotten'
<1> SUFFICES ASSUME code' = 0 PROVE NoneIsForgotten'
  BY DEF NoneIsForgotten
<1> DEFINE S == {Child(n, i) : i \in Searched(n)}
           new == [i \in Searched(n) |-> Child(n, i)]
<1>0. /\ status[n] = "cat" /\ finishing = NoNode /\ loop # "start"
      /\ (Named(n) # <<>> => Len(n) < MaxDepth)
      /\ file' = [m \in Nodes |-> IF m \in S THEN Named(n)[m[Len(m)]] ELSE file[m]]
      /\ status' = [m \in Nodes |->
            IF m \in S THEN "find" ELSE IF m = n THEN "subs" ELSE status[m]]
      /\ finds' = finds \o new
      /\ finishing' = IF Named(n) = <<>> THEN n ELSE NoNode
      /\ Searched(n) = DOMAIN Named(n)
      /\ UNCHANGED <<names, fault, ncomplete, order, loop, code>>
  BY DEF CatDone, Delivers, Fatal
<1>t. /\ names \in Programs /\ file \in [Nodes -> Files]
      /\ status \in [Nodes -> {"none", "find", "cat", "subs", "loaded", "failed"}]
      /\ finds \in Seq(Nodes) /\ order \in Seq(Nodes)
  BY DEF TypeOK
<1>1. /\ DOMAIN Named(n) \subseteq 1..MaxSubs /\ DOMAIN Named(n) = 1..Len(Named(n))
      /\ Len(Named(n)) \in Nat
      /\ \A i \in DOMAIN Named(n) : n \in Inner
      /\ (Named(n) = <<>> <=> DOMAIN Named(n) = {})
  BY <1>0, <1>t, NamedIsSeq, BoundsAreNat DEF Inner
<1>o. \A j \in DOMAIN order : order[j] \in Nodes /\ status[order[j]] \in {"loaded", "failed"}
  BY <1>t, LenProperties, ElementOfSeq DEF Parts, OrderIsLoaded
<1>2. \A i \in 1..MaxSubs : n \in Inner => status[Child(n, i)] = "none"
  BY <1>0, <1>o DEF Parts, SubsAreNamed
<1>3. \A i \in DOMAIN Named(n) : Child(n, i) \in Nodes /\ Child(n, i) \in S /\ Child(n, i) # n
  BY <1>0, <1>1, ChildIsNode
<1>4. \A m \in S : m \in Nodes /\ m # n /\ status[m] = "none"
  BY <1>0, <1>1, <1>2, <1>3
<1>5. /\ status'[n] = "subs"
      /\ \A m \in S : status'[m] = "find"
      /\ \A m \in Nodes : m \notin S /\ m # n => status'[m] = status[m]
      /\ \A m \in Nodes : status[m] # "none" => status'[m] # "none"
  BY <1>0, <1>4
<1>6. \A m \in Nodes : status[m] # "none" => file'[m] = file[m]
  BY <1>0, <1>4
<1>7. loop # "unloop" /\ status[Root] # "none"
  BY <1>0 DEF NoneIsForgotten
<1>8. /\ Len(finds) \in Nat /\ DOMAIN finds = 1..Len(finds)
      /\ DOMAIN finds' = 1..(Len(finds) + Len(Named(n)))
      /\ \A k \in 1..Len(finds) : finds'[k] = finds[k]
      /\ \A k \in 1..Len(Named(n)) : finds'[Len(finds) + k] = Child(n, k)
  <2>1. new \in Seq(Nodes) /\ Len(new) = Len(Named(n)) /\ \A k \in 1..Len(Named(n)) : new[k] = Child(n, k)
    <3>1. new \in [1..Len(Named(n)) -> Nodes] /\ \A k \in 1..Len(Named(n)) : new[k] = Child(n, k)
      BY <1>0, <1>1, <1>3
    <3> HIDE DEF new
    <3>2. new \in Seq(Nodes)
      BY <1>1, <3>1, SeqDef
    <3>3. Len(new) \in Nat /\ DOMAIN new = 1..Len(new) /\ DOMAIN new = 1..Len(Named(n))
      BY <3>1, <3>2, LenProperties
    <3>4. Len(new) = Len(Named(n))
      <4>1. Cardinality(1..Len(new)) = Len(new) /\ Cardinality(1..Len(Named(n))) = Len(Named(n))
        BY <1>1, <3>3, NumbersOf
      <4> QED BY <3>3, <4>1
    <3> QED BY <3>1, <3>2, <3>4
  <2> HIDE DEF new
  <2>2. /\ finds' \in Seq(Nodes) /\ Len(finds') = Len(finds) + Len(new)
        /\ \A k \in 1..(Len(finds) + Len(new)) :
             finds'[k] = IF k <= Len(finds) THEN finds[k] ELSE new[k - Len(finds)]
    BY <1>0, <1>t, <2>1, ConcatProperties
  <2>3. Len(finds) \in Nat /\ DOMAIN finds = 1..Len(finds) /\ DOMAIN finds' = 1..Len(finds')
    BY <1>t, <2>2, LenProperties
  <2>4. \A k \in 1..Len(finds) : finds'[k] = finds[k]
    BY <1>1, <2>1, <2>2, <2>3
  <2>5. \A k \in 1..Len(Named(n)) :
          /\ Len(finds) + k \in 1..(Len(finds) + Len(new)) /\ ~(Len(finds) + k <= Len(finds))
          /\ Len(finds) + k - Len(finds) = k
    BY <1>1, <2>1, <2>3
  <2>6. \A k \in 1..Len(Named(n)) : finds'[Len(finds) + k] = Child(n, k)
    BY <2>1, <2>2, <2>5
  <2> QED BY <2>1, <2>2, <2>3, <2>4, <2>6
<1>9. ASSUME NEW m \in Nodes
      PROVE  /\ status'[m] # "failed"
             /\ status'[m] = "find" => \E k \in DOMAIN finds' : finds'[k] = m
             /\ status'[m] = "subs" => Waiting(m)'
  <2>1. CASE m \in S
    <3>1. PICK i \in 1..Len(Named(n)) : m = Child(n, i)
      BY <1>0, <1>1, <2>1
    <3>2. Len(finds) + i \in DOMAIN finds'
      BY <1>1, <1>8
    <3> QED BY <1>5, <1>8, <2>1, <3>1, <3>2
  <2>2. CASE m = n
    <3>1. Named(n)' = Named(n)
      BY <1>0, <1>6 DEF Named
    <3>2. \A i \in DOMAIN Named(n) : status'[Child(n, i)] # "none"
      BY <1>3, <1>5
    <3>3. ASSUME n # finishing' PROVE n \in Inner /\ ncomplete[n] # Len(Named(n))
      <4>1. Named(n) # <<>> /\ 1 \in DOMAIN Named(n) /\ n \in Inner
        BY <1>0, <1>1, <3>3
      <4>2. {i \in 1..MaxSubs : status[Child(n, i)] = "loaded"} = {}
        BY <1>2, <4>1
      <4>3. ncomplete[n] = 0
        BY <4>1, <4>2, FS_EmptySet DEF Parts, CountIsLoaded
      <4> QED BY <1>1, <4>1, <4>3
    <3>4. Waiting(n)'
      BY <1>0, <3>1, <3>2, <3>3 DEF Waiting, Inner
    <3> QED BY <1>5, <2>2, <3>4
  <2>3. CASE m \notin S /\ m # n
    <3>1. status'[m] = status[m]
      BY <1>5, <2>3
    <3>2. ASSUME status[m] = "find" PROVE \E k \in DOMAIN finds' : finds'[k] = m
      <4>1. PICK k \in DOMAIN finds : finds[k] = m
        BY <1>0, <3>2 DEF NoneIsForgotten
      <4>2. k \in DOMAIN finds'
        BY <1>1, <1>8
      <4> QED BY <1>8, <4>1, <4>2
    <3>3. ASSUME status[m] = "subs" PROVE Waiting(m)'
      <4>1. Waiting(m) /\ m # finishing
        BY <1>0, <3>3, NoNodeIsNone DEF NoneIsForgotten
      <4> QED BY <1>0, <1>t, <1>5, <1>6, <3>3, <4>1, StillWaiting
    <3>4. status[m] # "failed"
      BY <1>0 DEF NoneIsForgotten
    <3> QED BY <3>1, <3>2, <3>3, <3>4
  <2> QED BY <2>1, <2>2, <2>3
<1> QED BY <1>0, <1>5, <1>7, <1>9, RootIsNode DEF NoneIsForgotten

\* What finishes no longer waits, and its parent does unless it finishes next.
LEMMA FinishNone == TypeOK /\ Parts /\ NoneIsForgotten /\ Finish => NoneIsForgotten'
<1> SUFFICES ASSUME TypeOK, Parts, NoneIsForgotten, Finish, code' = 0 PROVE NoneIsForgotten'
  BY DEF NoneIsForgotten
<1> DEFINE f == finishing
<1>0. /\ f \in Nodes /\ status[f] = "subs" /\ status' = [status EXCEPT ![f] = "loaded"]
      /\ Tell(f) /\ loop # "start"
      /\ UNCHANGED <<names, fault, file, finds, loop, code>>
  BY DEF Finish, Fatal, TypeOK, Parts, FinishingIsReady
<1>t. /\ names \in Programs /\ file \in [Nodes -> Files] /\ ncomplete \in [Nodes -> 0..MaxSubs]
      /\ status \in [Nodes -> {"none", "find", "cat", "subs", "loaded", "failed"}]
  BY DEF TypeOK
<1>1. /\ status'[f] = "loaded" /\ \A m \in Nodes : m # f => status'[m] = status[m]
      /\ \A m \in Nodes : status[m] # "none" => status'[m] # "none"
  BY <1>0, <1>t
<1>2. loop # "unloop" /\ status[Root] # "none"
  BY <1>0 DEF NoneIsForgotten
<1>3. ASSUME NEW m \in Nodes, m # f, status[m] = "subs" PROVE Waiting(m)'
  <2>1. Waiting(m) /\ m \in Inner /\ ncomplete[m] # Len(Named(m))
    BY <1>0, <1>3 DEF NoneIsForgotten, Waiting
  <2>2. CASE ncomplete'[m] = ncomplete[m]
    BY <1>0, <1>t, <1>1, <1>3, <2>1, <2>2, StillWaiting
  <2>3. CASE ncomplete'[m] # ncomplete[m]
    <3>1. f # Root /\ m = Parent(f)
      BY <1>0, <1>t, <2>3 DEF Tell
    <3>2. /\ ncomplete'[m] = ncomplete[m] + 1
          /\ finishing' = IF ncomplete[m] + 1 = Len(Named(m)) THEN m ELSE NoNode
      BY <1>0, <1>t, <3>1 DEF Tell, IsComplete
    <3>3. m # finishing' => ncomplete'[m] # Len(Named(m))
      BY <3>2
    <3>4. Named(m)' = Named(m) /\ \A i \in DOMAIN Named(m) : i \in 1..MaxSubs
      BY <1>0, <1>t, NamedIsSeq DEF Named
    <3>5. \A i \in DOMAIN Named(m) : status'[Child(m, i)] # "none"
      BY <1>1, <2>1, <3>4, ChildIsNode DEF Waiting
    <3> QED BY <2>1, <3>3, <3>4, <3>5 DEF Waiting, Inner
  <2> QED BY <2>2, <2>3
<1>4. ASSUME NEW m \in Nodes
      PROVE  /\ status'[m] # "failed"
             /\ status'[m] = "find" => \E k \in DOMAIN finds' : finds'[k] = m
             /\ status'[m] = "subs" => Waiting(m)'
  <2>1. CASE m = f
    BY <1>1, <2>1
  <2>2. CASE m # f
    BY <1>0, <1>1, <1>3, <2>2 DEF NoneIsForgotten
  <2> QED BY <2>1, <2>2
<1> QED BY <1>0, <1>1, <1>2, <1>4, RootIsNode DEF NoneIsForgotten

\* A step that changes nothing but the state of the loop.
LEMMA LoopNone ==
  ASSUME NoneIsForgotten, loop' # "unloop" \/ loop' = loop, loop # "start" \/ loop' = loop,
         UNCHANGED <<names, fault, file, status, ncomplete, finds, finishing, order, code>>
  PROVE  NoneIsForgotten'
BY DEF NoneIsForgotten, Waiting, Named

-----------------------------------------------------------------------------
(* The loop returns.                                                       *)

\* When there is nothing to be found or read, and nothing has failed, all is loaded:
\* of the nodes that wait, take one as far from the root as any; a submodule that it
\* waits for waits too, and is farther.
LEMMA NothingWaits ==
  ASSUME TypeOK, Parts, NoneIsForgotten, code = 0, finishing = NoNode, finds = <<>>,
         \A n \in Nodes : status[n] # "cat"
  PROVE  \A n \in Nodes : status[n] # "subs"
<1> SUFFICES ASSUME NEW n \in Nodes, status[n] = "subs" PROVE FALSE
  OBVIOUS
<1>t. /\ names \in Programs /\ file \in [Nodes -> Files] /\ ncomplete \in [Nodes -> 0..MaxSubs]
      /\ status \in [Nodes -> {"none", "find", "cat", "subs", "loaded", "failed"}]
  BY DEF TypeOK
<1> DEFINE S == {MaxDepth - Len(m) : m \in {k \in Nodes : status[k] = "subs"}}
<1>1. PICK m \in Nodes : /\ status[m] = "subs"
                         /\ \A k \in Nodes : status[k] = "subs" => Len(k) <= Len(m)
  <2>1. \A k \in Nodes : Len(k) \in Nat /\ MaxDepth - Len(k) \in Nat
    BY NodeIsSeq, BoundsAreNat
  <2>2. S \in SUBSET Nat /\ MaxDepth - Len(n) \in S
    BY <2>1
  <2>3. PICK d \in S : \A e \in S : d <= e
    BY <2>2, Least
  <2>4. PICK m \in Nodes : status[m] = "subs" /\ d = MaxDepth - Len(m)
    BY <2>3
  <2>5. ASSUME NEW k \in Nodes, status[k] = "subs" PROVE Len(k) <= Len(m)
    <3>1. MaxDepth - Len(k) \in S
      BY <2>5
    <3>2. MaxDepth - Len(m) <= MaxDepth - Len(k)
      BY <2>3, <2>4, <3>1
    <3> QED BY <2>1, <3>2, BoundsAreNat
  <2> QED BY <2>4, <2>5
<1>2. /\ m \in Inner /\ ncomplete[m] # Len(Named(m))
      /\ \A i \in DOMAIN Named(m) : status[Child(m, i)] # "none"
  BY <1>1, NoNodeIsNone DEF NoneIsForgotten, Waiting
<1>3. /\ DOMAIN Named(m) \subseteq 1..MaxSubs /\ DOMAIN Named(m) = 1..Len(Named(m))
      /\ Len(Named(m)) \in Nat /\ Len(m) \in Nat
  BY <1>t, NamedIsSeq, NodeIsSeq, BoundsAreNat
<1>4. ASSUME NEW i \in DOMAIN Named(m) PROVE status[Child(m, i)] = "loaded"
  <2>1. Child(m, i) \in Nodes /\ Len(Child(m, i)) = Len(m) + 1
    BY <1>2, <1>3, ChildIsNode
  <2>2. status[Child(m, i)] # "subs"
    BY <1>1, <1>3, <2>1
  <2>3. DOMAIN finds = {}
    BY EmptySeq, LenProperties
  <2>4. status[Child(m, i)] \notin {"find", "failed"}
    BY <2>1, <2>3 DEF NoneIsForgotten
  <2> QED BY <1>t, <1>2, <2>1, <2>2, <2>4
<1>5. {i \in 1..MaxSubs : status[Child(m, i)] = "loaded"} = 1..Len(Named(m))
  <2>1. \A i \in 1..MaxSubs : status[Child(m, i)] = "loaded" => i \in DOMAIN Named(m)
    BY <1>2 DEF Parts, SubsAreNamed
  <2> QED BY <1>3, <1>4, <2>1
<1>6. ncomplete[m] = Len(Named(m))
  BY <1>2, <1>3, <1>5, NumbersOf DEF Parts, CountIsLoaded
<1> QED BY <1>2, <1>6

\* The loop returns, and the exit code is 0 only if the main script is loaded.
LEMMA LoopReturnsZero ==
  ASSUME TypeOK, Parts, NoneIsForgotten, LoopReturns, code = 0
  PROVE  \E k \in DOMAIN order : order[k] = Root
<1>1. /\ loop = "running" /\ finishing = NoNode /\ finds = <<>>
      /\ \A n \in Nodes : status[n] # "cat"
  BY DEF LoopReturns, NoneIsForgotten
<1>2. \A n \in Nodes : status[n] # "subs"
  BY <1>1, NothingWaits
<1>3. DOMAIN finds = {}
  BY <1>1, EmptySeq, LenProperties
<1>4. status[Root] \notin {"none", "find", "failed"}
  BY <1>1, <1>3, RootIsNode DEF NoneIsForgotten
<1>5. status[Root] = "loaded"
  BY <1>1, <1>2, <1>4, RootIsNode DEF TypeOK
<1> QED BY <1>5, RootIsNode DEF Parts, OrderIsLoaded

-----------------------------------------------------------------------------
\* Every step preserves the invariant.
LEMMA NextInv == IInv /\ [Next]_vars => IInv'
<1> SUFFICES ASSUME IInv, [Next]_vars
             PROVE  TypeOK' /\ Parts' /\ NoneIsForgotten' /\ ZeroMeansLoaded'
  BY DEF IInv, Parts
<1>0. TypeOK /\ Parts /\ NoneIsForgotten /\ ZeroMeansLoaded
  BY DEF IInv, Parts
<1>1. CASE StartUp
  <2>1. ZeroMeansLoaded'
    BY <1>1 DEF StartUp, ZeroMeansLoaded
  <2> QED BY <1>0, <1>1, <2>1, StartUpStep, StartUpNone
<1>2. CASE FindDone
  <2>1. ZeroMeansLoaded'
    BY <1>2 DEF FindDone, Delivers, Exit1, ZeroMeansLoaded
  <2> QED BY <1>0, <1>2, <2>1, FindDoneStep, FindDoneNone
<1>3. CASE Finish
  <2>1. ZeroMeansLoaded'
    BY <1>3 DEF Finish, Fatal, ZeroMeansLoaded
  <2> QED BY <1>0, <1>3, <2>1, FinishStep, FinishNone
<1>4. CASE \E n \in Nodes : CatFails(n)
  <2>1. code' = 1
    BY <1>4 DEF CatFails, Exit1, Fatal
  <2> QED BY <1>0, <1>4, <2>1, CatFailsStep DEF NoneIsForgotten, ZeroMeansLoaded
<1>5. CASE \E n \in Nodes : CatDone(n)
  <2>1. ZeroMeansLoaded'
    BY <1>5 DEF CatDone, Delivers, Fatal, ZeroMeansLoaded
  <2> QED BY <1>0, <1>5, <2>1, CatDoneStep, CatDoneNone
<1>6. CASE LoopReturns
  <2>1. /\ UNCHANGED <<names, fault, file, status, ncomplete, finds, finishing, order, code>>
        /\ loop' = "exited" /\ loop # "start"
    BY <1>6 DEF LoopReturns
  <2>2. TypeOK' /\ Parts'
    BY <1>0, <2>1, SameParts DEF TypeOK
  <2>3. NoneIsForgotten'
    BY <1>0, <2>1, LoopNone
  <2>4. ZeroMeansLoaded'
    BY <1>0, <1>6, <2>1, LoopReturnsZero DEF ZeroMeansLoaded
  <2> QED BY <2>2, <2>3, <2>4
<1>7. CASE Collect
  <2>1. /\ UNCHANGED <<names, fault, file, status, ncomplete, finds, finishing, order, code>>
        /\ loop' = "lost" /\ loop # "start"
    BY <1>7 DEF Collect
  <2>2. TypeOK' /\ Parts'
    BY <1>0, <2>1, SameParts DEF TypeOK
  <2>3. NoneIsForgotten' /\ ZeroMeansLoaded'
    BY <1>0, <2>1, LoopNone DEF ZeroMeansLoaded
  <2> QED BY <2>2, <2>3
<1>8. CASE UNCHANGED vars
  <2>1. UNCHANGED <<names, fault, file, status, ncomplete, finds, finishing, order, loop, code>>
    BY <1>8 DEF vars
  <2>2. TypeOK' /\ Parts'
    BY <1>0, <2>1, SameParts DEF TypeOK
  <2>3. NoneIsForgotten' /\ ZeroMeansLoaded'
    BY <1>0, <2>1, LoopNone DEF ZeroMeansLoaded
  <2> QED BY <2>2, <2>3
<1> QED BY <1>1, <1>2, <1>3, <1>4, <1>5, <1>6, <1>7, <1>8 DEF Next

\* The inductive invariant, for any scripts, programs, faults and bounds.
THEOREM Inductive == Spec => []IInv
<1>1. Init => IInv
  BY InitInv
<1>2. IInv /\ [Next]_vars => IInv'
  BY NextInv
<1> QED BY <1>1, <1>2, PTL DEF Spec

\* onLoad is called once for each module, after that of all its submodules.
THEOREM SubmodulesFirst == Spec => []SubsComeFirst
<1>1. IInv => SubsComeFirst
  BY DEF IInv
<1> QED BY <1>1, Inductive, PTL

\* The process ends with 0 only when the main script's onLoad has been called: in a
\* tree of submodules of any depth none is forgotten.
THEOREM ZeroIsLoaded == Spec => []ZeroMeansLoaded
<1>1. IInv => ZeroMeansLoaded
  BY DEF IInv
<1> QED BY <1>1, Inductive, PTL
=============================================================================
