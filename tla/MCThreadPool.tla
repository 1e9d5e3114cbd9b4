---------------------------- MODULE MCThreadPool ----------------------------
(* ThreadPool for TLC: requests and threads are interchangeable.           *)
EXTENDS ThreadPool, TLC

Symmetry == Permutations(Reqs) \cup Permutations(Workers)
=============================================================================
