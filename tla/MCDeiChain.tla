----------------------------- MODULE MCDeiChain -----------------------------
(* Instances of DeiChain for TLC.                                          *)
EXTENDS DeiChain, TLC

\* Generators are interchangeable, so are miners, and so are the processes the
\* primary forks.
Symmetry ==
  Permutations(TxGens) \cup Permutations(Miners) \cup Permutations(Children)

\* For counterexamples that must not rest on mixed frames: miners write and
\* validators read one at a time.
OrderlyPipe == torn' = {} /\ ~\E V \in SUBSET Validators : ReadTorn(V)
=============================================================================
