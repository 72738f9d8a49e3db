------------------------------ MODULE MCVigil -------------------------------
(* A small instance of Vigil: one channel, always configured, for the worst  *)
(* findings only; no node is marked as one that comes and goes.              *)
EXTENDS Vigil

WorstOnly == {[channels |-> TRUE, floor |-> 2, resolved |-> TRUE, offline |-> FALSE]}

SteadyInit == VigilInit /\ intermittent = {}
SteadyVigil == SteadyInit /\ [][VigilNext]_allVars /\ LoopFairness

=============================================================================
