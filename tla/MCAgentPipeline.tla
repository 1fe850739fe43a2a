-------------------------- MODULE MCAgentPipeline ---------------------------
(***************************************************************************)
(* A small instance of AgentPipeline for TLC: two runs, of one scan or of  *)
(* two.                                                                    *)
(***************************************************************************)
EXTENDS AgentPipeline, TLC

CONSTANTS s1, s2, r1, r2

Symmetry == Permutations(Scans) \cup Permutations(Runs)

Step(n, on) == [n |-> n, on |-> on]

\* No chains; one out of order with an id made up; two steps of one number,
\* then a second chain.
MCAnswers == {
    <<>>,
    <<[uses |-> {Offered, Unknown}, steps |-> <<Step(2, Offered), Step(1, Unknown)>>]>>,
    <<[uses |-> {}, steps |-> <<Step(1, NoRef), Step(1, Offered)>>],
      [uses |-> {Offered}, steps |-> <<Step(2, NoRef)>>]>>}
=============================================================================
