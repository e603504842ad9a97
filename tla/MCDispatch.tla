----------------------------- MODULE MCDispatch -----------------------------
(* Instances of Dispatch for TLC.                                          *)
EXTENDS Dispatch, TLC

\* AS requests, which carry preauthentication data, are the longer ones.
MCReqLen == [r \in Req |-> IF r \in AS THEN 2 ELSE 1]

\* Dispatch states are interchangeable.
MCSymmetry == Permutations(States)
=============================================================================
