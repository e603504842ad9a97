------------------------------ MODULE MCIprop ------------------------------
(* Iprop for model checking: the updates that there are to make.           *)
EXTENDS Iprop, TLC

MCUpdate == [princ : Princ, val : Val \cup {Absent}]

\* Principals are interchangeable, and so are writers.  (For invariants only,
\* not for Converges.)
MCSymmetry == Permutations(Princ) \cup Permutations(Writers)
=============================================================================
