------------------------------- MODULE MCDb2 --------------------------------
EXTENDS Db2, TLC

CONSTANTS a, b

MCUnlockiter == {b}

\* What is explored is large in one respect at a time: all calls and their
\* nesting on a database of one principal, with a promotion or a new policy
\* lock file but not both, or one iteration at a time over all principals among
\* changes by both processes.
FewPrincipals ==
    /\ princ \subseteq {1}
    /\ \A p \in Proc : curs[p].seen \cup curs[p].need \subseteq {1}
    /\ dbgen + ninode <= 2

FewCalls ==
    /\ afile = 1 /\ dbgen = 0
    /\ \A p \in Proc : \A i \in DOMAIN stack[p] :
           stack[p][i].op \in {"iterate", "put", "delete"}
    /\ \A p, q \in Proc : p = q \/ curs[p].key = None \/ curs[q].key = None

Bounded == FewPrincipals \/ FewCalls
=============================================================================
