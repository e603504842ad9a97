----------------------------- MODULE UpdateLog -----------------------------
(***************************************************************************)
(* What an update log promises, without files, rings or headers: log maps  *)
(* the serial numbers that a replica may be at to their entries.  It only  *)
(* ever grows by the next number, forgets from its old end, or starts over *)
(* and forgets everything.                                                 *)
(***************************************************************************)
EXTENDS Integers

CONSTANT MaxSno    \* the last serial number

VARIABLE log

\* What log and log' both have is the same, and is the end of log.
Suffix(S) ==
  /\ \A s \in S : s \in DOMAIN log /\ log'[s] = log[s]
  /\ \A s \in S, r \in DOMAIN log : s <= r => r \in S

Init == \E s \in DOMAIN log : DOMAIN log = {s} /\ log[s].sno = s

\* The next entry, when as many are forgotten as make room for it.
Append ==
  \E s \in DOMAIN log' :
    /\ s - 1 \in DOMAIN log /\ s \notin DOMAIN log
    /\ log'[s].sno = s /\ log'[s].commit
    /\ Suffix(DOMAIN log' \ {s})

Forget == Suffix(DOMAIN log')

\* The log starts over with one entry, or with a dummy and the update that
\* found no number left.
StartOver ==
  \/ DOMAIN log' = {}
  \/ \E s \in DOMAIN log' : DOMAIN log' = {s} /\ log'[s].sno = s
  \/ /\ DOMAIN log = {} \/ MaxSno \in DOMAIN log
     /\ DOMAIN log' = {1, 2}
     /\ ~log'[1].commit /\ log'[2].commit /\ log'[1].sno = 1 /\ log'[2].sno = 2

Next == StartOver \/ Append \/ Forget

Spec == Init /\ [][Next]_log
=============================================================================
