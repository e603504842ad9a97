--------------------------- MODULE IpropLogProofs ---------------------------
(***************************************************************************)
(* The first of three modules of proofs about incremental propagation:     *)
(* what holds of the log, of the master and of a replay on their own.      *)
(*                                                                         *)
(* Leaves says what a run of updates makes of one principal; Told, that a  *)
(* database at a position lacks of the master's exactly what the entries   *)
(* after that position say, unless the master does not know the position   *)
(* or a process has still to log what it stored.  Ring ties the header of  *)
(* the log to its slots.  Dead is a position the master does not know;     *)
(* Forth is what every step of the master keeps: what was told is told,    *)
(* what is dead stays dead, because the time of a new entry is later than  *)
(* that of any position.  The last part defines the inductive invariant,   *)
(* IInv.                                                                   *)
(***************************************************************************)
EXTENDS Iprop, WellFoundedInduction, TLAPS

(* The leaves are for Zenon, unless they name another prover or say ONLY. *)
USE Zenon

(* A set of natural numbers has a least one.                                 *)
LEMMA LeastExists ==
  ASSUME NEW S \in SUBSET Nat, S # {}
  PROVE  \E x \in S : \A y \in S : x =< y
  <1> DEFINE R == {ss \in Nat \X Nat : ss[1] < ss[2]}
  <1>1. IsWellFoundedOn(R, Nat)
    BY NatLessThanWellFounded, SMT DEF OpToRel
  <1>2. PICK x \in S : \A y \in S : ~ (<<y, x>> \in R)
    <2> HIDE DEF R
    <2> QED
      BY <1>1, WFMin
  <1>3. ASSUME NEW y \in S
        PROVE  x =< y
    <2>1. ~ (<<y, x>> \in R) /\ x \in Nat /\ y \in Nat
      BY <1>2, SMT
    <2> QED
      BY <2>1, SMT
  <1> QED
    BY <1>3, SMT

\* A remainder is less than its divisor.
LEMMA ModRange == ASSUME NEW a \in Nat, NEW n \in Nat \ {0} PROVE a % n \in 0 .. n - 1
  BY SMT

\* What \div and % are, in the form that arithmetic on slots needs.
LEMMA DivMod ==
  ASSUME NEW a \in Nat, NEW n \in Nat \ {0}
  PROVE  a \div n \in Nat /\ a % n \in 0 .. n-1 /\ a = n * (a \div n) + (a % n)
  BY SMT

\* Two numbers less than n apart have different remainders by n: entries that
\* are in the ring together are in different slots.
LEMMA ModDistinct ==
  ASSUME NEW a \in Nat, NEW b \in Nat, NEW n \in Nat \ {0}, a < b, b - a < n
  PROVE  a % n # b % n
<1> DEFINE p == a \div n
           q == b \div n
<1>1. p \in Nat /\ q \in Nat /\ a = n * p + (a % n) /\ b = n * q + (b % n)
  BY DivMod
<1> SUFFICES ASSUME a % n = b % n PROVE FALSE
  OBVIOUS
<1>2. b - a = n * q - n * p
  BY <1>1, DivMod, SMT
<1> HIDE DEF p, q
<1>3. n * q - n * p = n * (q - p)
  BY <1>1, SMT
<1>4. CASE q <= p
  BY <1>1, <1>2, <1>3, <1>4, SMT
<1>5. CASE q >= p + 1
  <2>1. n * (q - p) >= n BY <1>1, <1>5, SMT
  <2> QED BY <2>1, <1>2, <1>3, SMT
<1> QED BY <1>1, <1>4, <1>5, SMT

\* Numbers n apart have the same remainder by n: an entry takes the slot of the
\* one that is ulogentries before it.
LEMMA ModSame ==
  ASSUME NEW a \in Nat, NEW n \in Nat \ {0}
  PROVE  (a + n) % n = a % n
<1> DEFINE p == a \div n
           q == (a + n) \div n
           r == a % n
           t == (a + n) % n
<1>1. p \in Nat /\ r \in 0 .. n - 1 /\ a = n * p + r
  BY DivMod
<1>2. q \in Nat /\ t \in 0 .. n - 1 /\ a + n = n * q + t
  <2>1. a + n \in Nat BY SMT
  <2> QED BY <2>1, DivMod
<1> SUFFICES r = t
  OBVIOUS
<1> HIDE DEF p, q, r, t
<1>3. n * (p + 1) = n * p + n
  BY <1>1, SMT
<1>4. CASE q = p + 1
  BY <1>1, <1>2, <1>3, <1>4, SMT
<1>5. CASE q >= p + 2
  <2>1. n * q >= n * (p + 2) /\ n * (p + 2) = n * p + n + n BY <1>1, <1>2, <1>5, SMT
  <2>2. n * p \in Nat /\ n * q \in Nat BY <1>1, <1>2, SMT
  <2> QED BY <2>1, <2>2, <1>1, <1>2, SMT
<1>6. CASE q <= p
  <2>1. n * q <= n * p BY <1>1, <1>2, <1>6, SMT
  <2>2. n * p \in Nat /\ n * q \in Nat BY <1>1, <1>2, SMT
  <2> QED BY <2>1, <2>2, <1>1, <1>2, SMT
<1> QED BY <1>1, <1>2, <1>4, <1>5, <1>6, SMT

-----------------------------------------------------------------------------
\* INDEX() of kdb_log.c never points outside of the ring.
LEMMA SlotRange == \A s \in Sno : Slot(s) \in Slots
<1> SUFFICES ASSUME NEW s \in Sno PROVE Slot(s) \in Slots
  OBVIOUS
<1> DEFINE a == IF s = 0 THEN MaxSno ELSE s - 1
<1>1. a \in Nat /\ ulogentries \in Nat \ {0}
  BY UlogAssumption, SMT DEF Sno
<1>2. a % ulogentries \in 0 .. ulogentries - 1
  BY <1>1, DivMod
<1> QED BY <1>2, SMT DEF Slot, Slots

\* Only sno 0 wraps.
LEMMA SlotIs ==
  ASSUME NEW s \in Sno, s # 0
  PROVE  Slot(s) = (s - 1) % ulogentries
BY UlogAssumption, SMT DEF Slot, Sno

\* ModDistinct for the slots of serial numbers.
LEMMA SlotDistinct ==
  ASSUME NEW s \in Sno, NEW n \in Sno, 1 <= s, s < n, n - s < ulogentries
  PROVE  Slot(s) # Slot(n)
<1>1. s - 1 \in Nat /\ n - 1 \in Nat /\ s - 1 < n - 1 /\ (n - 1) - (s - 1) < ulogentries
  BY UlogAssumption, SMT DEF Sno
<1>2. (s - 1) % ulogentries # (n - 1) % ulogentries
  BY <1>1, ModDistinct, UlogAssumption
<1> QED BY <1>2, UlogAssumption, SMT DEF Slot, Sno

\* ModSame for the slots of serial numbers.
LEMMA SlotSame ==
  ASSUME NEW s \in Sno, NEW n \in Sno, 1 <= s, n = s + ulogentries
  PROVE  Slot(s) = Slot(n)
<1>1. s - 1 \in Nat /\ n - 1 = (s - 1) + ulogentries
  BY UlogAssumption, SMT DEF Sno
<1>2. (n - 1) % ulogentries = (s - 1) % ulogentries
  BY <1>1, ModSame, UlogAssumption
<1> QED BY <1>2, UlogAssumption, SMT DEF Slot, Sno

\* Zeroed memory is an entry header.
LEMMA ZeroEntryType == ZeroEntry \in Entry
  BY UlogAssumption, SMT DEF ZeroEntry, Entry, Sno

\* What ulog_add_update() and ulog_replay() store is an entry.
LEMMA LoggedType ==
  \A s \in Sno, t \in Nat, x \in Update : Logged(s, t, x) \in Entry
  BY DEF Logged, Entry

\* A file that extend_file_to() just made is a log without entries.
LEMMA EmptyFileFacts ==
  EmptyFile \in Contents /\ EmptyFile.num = 0 /\ EmptyFile.last_sno = 0
<1>1. [i \in Slots |-> ZeroEntry] \in [Slots -> Entry]
  BY ZeroEntryType
<1>2. 0 \in Sno
  BY UlogAssumption, SMT DEF Sno
<1> QED BY <1>1, <1>2, SMT DEF EmptyFile, Contents

-----------------------------------------------------------------------------
(* The updates f[a + 1], ..., f[b], put one after the other, leave principal *)
(* p with v, when it was old before.                                         *)
Leaves(f, a, b, old, p, v) ==
  \/ \E s \in a + 1 .. b : /\ f[s].princ = p /\ f[s].val = v
                           /\ \A r \in s + 1 .. b : f[r].princ # p
  \/ v = old /\ \A s \in a + 1 .. b : f[s].princ # p

(* No update leaves a principal as it was. *)
LEMMA LeavesNone ==
  ASSUME NEW f, NEW a \in Nat, NEW old, NEW p
  PROVE  Leaves(f, a, a, old, p, old)
  <1>1. \A s \in a + 1 .. a : FALSE
    BY SMT
  <1> QED
    BY <1>1 DEF Leaves

(* Only what the updates themselves are matters. *)
LEMMA LeavesSame ==
  ASSUME NEW f, NEW g, NEW a \in Nat, NEW b \in Nat, NEW old, NEW p, NEW v,
         \A s \in a + 1 .. b : g[s] = f[s], Leaves(f, a, b, old, p, v)
  PROVE  Leaves(g, a, b, old, p, v)
  <1>1. CASE \A s \in a + 1 .. b : f[s].princ # p
    <2>1. \A s \in a + 1 .. b : g[s].princ # p
      BY <1>1
    <2>2. v = old
      BY <1>1 DEF Leaves
    <2> QED
      BY <2>1, <2>2 DEF Leaves
  <1>2. CASE \E s \in a + 1 .. b : f[s].princ = p
    <2>1. PICK s \in a + 1 .. b : /\ f[s].princ = p /\ f[s].val = v
                                  /\ \A r \in s + 1 .. b : f[r].princ # p
      BY <1>2 DEF Leaves
    <2>2. \A r \in s + 1 .. b : r \in a + 1 .. b
      BY <2>1, SMT
    <2>3. /\ g[s].princ = p /\ g[s].val = v
          /\ \A r \in s + 1 .. b : g[r].princ # p
      BY <2>1, <2>2
    <2> QED
      BY <2>1, <2>3 DEF Leaves
  <1> QED
    BY <1>1, <1>2

(* One more update. *)
LEMMA LeavesMore ==
  ASSUME NEW f, NEW a \in Nat, NEW b \in Nat, a <= b, NEW c, c = b + 1,
         NEW old, NEW p, NEW v
  PROVE  /\ f[c].princ = p => Leaves(f, a, c, old, p, f[c].val)
         /\ f[c].princ # p /\ Leaves(f, a, b, old, p, v) =>
              Leaves(f, a, c, old, p, v)
  <1>1. ASSUME f[c].princ = p
        PROVE  Leaves(f, a, c, old, p, f[c].val)
    <2>1. c \in a + 1 .. c /\ \A r \in c + 1 .. c : FALSE
      BY SMT
    <2> QED
      BY <1>1, <2>1 DEF Leaves
  <1>2. ASSUME f[c].princ # p, Leaves(f, a, b, old, p, v)
        PROVE  Leaves(f, a, c, old, p, v)
    <2>1. \A s \in Nat : \A r \in s + 1 .. c : r = c \/ r \in s + 1 .. b
      BY SMT
    <2>2. CASE \A s \in a + 1 .. b : f[s].princ # p
      <3>1. \A s \in a + 1 .. c : f[s].princ # p
        BY <1>2, <2>1, <2>2
      <3>2. v = old
        BY <1>2, <2>2 DEF Leaves
      <3> QED
        BY <3>1, <3>2 DEF Leaves
    <2>3. CASE \E s \in a + 1 .. b : f[s].princ = p
      <3>1. PICK s \in a + 1 .. b : /\ f[s].princ = p /\ f[s].val = v
                                    /\ \A r \in s + 1 .. b : f[r].princ # p
        BY <1>2, <2>3 DEF Leaves
      <3>2. s \in Nat /\ s \in a + 1 .. c
        BY <3>1, SMT
      <3>3. \A r \in s + 1 .. c : f[r].princ # p
        BY <1>2, <2>1, <3>1, <3>2
      <3> QED
        BY <3>1, <3>2, <3>3 DEF Leaves
    <2> QED
      BY <2>2, <2>3
  <1> QED
    BY <1>1, <1>2

(* The updates leave a principal with one value. *)
LEMMA LeavesUnique ==
  ASSUME NEW f, NEW a \in Nat, NEW b \in Nat, NEW old, NEW p, NEW v, NEW w,
         Leaves(f, a, b, old, p, v), Leaves(f, a, b, old, p, w)
  PROVE  v = w
  <1>1. CASE \A s \in a + 1 .. b : f[s].princ # p
    BY <1>1 DEF Leaves
  <1>2. CASE \E s \in a + 1 .. b : f[s].princ = p
    <2>1. PICK s \in a + 1 .. b : /\ f[s].princ = p /\ f[s].val = v
                                  /\ \A r \in s + 1 .. b : f[r].princ # p
      BY <1>2 DEF Leaves
    <2>2. PICK t \in a + 1 .. b : /\ f[t].princ = p /\ f[t].val = w
                                  /\ \A r \in t + 1 .. b : f[r].princ # p
      BY <1>2 DEF Leaves
    <2>3. s = t \/ s \in t + 1 .. b \/ t \in s + 1 .. b
      BY <2>1, <2>2, SMT
    <2> QED
      BY <2>1, <2>2, <2>3
  <1> QED
    BY <1>1, <1>2

(* The same updates, numbered otherwise. *)
LEMMA LeavesShift ==
  ASSUME NEW f, NEW g, NEW a \in Nat, NEW b \in Nat, NEW c \in Nat, NEW e \in Nat,
         NEW d \in Int, a = c + d, b = e + d, \A i \in c + 1 .. e : g[i] = f[i + d],
         NEW old, NEW p, NEW v, Leaves(f, a, b, old, p, v)
  PROVE  Leaves(g, c, e, old, p, v)
  <1>1. /\ \A i \in c + 1 .. e : i + d \in a + 1 .. b
        /\ \A s \in a + 1 .. b : s - d \in c + 1 .. e /\ (s - d) + d = s
    BY SMT
  <1>2. CASE \A s \in a + 1 .. b : f[s].princ # p
    <2>1. \A i \in c + 1 .. e : g[i].princ # p
      BY <1>1, <1>2
    <2>2. v = old
      BY <1>2 DEF Leaves
    <2> QED
      BY <2>1, <2>2 DEF Leaves
  <1>3. CASE \E s \in a + 1 .. b : f[s].princ = p
    <2>1. PICK s \in a + 1 .. b : /\ f[s].princ = p /\ f[s].val = v
                                  /\ \A r \in s + 1 .. b : f[r].princ # p
      BY <1>3 DEF Leaves
    <2>2. s - d \in c + 1 .. e /\ g[s - d] = f[s]
      BY <1>1
    <2>3. \A i \in (s - d) + 1 .. e : i \in c + 1 .. e /\ i + d \in s + 1 .. b
      BY <2>1, SMT
    <2>4. \A i \in (s - d) + 1 .. e : g[i].princ # p
      BY <2>1, <2>3
    <2> QED
      BY <2>1, <2>2, <2>4 DEF Leaves
  <1> QED
    BY <1>2, <1>3

(* Update i of g is update i + d of f, from the first to the last of both. *)
Shifted(f, a, b, g, c, e, d) ==
    /\ a \in Nat /\ b \in Nat /\ c \in Nat /\ e \in Nat /\ d \in Int
    /\ a = c + d /\ b = e + d /\ \A i \in c + 1 .. e : g[i] = f[i + d]

(* Updates that are the same in both leave the same.                         *)
LEMMA ShiftedLeaves ==
  ASSUME NEW f, NEW a, NEW b, NEW g, NEW c, NEW e, NEW d, Shifted(f, a, b, g, c, e, d)
  PROVE  \A old, p, v : Leaves(f, a, b, old, p, v) => Leaves(g, c, e, old, p, v)
  <1> SUFFICES ASSUME NEW old, NEW p, NEW v, Leaves(f, a, b, old, p, v)
               PROVE  Leaves(g, c, e, old, p, v)
    OBVIOUS
  <1>1. a \in Nat /\ b \in Nat /\ c \in Nat /\ e \in Nat /\ d \in Int
    BY DEF Shifted
  <1>2. a = c + d /\ b = e + d /\ \A i \in c + 1 .. e : g[i] = f[i + d]
    BY DEF Shifted
  <1> QED
    BY <1>1, <1>2, LeavesShift

(* When the updates up to c leave x, those after c leave what all leave; and *)
(* so do those from c on: putting an update twice is as good as once.        *)
LEMMA LeavesAfter ==
  ASSUME NEW f, NEW a \in Nat, NEW b \in Nat, NEW c \in Nat, a <= c, c <= b,
         NEW old, NEW p, NEW v, NEW x,
         Leaves(f, a, b, old, p, v), Leaves(f, a, c, old, p, x)
  PROVE  /\ Leaves(f, c, b, x, p, v)
         /\ a < c => Leaves(f, c - 1, b, x, p, v)
  <1>1. ASSUME NEW d \in {c, c - 1}, a <= d
        PROVE  Leaves(f, d, b, x, p, v)
    <2>0. d \in Nat /\ d <= c /\ c <= d + 1
      BY <1>1, SMT
    <2>1. \A s \in d + 1 .. b : s \in a + 1 .. b
      BY <1>1, <2>0, SMT
    <2>2. \A s \in a + 1 .. c : s \in a + 1 .. b
      BY SMT
    <2>3. CASE \A s \in a + 1 .. b : f[s].princ # p
      <3>1. v = old /\ x = old
        BY <2>2, <2>3 DEF Leaves
      <3> QED
        BY <2>1, <2>3, <3>1 DEF Leaves
    <2>4. CASE \E s \in a + 1 .. b : f[s].princ = p
      <3>1. PICK s \in a + 1 .. b : /\ f[s].princ = p /\ f[s].val = v
                                    /\ \A r \in s + 1 .. b : f[r].princ # p
        BY <2>4 DEF Leaves
      <3>2. CASE s \in d + 1 .. b
        BY <3>1, <3>2 DEF Leaves
      <3>3. CASE s \notin d + 1 .. b
        <4>1. s \in a + 1 .. c /\ s <= d
          BY <2>0, <3>1, <3>3, SMT
        <4>2. \A r \in d + 1 .. b : r \in s + 1 .. b
          BY <2>0, <4>1, SMT
        <4>3. \A r \in d + 1 .. b : f[r].princ # p
          BY <3>1, <4>2
        <4>4. PICK t \in a + 1 .. c : /\ f[t].princ = p /\ f[t].val = x
                                      /\ \A r \in t + 1 .. c : f[r].princ # p
          BY <3>1, <4>1 DEF Leaves
        <4>5. s = t \/ t \in s + 1 .. b \/ s \in t + 1 .. c
          BY <4>1, <4>4, SMT
        <4>6. v = x
          BY <3>1, <4>4, <4>5
        <4> QED
          BY <4>3, <4>6 DEF Leaves
      <3> QED
        BY <3>2, <3>3
    <2> QED
      BY <2>3, <2>4
  <1>2. a < c => a <= c - 1
    BY SMT
  <1> QED
    BY <1>1, <1>2

-----------------------------------------------------------------------------
(* f goes through the states of S from a on, by the steps of step. *)
Iterated(N, S, a, step, f) ==
    /\ f \in [0 .. N -> S] /\ f[0] = a
    /\ \A n \in 1 .. N : f[n] = step[n][f[n - 1]]

(* A step per place makes a sequence of states: of a least place without one *)
(* the place before has some, and one more step extends it.                  *)
LEMMA Iterates ==
  ASSUME NEW N \in Nat, NEW S, NEW a \in S, NEW step \in [1 .. N -> [S -> S]]
  PROVE  \E f : Iterated(N, S, a, step, f)
  <1> DEFINE Upto(k, f) == /\ f \in [0 .. k -> S] /\ f[0] = a
                           /\ \A n \in 1 .. k : f[n] = step[n][f[n - 1]]
             B == {k \in 0 .. N : ~ \E f : Upto(k, f)}
  <1>1. ASSUME B # {}
        PROVE  FALSE
    <2>1. B \in SUBSET Nat
      BY SMT
    <2> HIDE DEF B
    <2>2. PICK m \in B : \A k \in B : m <= k
      BY <1>1, <2>1, LeastExists
    <2>3. m \in 0 .. N /\ ~ \E f : Upto(m, f)
      BY <2>2 DEF B
    <2>4. CASE m = 0
      <3> DEFINE f == [n \in 0 .. 0 |-> a]
      <3>1. Upto(0, f)
        BY SMT
      <3> HIDE DEF f, Upto
      <3> QED
        BY <3>1, <2>3, <2>4
    <2>5. CASE m # 0
      <3>1. m - 1 \in 0 .. N /\ m \in 1 .. N /\ ~ (m <= m - 1) /\ m - 1 \in 0 .. m - 1
        BY <2>3, <2>5, SMT
      <3>2. m - 1 \notin B
        BY <3>1, <2>2
      <3>3. PICK f : Upto(m - 1, f)
        BY <3>1, <3>2 DEF B
      <3>4. step[m][f[m - 1]] \in S
        <4>1. f[m - 1] \in S
          BY <3>1, <3>3
        <4> QED
          BY <3>1, <4>1
      <3> DEFINE g == [n \in 0 .. m |-> IF n = m THEN step[m][f[m - 1]] ELSE f[n]]
      <3>5. \A n \in 0 .. m : n = m \/ n \in 0 .. m - 1
        BY <3>1, SMT
      <3>6. /\ g[m] = step[m][f[m - 1]] /\ \A n \in 0 .. m - 1 : g[n] = f[n]
            /\ 0 \in 0 .. m - 1
        BY <3>1, SMT
      <3>7. g \in [0 .. m -> S] /\ g[0] = a
        <4>1. \A n \in 0 .. m : (IF n = m THEN step[m][f[m - 1]] ELSE f[n]) \in S
          BY <3>3, <3>4, <3>5
        <4> QED
          BY <4>1, <3>3, <3>6
      <3> HIDE DEF g
      <3>8. ASSUME NEW n \in 1 .. m
            PROVE  g[n] = step[n][g[n - 1]]
        <4>1. CASE n = m
          BY <4>1, <3>1, <3>6
        <4>2. CASE n # m
          <5>1. n \in 1 .. m - 1 /\ n \in 0 .. m - 1 /\ n - 1 \in 0 .. m - 1
            BY <4>2, <3>1, SMT
          <5> QED
            BY <5>1, <3>3, <3>6
        <4> QED
          BY <4>1, <4>2
      <3>9. Upto(m, g)
        BY <3>7, <3>8
      <3> HIDE DEF Upto
      <3> QED
        BY <3>9, <2>3
    <2> QED
      BY <2>4, <2>5
  <1>2. N \in 0 .. N
    BY SMT
  <1>3. PICK f : Upto(N, f)
    <2>1. N \notin B
      BY <1>1
    <2> HIDE DEF Upto
    <2> QED
      BY <1>2, <2>1
  <1>4. Iterated(N, S, a, step, f)
    BY <1>3 DEF Iterated
  <1> HIDE DEF Upto
  <1> QED
    BY <1>4

(* Two functions that start and go on alike are alike. *)
LEMMA SameIterates ==
  ASSUME NEW N \in Nat, NEW f, NEW h, h[0] = f[0],
         \A n \in 1 .. N : h[n - 1] = f[n - 1] => h[n] = f[n]
  PROVE  \A n \in 0 .. N : h[n] = f[n]
  <1> DEFINE B == {n \in 0 .. N : h[n] # f[n]}
  <1> SUFFICES ASSUME B # {} PROVE FALSE
    OBVIOUS
  <1>1. B \in SUBSET Nat
    BY SMT
  <1> HIDE DEF B
  <1>2. PICK m \in B : \A k \in B : m <= k
    BY <1>1, LeastExists
  <1>3. m \in 0 .. N /\ h[m] # f[m]
    BY <1>2 DEF B
  <1>4. m # 0
    BY <1>3
  <1>5. m \in 1 .. N /\ m - 1 \in 0 .. N /\ ~ (m <= m - 1)
    BY <1>3, <1>4, SMT
  <1>6. h[m - 1] = f[m - 1]
    BY <1>2, <1>5 DEF B
  <1> QED
    BY <1>3, <1>5, <1>6

(* krb5_db_put_principal() leaves a database. *)
LEMMA PutType ==
  ASSUME NEW db \in Database, NEW upd \in Update
  PROVE  /\ Put(db, upd) \in Database /\ upd.princ \in Princ
         /\ \A p \in Princ : /\ p = upd.princ => Put(db, upd)[p] = upd.val
                             /\ p # upd.princ => Put(db, upd)[p] = db[p]
  <1>1. upd \in [princ : Princ, val : Val \cup {Absent}]
    BY IpropAssumption DEF IpropAssumption
  <1> QED
    BY <1>1, SMT DEF Put, Database

(* f goes through the databases that the updates of g make, one by one. *)
Puts(N, g, f) ==
    /\ f \in [0 .. N -> Database]
    /\ \A n \in 1 .. N : g[n] \in Update /\ f[n] = Put(f[n - 1], g[n])

(* Puts, one after the other, leave each principal as the last about it says. *)
LEMMA PutsLeave ==
  ASSUME NEW N \in Nat, NEW g, NEW f, Puts(N, g, f), NEW p \in Princ
  PROVE  \A n \in 0 .. N : Leaves(g, 0, n, f[0][p], p, f[n][p])
  <1> DEFINE L(n) == Leaves(g, 0, n, f[0][p], p, f[n][p])
             B == {n \in 0 .. N : ~ L(n)}
  <1> SUFFICES ASSUME B # {} PROVE FALSE
    OBVIOUS
  <1>1. B \in SUBSET Nat
    BY SMT
  <1> HIDE DEF B
  <1>2. PICK m \in B : \A k \in B : m <= k
    BY <1>1, LeastExists
  <1>3. m \in 0 .. N /\ ~ L(m)
    BY <1>2 DEF B
  <1>4. m # 0
    <2>1. 0 \in Nat
      BY SMT
    <2>2. L(0)
      BY <2>1, LeavesNone
    <2> QED
      BY <1>3, <2>2
  <1>5. /\ m \in 1 .. N /\ m - 1 \in 0 .. N /\ ~ (m <= m - 1)
        /\ m - 1 \in Nat /\ 0 \in Nat /\ 0 <= m - 1 /\ m = (m - 1) + 1
    BY <1>3, <1>4, SMT
  <1>6. L(m - 1)
    BY <1>2, <1>5 DEF B
  <1>7. f[m - 1] \in Database /\ g[m] \in Update /\ f[m] = Put(f[m - 1], g[m])
    BY <1>5 DEF Puts
  <1> DEFINE d == f[m - 1]
             x == g[m]
  <1>a. /\ p = x.princ => f[m][p] = x.val
        /\ p # x.princ => f[m][p] = d[p]
    <2>1. d \in Database /\ x \in Update /\ f[m] = Put(d, x)
      BY <1>7
    <2> HIDE DEF d, x
    <2>2. /\ p = x.princ => Put(d, x)[p] = x.val
          /\ p # x.princ => Put(d, x)[p] = d[p]
      BY <2>1, PutType
    <2> QED
      BY <2>1, <2>2
  <1>8. CASE g[m].princ = p
    <2>1. f[m][p] = g[m].val
      BY <1>a, <1>8
    <2>2. Leaves(g, 0, m, f[0][p], p, g[m].val)
      BY <1>5, <1>8, LeavesMore
    <2> QED
      BY <1>3, <2>1, <2>2
  <1>9. CASE g[m].princ # p
    <2>1. f[m][p] = f[m - 1][p]
      BY <1>a, <1>9
    <2>2. Leaves(g, 0, m, f[0][p], p, f[m - 1][p])
      BY <1>5, <1>6, <1>9, LeavesMore
    <2> QED
      BY <1>3, <2>1, <2>2
  <1> QED
    BY <1>8, <1>9

-----------------------------------------------------------------------------
(* What a sequence of entries does to the database. *)
Sent(updates) == [i \in DOMAIN updates |-> updates[i].upd]

(* The entries that ulog_get_entries() sends all hold an update. *)
AllUpdates(updates) ==
    /\ Len(updates) \in Nat /\ DOMAIN updates = 1 .. Len(updates)
    /\ \A i \in 1 .. Len(updates) : updates[i] \in Entry /\ updates[i].upd \in Update

(* What the recursive definition of Updated() computes. *)
LEMMA UpdatedIs ==
  ASSUME NEW db \in Database, NEW updates, AllUpdates(updates)
  PROVE  /\ Updated(db, updates) \in Database
         /\ \A p \in Princ : Leaves(Sent(updates), 0, Len(updates), db[p], p,
                                    Updated(db, updates)[p])
  <1> DEFINE N == Len(updates)
             g == Sent(updates)
             Rec(f) == [n \in 0 .. N |->
                          IF n = 0 THEN db ELSE Put(f[n - 1], updates[n].upd)]
             h == CHOOSE f : f = Rec(f)
             step == [n \in 1 .. N |-> [d \in Database |-> Put(d, g[n])]]
  <1>1. /\ N \in Nat /\ DOMAIN updates = 1 .. N
        /\ \A n \in 1 .. N : updates[n].upd \in Update
    BY DEF AllUpdates
  <1>2. \A n \in 1 .. N : g[n] = updates[n].upd /\ g[n] \in Update
    BY <1>1 DEF Sent
  <1>3. Updated(db, updates) = h[N]
    BY DEF Updated
  <1> HIDE DEF N, g
  <1>4. step \in [1 .. N -> [Database -> Database]]
    <2>1. \A n \in 1 .. N : \A d \in Database : Put(d, g[n]) \in Database
      BY <1>2, PutType
    <2>2. \A n \in 1 .. N : [d \in Database |-> Put(d, g[n])] \in [Database -> Database]
      BY <2>1
    <2> QED
      BY <2>2
  <1>5. /\ 0 \in 0 .. N /\ N \in 0 .. N
        /\ \A n \in 1 .. N : n \in 0 .. N /\ n # 0 /\ n - 1 \in 0 .. N
        /\ \A n \in 0 .. N : n = 0 \/ n \in 1 .. N
    BY <1>1, SMT
  <1>a. PICK f : Iterated(N, Database, db, step, f)
    <2> HIDE DEF step
    <2> QED
      BY <1>1, <1>4, Iterates
  <1>6. /\ f \in [0 .. N -> Database] /\ f[0] = db
        /\ \A n \in 1 .. N : f[n] = step[n][f[n - 1]]
    <2> HIDE DEF step
    <2> QED
      BY <1>a DEF Iterated
  <1>7. ASSUME NEW n \in 1 .. N
        PROVE  f[n - 1] \in Database /\ f[n] = Put(f[n - 1], g[n])
    <2> DEFINE d == f[n - 1]
    <2>1. d \in Database /\ f[n] = step[n][d]
      BY <1>5, <1>6
    <2>2. \A x \in Database : step[n][x] = Put(x, g[n])
      OBVIOUS
    <2> HIDE DEF d, step
    <2> QED
      BY <2>1, <2>2 DEF d
  <1>8. f = Rec(f)
    <2>1. \A n \in 0 .. N : f[n] = IF n = 0 THEN db ELSE Put(f[n - 1], updates[n].upd)
      BY <1>2, <1>5, <1>6, <1>7
    <2> QED
      BY <1>6, <2>1
  <1>9. h = Rec(h)
    <2> HIDE DEF Rec
    <2> QED
      BY <1>8
  <1> HIDE DEF h
  <1>10. h[0] = f[0] /\ \A n \in 1 .. N : h[n] = Put(h[n - 1], g[n])
    <2>1. \A n \in 0 .. N : h[n] = IF n = 0 THEN db ELSE Put(h[n - 1], updates[n].upd)
      BY <1>9
    <2>2. ASSUME NEW n \in 1 .. N
          PROVE  h[n] = Put(h[n - 1], g[n])
      <3>1. n # 0 /\ n \in 0 .. N /\ g[n] = updates[n].upd
        BY <1>2, <1>5
      <3> QED
        BY <2>1, <3>1
    <2> QED
      BY <2>1, <2>2, <1>5, <1>6
  <1>11. ASSUME NEW n \in 1 .. N, h[n - 1] = f[n - 1]
         PROVE  h[n] = f[n]
    <2>1. h[n] = Put(h[n - 1], g[n]) /\ f[n] = Put(f[n - 1], g[n])
      BY <1>7, <1>10
    <2> QED
      BY <2>1, <1>11
  <1>12. h[N] = f[N]
    <2>1. h[0] = f[0] /\ N \in Nat
      BY <1>1, <1>10
    <2>2. \A n \in 0 .. N : h[n] = f[n]
      BY ONLY <2>1, <1>11, SameIterates, Zenon
    <2> QED
      BY <1>5, <2>2
  <1>13. \A p \in Princ : Leaves(g, 0, N, f[0][p], p, f[N][p])
    <2>1. Puts(N, g, f)
      BY <1>2, <1>6, <1>7 DEF Puts
    <2> QED
      BY ONLY <2>1, <1>1, <1>5, PutsLeave, Zenon
  <1>14. f[N] \in Database /\ f[0] = db /\ Updated(db, updates) = f[N]
    BY <1>3, <1>5, <1>6, <1>12
  <1> QED
    BY ONLY <1>13, <1>14, Zenon DEF N, g

-----------------------------------------------------------------------------
(* set_dummy() and reset_ulog(): the log w holds one entry, a dummy, and its  *)
(* slots are those of ent otherwise.                                          *)
Started(w, ent, sno, time, state) ==
    /\ w \in Contents /\ w.state = state /\ w.num = 1
    /\ w.first_sno = sno /\ w.last_sno = sno /\ w.last_time = time
    /\ w.ent = [ent EXCEPT ![Slot(sno)] = Dummy(sno, time)]

(* A dummy is an entry. *)
LEMMA DummyType == \A s \in Sno, t \in Nat : Dummy(s, t) \in Entry
  BY UlogAssumption DEF Dummy, Entry

(* set_dummy(). *)
LEMMA SetDummyStarts ==
  ASSUME NEW u \in Contents, NEW sno \in Sno, NEW t \in Nat
  PROVE  Started(SetDummy(u, sno, t), u.ent, sno, t, u.state)
  <1> DEFINE w == SetDummy(u, sno, t)
  <1>1. 1 \in Nat
    BY SMT
  <1>2. /\ w \in Contents /\ w.state = u.state /\ w.num = 1
        /\ w.first_sno = sno /\ w.last_sno = sno /\ w.last_time = t
        /\ w.ent = [u.ent EXCEPT ![Slot(sno)] = Dummy(sno, t)]
    BY <1>1, SlotRange, DummyType DEF SetDummy, Contents
  <1> HIDE DEF w
  <1>3. Started(w, u.ent, sno, t, u.state)
    BY <1>2 DEF Started
  <1> QED
    BY <1>3 DEF w

(* A header that reset_ulog() has zeroed. *)
LEMMA ZeroHeaderFacts ==
  ASSUME NEW b \in Nat, NEW st \in {"ZERO", "STABLE", "UNSTABLE"},
         NEW ent \in [Slots -> Entry]
  PROVE  /\ ZeroHeader(b, st, ent) \in Contents
         /\ ZeroHeader(b, st, ent).num = 0
         /\ ZeroHeader(b, st, ent).last_time = 0
         /\ ZeroHeader(b, st, ent).ent = ent
         /\ ZeroHeader(b, st, ent).state = st
  <1>1. EmptyFile.last_time = 0
    BY DEF EmptyFile
  <1> QED
    BY <1>1, EmptyFileFacts DEF ZeroHeader, Contents

(* reset_ulog(). *)
LEMMA FreshStarts ==
  ASSUME NEW u \in Contents, NEW t \in Nat
  PROVE  Started(Fresh(u, t), u.ent, 1, t, "STABLE")
  <1> DEFINE v == ZeroHeader(ULOG_BLOCK, "STABLE", u.ent)
  <1>1. u.ent \in [Slots -> Entry] /\ ULOG_BLOCK \in Nat
    BY UlogAssumption DEF Contents
  <1>2. v \in Contents /\ v.ent = u.ent /\ v.state = "STABLE"
    BY <1>1, ZeroHeaderFacts, SMT
  <1>3. 1 \in Sno
    BY UlogAssumption, SMT DEF Sno
  <1>4. Fresh(u, t) = SetDummy(v, 1, t)
    BY DEF Fresh
  <1> HIDE DEF v
  <1>5. Started(SetDummy(v, 1, t), v.ent, 1, t, v.state)
    BY <1>2, <1>3, SetDummyStarts
  <1> QED
    BY <1>2, <1>4, <1>5

(* store_update() while the slot of e holds x. *)
Written(u, e, x, w) ==
    /\ w \in Contents /\ w.state = "UNSTABLE"
    /\ w.ent = [u.ent EXCEPT ![Slot(e.sno)] = x]
    /\ w.num = u.num /\ w.first_sno = u.first_sno
    /\ w.last_sno = u.last_sno /\ w.last_time = u.last_time

(* It changes the slot and kdb_state. *)
LEMMA WritingIs ==
  ASSUME NEW u \in Contents, NEW e \in Entry, NEW x \in Entry
  PROVE  Written(u, e, x, Writing(u, e, x))
  <1> DEFINE w == Writing(u, e, x)
  <1>1. e.sno \in Sno
    BY DEF Entry
  <1>2. /\ w \in Contents /\ w.state = "UNSTABLE"
        /\ w.ent = [u.ent EXCEPT ![Slot(e.sno)] = x]
        /\ w.num = u.num /\ w.first_sno = u.first_sno
        /\ w.last_sno = u.last_sno /\ w.last_time = u.last_time
    BY <1>1, SlotRange DEF Writing, Contents
  <1> HIDE DEF w
  <1>3. Written(u, e, x, w)
    BY <1>2 DEF Written
  <1> QED
    BY <1>3 DEF w

(* The header of w counts entry e, which is in its slot in u. *)
Counted(u, e, w) ==
    /\ w \in Contents /\ w.ent = u.ent
    /\ w.last_sno = e.sno /\ w.last_time = e.time /\ w.num # 0
    /\ u.num = 0 => w.num = 1 /\ w.first_sno = e.sno
    /\ u.num # 0 /\ u.num < ulogentries =>
         w.num = u.num + 1 /\ w.first_sno = u.first_sno
    /\ u.num # 0 /\ ~(u.num < ulogentries) =>
         w.num = u.num /\ w.first_sno = w.ent[e.sno % ulogentries].sno

(* CountUpdate(). *)
LEMMA CountUpdateIs ==
  ASSUME NEW u \in Contents, NEW e \in Entry
  PROVE  Counted(u, e, CountUpdate(u, e)) /\ CountUpdate(u, e).state = u.state
  <1> DEFINE next == u.ent[e.sno % ulogentries]
             w    == CountUpdate(u, e)
             m    == u.num + 1
  <1>1. e.sno \in Sno /\ e.time \in Nat
    BY DEF Entry
  <1>2. e.sno % ulogentries \in Slots
    <2>1. e.sno \in Nat /\ ulogentries \in Nat \ {0}
      BY <1>1, UlogAssumption, SMT DEF Sno
    <2>2. e.sno % ulogentries \in 0 .. ulogentries - 1
      BY <2>1, ModRange
    <2> QED
      BY <2>2, SMT DEF Slots
  <1>3. next.sno \in Sno /\ next.time \in Nat
    BY <1>2 DEF Contents, Entry
  <1>4. m \in Nat /\ m # 0 /\ (u.num = 0 => m = 1)
    BY SMT DEF Contents
  <1>5. CASE u.num = 0
    <2> HIDE DEF next, m
    <2>1. w = [u EXCEPT !.last_sno = e.sno, !.last_time = e.time, !.num = m,
                        !.first_sno = e.sno, !.first_time = e.time]
      BY <1>4, <1>5 DEF CountUpdate, Contents
    <2> HIDE DEF w
    <2>2. /\ w \in Contents /\ w.ent = u.ent /\ w.state = u.state /\ w.num = m
          /\ w.last_sno = e.sno /\ w.last_time = e.time /\ w.first_sno = e.sno
      BY <2>1, <1>1, <1>4 DEF Contents
    <2>3. Counted(u, e, w)
      BY <1>4, <1>5, <2>2 DEF Counted
    <2> QED
      BY <2>2, <2>3 DEF w
  <1>6. CASE u.num # 0 /\ u.num < ulogentries
    <2> HIDE DEF next, m
    <2>1. w = [u EXCEPT !.last_sno = e.sno, !.last_time = e.time, !.num = m]
      BY <1>6 DEF CountUpdate, Contents, m
    <2> HIDE DEF w
    <2>2. /\ w \in Contents /\ w.ent = u.ent /\ w.state = u.state /\ w.num = m
          /\ w.last_sno = e.sno /\ w.last_time = e.time /\ w.first_sno = u.first_sno
      BY <2>1, <1>1, <1>4 DEF Contents
    <2>3. Counted(u, e, w)
      BY <1>4, <1>6, <2>2 DEF Counted, m
    <2> QED
      BY <2>2, <2>3 DEF w
  <1>7. CASE u.num # 0 /\ ~(u.num < ulogentries)
    <2> HIDE DEF next, m
    <2>1. w = [u EXCEPT !.last_sno = e.sno, !.last_time = e.time,
                        !.first_sno = next.sno, !.first_time = next.time]
      BY <1>7 DEF CountUpdate, next, Contents
    <2> HIDE DEF w
    <2>2. /\ w \in Contents /\ w.ent = u.ent /\ w.state = u.state /\ w.num = u.num
          /\ w.last_sno = e.sno /\ w.last_time = e.time /\ w.first_sno = next.sno
      BY <2>1, <1>1, <1>3 DEF Contents
    <2>3. Counted(u, e, w)
      BY <1>7, <2>2 DEF Counted, next
    <2> QED
      BY <2>2, <2>3 DEF w
  <1> QED
    BY <1>5, <1>6, <1>7

(* A log w with entry e after those of u, stored with or without the last     *)
(* write to kdb_state.                                                        *)
Appended(u, e, w) ==
    /\ w \in Contents /\ w.ent = [u.ent EXCEPT ![Slot(e.sno)] = e]
    /\ w.last_sno = e.sno /\ w.last_time = e.time /\ w.num # 0
    /\ u.num = 0 => w.num = 1 /\ w.first_sno = e.sno
    /\ u.num # 0 /\ u.num < ulogentries =>
         w.num = u.num + 1 /\ w.first_sno = u.first_sno
    /\ u.num # 0 /\ ~(u.num < ulogentries) =>
         w.num = u.num /\ w.first_sno = w.ent[e.sno % ulogentries].sno

(* store_update(). *)
LEMMA StoreAppends ==
  ASSUME NEW u \in Contents, NEW e \in Entry
  PROVE  /\ Appended(u, e, CountUpdate(Writing(u, e, e), e))
         /\ CountUpdate(Writing(u, e, e), e).state = "UNSTABLE"
         /\ Appended(u, e, StoreUpdate(u, e)) /\ StoreUpdate(u, e).state = "STABLE"
  <1> DEFINE v == Writing(u, e, e)
             x == CountUpdate(v, e)
             w == StoreUpdate(u, e)
  <1>1. Written(u, e, e, v)
    BY WritingIs
  <1>2. w = [x EXCEPT !.state = "STABLE"]
    BY DEF StoreUpdate
  <1> HIDE DEF v, w
  <1>3. Counted(v, e, x) /\ x.state = "UNSTABLE"
    BY <1>1, CountUpdateIs DEF Written
  <1> HIDE DEF x
  <1>4. Appended(u, e, x)
    BY <1>1, <1>3 DEF Written, Counted, Appended
  <1>5. /\ w \in Contents /\ w.state = "STABLE" /\ w.ent = x.ent /\ w.num = x.num
        /\ w.first_sno = x.first_sno /\ w.last_sno = x.last_sno /\ w.last_time = x.last_time
    <2>1. x \in Contents
      BY <1>4 DEF Appended
    <2> QED
      BY <1>2, <2>1 DEF Contents
  <1>6. Appended(u, e, w)
    BY <1>4, <1>5 DEF Appended
  <1> QED
    BY <1>3, <1>4, <1>5, <1>6 DEF v, x, w

-----------------------------------------------------------------------------
(* The replica's log.                                                         *)

PosOf(e) == [sno |-> e.sno, time |-> e.time]

(* reset_ulog() on the replica leaves a position that no entry of the master  *)
(* is at.                                                                     *)
LEMMA ReplicaReset ==
  ASSUME NEW u \in Contents
  PROVE  /\ Fresh(u, ReplicaTime) \in Contents /\ Fresh(u, ReplicaTime).num # 0
         /\ LastPos(Fresh(u, ReplicaTime)).time = 0
  <1>1. ReplicaTime = 0 /\ 0 \in Nat /\ 1 # 0
    BY SMT DEF ReplicaTime
  <1>2. Started(Fresh(u, ReplicaTime), u.ent, 1, ReplicaTime, "STABLE")
    BY <1>1, FreshStarts
  <1> QED
    BY <1>1, <1>2 DEF Started, LastPos

(* ulog_map() leaves a log at the same position, or starts it over. *)
LEMMA MapReplica ==
  ASSUME NEW u \in Contents, u.num # 0
  PROVE  /\ MapReplicaLog(u) \in Contents /\ MapReplicaLog(u).num # 0
         /\ LastPos(MapReplicaLog(u)) = LastPos(u) \/ LastPos(MapReplicaLog(u)).time = 0
  <1>1. CASE Unusable(u)
    BY <1>1, ReplicaReset DEF MapReplicaLog
  <1>2. CASE ~Unusable(u)
    BY <1>2 DEF MapReplicaLog
  <1> QED
    BY <1>1, <1>2

(* What a process that dies in store_update() leaves for ulog_map(): the       *)
(* position before, that of the entry, or a log to start over; never a mixture *)
(* of two positions.                                                           *)
LEMMA MapInterrupted ==
  ASSUME NEW u \in Contents, u.num # 0, NEW e \in Entry,
         NEW w \in StoreInterrupted(u, e)
  PROVE  /\ MapReplicaLog(w) \in Contents /\ MapReplicaLog(w).num # 0
         /\ \/ LastPos(MapReplicaLog(w)) \in {LastPos(u), PosOf(e)}
            \/ LastPos(MapReplicaLog(w)).time = 0
  <1> DEFINE v == Writing(u, e, e)
             z == Writing(u, e, ZeroEntry)
             n == Writing(u, e, [e EXCEPT !.commit = FALSE])
  <1>1. e.sno \in Sno /\ e.time \in Nat /\ [e EXCEPT !.commit = FALSE] \in Entry
    BY DEF Entry
  <1>2. /\ Written(u, e, e, v) /\ Written(u, e, ZeroEntry, z)
        /\ Written(u, e, [e EXCEPT !.commit = FALSE], n)
    BY <1>1, WritingIs, ZeroEntryType
  <1> SUFFICES /\ w \in Contents /\ w.num # 0
               /\ ~Unusable(w) => LastPos(w) \in {LastPos(u), PosOf(e)}
    <2>1. CASE Unusable(w)
      BY <2>1, ReplicaReset DEF MapReplicaLog
    <2>2. CASE ~Unusable(w)
      BY <2>2 DEF MapReplicaLog
    <2> QED
      BY <2>1, <2>2
  <1>3. \/ w \in {u, z, v, n} \/ w = [u EXCEPT !.state = "UNSTABLE"]
        \/ w = [v EXCEPT !.last_sno = e.sno]
        \/ w = [v EXCEPT !.last_sno = e.sno, !.last_time = e.time]
        \/ w = CountUpdate(v, e)
    BY DEF StoreInterrupted
  <1> HIDE DEF v, z, n
  <1>4. CASE w \in {u, z, v, n}
    BY <1>2, <1>4 DEF Written, LastPos
  <1>5. CASE w = [u EXCEPT !.state = "UNSTABLE"]
    BY <1>5 DEF Contents, LastPos
  <1>6. CASE w = [v EXCEPT !.last_sno = e.sno]
    <2>0. v \in Contents /\ v.num # 0 /\ v.last_time = u.last_time
      BY <1>2 DEF Written
    <2>1. /\ w \in Contents /\ w.num # 0 /\ w.ent = v.ent
          /\ w.last_sno = e.sno /\ w.last_time = u.last_time
      BY <1>1, <1>6, <2>0 DEF Contents
    <2>2. w.ent[Slot(e.sno)] = e
      <3>1. u.ent \in [Slots -> Entry] /\ Slot(e.sno) \in Slots
        BY <1>1, SlotRange DEF Contents
      <3> QED
        BY <1>2, <2>1, <3>1 DEF Written
    <2>3. ASSUME ~Unusable(w)
          PROVE  LastPos(w) = PosOf(e)
      <3>1. CheckSno(w, w.last_sno, w.last_time)
        BY <2>1, <2>3 DEF Unusable
      <3>2. e.time = w.last_time
        BY <2>1, <2>2, <3>1 DEF CheckSno
      <3> QED
        BY <2>1, <3>2 DEF LastPos, PosOf
    <2> QED
      BY <2>1, <2>3
  <1>7. CASE w = [v EXCEPT !.last_sno = e.sno, !.last_time = e.time]
    <2>0. v \in Contents /\ v.num # 0
      BY <1>2 DEF Written
    <2>1. w \in Contents /\ w.num # 0 /\ w.last_sno = e.sno /\ w.last_time = e.time
      BY <1>1, <1>7, <2>0 DEF Contents
    <2> QED
      BY <2>1 DEF LastPos, PosOf
  <1>8. CASE w = CountUpdate(v, e)
    <2>1. Counted(v, e, w)
      BY <1>2, <1>8, CountUpdateIs DEF Written
    <2> QED
      BY <2>1 DEF Counted, LastPos, PosOf
  <1> QED
    BY <1>3, <1>4, <1>5, <1>6, <1>7, <1>8

-----------------------------------------------------------------------------
(* The loop of ulog_replay().                                                 *)

Replica == [db : Database, ulog : Contents]

(* The log that ulog_replay() stores an entry in, whether it started it over. *)
LEMMA BeforeStoreIs ==
  ASSUME NEW u \in Contents, u.num # 0, NEW e \in Entry
  PROVE  /\ BeforeStore(u, e) \in Contents /\ BeforeStore(u, e).num # 0
         /\ LastPos(BeforeStore(u, e)) = LastPos(u) \/ LastPos(BeforeStore(u, e)).time = 0
  <1>1. CASE u.num # 0 /\ e.sno # u.last_sno + 1
    BY <1>1, ReplicaReset DEF BeforeStore
  <1>2. CASE ~ (u.num # 0 /\ e.sno # u.last_sno + 1)
    BY <1>2 DEF BeforeStore
  <1> QED
    BY <1>1, <1>2

(* One turn of the loop. *)
LEMMA ReplayOneIs ==
  ASSUME NEW r \in Replica, r.ulog.num # 0, NEW e \in Entry, e.upd \in Update
  PROVE  /\ ReplayOne(r, e) \in Replica
         /\ ReplayOne(r, e).db = Put(r.db, e.upd)
         /\ ReplayOne(r, e).ulog = StoreUpdate(BeforeStore(r.ulog, e), e)
         /\ ReplayOne(r, e).ulog.num # 0
         /\ LastPos(ReplayOne(r, e).ulog) = PosOf(e)
  <1> DEFINE u == BeforeStore(r.ulog, e)
             w == StoreUpdate(u, e)
             d == Put(r.db, e.upd)
  <1>1. r.db \in Database /\ r.ulog \in Contents
    BY DEF Replica
  <1>2. u \in Contents
    BY <1>1, BeforeStoreIs
  <1>3. d \in Database
    BY <1>1, PutType
  <1>4. ReplayOne(r, e) = [db |-> d, ulog |-> w]
    BY DEF ReplayOne
  <1> HIDE DEF u, d
  <1>5. Appended(u, e, w)
    BY <1>2, StoreAppends
  <1> HIDE DEF w
  <1>6. w \in Contents /\ w.num # 0 /\ LastPos(w) = PosOf(e)
    BY <1>5 DEF Appended, LastPos, PosOf
  <1>7. ReplayOne(r, e).db = d /\ ReplayOne(r, e).ulog = w
    BY <1>4, SMT
  <1>8. ReplayOne(r, e) \in Replica
    BY <1>3, <1>4, <1>6, SMT DEF Replica
  <1> QED
    BY <1>6, <1>7, <1>8 DEF u, w, d

(* Where the replica is after n turns, with database r.db and log r.ulog. *)
Reached(updates, n, r) ==
    /\ r \in Replica /\ r.ulog.num # 0
    /\ LastPos(r.ulog) = IF n = 0 THEN LastPos(rulog) ELSE PosOf(updates[n])
    /\ \A p \in Princ : Leaves(Sent(updates), 0, n, rdb[p], p, r.db[p])

(* f goes through the states of the loop. *)
Loops(updates, f) ==
    /\ f[0] = [db |-> rdb, ulog |-> rulog]
    /\ \A n \in 1 .. Len(updates) : f[n] = ReplayOne(f[n - 1], updates[n])
    /\ \A n \in 0 .. Len(updates) : f[n] \in Replica /\ f[n].ulog.num # 0

(* There is such a function. *)
LEMMA LoopsExist ==
  ASSUME rdb \in Database, rulog \in Contents, rulog.num # 0,
         NEW updates, AllUpdates(updates)
  PROVE  \E f \in [0 .. Len(updates) -> Replica] : Loops(updates, f)
  <1> DEFINE N == Len(updates)
             S == {r \in Replica : r.ulog.num # 0}
             a == [db |-> rdb, ulog |-> rulog]
             step == [n \in 1 .. N |-> [r \in S |-> ReplayOne(r, updates[n])]]
  <1>1. N \in Nat /\ \A n \in 1 .. N : updates[n] \in Entry /\ updates[n].upd \in Update
    BY DEF AllUpdates
  <1>2. a \in S
    BY DEF Replica
  <1>a. \A r : r \in S <=> r \in Replica /\ r.ulog.num # 0
    OBVIOUS
  <1> HIDE DEF N, S, a
  <1>3. step \in [1 .. N -> [S -> S]]
    <2>1. \A n \in 1 .. N : \A r \in S : ReplayOne(r, updates[n]) \in S
      BY <1>1, <1>a, ReplayOneIs
    <2>2. \A n \in 1 .. N : [r \in S |-> ReplayOne(r, updates[n])] \in [S -> S]
      BY <2>1
    <2> QED
      BY <2>2
  <1>4. PICK f : Iterated(N, S, a, step, f)
    <2> HIDE DEF step
    <2> QED
      BY <1>1, <1>2, <1>3, Iterates
  <1>5. /\ f \in [0 .. N -> S] /\ f[0] = a
        /\ \A n \in 1 .. N : f[n] = step[n][f[n - 1]]
    <2> HIDE DEF step
    <2> QED
      BY <1>4 DEF Iterated
  <1>6. \A n \in 1 .. N : n - 1 \in 0 .. N
    BY <1>1, SMT
  <1>7. ASSUME NEW n \in 1 .. N
        PROVE  f[n] = ReplayOne(f[n - 1], updates[n])
    <2> DEFINE d == f[n - 1]
    <2>1. d \in S /\ f[n] = step[n][d]
      BY <1>5, <1>6
    <2>2. \A x \in S : step[n][x] = ReplayOne(x, updates[n])
      OBVIOUS
    <2> HIDE DEF d, step
    <2> QED
      BY <2>1, <2>2 DEF d
  <1>8. f \in [0 .. N -> Replica] /\ \A n \in 0 .. N : f[n] \in Replica /\ f[n].ulog.num # 0
    <2>1. \A n \in 0 .. N : f[n] \in S
      BY <1>5
    <2>2. \A n \in 0 .. N : f[n] \in Replica /\ f[n].ulog.num # 0
      BY <2>1, <1>a
    <2> QED
      BY <1>5, <2>2
  <1> HIDE DEF step
  <1> QED
    BY <1>5, <1>7, <1>8 DEF Loops, N, a

(* What the recursive definition of Replayed() computes. *)
LEMMA ReplayedLoops ==
  ASSUME rdb \in Database, rulog \in Contents, rulog.num # 0,
         NEW updates, AllUpdates(updates)
  PROVE  \E f : Loops(updates, f) /\ \A n \in 0 .. Len(updates) : Replayed(updates, n) = f[n]
  <1> DEFINE N == Len(updates)
             a == [db |-> rdb, ulog |-> rulog]
             Rec(f) == [k \in 0 .. N |->
                          IF k = 0 THEN a ELSE ReplayOne(f[k - 1], updates[k])]
             h == CHOOSE f : f = Rec(f)
  <1>1. N \in Nat
    BY DEF AllUpdates
  <1>2. PICK f \in [0 .. N -> Replica] : Loops(updates, f)
    BY LoopsExist
  <1>3. \A n \in 0 .. N : Replayed(updates, n) = h[n]
    BY DEF Replayed
  <1>4. /\ 0 \in 0 .. N
        /\ \A n \in 1 .. N : n \in 0 .. N /\ n # 0
        /\ \A n \in 0 .. N : n = 0 \/ n \in 1 .. N
    BY <1>1, SMT
  <1>5. f[0] = a /\ \A n \in 1 .. N : f[n] = ReplayOne(f[n - 1], updates[n])
    BY <1>2 DEF Loops
  <1> HIDE DEF N, a
  <1>6. f = Rec(f)
    <2>1. \A n \in 0 .. N : f[n] = IF n = 0 THEN a ELSE ReplayOne(f[n - 1], updates[n])
      BY <1>4, <1>5
    <2> QED
      BY <1>2, <2>1
  <1>7. h = Rec(h)
    <2> HIDE DEF Rec
    <2> QED
      BY <1>6
  <1> HIDE DEF h
  <1>8. h[0] = a /\ \A n \in 1 .. N : h[n] = ReplayOne(h[n - 1], updates[n])
    <2>1. \A n \in 0 .. N : h[n] = IF n = 0 THEN a ELSE ReplayOne(h[n - 1], updates[n])
      BY <1>7
    <2>2. ASSUME NEW n \in 1 .. N
          PROVE  h[n] = ReplayOne(h[n - 1], updates[n])
      <3>1. n # 0 /\ n \in 0 .. N
        BY <1>4
      <3> QED
        BY <2>1, <3>1
    <2> QED
      BY <1>4, <2>1, <2>2
  <1>9. ASSUME NEW n \in 1 .. N, h[n - 1] = f[n - 1]
        PROVE  h[n] = f[n]
    <2>1. h[n] = ReplayOne(h[n - 1], updates[n]) /\ f[n] = ReplayOne(f[n - 1], updates[n])
      BY <1>5, <1>8
    <2> QED
      BY <1>9, <2>1
  <1>10. \A n \in 0 .. N : h[n] = f[n]
    <2>1. h[0] = f[0] /\ N \in Nat
      BY <1>1, <1>5, <1>8
    <2> QED
      BY ONLY <2>1, <1>9, SameIterates, Zenon
  <1>11. \A n \in 0 .. N : Replayed(updates, n) = f[n]
    BY <1>3, <1>10
  <1> QED
    BY <1>2, <1>11 DEF N

(* Where the loop is after each turn. *)
LEMMA ReplayedIs ==
  ASSUME rdb \in Database, rulog \in Contents, rulog.num # 0,
         NEW updates, AllUpdates(updates)
  PROVE  /\ \A n \in 0 .. Len(updates) : Reached(updates, n, Replayed(updates, n))
         /\ \A n \in 1 .. Len(updates) :
              Replayed(updates, n) = ReplayOne(Replayed(updates, n - 1), updates[n])
  <1> DEFINE N == Len(updates)
             g == Sent(updates)
  <1>1. PICK f : Loops(updates, f) /\ \A n \in 0 .. N : Replayed(updates, n) = f[n]
    BY ReplayedLoops
  <1>2. /\ N \in Nat /\ DOMAIN updates = 1 .. N
        /\ \A n \in 1 .. N : updates[n] \in Entry /\ updates[n].upd \in Update
    BY DEF AllUpdates
  <1>3. \A n \in 1 .. N : g[n] = updates[n].upd
    BY <1>2 DEF Sent
  <1>4. /\ 0 \in 0 .. N
        /\ \A n \in 1 .. N : n \in 0 .. N /\ n # 0 /\ n - 1 \in 0 .. N
        /\ \A n \in 0 .. N : n = 0 \/ n \in 1 .. N
    BY <1>2, SMT
  <1>5. /\ f[0] = [db |-> rdb, ulog |-> rulog]
        /\ \A n \in 1 .. N : f[n] = ReplayOne(f[n - 1], updates[n])
        /\ \A n \in 0 .. N : f[n] \in Replica /\ f[n].ulog.num # 0
    BY <1>1 DEF Loops
  <1>a. f[0].db = rdb /\ f[0].ulog = rulog
    <2>1. f[0] = [db |-> rdb, ulog |-> rulog]
      BY <1>5
    <2> QED
      BY ONLY <2>1
  <1> HIDE DEF N, g
  <1>6. ASSUME NEW n \in 1 .. N
        PROVE  f[n].db = Put(f[n - 1].db, g[n]) /\ LastPos(f[n].ulog) = PosOf(updates[n])
    <2> DEFINE r == f[n - 1]
               e == updates[n]
    <2>1. r \in Replica /\ r.ulog.num # 0 /\ e \in Entry /\ e.upd \in Update
      BY <1>2, <1>4, <1>5
    <2>2. f[n] = ReplayOne(r, e) /\ g[n] = e.upd
      BY <1>3, <1>5
    <2> HIDE DEF r, e
    <2>3. ReplayOne(r, e).db = Put(r.db, e.upd) /\ LastPos(ReplayOne(r, e).ulog) = PosOf(e)
      BY <2>1, ReplayOneIs
    <2> QED
      BY <2>2, <2>3 DEF r, e
  <1> DEFINE d == [n \in 0 .. N |-> f[n].db]
  <1>7. \A n \in 0 .. N : d[n] = f[n].db /\ f[n].db \in Database
    BY <1>5 DEF Replica
  <1>8. Puts(N, g, d) /\ d[0] = rdb
    <2>1. d \in [0 .. N -> Database]
      BY <1>7
    <2> HIDE DEF d
    <2>2. ASSUME NEW n \in 1 .. N
          PROVE  g[n] \in Update /\ d[n] = Put(d[n - 1], g[n])
      <3>1. d[n] = f[n].db /\ d[n - 1] = f[n - 1].db
        BY <1>4, <1>7
      <3> QED
        BY <1>2, <1>3, <1>6, <3>1
    <2> QED
      BY <1>4, <1>a, <1>7, <2>1, <2>2 DEF Puts
  <1> HIDE DEF d
  <1>9. ASSUME NEW n \in 0 .. N
        PROVE  Reached(updates, n, f[n])
    <2>1. ASSUME NEW p \in Princ
          PROVE  Leaves(g, 0, n, d[0][p], p, d[n][p])
      <3>1. N \in Nat /\ Puts(N, g, d)
        BY <1>2, <1>8
      <3>2. \A i \in 0 .. N : Leaves(g, 0, i, d[0][p], p, d[i][p])
        BY ONLY p \in Princ, <3>1, PutsLeave, Zenon
      <3> QED
        BY <3>2
    <2>2. \A p \in Princ : Leaves(g, 0, n, rdb[p], p, f[n].db[p])
      BY <2>1, <1>7, <1>8
    <2>3. LastPos(f[n].ulog) = IF n = 0 THEN LastPos(rulog) ELSE PosOf(updates[n])
      BY <1>4, <1>a, <1>6
    <2>4. f[n] \in Replica /\ f[n].ulog.num # 0
      BY <1>5
    <2> QED
      BY ONLY <2>2, <2>3, <2>4, Zenon DEF Reached, g
  <1>10. ASSUME NEW n \in 1 .. N
         PROVE  Replayed(updates, n) = ReplayOne(Replayed(updates, n - 1), updates[n])
    <2>1. Replayed(updates, n) = f[n] /\ Replayed(updates, n - 1) = f[n - 1]
      BY <1>1, <1>4
    <2> QED
      BY <1>5, <2>1
  <1> QED
    BY <1>1, <1>9, <1>10 DEF N

-----------------------------------------------------------------------------
(* The master's log.                                                          *)

(* What the slots of the serial numbers say. *)
Story(u) == [s \in 1 .. MaxSno |-> u.ent[Slot(s)].upd]

(* Entries are not stamped later than t, and only a zeroed one has no time. *)
Stamped(ent, t) ==
    \A i \in Slots : ent[i].time <= t /\ (ent[i].sno # 0 => ent[i].time >= 1)

(* The slot of s holds entry s, and all but the first are updates. *)
Holds(u, s) ==
    u.ent[Slot(s)].sno = s /\ (s > u.first_sno => u.ent[Slot(s)].upd \in Update)

(* The last ulogentries serial numbers are in their slots, but for the oldest *)
(* while it is being overwritten; and none of those before.                   *)
Lag(u) == IF u.state = "UNSTABLE" THEN 1 ELSE 0
Window(u) ==
    \A s \in u.first_sno .. u.last_sno :
       /\ s > u.last_sno - ulogentries + Lag(u) => Holds(u, s)
       /\ s <= u.last_sno - ulogentries => u.ent[Slot(s)].sno # s

(* The log of a master whose clock shows t.  A process that died in           *)
(* store_update() may have left first_sno further back than the ring goes.    *)
Ring(u, t) ==
    /\ Stamped(u.ent, t) /\ u.last_time <= t
    /\ u.num # 0 =>
         /\ 1 <= u.first_sno /\ u.first_sno <= u.last_sno /\ u.num <= ulogentries
         /\ u.first_sno <= u.last_sno - u.num + 1
         /\ Window(u)
    /\ u.state = "STABLE" => u.num # 0 /\ CheckSno(u, u.last_sno, u.last_time)

(* The fields of a log are numbers. *)
LEMMA FieldTypes ==
  ASSUME NEW u \in Contents
  PROVE  /\ u.num \in Nat /\ u.first_sno \in Nat /\ u.last_sno \in Nat
         /\ u.first_sno \in Sno /\ u.last_sno \in Sno
         /\ u.last_time \in Nat /\ u.ent \in [Slots -> Entry]
         /\ u.state \in {"ZERO", "STABLE", "UNSTABLE"}
         /\ ulogentries \in Nat /\ ulogentries >= 1 /\ MaxSno \in Nat
  <1>1. /\ u.num \in Nat /\ u.first_sno \in Sno /\ u.last_sno \in Sno
        /\ u.last_time \in Nat /\ u.ent \in [Slots -> Entry]
        /\ u.state \in {"ZERO", "STABLE", "UNSTABLE"}
    BY DEF Contents
  <1>2. /\ ulogentries \in Nat /\ ulogentries >= 1 /\ MaxSno \in Nat
        /\ \A s \in Sno : s \in Nat
    BY UlogAssumption, SMT DEF Sno
  <1> QED
    BY <1>1, <1>2

(* A time that has been is one that has been later on. *)
LEMMA StampedLater ==
  ASSUME NEW ent \in [Slots -> Entry], NEW t \in Nat, NEW r \in Nat, t <= r,
         Stamped(ent, t)
  PROVE  Stamped(ent, r)
  <1>1. ASSUME NEW i \in Slots
        PROVE  ent[i].time <= r /\ (ent[i].sno # 0 => ent[i].time >= 1)
    <2>1. ent[i].time \in Nat /\ ent[i].time <= t /\ (ent[i].sno # 0 => ent[i].time >= 1)
      BY DEF Stamped, Entry
    <2> QED
      BY <2>1, SMT
  <1> QED
    BY <1>1 DEF Stamped

(* A slot is written with something that is stamped. *)
LEMMA StampedWrite ==
  ASSUME NEW ent \in [Slots -> Entry], NEW t \in Nat, Stamped(ent, t),
         NEW i \in Slots, NEW x \in Entry, x.time <= t, x.sno # 0 => x.time >= 1
  PROVE  Stamped([ent EXCEPT ![i] = x], t)
  <1> DEFINE w == [ent EXCEPT ![i] = x]
  <1>1. \A j \in Slots : w[j] = IF j = i THEN x ELSE ent[j]
    OBVIOUS
  <1> HIDE DEF w
  <1>2. Stamped(w, t)
    BY <1>1 DEF Stamped
  <1> QED
    BY <1>2 DEF w

(* A position that the master knows has a time. *)
LEMMA KnownHasTime ==
  ASSUME NEW u \in Contents, NEW t \in Nat, Ring(u, t), NEW pos \in Position,
         CanUpdate(u, pos)
  PROVE  pos.time >= 1
  <1>1. /\ u.num # 0 /\ u.first_sno <= pos.sno
        /\ u.ent[Slot(pos.sno)].sno = pos.sno /\ u.ent[Slot(pos.sno)].time = pos.time
    BY DEF CanUpdate, CheckSno
  <1>2. 1 <= u.first_sno /\ Stamped(u.ent, t)
    BY <1>1 DEF Ring
  <1>3. pos.sno \in Sno /\ u.first_sno \in Nat
    BY FieldTypes DEF Position
  <1>4. pos.sno # 0
    BY <1>1, <1>2, <1>3, SMT DEF Sno
  <1>5. Slot(pos.sno) \in Slots
    BY <1>3, SlotRange
  <1> QED
    BY <1>1, <1>2, <1>4, <1>5 DEF Stamped

(* The clock goes on. *)
LEMMA RingLater ==
  ASSUME NEW u \in Contents, NEW t \in Nat, NEW r \in Nat, t <= r, Ring(u, t)
  PROVE  Ring(u, r)
  <1>1. u.ent \in [Slots -> Entry] /\ u.last_time \in Nat
    BY FieldTypes
  <1>2. Stamped(u.ent, t) /\ u.last_time <= t
    BY DEF Ring
  <1>3. Stamped(u.ent, r)
    BY <1>1, <1>2, StampedLater
  <1>4. u.last_time <= r
    BY <1>1, <1>2, SMT
  <1> QED
    BY <1>3, <1>4 DEF Ring

(* A log that reset_ulog() or set_dummy() has started over is in order. *)
LEMMA StartedRing ==
  ASSUME NEW w, NEW ent \in [Slots -> Entry], NEW sno \in Sno, 1 <= sno,
         NEW t \in Nat, 1 <= t, Stamped(ent, t), NEW state, Started(w, ent, sno, t, state)
  PROVE  Ring(w, t)
  <1> DEFINE x == Dummy(sno, t)
  <1>1. /\ w \in Contents /\ w.num = 1 /\ w.first_sno = sno /\ w.last_sno = sno
        /\ w.last_time = t /\ w.ent = [ent EXCEPT ![Slot(sno)] = x]
    BY DEF Started
  <1>2. Slot(sno) \in Slots /\ x \in Entry
    BY SlotRange, DummyType
  <1>3. x.sno = sno /\ x.time = t
    BY DEF Dummy
  <1>4. sno \in Nat /\ ulogentries \in Nat /\ ulogentries >= 1 /\ t <= t /\ t >= 1
    BY UlogAssumption, SMT DEF Sno
  <1> HIDE DEF x
  <1>5. w.ent[Slot(sno)] = x
    BY <1>1, <1>2
  <1>6. Stamped(w.ent, t)
    <2>1. Stamped([ent EXCEPT ![Slot(sno)] = x], t)
      BY <1>2, <1>3, <1>4, StampedWrite
    <2> QED
      BY <1>1, <2>1
  <1>7. Window(w)
    <2>1. ASSUME NEW s \in w.first_sno .. w.last_sno
          PROVE  /\ Holds(w, s)
                 /\ ~ (s <= w.last_sno - ulogentries)
      <3>1. s = sno /\ ~ (s > w.first_sno) /\ ~ (s <= w.last_sno - ulogentries)
        BY <1>1, <1>4, SMT
      <3> QED
        BY <3>1, <1>3, <1>5 DEF Holds
    <2> QED
      BY <2>1 DEF Window
  <1>8. /\ w.num # 0 /\ 1 <= w.first_sno /\ w.first_sno <= w.last_sno
        /\ w.num <= ulogentries /\ w.first_sno <= w.last_sno - w.num + 1
        /\ w.last_time <= t
    BY <1>1, <1>4, SMT
  <1>9. CheckSno(w, w.last_sno, w.last_time)
    BY <1>1, <1>3, <1>5 DEF CheckSno
  <1> QED
    BY <1>6, <1>7, <1>8, <1>9 DEF Ring

(* The only position that it knows is that of its dummy. *)
LEMMA StartedKnows ==
  ASSUME NEW w, NEW ent \in [Slots -> Entry], NEW sno \in Sno, NEW t \in Nat,
         NEW state, Started(w, ent, sno, t, state),
         NEW pos \in Position, CanUpdate(w, pos)
  PROVE  pos.time = t
  <1>1. /\ w.first_sno = sno /\ w.last_sno = sno
        /\ w.ent = [ent EXCEPT ![Slot(sno)] = Dummy(sno, t)]
    BY DEF Started
  <1>2. /\ w.first_sno <= pos.sno /\ pos.sno <= w.last_sno
        /\ w.ent[Slot(pos.sno)].time = pos.time
    BY DEF CanUpdate, CheckSno
  <1>3. pos.sno \in Sno
    BY DEF Position
  <1>4. pos.sno = sno
    BY <1>1, <1>2, <1>3, SMT DEF Sno
  <1>5. w.ent[Slot(sno)] = Dummy(sno, t)
    BY <1>1, SlotRange
  <1>6. Dummy(sno, t).time = t
    BY DEF Dummy
  <1> QED
    BY <1>2, <1>4, <1>5, <1>6

(* store_update() is writing the slot after the last entry, where the oldest  *)
(* one is, and the header does not count it yet.                              *)
LEMMA WindowOver ==
  ASSUME NEW u \in Contents, NEW w \in Contents, NEW x \in Entry, NEW n \in Sno,
         1 <= u.first_sno, Window(u), n = u.last_sno + 1, x.sno = 0 \/ x.sno = n,
         w.ent = [u.ent EXCEPT ![Slot(n)] = x], w.state = "UNSTABLE",
         w.first_sno = u.first_sno, w.last_sno = u.last_sno
  PROVE  Window(w)
  <1>0. /\ u.first_sno \in Nat /\ u.last_sno \in Nat /\ u.last_sno \in Sno
        /\ u.ent \in [Slots -> Entry] /\ ulogentries \in Nat /\ ulogentries >= 1
        /\ MaxSno \in Nat
    BY FieldTypes
  <1>1. ASSUME NEW s \in u.first_sno .. u.last_sno
        PROVE  /\ s > w.last_sno - ulogentries + Lag(w) => Holds(w, s)
               /\ s <= u.last_sno - ulogentries => w.ent[Slot(s)].sno # s
    <2>1. s \in Sno /\ 1 <= s /\ s < n /\ s # 0 /\ s # n
      BY <1>0, SMT DEF Sno
    <2>2. ASSUME s > w.last_sno - ulogentries + Lag(w)
          PROVE  Holds(w, s)
      <3>0. Lag(w) = 1 /\ Lag(u) \in {0, 1}
        BY DEF Lag
      <3>1. n - s < ulogentries /\ s > u.last_sno - ulogentries + Lag(u)
        BY <1>0, <2>1, <2>2, <3>0, SMT
      <3>2. w.ent[Slot(s)] = u.ent[Slot(s)]
        <4>1. /\ u.ent \in [Slots -> Entry] /\ n \in Sno /\ s \in Sno /\ 1 <= s
              /\ s < n /\ n - s < ulogentries /\ w.ent = [u.ent EXCEPT ![Slot(n)] = x]
          BY <1>0, <2>1, <3>1
        <4>2. Slot(s) # Slot(n) /\ Slot(s) \in Slots /\ Slot(n) \in Slots
          BY <4>1, SlotDistinct, SlotRange
        <4> QED
          BY ONLY <4>1, <4>2, Zenon
      <3>3. Holds(u, s)
        BY <3>1 DEF Window
      <3> QED
        BY <3>2, <3>3 DEF Holds
    <2>3. ASSUME s <= u.last_sno - ulogentries
          PROVE  w.ent[Slot(s)].sno # s
      <3>1. Slot(s) \in Slots /\ Slot(n) \in Slots
        BY <2>1, SlotRange
      <3>2. u.ent[Slot(s)].sno # s
        BY <2>3 DEF Window
      <3>3. w.ent[Slot(s)] = IF Slot(s) = Slot(n) THEN x ELSE u.ent[Slot(s)]
        BY <1>0, <3>1
      <3> QED
        BY <2>1, <3>2, <3>3
    <2> QED
      BY <2>2, <2>3
  <1> QED
    BY <1>1 DEF Window

(* The entry after the last is in its slot, and the header counts it. *)
LEMMA WindowNext ==
  ASSUME NEW u \in Contents, NEW w \in Contents, NEW e \in Entry, NEW n \in Sno,
         1 <= u.first_sno, Window(u), n = u.last_sno + 1, e.sno = n, e.upd \in Update,
         w.ent = [u.ent EXCEPT ![Slot(n)] = e], w.last_sno = n,
         u.first_sno <= w.first_sno
  PROVE  Window(w)
  <1>0. /\ u.first_sno \in Nat /\ u.last_sno \in Nat /\ u.last_sno \in Sno
        /\ w.first_sno \in Nat
        /\ u.ent \in [Slots -> Entry] /\ ulogentries \in Nat /\ ulogentries >= 1
        /\ MaxSno \in Nat
    BY FieldTypes
  <1>a. Slot(n) \in Slots /\ w.ent[Slot(n)] = e
    BY <1>0, SlotRange
  <1>b. Lag(w) \in {0, 1} /\ Lag(u) \in {0, 1}
    BY DEF Lag
  <1>1. ASSUME NEW s \in w.first_sno .. w.last_sno
        PROVE  /\ s > w.last_sno - ulogentries + Lag(w) => Holds(w, s)
               /\ s <= w.last_sno - ulogentries => w.ent[Slot(s)].sno # s
    <2>1. CASE s = n
      <3>1. ~ (s <= w.last_sno - ulogentries)
        BY <1>0, <2>1, SMT
      <3> QED
        BY <1>a, <2>1, <3>1 DEF Holds
    <2>2. CASE s # n
      <3>0. /\ s \in Sno /\ 1 <= s /\ s < n /\ s \in u.first_sno .. u.last_sno
            /\ (s > w.first_sno => s > u.first_sno)
        BY <1>0, <2>2, SMT DEF Sno
      <3>1. ASSUME s > w.last_sno - ulogentries + Lag(w)
            PROVE  Holds(w, s)
        <4>1. n - s < ulogentries /\ s > u.last_sno - ulogentries + Lag(u)
          BY <1>0, <1>b, <3>0, <3>1, SMT
        <4>2. w.ent[Slot(s)] = u.ent[Slot(s)]
          <5>1. /\ u.ent \in [Slots -> Entry] /\ n \in Sno /\ s \in Sno /\ 1 <= s
                /\ s < n /\ n - s < ulogentries /\ w.ent = [u.ent EXCEPT ![Slot(n)] = e]
            BY <1>0, <3>0, <4>1
          <5>2. Slot(s) # Slot(n) /\ Slot(s) \in Slots /\ Slot(n) \in Slots
            BY <5>1, SlotDistinct, SlotRange
          <5> QED
            BY ONLY <5>1, <5>2, Zenon
        <4>3. Holds(u, s)
          BY <3>0, <4>1 DEF Window
        <4> QED
          BY <3>0, <4>2, <4>3 DEF Holds
      <3>2. ASSUME s <= w.last_sno - ulogentries
            PROVE  w.ent[Slot(s)].sno # s
        <4>1. Slot(s) \in Slots
          BY <3>0, SlotRange
        <4>2. CASE Slot(s) = Slot(n)
          BY <1>a, <2>2, <4>2
        <4>3. CASE Slot(s) # Slot(n)
          <5>1. n # s + ulogentries
            BY <3>0, <4>3, SlotSame
          <5>2. s <= u.last_sno - ulogentries
            BY <1>0, <3>0, <3>2, <5>1, SMT
          <5>3. w.ent[Slot(s)] = u.ent[Slot(s)]
            BY <1>0, <1>a, <4>1, <4>3
          <5> QED
            BY <3>0, <5>2, <5>3 DEF Window
        <4> QED
          BY <4>2, <4>3
      <3> QED
        BY <3>1, <3>2
    <2> QED
      BY <2>1, <2>2
  <1> QED
    BY <1>1 DEF Window

(* When the ring is full, the entry after the new one is the oldest left. *)
LEMMA FirstMoves ==
  ASSUME NEW u \in Contents, NEW t \in Nat, Ring(u, t), u.num # 0,
         NEW e \in Entry, e.sno = u.last_sno + 1, NEW w, Appended(u, e, w)
  PROVE  /\ u.first_sno <= w.first_sno /\ w.first_sno <= e.sno
         /\ w.num <= ulogentries /\ w.first_sno <= e.sno - w.num + 1
  <1> DEFINE n == e.sno
             s == n + 1 - ulogentries
  <1>0. /\ u.first_sno \in Nat /\ u.last_sno \in Nat /\ u.num \in Nat
        /\ u.ent \in [Slots -> Entry] /\ ulogentries \in Nat /\ ulogentries >= 1
        /\ MaxSno \in Nat
    BY FieldTypes
  <1>1. /\ 1 <= u.first_sno /\ u.first_sno <= u.last_sno /\ u.num <= ulogentries
        /\ u.first_sno <= u.last_sno - u.num + 1 /\ Window(u)
    BY DEF Ring
  <1>2. n \in Sno
    BY DEF Entry
  <1>3. CASE u.num < ulogentries
    <2>1. w.num = u.num + 1 /\ w.first_sno = u.first_sno
      BY <1>3 DEF Appended
    <2> QED
      BY <1>0, <1>1, <1>3, <2>1, SMT
  <1>4. CASE ~(u.num < ulogentries)
    <2>1. /\ w.num = u.num /\ w.first_sno = w.ent[n % ulogentries].sno
          /\ w.ent = [u.ent EXCEPT ![Slot(n)] = e]
      BY <1>4 DEF Appended
    <2>2. /\ s \in Sno /\ 1 <= s /\ s <= n /\ u.first_sno <= s /\ s \in Nat
          /\ s - 1 \in Nat /\ n = (s - 1) + ulogentries
          /\ ulogentries \in Nat \ {0}
      BY <1>0, <1>1, <1>2, <1>4, SMT DEF Sno
    <2>3. n % ulogentries = Slot(s)
      <3> DEFINE a == s - 1
      <3>1. a \in Nat /\ n = a + ulogentries /\ s # 0
        BY <2>2, SMT
      <3>2. Slot(s) = a % ulogentries
        BY <3>1 DEF Slot
      <3> HIDE DEF a
      <3>3. (a + ulogentries) % ulogentries = a % ulogentries
        BY <2>2, <3>1, ModSame
      <3> QED
        BY ONLY <3>1, <3>2, <3>3
    <2> HIDE DEF s
    <2>4. w.ent[Slot(s)].sno = s
      <3>1. CASE s = n
        BY <1>0, <1>2, <2>1, <3>1, SlotRange
      <3>2. CASE s # n
        <4>1. s < n /\ n - s < ulogentries /\ s \in u.first_sno .. u.last_sno
          BY <1>0, <2>2, <3>2, SMT
        <4>2. Lag(u) \in {0, 1}
          BY DEF Lag
        <4>3. s > u.last_sno - ulogentries + Lag(u)
          BY <1>0, <2>2, <4>2, SMT DEF s
        <4>4. u.ent[Slot(s)].sno = s
          BY <1>1, <4>1, <4>3 DEF Window, Holds
        <4>5. w.ent[Slot(s)] = u.ent[Slot(s)]
          <5>1. /\ u.ent \in [Slots -> Entry] /\ n \in Sno /\ s \in Sno /\ 1 <= s
                /\ s < n /\ n - s < ulogentries /\ w.ent = [u.ent EXCEPT ![Slot(n)] = e]
            BY <1>0, <1>2, <2>1, <2>2, <4>1
          <5>2. Slot(s) # Slot(n) /\ Slot(s) \in Slots /\ Slot(n) \in Slots
            BY <5>1, SlotDistinct, SlotRange
          <5> QED
            BY ONLY <5>1, <5>2, Zenon
        <4> QED
          BY <4>4, <4>5
      <3> QED
        BY <3>1, <3>2
    <2>5. w.first_sno = s
      BY <2>1, <2>3, <2>4
    <2> QED
      BY <1>0, <1>1, <1>4, <2>1, <2>2, <2>5, SMT
  <1> QED
    BY <1>3, <1>4

(* store_update() keeps the log in order. *)
LEMMA AppendedRing ==
  ASSUME NEW u \in Contents, NEW t \in Nat, Ring(u, t), NEW e \in Entry,
         e.sno = u.last_sno + 1, e.time <= t, 1 <= e.time, e.upd \in Update,
         NEW w, Appended(u, e, w)
  PROVE  Ring(w, t)
  <1> DEFINE n == e.sno
  <1>0. /\ w \in Contents /\ w.ent = [u.ent EXCEPT ![Slot(n)] = e]
        /\ w.last_sno = n /\ w.last_time = e.time /\ w.num # 0
    BY DEF Appended
  <1>1. /\ u.ent \in [Slots -> Entry] /\ u.last_sno \in Nat /\ ulogentries \in Nat
        /\ ulogentries >= 1
    BY FieldTypes
  <1>2. n \in Sno /\ n \in Nat /\ 1 <= n /\ e.time >= 1
    <2>1. n \in Sno /\ e.time \in Nat
      BY DEF Entry
    <2> QED
      BY <1>1, <2>1, SMT DEF Sno
  <1>3. Slot(n) \in Slots /\ w.ent[Slot(n)] = e
    BY <1>0, <1>1, <1>2, SlotRange
  <1>4. Stamped(w.ent, t)
    <2>1. Stamped(u.ent, t)
      BY DEF Ring
    <2>2. Stamped([u.ent EXCEPT ![Slot(n)] = e], t)
      BY <1>1, <1>2, <1>3, <2>1, StampedWrite
    <2> QED
      BY <1>0, <2>2
  <1>5. CheckSno(w, w.last_sno, w.last_time)
    BY <1>0, <1>3 DEF CheckSno
  <1>6. /\ 1 <= w.first_sno /\ w.first_sno <= w.last_sno /\ w.num <= ulogentries
        /\ w.first_sno <= w.last_sno - w.num + 1 /\ Window(w)
    <2>1. CASE u.num = 0
      <3>1. w.num = 1 /\ w.first_sno = n
        BY <2>1 DEF Appended
      <3>2. ASSUME NEW s \in w.first_sno .. w.last_sno
            PROVE  Holds(w, s) /\ ~ (s <= w.last_sno - ulogentries)
        <4>1. s = n /\ ~ (s > w.first_sno) /\ ~ (s <= w.last_sno - ulogentries)
          BY <1>0, <1>1, <1>2, <3>1, SMT
        <4> QED
          BY <1>3, <4>1 DEF Holds
      <3>3. Window(w)
        BY <3>2 DEF Window
      <3> QED
        BY ONLY <1>0, <1>1, <1>2, <3>1, <3>3
    <2>2. CASE u.num # 0
      <3>1. /\ u.first_sno <= w.first_sno /\ w.first_sno <= n
            /\ w.num <= ulogentries /\ w.first_sno <= n - w.num + 1
        BY <2>2, FirstMoves
      <3>2. 1 <= u.first_sno /\ Window(u)
        BY <2>2 DEF Ring
      <3>3. 1 <= w.first_sno
        <4>1. u.first_sno \in Nat /\ w.first_sno \in Nat
          BY <1>0, FieldTypes
        <4> QED
          BY ONLY <4>1, <3>1, <3>2
      <3>4. Window(w)
        BY <1>0, <1>2, <3>1, <3>2, WindowNext
      <3> QED
        BY <1>0, <3>1, <3>3, <3>4
    <2> QED
      BY <2>1, <2>2
  <1> QED
    BY <1>0, <1>4, <1>5, <1>6 DEF Ring

(* An older position that the log still knows it knew before; and it is less  *)
(* than ulogentries back.                                                     *)
LEMMA AppendedKnows ==
  ASSUME NEW u \in Contents, NEW t \in Nat, Ring(u, t), NEW e \in Entry,
         e.sno = u.last_sno + 1, e.time <= t, 1 <= e.time, e.upd \in Update,
         NEW w, Appended(u, e, w),
         NEW pos \in Position, pos.time < e.time, CanUpdate(w, pos)
  PROVE  /\ CanUpdate(u, pos) /\ 1 <= pos.sno
         /\ pos.sno < e.sno /\ e.sno - pos.sno < ulogentries
  <1> DEFINE n == e.sno
             s == pos.sno
  <1>0. /\ w \in Contents /\ w.ent = [u.ent EXCEPT ![Slot(n)] = e]
        /\ w.last_sno = n /\ w.num # 0
    BY DEF Appended
  <1>1. /\ u.ent \in [Slots -> Entry] /\ u.last_sno \in Nat /\ ulogentries \in Nat
        /\ u.first_sno \in Nat /\ ulogentries >= 1
    BY FieldTypes
  <1>2. n \in Sno /\ s \in Sno /\ n \in Nat /\ s \in Nat
    <2>1. n \in Sno /\ s \in Sno
      BY DEF Entry, Position
    <2> QED
      BY <2>1, UlogAssumption, SMT DEF Sno
  <1>3. Slot(n) \in Slots /\ Slot(s) \in Slots
    BY <1>2, SlotRange
  <1>4. /\ w.first_sno <= s /\ s <= n
        /\ w.ent[Slot(s)].sno = s /\ w.ent[Slot(s)].time = pos.time
    BY <1>0 DEF CanUpdate, CheckSno
  <1>5. pos.time # e.time
    <2>1. pos.time \in Nat /\ e.time \in Nat
      BY DEF Position, Entry
    <2> QED
      BY <2>1, SMT
  <1>6. Slot(s) # Slot(n) /\ s # n
    BY <1>0, <1>1, <1>3, <1>4, <1>5
  <1>7. w.ent[Slot(s)] = u.ent[Slot(s)]
    BY <1>0, <1>1, <1>3, <1>6
  <1>8. CheckSno(u, s, pos.time)
    BY <1>4, <1>7 DEF CheckSno
  <1>9. s < n /\ s <= u.last_sno
    BY <1>1, <1>2, <1>4, <1>6, SMT
  <1>10. u.num # 0 /\ u.first_sno <= s
    <2>1. u.num # 0
      <3>1. u.num = 0 => w.first_sno = n
        BY DEF Appended
      <3>2. w.first_sno # n
        BY ONLY <1>2, <1>4, <1>9
      <3> QED
        BY <3>1, <3>2
    <2>2. u.first_sno <= w.first_sno /\ w.first_sno \in Nat
      BY <1>0, <2>1, FirstMoves, FieldTypes
    <2> QED
      BY <1>1, <1>2, <1>4, <2>1, <2>2, SMT
  <1>11. CanUpdate(u, pos)
    BY <1>8, <1>9, <1>10 DEF CanUpdate
  <1>12. Ring(w, t)
    BY AppendedRing
  <1>13. 1 <= w.first_sno /\ Window(w) /\ w.first_sno \in Nat
    BY <1>0, <1>12, FieldTypes DEF Ring
  <1>14. s \in w.first_sno .. w.last_sno /\ 1 <= s
    BY <1>0, <1>2, <1>4, <1>13, SMT
  <1>15. ~ (s <= w.last_sno - ulogentries)
    BY <1>4, <1>13, <1>14 DEF Window
  <1>16. n - s < ulogentries
    BY <1>0, <1>1, <1>2, <1>15, SMT
  <1> QED
    BY <1>9, <1>11, <1>14, <1>16

(* The story goes on. *)
LEMMA StoryNext ==
  ASSUME NEW u \in Contents, NEW e \in Entry, NEW w, Appended(u, e, w), 1 <= e.sno
  PROVE  /\ Story(w)[e.sno] = e.upd
         /\ \A s \in Sno : 1 <= s /\ s < e.sno /\ e.sno - s < ulogentries =>
              Story(w)[s] = Story(u)[s]
  <1> DEFINE n == e.sno
  <1>1. w.ent = [u.ent EXCEPT ![Slot(n)] = e] /\ u.ent \in [Slots -> Entry]
    BY FieldTypes DEF Appended
  <1>2. n \in Sno
    BY DEF Entry
  <1>3. \A s \in Sno : 1 <= s => s \in 1 .. MaxSno
    BY UlogAssumption, SMT DEF Sno
  <1>4. \A x : \A s \in 1 .. MaxSno : Story(x)[s] = x.ent[Slot(s)].upd
    BY DEF Story
  <1>5. Story(w)[n] = e.upd
    <2>1. w.ent[Slot(n)] = e
      BY <1>1, <1>2, SlotRange
    <2> QED
      BY <1>2, <1>3, <1>4, <2>1
  <1>6. ASSUME NEW s \in Sno, 1 <= s, s < n, n - s < ulogentries
        PROVE  Story(w)[s] = Story(u)[s]
    <2>1. Slot(s) # Slot(n) /\ Slot(s) \in Slots /\ Slot(n) \in Slots
      BY <1>2, <1>6, SlotDistinct, SlotRange
    <2>2. w.ent[Slot(s)] = u.ent[Slot(s)]
      BY ONLY <1>1, <2>1, Zenon
    <2>3. Story(w)[s] = w.ent[Slot(s)].upd /\ Story(u)[s] = u.ent[Slot(s)].upd
      BY <1>3, <1>4, <1>6
    <2> QED
      BY ONLY <2>2, <2>3, Zenon
  <1> QED
    BY <1>5, <1>6

-----------------------------------------------------------------------------
(* A step from log u to log w at a time later than t brings no position back  *)
(* that the master knew no more.                                              *)
Forgets(u, w, t) ==
    \A pos \in Position : pos.time <= t /\ CanUpdate(w, pos) => CanUpdate(u, pos)

(* A process died while it wrote the slot of an entry. *)
LEMMA OverRing ==
  ASSUME NEW u \in Contents, NEW t \in Nat, Ring(u, t), NEW e \in Entry,
         e.sno = u.last_sno + 1, NEW x \in Entry, x.sno = 0 \/ x.sno = e.sno,
         x.time <= t, x.sno # 0 => x.time >= 1, NEW w, Written(u, e, x, w)
  PROVE  Ring(w, t) /\ \A r : Forgets(u, w, r)
  <1> DEFINE n == e.sno
  <1>0. /\ w \in Contents /\ w.state = "UNSTABLE"
        /\ w.ent = [u.ent EXCEPT ![Slot(n)] = x]
        /\ w.num = u.num /\ w.first_sno = u.first_sno
        /\ w.last_sno = u.last_sno /\ w.last_time = u.last_time
    BY DEF Written
  <1>1. /\ u.ent \in [Slots -> Entry] /\ u.last_sno \in Nat /\ u.first_sno \in Nat
    BY FieldTypes
  <1>2. n \in Sno /\ Slot(n) \in Slots
    <2>1. n \in Sno
      BY DEF Entry
    <2> QED
      BY <2>1, SlotRange
  <1>3. Stamped(w.ent, t)
    <2>1. Stamped(u.ent, t)
      BY DEF Ring
    <2>2. Stamped([u.ent EXCEPT ![Slot(n)] = x], t)
      BY <1>1, <1>2, <2>1, StampedWrite
    <2> QED
      BY <1>0, <2>2
  <1>4. Ring(w, t)
    <2>1. ASSUME w.num # 0
          PROVE  Window(w)
      <3>1. 1 <= u.first_sno /\ Window(u)
        BY <1>0, <2>1 DEF Ring
      <3> QED
        BY <1>0, <1>2, <3>1, WindowOver
    <2>2. w.state # "STABLE"
      BY <1>0, SMT
    <2> QED
      BY <1>0, <1>3, <2>1, <2>2 DEF Ring
  <1>5. ASSUME NEW pos \in Position, CanUpdate(w, pos)
        PROVE  CanUpdate(u, pos)
    <2> DEFINE s == pos.sno
    <2>1. /\ u.num # 0 /\ u.first_sno <= s /\ s <= u.last_sno
          /\ w.ent[Slot(s)].sno = s /\ w.ent[Slot(s)].time = pos.time
      BY <1>0, <1>5 DEF CanUpdate, CheckSno
    <2>2. 1 <= u.first_sno
      BY <2>1 DEF Ring
    <2>3. s \in Sno
      BY DEF Position
    <2>4. s # 0 /\ s # n
      BY <1>1, <2>1, <2>2, <2>3, SMT DEF Sno
    <2>5. Slot(s) \in Slots
      BY <2>3, SlotRange
    <2>6. w.ent[Slot(s)] = u.ent[Slot(s)]
      BY <1>0, <1>1, <1>2, <2>1, <2>4, <2>5
    <2> QED
      BY <2>1, <2>6 DEF CanUpdate, CheckSno
  <1> QED
    BY <1>4, <1>5 DEF Forgets

(* A process died once last_sno was written. *)
LEMMA LastRing ==
  ASSUME NEW u \in Contents, NEW t \in Nat, Ring(u, t), NEW e \in Entry,
         e.sno = u.last_sno + 1, e.time <= t, 1 <= e.time, e.upd \in Update,
         NEW w \in Contents, w.state = "UNSTABLE",
         w.ent = [u.ent EXCEPT ![Slot(e.sno)] = e], w.num = u.num,
         w.first_sno = u.first_sno, w.last_sno = e.sno, w.last_time <= t
  PROVE  Ring(w, t) /\ \A r \in Nat : r < e.time => Forgets(u, w, r)
  <1> DEFINE n == e.sno
  <1>1. /\ u.ent \in [Slots -> Entry] /\ u.last_sno \in Nat /\ u.first_sno \in Nat
        /\ u.num \in Nat
    BY FieldTypes
  <1>2. n \in Sno /\ Slot(n) \in Slots /\ e.time \in Nat
    <2>1. n \in Sno /\ e.time \in Nat
      BY DEF Entry
    <2> QED
      BY <2>1, SlotRange
  <1>a. w.ent[Slot(n)] = e /\ e.time >= 1
    BY <1>1, <1>2, SMT
  <1>3. Stamped(w.ent, t)
    <2>1. Stamped(u.ent, t)
      BY DEF Ring
    <2>2. Stamped([u.ent EXCEPT ![Slot(n)] = e], t)
      BY <1>1, <1>2, <1>a, <2>1, StampedWrite
    <2> QED
      BY <2>2
  <1>4. Ring(w, t)
    <2>1. ASSUME w.num # 0
          PROVE  /\ 1 <= w.first_sno /\ w.first_sno <= w.last_sno
                 /\ w.num <= ulogentries /\ w.first_sno <= w.last_sno - w.num + 1
                 /\ Window(w)
      <3>1. /\ 1 <= u.first_sno /\ u.first_sno <= u.last_sno /\ u.num <= ulogentries
            /\ u.first_sno <= u.last_sno - u.num + 1 /\ Window(u)
        BY <2>1 DEF Ring
      <3>a. /\ w.first_sno = u.first_sno /\ w.last_sno = n /\ w.num = u.num
            /\ n = u.last_sno + 1
        OBVIOUS
      <3>2. w.first_sno <= w.last_sno /\ w.first_sno <= w.last_sno - w.num + 1
        BY ONLY <1>1, <3>1, <3>a
      <3>3. u.first_sno <= w.first_sno
        BY ONLY <1>1, <3>a
      <3>4. Window(w)
        BY <1>2, <3>1, <3>3, WindowNext
      <3> QED
        BY <3>1, <3>2, <3>4
    <2>2. w.state # "STABLE"
      BY SMT
    <2> QED
      BY <1>3, <2>1, <2>2 DEF Ring
  <1>5. ASSUME NEW r \in Nat, r < e.time, NEW pos \in Position, pos.time <= r,
               CanUpdate(w, pos)
        PROVE  CanUpdate(u, pos)
    <2> DEFINE s == pos.sno
    <2>1. /\ u.num # 0 /\ u.first_sno <= s /\ s <= n
          /\ w.ent[Slot(s)].sno = s /\ w.ent[Slot(s)].time = pos.time
      BY <1>5 DEF CanUpdate, CheckSno
    <2>2. s \in Sno /\ pos.time \in Nat
      BY DEF Position
    <2>3. pos.time # e.time
      BY <1>2, <1>5, <2>2, SMT
    <2>4. Slot(s) \in Slots
      BY <2>2, SlotRange
    <2>5. Slot(s) # Slot(n) /\ s # n
      BY <1>a, <2>1, <2>3
    <2>6. w.ent[Slot(s)] = u.ent[Slot(s)]
      BY <1>1, <1>2, <2>4, <2>5
    <2>7. s <= u.last_sno
      BY <1>1, <2>1, <2>2, <2>5, SMT DEF Sno
    <2> QED
      BY <2>1, <2>6, <2>7 DEF CanUpdate, CheckSno
  <1> QED
    BY <1>4, <1>5 DEF Forgets

(* The entry that ulog_add_update() makes. *)
IsNext(e, u, t, upd) ==
    e \in Entry /\ e.sno = u.last_sno + 1 /\ e.time = t /\ e.upd = upd

(* It has the serial number after the last, the time and the update. *)
LEMMA NewEntryIs ==
  ASSUME NEW u \in Contents, u.last_sno < MaxSno, NEW t \in Nat, NEW upd \in Update
  PROVE  IsNext(NewEntry(u, t, upd), u, t, upd)
  <1>1. u.last_sno + 1 \in Sno
    <2>1. u.last_sno \in Nat /\ MaxSno \in Nat
      BY FieldTypes
    <2> QED
      BY <2>1, SMT DEF Sno
  <1> DEFINE n == u.last_sno + 1
  <1>2. NewEntry(u, t, upd) = Logged(n, t, upd)
    BY DEF NewEntry
  <1> HIDE DEF n
  <1>3. Logged(n, t, upd) \in Entry
    BY <1>1, LoggedType DEF n
  <1>4. Logged(n, t, upd).sno = n /\ Logged(n, t, upd).time = t /\ Logged(n, t, upd).upd = upd
    BY DEF Logged
  <1> QED
    BY <1>2, <1>3, <1>4 DEF n, IsNext

(* The file after each of the writes of store_update(). *)
LEMMA InterruptedRing ==
  ASSUME NEW u \in Contents, u.last_sno < MaxSno, NEW t \in Nat, Ring(u, t),
         NEW upd \in Update, NEW w \in StoreInterrupted(u, NewEntry(u, t + 1, upd))
  PROVE  /\ w \in Contents /\ Ring(w, t + 1) /\ Forgets(u, w, t)
         /\ w = u \/ w.state = "UNSTABLE"
  <1> DEFINE T == t + 1
             e == NewEntry(u, T, upd)
             c == [e EXCEPT !.commit = FALSE]
             v == Writing(u, e, e)
             z == Writing(u, e, ZeroEntry)
             n == Writing(u, e, c)
  <1>1. T \in Nat /\ t <= T /\ t < T /\ 1 <= T /\ T <= T /\ T >= 1 /\ 0 <= T
    BY SMT
  <1>2. w \in StoreInterrupted(u, e)
    BY SMT
  <1> HIDE DEF T
  <1>3. e \in Entry /\ e.sno = u.last_sno + 1 /\ e.time = T /\ e.upd = upd
    <2>1. IsNext(e, u, T, upd)
      BY <1>1, NewEntryIs
    <2> QED
      BY <2>1 DEF IsNext
  <1> HIDE DEF e
  <1>4. Ring(u, T)
    BY <1>1, RingLater
  <1>5. c \in Entry /\ c.sno = e.sno /\ c.time = T
    BY <1>3 DEF Entry
  <1>6. ZeroEntry.sno = 0 /\ ZeroEntry.time = 0
    BY DEF ZeroEntry
  <1>7. Written(u, e, e, v) /\ Written(u, e, ZeroEntry, z) /\ Written(u, e, c, n)
    <2> HIDE DEF c
    <2> QED
      BY <1>3, <1>5, WritingIs, ZeroEntryType
  <1>8. \/ w \in {u, z, n, v} \/ w = [u EXCEPT !.state = "UNSTABLE"]
        \/ w = [v EXCEPT !.last_sno = e.sno]
        \/ w = [v EXCEPT !.last_sno = e.sno, !.last_time = e.time]
        \/ w = CountUpdate(v, e)
    BY <1>2 DEF StoreInterrupted
  <1> SUFFICES /\ w \in Contents /\ Ring(w, T) /\ Forgets(u, w, t)
               /\ w = u \/ w.state = "UNSTABLE"
    BY DEF T
  <1> HIDE DEF c, v, z, n
  <1>9. CASE w = u
    BY <1>4, <1>9 DEF Forgets
  <1>10. CASE w = z
    <2>1. w \in Contents /\ w.state = "UNSTABLE"
      BY <1>7, <1>10 DEF Written
    <2>2. Ring(w, T) /\ Forgets(u, w, t)
      BY <1>1, <1>3, <1>4, <1>6, <1>7, <1>10, OverRing, ZeroEntryType
    <2> QED
      BY <2>1, <2>2
  <1>11. CASE w = n
    <2>1. w \in Contents /\ w.state = "UNSTABLE"
      BY <1>7, <1>11 DEF Written
    <2>2. Ring(w, T) /\ Forgets(u, w, t)
      BY <1>1, <1>3, <1>4, <1>5, <1>7, <1>11, OverRing
    <2> QED
      BY <2>1, <2>2
  <1>12. CASE w = v
    <2>1. w \in Contents /\ w.state = "UNSTABLE"
      BY <1>7, <1>12 DEF Written
    <2>2. Ring(w, T) /\ Forgets(u, w, t)
      BY <1>1, <1>3, <1>4, <1>7, <1>12, OverRing
    <2> QED
      BY <2>1, <2>2
  <1>13. CASE w = [u EXCEPT !.state = "UNSTABLE"]
    <2>1. /\ w \in Contents /\ w.state = "UNSTABLE" /\ w.ent = u.ent /\ w.num = u.num
          /\ w.first_sno = u.first_sno /\ w.last_sno = u.last_sno
          /\ w.last_time = u.last_time
      BY <1>13 DEF Contents
    <2>2. ASSUME Window(u)
          PROVE  Window(w)
      <3>0. /\ u.first_sno \in Nat /\ u.last_sno \in Nat /\ ulogentries \in Nat
            /\ Lag(u) \in {0, 1} /\ Lag(w) = 1
        BY <2>1, FieldTypes DEF Lag
      <3>1. \A s \in u.first_sno .. u.last_sno :
               s > w.last_sno - ulogentries + Lag(w) => s > u.last_sno - ulogentries + Lag(u)
        BY <2>1, <3>0, SMT
      <3> QED
        BY <2>1, <2>2, <3>1 DEF Window, Holds
    <2>3. w.state # "STABLE"
      BY <2>1, SMT
    <2>4. Ring(w, T)
      BY <1>4, <2>1, <2>2, <2>3 DEF Ring
    <2>5. Forgets(u, w, t)
      BY <2>1 DEF Forgets, CanUpdate, CheckSno
    <2> QED
      BY <2>1, <2>4, <2>5
  <1>14. CASE \/ w = [v EXCEPT !.last_sno = e.sno]
              \/ w = [v EXCEPT !.last_sno = e.sno, !.last_time = e.time]
    <2>1. /\ v \in Contents /\ v.state = "UNSTABLE"
          /\ v.ent = [u.ent EXCEPT ![Slot(e.sno)] = e]
          /\ v.num = u.num /\ v.first_sno = u.first_sno /\ v.last_time = u.last_time
      BY <1>7 DEF Written
    <2>2. e.sno \in Sno /\ e.time \in Nat
      BY <1>3 DEF Entry
    <2>3. /\ w \in Contents /\ w.state = "UNSTABLE" /\ w.ent = v.ent /\ w.num = v.num
          /\ w.first_sno = v.first_sno /\ w.last_sno = e.sno
          /\ w.last_time = v.last_time \/ w.last_time = e.time
      BY <1>14, <2>1, <2>2 DEF Contents
    <2>4. w.last_time <= T
      BY <1>1, <1>3, <1>4, <2>1, <2>3 DEF Ring
    <2>5. /\ w.ent = [u.ent EXCEPT ![Slot(e.sno)] = e]
          /\ w.num = u.num /\ w.first_sno = u.first_sno
      BY <2>1, <2>3
    <2>6. Ring(w, T) /\ Forgets(u, w, t)
      BY <1>1, <1>3, <1>4, <2>3, <2>4, <2>5, LastRing
    <2> QED
      BY <2>3, <2>6
  <1>15. CASE w = CountUpdate(v, e)
    <2>1. Appended(u, e, w) /\ w.state = "UNSTABLE"
      BY <1>3, <1>15, StoreAppends DEF v
    <2>2. Ring(w, T) /\ w \in Contents
      BY <1>1, <1>3, <1>4, <2>1, AppendedRing DEF Appended
    <2>3. ASSUME NEW pos \in Position, pos.time <= t, CanUpdate(w, pos)
          PROVE  CanUpdate(u, pos)
      <3>1. pos.time < e.time
        <4>1. pos.time \in Nat
          BY DEF Position
        <4> QED
          BY <1>1, <1>3, <2>3, <4>1, SMT
      <3> QED
        BY <1>1, <1>3, <1>4, <2>1, <2>3, <3>1, AppendedKnows
    <2> QED
      BY <2>1, <2>2, <2>3 DEF Forgets
  <1> QED
    BY <1>8, <1>9, <1>10, <1>11, <1>12, <1>13, <1>14, <1>15

(* The log knows no position from before t. *)
Blank(w, t) == \A pos \in Position : pos.time <= t => ~CanUpdate(w, pos)

(* A log that was started over at a later time is such a log. *)
LEMMA StartedBlank ==
  ASSUME NEW w, NEW ent \in [Slots -> Entry], NEW sno \in Sno, NEW t \in Nat,
         NEW state, Started(w, ent, sno, t + 1, state)
  PROVE  Blank(w, t)
  <1> SUFFICES ASSUME NEW pos \in Position, pos.time <= t, CanUpdate(w, pos)
               PROVE  FALSE
    BY DEF Blank
  <1> DEFINE T == t + 1
  <1>1. T \in Nat
    BY SMT
  <1>2. Started(w, ent, sno, T, state)
    BY SMT
  <1> HIDE DEF T
  <1>3. pos.time = T
    BY <1>1, <1>2, StartedKnows
  <1>4. pos.time \in Nat
    BY DEF Position
  <1> QED
    BY <1>3, <1>4, SMT DEF T

(* reset_ulog() on the master. *)
LEMMA FreshRing ==
  ASSUME NEW u \in Contents, NEW t \in Nat, Ring(u, t)
  PROVE  /\ Fresh(u, t + 1) \in Contents /\ Ring(Fresh(u, t + 1), t + 1)
         /\ Blank(Fresh(u, t + 1), t) /\ Fresh(u, t + 1).last_sno = 1
         /\ Fresh(u, t + 1).state = "STABLE"
  <1> DEFINE T == t + 1
             w == Fresh(u, T)
  <1>1. T \in Nat /\ t <= T /\ 1 <= T
    BY SMT
  <1>2. 1 \in Sno /\ 1 <= 1
    BY UlogAssumption, SMT DEF Sno
  <1>3. u.ent \in [Slots -> Entry] /\ Stamped(u.ent, t)
    BY FieldTypes DEF Ring
  <1>a. \A s : Started(w, u.ent, 1, T, s) => Started(w, u.ent, 1, t + 1, s)
    OBVIOUS
  <1> HIDE DEF T
  <1>4. Started(w, u.ent, 1, T, "STABLE")
    BY <1>1, FreshStarts
  <1> HIDE DEF w
  <1>5. Stamped(u.ent, T)
    BY <1>1, <1>3, StampedLater
  <1>6. Ring(w, T)
    BY <1>1, <1>2, <1>3, <1>4, <1>5, StartedRing
  <1>7. Blank(w, t)
    BY <1>2, <1>3, <1>4, <1>a, StartedBlank
  <1>8. w \in Contents /\ w.last_sno = 1 /\ w.state = "STABLE"
    BY <1>4 DEF Started
  <1> QED
    BY <1>6, <1>7, <1>8 DEF w, T

(* Whatever the slots hold once the blocks have another size, they are        *)
(* stamped.                                                                   *)
LEMMA RereadStamped ==
  ASSUME NEW u \in Contents, NEW t \in Nat, Stamped(u.ent, t), NEW b,
         NEW ent \in Reread(u, b)
  PROVE  ent \in [Slots -> Entry] /\ Stamped(ent, t)
  <1>1. u.ent \in [Slots -> Entry]
    BY FieldTypes
  <1>2. CASE ent = u.ent
    BY <1>1, <1>2
  <1>3. CASE ent \in [Slots -> {u.ent[i] : i \in Slots} \cup {ZeroEntry}]
    <2>1. ASSUME NEW i \in Slots
          PROVE  /\ ent[i] \in Entry /\ ent[i].time <= t
                 /\ ent[i].sno # 0 => ent[i].time >= 1
      <3>1. (\E j \in Slots : ent[i] = u.ent[j]) \/ ent[i] = ZeroEntry
        BY <1>3
      <3>2. CASE ent[i] = ZeroEntry
        <4>1. ZeroEntry.sno = 0 /\ ZeroEntry.time = 0
          BY DEF ZeroEntry
        <4>2. 0 <= t
          BY SMT
        <4> QED
          BY <3>2, <4>1, <4>2, ZeroEntryType
      <3>3. CASE \E j \in Slots : ent[i] = u.ent[j]
        BY <1>1, <3>3 DEF Stamped
      <3> QED
        BY <3>1, <3>2, <3>3
    <2>2. ent \in [Slots -> Entry]
      BY <1>3, <2>1
    <2> QED
      BY <2>1, <2>2 DEF Stamped
  <1> QED
    BY <1>2, <1>3 DEF Reread

(* A process died in reset_ulog(). *)
LEMMA ResetInterruptedRing ==
  ASSUME NEW u \in Contents, NEW t \in Nat, Ring(u, t),
         NEW w \in ResetInterrupted(u, t + 1)
  PROVE  w \in Contents /\ Ring(w, t + 1) /\ Blank(w, t)
  <1> DEFINE T == t + 1
  <1>1. T \in Nat /\ t <= T /\ 1 <= T /\ 0 <= T
    BY SMT
  <1>2. PICK ent \in Reread(u, ULOG_BLOCK) :
            \/ w = [EmptyFile EXCEPT !.ent = ent]
            \/ w = ZeroHeader(ULOG_BLOCK, "ZERO", ent)
            \/ w = SetDummy(ZeroHeader(ULOG_BLOCK, "ZERO", ent), 1, T)
    BY DEF ResetInterrupted
  <1>a. \A s : Started(w, ent, 1, T, s) => Started(w, ent, 1, t + 1, s)
    OBVIOUS
  <1> HIDE DEF T
  <1>3. ent \in [Slots -> Entry] /\ Stamped(ent, t)
    <2>1. Stamped(u.ent, t)
      BY DEF Ring
    <2> QED
      BY <2>1, RereadStamped
  <1>4. Stamped(ent, T)
    BY <1>1, <1>3, StampedLater
  <1> DEFINE z == ZeroHeader(ULOG_BLOCK, "ZERO", ent)
  <1>5. z \in Contents /\ z.num = 0 /\ z.last_time = 0 /\ z.ent = ent /\ z.state = "ZERO"
    <2>1. ULOG_BLOCK \in Nat /\ "ZERO" \in {"ZERO", "STABLE", "UNSTABLE"}
      BY UlogAssumption
    <2> QED
      BY ONLY <1>3, <2>1, ZeroHeaderFacts
  <1>6. 1 \in Sno /\ 1 <= 1
    BY UlogAssumption, SMT DEF Sno
  <1>7. CASE w.num = 0 /\ w.last_time = 0 /\ w.ent = ent /\ w.state = "ZERO" /\ w \in Contents
    <2>1. w.state # "STABLE"
      BY <1>7, SMT
    <2>2. Ring(w, T)
      BY <1>1, <1>4, <1>7, <2>1 DEF Ring
    <2>3. Blank(w, t)
      BY <1>7 DEF Blank, CanUpdate
    <2> QED
      BY <1>7, <2>2, <2>3 DEF T
  <1>8. CASE w = [EmptyFile EXCEPT !.ent = ent]
    <2>1. /\ EmptyFile \in Contents /\ EmptyFile.num = 0 /\ EmptyFile.last_time = 0
          /\ EmptyFile.state = "ZERO"
      BY EmptyFileFacts DEF EmptyFile
    <2>2. w.num = 0 /\ w.last_time = 0 /\ w.ent = ent /\ w.state = "ZERO" /\ w \in Contents
      BY <1>3, <1>8, <2>1 DEF Contents
    <2> QED
      BY <1>7, <2>2
  <1>9. CASE w = z
    BY <1>5, <1>7, <1>9
  <1>10. CASE w = SetDummy(z, 1, T)
    <2> HIDE DEF z
    <2>1. Started(SetDummy(z, 1, T), z.ent, 1, T, z.state)
      BY <1>1, <1>5, <1>6, SetDummyStarts
    <2>2. Started(w, ent, 1, T, "ZERO")
      BY <1>5, <1>10, <2>1
    <2>3. Ring(w, T)
      BY <1>1, <1>3, <1>4, <1>6, <2>2, StartedRing
    <2>4. Blank(w, t)
      BY <1>3, <1>6, <1>a, <2>2, StartedBlank
    <2>5. w \in Contents
      BY <2>2 DEF Started
    <2> QED
      BY <2>3, <2>4, <2>5 DEF T
  <1> QED
    BY <1>2, <1>8, <1>9, <1>10

-----------------------------------------------------------------------------
(* What the master's log tells of its database.                               *)

(* The variables of the master, in a record. *)
Master ==
    [db |-> mdb, pol |-> mpol, ulog |-> mulog, now |-> now, writer |-> writer,
     lost |-> lost]

Places == {Idle, AtPolicy} \cup {AtLog(upd) : upd \in Update}

MasterState ==
    [db : Database, pol : 0 .. MaxPol, ulog : Contents, now : Nat,
     writer : [Writers -> Places], lost : BOOLEAN]

(* kadmind will answer a replica at pos with updates, or has nothing to add. *)
Known(m, pos) == ~m.lost /\ m.ulog.state # "UNSTABLE" /\ CanUpdate(m.ulog, pos)

(* The policies are those of a database that has pol, or else a process is    *)
(* about to start the log over.                                               *)
PolTold(m, pol) == pol = m.pol \/ \E w \in Writers : m.writer[w] = AtPolicy

(* The updates after pos make of db[p] what the master has; or else a process *)
(* has still to log what the master has.                                      *)
PrincTold(m, db, pos, p) ==
    \/ Leaves(Story(m.ulog), pos.sno, m.ulog.last_sno, db[p], p, m.db[p])
    \/ \E w \in Writers : m.writer[w] = AtLog([princ |-> p, val |-> m.db[p]])

(* A database db with policies pol, at position pos, is not deceived by what   *)
(* the master tells.                                                           *)
Told(m, db, pol, pos) ==
    /\ pos.time <= m.now
    /\ Known(m, pos) => PolTold(m, pol) /\ \A p \in Princ : PrincTold(m, db, pos, p)

(* The master does not know the position, and will not know it again. *)
Dead(m, pos) == pos.time <= m.now /\ ~CanUpdate(m.ulog, pos)

(* From m to n the log stays in order, forgets for good, and deceives nobody  *)
(* that it did not deceive before.                                            *)
Forth(m, n) ==
    /\ n.ulog \in Contents /\ Ring(n.ulog, n.now)
    /\ m.now <= n.now /\ Forgets(m.ulog, n.ulog, m.now)
    /\ \A db, pol : \A pos \in Position : Told(m, db, pol, pos) => Told(n, db, pol, pos)
    /\ \A pos \in Position : Told(m, m.db, m.pol, pos) => Told(n, n.db, n.pol, pos)

(* The types of the fields. *)
LEMMA MasterTypes ==
  ASSUME NEW m \in MasterState
  PROVE  /\ m.db \in Database /\ m.pol \in 0 .. MaxPol /\ m.ulog \in Contents
         /\ m.now \in Nat /\ m.writer \in [Writers -> Places] /\ m.lost \in BOOLEAN
  BY DEF MasterState

(* Where a process that changes the database is. *)
LEMMA PlacesAre ==
  /\ Idle # AtPolicy /\ Idle.pc = "idle" /\ AtPolicy.pc = "policy"
  /\ \A upd \in Update : /\ AtLog(upd).pc = "log" /\ AtLog(upd).upd = upd
                         /\ AtLog(upd) # Idle /\ AtLog(upd) # AtPolicy
  <1>1. Idle.pc = "idle" /\ AtPolicy.pc = "policy" /\ "idle" # "policy"
    BY SMT DEF Idle, AtPolicy
  <1>2. ASSUME NEW upd \in Update
        PROVE  AtLog(upd).pc = "log" /\ AtLog(upd).upd = upd
    BY SMT DEF AtLog
  <1>3. "log" # "idle" /\ "log" # "policy"
    BY SMT
  <1> QED
    BY <1>1, <1>2, <1>3

(* The same, for a place. *)
LEMMA PlaceOf ==
  ASSUME NEW x \in Places
  PROVE  /\ x.pc = "idle" => x = Idle
         /\ x.pc = "policy" => x = AtPolicy
         /\ x.pc = "log" => x.upd \in Update /\ x = AtLog(x.upd)
         /\ x.pc # "idle" => x # Idle
  <1>1. "log" # "idle" /\ "log" # "policy" /\ "idle" # "policy"
    BY SMT
  <1>2. x = Idle \/ x = AtPolicy \/ \E upd \in Update : x = AtLog(upd)
    BY DEF Places
  <1> QED
    BY <1>1, <1>2, PlacesAre

(* Policies that were told of are no worse for being the master's. *)
LEMMA ToldPol ==
  ASSUME NEW m, NEW db, NEW pol, NEW pos, Told(m, db, pol, pos)
  PROVE  Told(m, db, m.pol, pos)
  BY DEF Told, PolTold

(* A position that the master does not know deceives nobody. *)
LEMMA DeadTold ==
  ASSUME NEW m, NEW db, NEW pol, NEW pos, Dead(m, pos)
  PROVE  Told(m, db, pol, pos)
  BY DEF Told, Known, Dead

(* No entry of the master has the time of a replica's reset. *)
LEMMA ZeroDead ==
  ASSUME NEW m \in MasterState, Ring(m.ulog, m.now), NEW pos \in Position, pos.time = 0
  PROVE  Dead(m, pos)
  <1>1. m.ulog \in Contents /\ m.now \in Nat
    BY MasterTypes
  <1>2. ~CanUpdate(m.ulog, pos)
    <2>1. ~ (pos.time >= 1)
      BY SMT
    <2> QED
      BY <1>1, <2>1, KnownHasTime
  <1>3. pos.time <= m.now
    BY <1>1, SMT
  <1> QED
    BY <1>2, <1>3 DEF Dead

(* The master's own database is where its log ends. *)
LEMMA LastTold ==
  ASSUME NEW m \in MasterState, Ring(m.ulog, m.now)
  PROVE  Told(m, m.db, m.pol, LastPos(m.ulog)) /\ LastPos(m.ulog) \in Position
  <1> DEFINE n == m.ulog.last_sno
             pos == LastPos(m.ulog)
  <1>1. n \in Nat /\ n \in Sno /\ m.ulog.last_time \in Nat
    BY MasterTypes, FieldTypes
  <1>2. pos = [sno |-> n, time |-> m.ulog.last_time]
    BY DEF LastPos
  <1>3. pos \in Position /\ pos.sno = n /\ pos.time = m.ulog.last_time
    <2> HIDE DEF pos, n
    <2> QED
      BY ONLY <1>1, <1>2 DEF Position
  <1> HIDE DEF pos
  <1>4. pos.time <= m.now
    BY <1>3 DEF Ring
  <1>5. \A p \in Princ : PrincTold(m, m.db, pos, p)
    BY <1>1, <1>3, LeavesNone DEF PrincTold
  <1> QED
    BY <1>3, <1>4, <1>5 DEF Told, PolTold, pos

-----------------------------------------------------------------------------
(* The steps of the master.                                                   *)

(* Time that has passed has passed. *)
LEMMA StillPast ==
  ASSUME NEW m \in MasterState, NEW n \in MasterState, m.now <= n.now,
         NEW pos \in Position, pos.time <= m.now
  PROVE  pos.time <= n.now
  <1>1. m.now \in Nat /\ n.now \in Nat /\ pos.time \in Nat
    BY MasterTypes DEF Position
  <1> QED
    BY <1>1, SMT

(* A step after which no position from before is known, or the log has lost a *)
(* change, or is half-written.                                                *)
LEMMA QuietForth ==
  ASSUME NEW m \in MasterState, NEW n \in MasterState, m.now <= n.now,
         Ring(n.ulog, n.now), Forgets(m.ulog, n.ulog, m.now),
         n.lost \/ n.ulog.state = "UNSTABLE" \/ Blank(n.ulog, m.now)
  PROVE  Forth(m, n)
  <1>1. ASSUME NEW pos \in Position, pos.time <= m.now
        PROVE  pos.time <= n.now /\ ~Known(n, pos)
    <2>1. pos.time <= n.now
      BY <1>1, StillPast
    <2>2. ~Known(n, pos)
      BY <1>1 DEF Known, Blank
    <2> QED
      BY <2>1, <2>2
  <1>2. n.ulog \in Contents
    BY MasterTypes
  <1> QED
    BY <1>1, <1>2 DEF Forth, Told

(* A log that was started over forgets. *)
LEMMA BlankForgets ==
  ASSUME NEW u, NEW w, NEW t, Blank(w, t)
  PROVE  Forgets(u, w, t)
  BY DEF Blank, Forgets

(* The master does nothing. *)
LEMMA SameForth ==
  ASSUME NEW m \in MasterState, Ring(m.ulog, m.now)
  PROVE  Forth(m, m)
  <1>1. m.ulog \in Contents /\ m.now <= m.now
    BY MasterTypes, SMT
  <1> QED
    BY <1>1 DEF Forth, Forgets

(* krb5_db_put_principal(), up to the log: the principal that was put is one  *)
(* that a process has to log.                                                 *)
LEMMA PutForth ==
  ASSUME NEW m \in MasterState, NEW n \in MasterState, Ring(m.ulog, m.now),
         NEW w \in Writers, NEW upd \in Update, m.writer[w] = Idle,
         n.db = Put(m.db, upd), n.writer = [m.writer EXCEPT ![w] = AtLog(upd)],
         n.pol = m.pol, n.ulog = m.ulog, n.now = m.now, n.lost = m.lost
  PROVE  Forth(m, n)
  <1>1. m.db \in Database /\ m.writer \in [Writers -> Places]
    BY MasterTypes
  <1>2. n.writer[w] = AtLog(upd)
    BY <1>1
  <1>3. ASSUME NEW x \in Writers, m.writer[x] # Idle
        PROVE  n.writer[x] = m.writer[x]
    BY <1>1, <1>3
  <1>4. upd = [princ |-> upd.princ, val |-> upd.val]
    <2>1. upd \in [princ : Princ, val : Val \cup {Absent}]
      BY IpropAssumption DEF IpropAssumption
    <2> QED
      BY ONLY <2>1
  <1>5. /\ n.db[upd.princ] = upd.val
        /\ \A p \in Princ : p # upd.princ => n.db[p] = m.db[p]
    <2> DEFINE d == Put(m.db, upd)
    <2>1. /\ upd.princ \in Princ
          /\ \A p \in Princ : /\ p = upd.princ => d[p] = upd.val
                              /\ p # upd.princ => d[p] = m.db[p]
      BY ONLY <1>1, upd \in Update, PutType, Zenon
    <2>2. n.db = d
      OBVIOUS
    <2> HIDE DEF d
    <2> QED
      BY ONLY <2>1, <2>2, Zenon
  <1>6. ASSUME NEW p \in Princ, p = upd.princ, NEW db, NEW pos
        PROVE  PrincTold(n, db, pos, p)
    <2>1. AtLog(upd) = AtLog([princ |-> p, val |-> n.db[p]])
      BY <1>4, <1>5, <1>6
    <2> QED
      BY <1>2, <2>1 DEF PrincTold
  <1>7. ASSUME NEW p \in Princ, p # upd.princ, NEW d, NEW db, d[p] = db[p],
               NEW pos, PrincTold(m, db, pos, p)
        PROVE  PrincTold(n, d, pos, p)
    <2>1. n.db[p] = m.db[p]
      BY <1>5, <1>7
    <2>2. CASE Leaves(Story(m.ulog), pos.sno, m.ulog.last_sno, db[p], p, m.db[p])
      BY <1>7, <2>1, <2>2 DEF PrincTold
    <2>3. CASE \E x \in Writers : m.writer[x] = AtLog([princ |-> p, val |-> m.db[p]])
      <3>1. PICK x \in Writers : m.writer[x] = AtLog([princ |-> p, val |-> m.db[p]])
        BY <2>3
      <3>2. [princ |-> p, val |-> m.db[p]] \in Update
        <4>1. m.db[p] \in Val \cup {Absent}
          BY <1>1 DEF Database
        <4> QED
          BY <4>1, IpropAssumption DEF IpropAssumption
      <3>3. m.writer[x] # Idle
        BY <3>1, <3>2, PlacesAre
      <3> QED
        BY <1>3, <2>1, <3>1, <3>3 DEF PrincTold
    <2> QED
      BY <1>7, <2>2, <2>3 DEF PrincTold
  <1>8. \A pos : Known(n, pos) => Known(m, pos)
    BY DEF Known
  <1>9. ASSUME NEW pol, PolTold(m, pol)
        PROVE  PolTold(n, pol)
    <2>1. \A x \in Writers : m.writer[x] = AtPolicy => n.writer[x] = AtPolicy
      BY <1>3, PlacesAre
    <2> QED
      BY <1>9, <2>1 DEF PolTold
  <1>10. ASSUME NEW db, NEW d, \A p \in Princ : p # upd.princ => d[p] = db[p],
                NEW pol, NEW pos \in Position, Told(m, db, pol, pos)
         PROVE  Told(n, d, pol, pos)
    BY <1>6, <1>7, <1>8, <1>9, <1>10 DEF Told
  <1>11. m.now <= n.now /\ n.ulog \in Contents
    <2>1. n.now = m.now /\ m.now \in Nat /\ n.ulog \in Contents
      BY MasterTypes
    <2> QED
      BY ONLY <2>1
  <1>12. \A pos \in Position : Told(m, m.db, m.pol, pos) => Told(n, n.db, n.pol, pos)
    BY <1>5, <1>10
  <1>13. \A db, pol : \A pos \in Position : Told(m, db, pol, pos) => Told(n, db, pol, pos)
    BY <1>10
  <1> QED
    BY <1>11, <1>12, <1>13 DEF Forth, Forgets

(* krb5_db_put_policy(), up to the log: a process has to start it over. *)
LEMMA PolicyForth ==
  ASSUME NEW m \in MasterState, NEW n \in MasterState, Ring(m.ulog, m.now),
         NEW w \in Writers, m.writer[w] = Idle,
         n.writer = [m.writer EXCEPT ![w] = AtPolicy],
         n.db = m.db, n.ulog = m.ulog, n.now = m.now, n.lost = m.lost
  PROVE  Forth(m, n)
  <1>1. m.db \in Database /\ m.writer \in [Writers -> Places]
    BY MasterTypes
  <1>2. n.writer[w] = AtPolicy
    BY <1>1
  <1>3. ASSUME NEW x \in Writers, m.writer[x] # Idle
        PROVE  n.writer[x] = m.writer[x]
    BY <1>1, <1>3
  <1>4. ASSUME NEW p \in Princ, NEW db, NEW pos, PrincTold(m, db, pos, p)
        PROVE  PrincTold(n, db, pos, p)
    <2>1. CASE Leaves(Story(m.ulog), pos.sno, m.ulog.last_sno, db[p], p, m.db[p])
      BY <2>1 DEF PrincTold
    <2>2. CASE \E x \in Writers : m.writer[x] = AtLog([princ |-> p, val |-> m.db[p]])
      <3>1. PICK x \in Writers : m.writer[x] = AtLog([princ |-> p, val |-> m.db[p]])
        BY <2>2
      <3>2. [princ |-> p, val |-> m.db[p]] \in Update
        <4>1. m.db[p] \in Val \cup {Absent}
          BY <1>1 DEF Database
        <4> QED
          BY <4>1, IpropAssumption DEF IpropAssumption
      <3>3. m.writer[x] # Idle
        BY <3>1, <3>2, PlacesAre
      <3> QED
        BY <1>3, <3>1, <3>3 DEF PrincTold
    <2> QED
      BY <1>4, <2>1, <2>2 DEF PrincTold
  <1>5. \A pos : Known(n, pos) => Known(m, pos)
    BY DEF Known
  <1>6. \A pol : PolTold(n, pol)
    BY <1>2 DEF PolTold
  <1>7. ASSUME NEW db, NEW pol, NEW q, NEW pos \in Position, Told(m, db, pol, pos)
        PROVE  Told(n, db, q, pos)
    BY <1>4, <1>5, <1>6, <1>7 DEF Told
  <1>8. m.now <= n.now /\ n.ulog \in Contents
    BY MasterTypes, SMT
  <1> QED
    BY <1>7, <1>8 DEF Forth, Forgets

(* The entry with upd is what ulog_add_update() stored in w. *)
Logs(u, t, upd, w) ==
    u.last_sno < MaxSno /\ w = StoreUpdate(u, NewEntry(u, t, upd))

(* ulog_add_update() keeps the log in order. *)
LEMMA LogsRing ==
  ASSUME NEW u \in Contents, NEW t \in Nat, 1 <= t, Ring(u, t),
         NEW upd \in Update, NEW w, Logs(u, t, upd, w)
  PROVE  /\ w \in Contents /\ Ring(w, t)
         /\ \E e : IsNext(e, u, t, upd) /\ Appended(u, e, w)
         /\ \A r \in Nat : r < t => Forgets(u, w, r)
  <1> DEFINE e == NewEntry(u, t, upd)
  <1>1. u.last_sno < MaxSno /\ w = StoreUpdate(u, e)
    BY DEF Logs
  <1>2. IsNext(e, u, t, upd)
    BY <1>1, NewEntryIs
  <1> HIDE DEF e
  <1>3. e \in Entry /\ e.sno = u.last_sno + 1 /\ e.time = t /\ e.upd = upd
    BY <1>2 DEF IsNext
  <1>4. Appended(u, e, w)
    BY <1>1, <1>3, StoreAppends
  <1>5. e.time <= t /\ 1 <= e.time /\ e.upd \in Update
    BY <1>3, SMT
  <1>6. Ring(w, t) /\ w \in Contents
    BY <1>3, <1>4, <1>5, AppendedRing DEF Appended
  <1>7. ASSUME NEW r \in Nat, r < t, NEW pos \in Position, pos.time <= r, CanUpdate(w, pos)
        PROVE  CanUpdate(u, pos)
    <2>1. pos.time < e.time
      <3>1. pos.time \in Nat
        BY DEF Position
      <3> QED
        BY <1>3, <1>7, <3>1, SMT
    <2> QED
      BY <1>3, <1>4, <1>5, <1>7, <2>1, AppendedKnows
  <1> QED
    BY <1>2, <1>4, <1>6, <1>7 DEF Forgets

(* ulog_add_update() when the serial numbers are used up. *)
LEMMA WrapForth ==
  ASSUME NEW m \in MasterState, NEW n \in MasterState, Ring(m.ulog, m.now),
         n.now = m.now + 1, NEW upd \in Update,
         Logs(Fresh(m.ulog, m.now + 1), m.now + 1, upd, n.ulog)
  PROVE  Forth(m, n)
  <1> DEFINE t == m.now
             T == t + 1
             u == Fresh(m.ulog, T)
  <1>1. t \in Nat /\ m.ulog \in Contents
    BY MasterTypes
  <1>2. T \in Nat /\ 1 <= T /\ t < T /\ t <= T
    BY <1>1, SMT
  <1>3. u \in Contents /\ Ring(u, T) /\ Blank(u, t)
    BY <1>1, FreshRing
  <1>4. Logs(u, T, upd, n.ulog) /\ n.now = T
    OBVIOUS
  <1> HIDE DEF u, T
  <1>5. Ring(n.ulog, T) /\ Forgets(u, n.ulog, t)
    BY <1>1, <1>2, <1>3, <1>4, LogsRing
  <1>6. Blank(n.ulog, t)
    BY <1>3, <1>5 DEF Blank, Forgets
  <1>7. Forgets(m.ulog, n.ulog, m.now)
    BY <1>6, BlankForgets
  <1>8. m.now <= n.now /\ Ring(n.ulog, n.now)
    BY <1>2, <1>4, <1>5
  <1> QED
    BY <1>6, <1>7, <1>8, QuietForth

(* The entry that w will log says what the master has, or else that of another *)
(* process does.                                                               *)
Vouched(m, w, upd) ==
    \/ m.db[upd.princ] = upd.val
    \/ \E x \in Writers \ {w} :
         m.writer[x] = AtLog([princ |-> upd.princ, val |-> m.db[upd.princ]])

(* ulog_add_update(): the entry is the last about its principal, and says     *)
(* what the master has, unless another process will log that.                 *)
LEMMA LogForth ==
  ASSUME NEW m \in MasterState, NEW n \in MasterState, Ring(m.ulog, m.now),
         NEW w \in Writers, NEW upd \in Update, m.writer[w] = AtLog(upd),
         n.db = m.db, n.pol = m.pol, n.now = m.now + 1,
         n.writer = [m.writer EXCEPT ![w] = Idle],
         Logs(m.ulog, m.now + 1, upd, n.ulog),
         ~n.lost => ~m.lost /\ m.ulog.state # "UNSTABLE" /\ Vouched(m, w, upd)
  PROVE  Forth(m, n)
  <1> DEFINE T == m.now + 1
  <1>1. /\ m.db \in Database /\ m.writer \in [Writers -> Places]
        /\ m.ulog \in Contents /\ m.now \in Nat /\ m.ulog.last_sno \in Nat
    BY MasterTypes, FieldTypes
  <1>2. T \in Nat /\ 1 <= T /\ m.now < T /\ m.now <= T
    BY ONLY <1>1
  <1>3. n.now = T /\ Logs(m.ulog, T, upd, n.ulog)
    OBVIOUS
  <1>0. T = m.now + 1
    OBVIOUS
  <1> HIDE DEF T
  <1>4. Ring(m.ulog, T)
    BY <1>1, <1>2, RingLater
  <1>5. /\ n.ulog \in Contents /\ Ring(n.ulog, n.now)
        /\ Forgets(m.ulog, n.ulog, m.now) /\ m.now <= n.now
    BY <1>1, <1>2, <1>3, <1>4, LogsRing
  <1>6. PICK e : IsNext(e, m.ulog, T, upd) /\ Appended(m.ulog, e, n.ulog)
    BY <1>1, <1>2, <1>3, <1>4, LogsRing
  <1> DEFINE b == m.ulog.last_sno
             c == e.sno
  <1>7. e \in Entry /\ c = b + 1 /\ e.time = T /\ e.upd = upd
    BY <1>6 DEF IsNext
  <1>8. 1 <= e.time /\ e.time <= T /\ 1 <= c
    BY ONLY <1>1, <1>2, <1>7
  <1>9. n.ulog.last_sno = c
    BY <1>6 DEF Appended
  <1>10. upd \in [princ : Princ, val : Val \cup {Absent}]
    BY IpropAssumption DEF IpropAssumption
  <1>11. \A x \in Writers : x # w => n.writer[x] = m.writer[x]
    BY <1>1
  <1>12. \A f : f[c] = upd => f[c].princ = upd.princ /\ f[c].val = upd.val
    OBVIOUS
  <1>13. ASSUME NEW pos \in Position, pos.time <= m.now, Known(n, pos)
         PROVE  /\ Known(m, pos) /\ pos.sno \in Nat /\ pos.sno <= b
                /\ Story(n.ulog)[c] = upd
                /\ \A s \in pos.sno + 1 .. b : Story(n.ulog)[s] = Story(m.ulog)[s]
    <2>1. ~n.lost /\ CanUpdate(n.ulog, pos)
      BY <1>13 DEF Known
    <2>2. pos.time < e.time
      <3>1. pos.time \in Nat
        BY DEF Position
      <3> QED
        BY ONLY <1>1, <1>2, <1>7, <1>13, <3>1
    <2>3. /\ CanUpdate(m.ulog, pos) /\ 1 <= pos.sno
          /\ pos.sno < c /\ c - pos.sno < ulogentries
      BY <1>1, <1>2, <1>4, <1>6, <1>7, <1>8, <2>1, <2>2, AppendedKnows
    <2>4. pos.sno \in Nat /\ ulogentries \in Nat /\ MaxSno \in Nat
      <3>1. pos.sno \in Sno
        BY DEF Position
      <3> QED
        BY ONLY <3>1, UlogAssumption DEF Sno
    <2>a. /\ b \in Nat /\ c = b + 1 /\ 1 <= pos.sno /\ pos.sno < c
          /\ c - pos.sno < ulogentries
      BY <1>1, <1>7, <2>3
    <2>5. pos.sno <= b
      <3> HIDE DEF b, c
      <3> QED
        BY ONLY <2>4, <2>a
    <2>6. /\ Story(n.ulog)[c] = upd
          /\ \A s \in Sno : 1 <= s /\ s < c /\ c - s < ulogentries =>
               Story(n.ulog)[s] = Story(m.ulog)[s]
      <3>1. /\ Story(n.ulog)[c] = e.upd
            /\ \A s \in Sno : 1 <= s /\ s < c /\ c - s < ulogentries =>
                 Story(n.ulog)[s] = Story(m.ulog)[s]
        BY ONLY <1>1, <1>6, <1>7, <1>8, StoryNext, Zenon
      <3> QED
        BY ONLY <1>7, <3>1, Zenon
    <2>7. \A s \in pos.sno + 1 .. b :
             s \in Sno /\ 1 <= s /\ s < c /\ c - s < ulogentries
      <3>1. b \in Sno
        BY <1>1, FieldTypes
      <3> HIDE DEF b, c
      <3>2. ASSUME NEW s \in pos.sno + 1 .. b
            PROVE  s \in Sno /\ 1 <= s /\ s < c /\ c - s < ulogentries
        <4>1. s \in Nat /\ pos.sno < s /\ s <= b
          BY ONLY <2>4, <2>a, s \in pos.sno + 1 .. b
        <4>2. b <= MaxSno
          BY ONLY <3>1, <2>4 DEF Sno
        <4>3. s \in Sno
          BY ONLY <2>4, <2>a, <4>1, <4>2 DEF Sno
        <4>4. 1 <= s /\ s < c /\ c - s < ulogentries
          BY ONLY <2>4, <2>a, <4>1
        <4> QED
          BY <4>3, <4>4
      <3> QED
        BY <3>2
    <2>8. \A s \in pos.sno + 1 .. b : Story(n.ulog)[s] = Story(m.ulog)[s]
      BY <2>6, <2>7
    <2> QED
      BY <2>1, <2>3, <2>4, <2>5, <2>6, <2>8 DEF Known
  <1>14. ASSUME NEW pos \in Position, pos.time <= m.now, Known(n, pos),
                NEW p \in Princ, NEW db, PrincTold(m, db, pos, p)
         PROVE  PrincTold(n, db, pos, p)
    <2> DEFINE a == pos.sno
               f == Story(n.ulog)
    <2>1. /\ a \in Nat /\ a <= b /\ b \in Nat
          /\ f[c] = upd /\ \A s \in a + 1 .. b : f[s] = Story(m.ulog)[s]
      BY <1>1, <1>13, <1>14
    <2>2. f[c].princ = upd.princ /\ f[c].val = upd.val
      BY <1>12, <2>1
    <2>3. n.db[p] = m.db[p]
      OBVIOUS
    <2> HIDE DEF f, a, b, c
    <2>4. /\ \A old : f[c].princ = p => Leaves(f, a, c, old, p, f[c].val)
          /\ \A old, v : f[c].princ # p /\ Leaves(f, a, b, old, p, v) =>
                           Leaves(f, a, c, old, p, v)
      BY <1>7, <2>1, LeavesMore
    <2>5. CASE p = upd.princ
      <3>1. CASE m.db[p] = upd.val
        <4>1. Leaves(f, a, c, db[p], p, n.db[p])
          BY <2>2, <2>3, <2>4, <2>5, <3>1
        <4> QED
          BY <1>9, <4>1 DEF PrincTold, f, a
      <3>2. CASE m.db[p] # upd.val
        <4>1. ~n.lost
          BY <1>14 DEF Known
        <4>2. PICK x \in Writers \ {w} : m.writer[x] =
                     AtLog([princ |-> upd.princ, val |-> m.db[upd.princ]])
          BY <2>5, <3>2, <4>1 DEF Vouched
        <4> QED
          BY <1>11, <2>3, <2>5, <4>2 DEF PrincTold
      <3> QED
        BY <3>1, <3>2
    <2>6. CASE p # upd.princ
      <3>1. CASE Leaves(Story(m.ulog), a, b, db[p], p, m.db[p])
        <4>1. Leaves(f, a, b, db[p], p, m.db[p])
          BY ONLY <2>1, <3>1, LeavesSame, Zenon
        <4>2. Leaves(f, a, c, db[p], p, n.db[p])
          BY <2>2, <2>3, <2>4, <2>6, <4>1
        <4> QED
          BY <1>9, <4>2 DEF PrincTold, f, a
      <3>2. CASE \E x \in Writers : m.writer[x] = AtLog([princ |-> p, val |-> m.db[p]])
        <4>1. PICK x \in Writers : m.writer[x] = AtLog([princ |-> p, val |-> m.db[p]])
          BY <3>2
        <4>2. [princ |-> p, val |-> m.db[p]] \in Update
          <5>1. m.db[p] \in Val \cup {Absent}
            BY <1>1 DEF Database
          <5> QED
            BY <5>1, IpropAssumption DEF IpropAssumption
        <4>3. x # w
          <5>1. SUFFICES ASSUME x = w PROVE FALSE
            OBVIOUS
          <5>2. AtLog(upd) = AtLog([princ |-> p, val |-> m.db[p]])
            BY <4>1, <5>1
          <5>3. upd = [princ |-> p, val |-> m.db[p]]
            <6> DEFINE told == [princ |-> p, val |-> m.db[p]]
            <6>1. told \in Update /\ AtLog(upd) = AtLog(told)
              BY <4>2, <5>2
            <6> HIDE DEF told
            <6>2. AtLog(upd).upd = upd /\ AtLog(told).upd = told
              BY ONLY <6>1, upd \in Update, PlacesAre, Zenon
            <6>3. upd = told
              BY ONLY <6>1, <6>2, Zenon
            <6> QED
              BY <6>3 DEF told
          <5>4. upd.princ = p
            BY ONLY <5>3
          <5> QED
            BY <2>6, <5>4
        <4> QED
          BY <1>11, <2>3, <4>1, <4>3 DEF PrincTold
      <3> QED
        BY <1>14, <3>1, <3>2 DEF PrincTold, a, b
    <2> QED
      BY <2>5, <2>6
  <1>15. ASSUME NEW pol, PolTold(m, pol)
         PROVE  PolTold(n, pol)
    <2>1. m.writer[w] # AtPolicy
      BY PlacesAre
    <2> QED
      BY <1>11, <1>15, <2>1 DEF PolTold
  <1>16. ASSUME NEW db, NEW pol, NEW pos \in Position, Told(m, db, pol, pos)
         PROVE  Told(n, db, pol, pos)
    <2>1. pos.time <= m.now
      BY <1>16 DEF Told
    <2>2. pos.time <= n.now
      BY <1>5, <2>1, StillPast
    <2>3. Known(n, pos) => Known(m, pos)
      BY <1>13, <2>1
    <2>4. ASSUME Known(n, pos)
          PROVE  PolTold(n, pol) /\ \A p \in Princ : PrincTold(n, db, pos, p)
      <3>1. PolTold(m, pol) /\ \A p \in Princ : PrincTold(m, db, pos, p)
        BY <1>16, <2>3, <2>4 DEF Told
      <3> QED
        BY <1>14, <1>15, <2>1, <2>4, <3>1
    <2> QED
      BY <2>2, <2>4 DEF Told
  <1> QED
    BY <1>5, <1>16 DEF Forth

-----------------------------------------------------------------------------
(* The invariant.                                                             *)

JobState  == [pc : {"idle", "check", "dump", "princs", "pols", "send"},
              last : Position, db : Database]
LoadState == [pc : {"idle", "init", "promote", "reinit", "setlast"}, dump : Dump]
Reply     == [ret : {"NIL", "OK", "FULL_RESYNC"}, updates : Seq(Entry)]
PollState == [pc : {"poll", "call", "reply"}, mylast : Position, reply : Reply]

(* A dump, whether shared, being written or being loaded, has a position from *)
(* before the master read what is in it.                                      *)
Dumped(m, file, jb, ld) ==
    /\ Told(m, file.db, file.pol, file.last)
    /\ Told(m, ld.dump.db, ld.dump.pol, ld.dump.last)
    /\ \A j \in Jobs :
         /\ jb[j].pc = "princs" => Told(m, m.db, m.pol, jb[j].last)
         /\ jb[j].pc = "pols" => Told(m, jb[j].db, m.pol, jb[j].last)

(* A resync is under way; and it is the only one. *)
Busy(jb, ld) == ld.pc # "idle" \/ \E j \in Jobs : jb[j].pc # "idle"
Single(jb, ld) ==
    /\ \A j, k \in Jobs : jb[j].pc # "idle" /\ jb[k].pc # "idle" => j = k
    /\ ld.pc # "idle" => \A j \in Jobs : jb[j].pc = "idle"

(* The position that kpropd polls with is still its log's, or one that the    *)
(* master does not know; and it is served none of the others.                 *)
Polled(m, jb, ld, u, kp) ==
    /\ kp.pc = "call" => kp.mylast = LastPos(u) \/ Dead(m, kp.mylast)
    /\ kp.pc = "reply" /\ kp.reply.ret = "FULL_RESYNC" => Dead(m, kp.mylast)
    /\ kp.pc = "reply" /\ kp.reply.ret # "FULL_RESYNC" =>
         kp.mylast = LastPos(u) /\ ~Busy(jb, ld)

(* Where a replica at pos is after the first k of updates. *)
At(pos, updates, k) == IF k = 0 THEN pos ELSE PosOf(updates[k])

(* A replica at pos may put the updates it was sent up to any of them, and    *)
(* say that it has put them all, or all but the last.                         *)
Served(m, db, pol, pos, updates) ==
    \A k \in 0 .. Len(updates) : \A d \in Database :
       (\A p \in Princ : Leaves(Sent(updates), 0, k, db[p], p, d[p])) =>
         /\ Told(m, d, pol, At(pos, updates, k))
         /\ k # 0 => Told(m, d, pol, At(pos, updates, k - 1))

(* The replica, as long as resyncs do not overlap. *)
Serial(m, jb, ld, db, pol, u, kp) ==
    /\ Single(jb, ld) /\ (Busy(jb, ld) => Dead(m, LastPos(u)))
    /\ Polled(m, jb, ld, u, kp)
    /\ kp.pc = "reply" /\ kp.reply.ret = "OK" =>
         Served(m, db, pol, kp.mylast, kp.reply.updates)
    /\ ld.pc \in {"reinit", "setlast"} => db = ld.dump.db /\ pol = ld.dump.pol
    /\ Told(m, db, pol, LastPos(u))

(* The inductive invariant. *)
IInv ==
    /\ Master \in MasterState /\ Ring(mulog, now)
    /\ dumpfile \in Dump /\ job \in [Jobs -> JobState] /\ load \in LoadState
    /\ rdb \in Database /\ rpol \in 0 .. MaxPol /\ rulog \in Contents /\ rulog.num # 0
    /\ kpropd \in PollState /\ AllUpdates(kpropd.reply.updates)
    /\ frrequested \in BOOLEAN /\ overlap \in BOOLEAN
    /\ losses \in 0 .. MaxLoss /\ deaths \in 0 .. MaxDeath
    /\ Dumped(Master, dumpfile, job, load)
    /\ ~overlap => Serial(Master, job, load, rdb, rpol, rulog, kpropd)

-----------------------------------------------------------------------------
(* What a step of the master leaves of it.                                    *)

(* A position that the master does not know it will not know. *)
LEMMA DeadForth ==
  ASSUME NEW m \in MasterState, NEW n \in MasterState, Forth(m, n),
         NEW pos \in Position, Dead(m, pos)
  PROVE  Dead(n, pos)
  <1>1. pos.time <= m.now /\ ~CanUpdate(m.ulog, pos) /\ m.now <= n.now
    BY DEF Dead, Forth
  <1>2. pos.time <= n.now
    BY <1>1, StillPast
  <1>3. ~CanUpdate(n.ulog, pos)
    BY <1>1 DEF Forth, Forgets
  <1> QED
    BY <1>2, <1>3 DEF Dead

(* The types of the parts of the resync and of the replica. *)
LEMMA DumpTypes ==
  ASSUME NEW d \in Dump
  PROVE  d.last \in Position /\ d.db \in Database /\ d.pol \in 0 .. MaxPol
  BY DEF Dump

(* The fields of a job of kprop.                                             *)
LEMMA JobTypes ==
  ASSUME NEW jb \in [Jobs -> JobState], NEW j \in Jobs
  PROVE  jb[j] \in JobState /\ jb[j].last \in Position /\ jb[j].db \in Database
  BY DEF JobState

(* The fields of a load.                                                     *)
LEMMA LoadTypes ==
  ASSUME NEW ld \in LoadState
  PROVE  ld.dump \in Dump
  BY DEF LoadState

(* The fields of kpropd.                                                     *)
LEMMA PollTypes ==
  ASSUME NEW kp \in PollState
  PROVE  /\ kp.mylast \in Position /\ kp.reply \in Reply
         /\ kp.reply.ret \in {"NIL", "OK", "FULL_RESYNC"}
         /\ kp.reply.updates \in Seq(Entry)
  BY DEF PollState, Reply

(* What the header of a log says of its position.                            *)
LEMMA LastPosType ==
  ASSUME NEW u \in Contents
  PROVE  LastPos(u) \in Position /\ LastPos(u).time = u.last_time
  <1>1. u.last_sno \in Sno /\ u.last_time \in Nat
    BY FieldTypes
  <1> QED
    BY <1>1, SMT DEF LastPos, Position

(* The position of an entry.                                                 *)
LEMMA PosOfType ==
  ASSUME NEW e \in Entry
  PROVE  PosOf(e) \in Position /\ PosOf(e).sno = e.sno /\ PosOf(e).time = e.time
  <1>1. e.sno \in Sno /\ e.time \in Nat
    BY DEF Entry
  <1> QED
    BY <1>1, SMT DEF PosOf, Position

(* A position reached by the first k updates of a reply.                     *)
LEMMA AtType ==
  ASSUME NEW pos \in Position, NEW updates, AllUpdates(updates),
         NEW k \in 0 .. Len(updates)
  PROVE  /\ At(pos, updates, k) \in Position
         /\ k # 0 => k - 1 \in 0 .. Len(updates) /\ At(pos, updates, k - 1) \in Position
  <1>0. Len(updates) \in Nat
    BY DEF AllUpdates
  <1>1. ASSUME NEW i \in 0 .. Len(updates)
        PROVE  At(pos, updates, i) \in Position
    <2>1. CASE i = 0
      BY <2>1 DEF At
    <2>2. CASE i # 0
      <3>1. i \in 1 .. Len(updates)
        BY <1>0, <2>2, SMT
      <3> QED
        BY <2>2, <3>1, PosOfType DEF At, AllUpdates
    <2> QED
      BY <2>1, <2>2
  <1>2. k # 0 => k - 1 \in 0 .. Len(updates)
    BY <1>0, SMT
  <1> QED
    BY <1>1, <1>2

(* Dumps. *)
LEMMA DumpedForth ==
  ASSUME NEW m \in MasterState, NEW n \in MasterState, Forth(m, n),
         NEW file \in Dump, NEW jb \in [Jobs -> JobState], NEW ld \in LoadState,
         Dumped(m, file, jb, ld)
  PROVE  Dumped(n, file, jb, ld)
  <1>1. /\ \A db, pol : \A pos \in Position : Told(m, db, pol, pos) => Told(n, db, pol, pos)
        /\ \A pos \in Position : Told(m, m.db, m.pol, pos) => Told(n, n.db, n.pol, pos)
    BY DEF Forth
  <1>2. file.last \in Position /\ ld.dump.last \in Position
    BY DumpTypes, LoadTypes
  <1>3. ASSUME NEW j \in Jobs
        PROVE  /\ jb[j].pc = "princs" => Told(n, n.db, n.pol, jb[j].last)
               /\ jb[j].pc = "pols" => Told(n, jb[j].db, n.pol, jb[j].last)
    <2>1. jb[j].last \in Position
      BY JobTypes
    <2>2. Told(m, jb[j].db, m.pol, jb[j].last) => Told(n, jb[j].db, n.pol, jb[j].last)
      BY <1>1, <2>1, ToldPol
    <2> QED
      BY <1>1, <2>1, <2>2 DEF Dumped
  <1> QED
    BY <1>1, <1>2, <1>3 DEF Dumped

(* Updates that are on their way. *)
LEMMA ServedForth ==
  ASSUME NEW m \in MasterState, NEW n \in MasterState, Forth(m, n),
         NEW db, NEW pol, NEW pos \in Position, NEW updates, AllUpdates(updates),
         Served(m, db, pol, pos, updates)
  PROVE  Served(n, db, pol, pos, updates)
  <1>1. \A d, q : \A x \in Position : Told(m, d, q, x) => Told(n, d, q, x)
    BY DEF Forth
  <1>2. SUFFICES ASSUME NEW k \in 0 .. Len(updates), NEW d \in Database,
                        \A p \in Princ : Leaves(Sent(updates), 0, k, db[p], p, d[p])
                 PROVE  /\ Told(n, d, pol, At(pos, updates, k))
                        /\ k # 0 => Told(n, d, pol, At(pos, updates, k - 1))
    BY DEF Served
  <1>3. /\ Told(m, d, pol, At(pos, updates, k))
        /\ k # 0 => Told(m, d, pol, At(pos, updates, k - 1))
    BY <1>2 DEF Served
  <1> QED
    BY <1>1, <1>3, AtType

(* The replica. *)
LEMMA SerialForth ==
  ASSUME NEW m \in MasterState, NEW n \in MasterState, Forth(m, n),
         NEW jb, NEW ld, NEW db, NEW pol, NEW u \in Contents,
         NEW kp \in PollState, AllUpdates(kp.reply.updates),
         Serial(m, jb, ld, db, pol, u, kp)
  PROVE  Serial(n, jb, ld, db, pol, u, kp)
  <1>1. LastPos(u) \in Position /\ kp.mylast \in Position
    BY LastPosType, PollTypes
  <1>2. /\ Dead(m, LastPos(u)) => Dead(n, LastPos(u))
        /\ Dead(m, kp.mylast) => Dead(n, kp.mylast)
        /\ Told(m, db, pol, LastPos(u)) => Told(n, db, pol, LastPos(u))
    BY <1>1, DeadForth DEF Forth
  <1>3. /\ Single(jb, ld) /\ (Busy(jb, ld) => Dead(m, LastPos(u)))
        /\ Polled(m, jb, ld, u, kp)
        /\ kp.pc = "reply" /\ kp.reply.ret = "OK" =>
             Served(m, db, pol, kp.mylast, kp.reply.updates)
        /\ ld.pc \in {"reinit", "setlast"} => db = ld.dump.db /\ pol = ld.dump.pol
        /\ Told(m, db, pol, LastPos(u))
    BY DEF Serial
  <1>4. Polled(n, jb, ld, u, kp)
    BY <1>2, <1>3 DEF Polled
  <1>5. kp.pc = "reply" /\ kp.reply.ret = "OK" =>
          Served(n, db, pol, kp.mylast, kp.reply.updates)
    BY <1>1, <1>3, ServedForth
  <1> QED
    BY <1>2, <1>3, <1>4, <1>5 DEF Serial

=============================================================================
