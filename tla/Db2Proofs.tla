----------------------------- MODULE Db2Proofs ------------------------------
(***************************************************************************)
(* The locks of the db2 back end do what they are for, whatever the number *)
(* of processes, principals, promotions and policy lock files.             *)
(*                                                                         *)
(* The counts that ctx_lock() and osa_adb_get_lock() keep are determined   *)
(* by where a process is: one for every call on its stack that has got     *)
(* that far, less the one an unlocked iteration has given back.  So a      *)
(* process in no call holds nothing, and a call inside another finds the   *)
(* locks of the outer one, which is never the weaker; everything else      *)
(* follows from that and from the kernel's keeping locks apart.  For the   *)
(* iterations: whoever takes principals away has the database to itself,   *)
(* so a locked iteration sees only its own process do it.                  *)
(***************************************************************************)
EXTENDS Db2, WellFoundedInduction, TLAPS

(* The leaves are for Zenon, unless they name another prover or say ONLY. *)
USE Zenon

(* A set of natural numbers has a least one: the next principal of an         *)
(* iteration.                                                                 *)
LEMMA LeastExists ==
  ASSUME NEW S \in SUBSET Nat, S # {}
  PROVE  \E x \in S : \A y \in S : x =< y
  <1> DEFINE R == {ss \in Nat \X Nat : ss[1] < ss[2]}
  <1>1. IsWellFoundedOn(R, Nat)
    BY NatLessThanWellFounded, SMT DEF OpToRel
  <1>2. PICK x \in S : \A y \in S : ~ (<<y, x>> \in R)
    <2> HIDE DEF R
    <2> QED
      BY <1>1, WFMin
  <1>3. ASSUME NEW y \in S
        PROVE  x =< y
    <2>1. ~ (<<y, x>> \in R) /\ x \in Nat /\ y \in Nat
      BY <1>2, SMT
    <2> QED
      BY <2>1, SMT
  <1> QED
    BY <1>3, SMT

(* A bounded one has a greatest: the previous principal of an iteration. *)
LEMMA GreatestExists ==
  ASSUME NEW n \in Nat, NEW S \in SUBSET (0 .. n), S # {}
  PROVE  \E x \in S : \A y \in S : x >= y
  <1> DEFINE T == {k \in 0 .. n : n - k \in S}
  <1>1. ASSUME NEW z \in S
        PROVE  n - z \in T
    <2>1. z \in 0 .. n /\ n - z \in 0 .. n /\ n - (n - z) = z
      BY SMT
    <2> QED
      BY <2>1, SMT
  <1>2. T \in SUBSET Nat
    BY SMT
  <1>3. T # {}
    BY <1>1
  <1>4. \A k \in T : k \in Nat /\ n - k \in S
    BY SMT
  <1> HIDE DEF T
  <1>5. PICK m \in T : \A y \in T : m =< y
    BY <1>2, <1>3, LeastExists, SMT
  <1>6. ASSUME NEW y \in S
        PROVE  n - m >= y
    <2>1. m =< n - y
      BY <1>1, <1>5, SMT
    <2> QED
      BY <2>1, <1>4, SMT
  <1> QED
    BY <1>4, <1>6, SMT

USE DEF SHARED, EXCLUSIVE, PERMANENT, NULL, O_RDONLY, O_RDWR

Types ==
    /\ plk \in [Proc -> 0 .. 2] /\ alk \in [Proc -> 0 .. 2]
    /\ afd \in [Proc -> Nat] /\ afile \in Nat /\ ninode \in Nat
    /\ db_locks_held \in [Proc -> Nat] /\ lockcnt \in [Proc -> Nat]
    /\ db_lock_mode \in [Proc -> 0 .. 2] /\ db \in [Proc -> 0 .. 2]
    /\ lockmode \in [Proc -> {0, 1, 2, 8}]
    /\ stack \in [Proc -> Seq(Frame)]
    /\ pc \in [Proc -> {"run", "lock", "policy", "callback", "renamed"}]

(* What the lock state of one process says about itself. *)
Regs(p) ==
    /\ db_lock_mode[p] = plk[p] /\ db[p] = plk[p]
    /\ db_locks_held[p] = 0 <=> plk[p] = 0
    /\ lockmode[p] = 0 => lockcnt[p] = 0
    /\ lockcnt[p] = 0 => lockmode[p] \in {0, PERMANENT}
    /\ lockmode[p] = PERMANENT => afd[p] = 0
    /\ alk[p] = IF lockmode[p] = PERMANENT THEN 0 ELSE lockmode[p]

(* The calls in the callback of an iteration. *)
Under(f, g) ==
    /\ g.op \in {"get", "put", "delete"}
    /\ g.op = "get" \/ f.mode = EXCLUSIVE

(* Which calls are under which. *)
Calls(s) ==
    \A i \in 1 .. Len(s) :
        /\ s[i].mode \in Modes(s[i].op)
        /\ i > 1 => s[i].op \notin {"lock", "promote"}
        /\ i < Len(s) =>
            /\ s[i].op \in {"lock", "iterate"}
            /\ s[i].op = "iterate" => i = Len(s) - 1 /\ Under(s[i], s[Len(s)])

(* And where the innermost one can be. *)
Nested(p) ==
    /\ Calls(stack[p])
    /\ Len(stack[p]) = 0 => pc[p] = "run"
    /\ pc[p] = "lock" => Top(p).op \notin PolicyOps
    /\ pc[p] = "callback" => Top(p).op = "iterate"
    /\ pc[p] = "renamed" => Top(p).op = "promote"

(* An unlocked iteration is between two entries. *)
Released(p) ==
    /\ p \in unlockiter
    /\ \/ pc[p] = "callback"
       \/ Len(stack[p]) > 1 /\ stack[p][Len(stack[p]) - 1].op = "iterate"

One(b) == IF b THEN 1 ELSE 0

Counts(p) ==
    /\ db_locks_held[p] = Len(stack[p]) - One(Released(p))
           - One(Len(stack[p]) > 0 /\ Top(p).op \in PolicyOps)
           - One(pc[p] = "lock")
    /\ lockcnt[p] = Len(stack[p]) - One(Released(p))
           - One(pc[p] \in {"lock", "policy"})

(* The outermost call that has not given its lock back. *)
Base(p) ==
    IF Released(p) /\ stack[p][1].op = "iterate" THEN Top(p) ELSE stack[p][1]

Writes(p) == Len(stack[p]) > 0 /\ Base(p).mode >= EXCLUSIVE

(* It has the lock it asked for. *)
Strong(p) ==
    Writes(p) =>
        /\ db_locks_held[p] > 0 => plk[p] = EXCLUSIVE
        /\ lockcnt[p] > 0 => lockmode[p] >= EXCLUSIVE

Sane(p) == Regs(p) /\ Nested(p) /\ Counts(p) /\ Strong(p)

(* The kernel keeps exclusive locks apart from all others. *)
Apart == \A p, q \in Proc : p # q /\ plk[p] = EXCLUSIVE => plk[q] = 0

(* While the policy lock file is missing, whoever has both locks has a *)
(* permanent one.                                                      *)
Permanent ==
    afile = 0 => \A p \in Proc :
        db_locks_held[p] > 0 /\ lockcnt[p] > 0 => lockmode[p] = PERMANENT

(* The databases differ only during a promotion, or after a torn one. *)
Whole == torn \/ (\E p \in Proc : pc[p] = "renamed") \/ dbgen = polgen

IInv ==
    /\ Types
    /\ \A p \in Proc : Sane(p)
    /\ Apart /\ Permanent /\ Whole

-----------------------------------------------------------------------------
(* A call, and its return. *)
LEMMA PushFacts ==
  ASSUME NEW s \in Seq(Frame), NEW f \in Frame
  PROVE  /\ Append(s, f) \in Seq(Frame) /\ Len(Append(s, f)) = Len(s) + 1
         /\ \A i \in 1 .. Len(s) : Append(s, f)[i] = s[i]
         /\ Append(s, f)[Len(s) + 1] = f
  BY SMT

(* What is left of the calls of a process when the innermost one returns. *)
LEMMA PopFacts ==
  ASSUME NEW s \in Seq(Frame), s # <<>>
  PROVE  /\ Pop(s) \in Seq(Frame) /\ Len(Pop(s)) = Len(s) - 1 /\ Len(s) > 0
         /\ \A i \in 1 .. Len(s) - 1 : Pop(s)[i] = s[i]
  <1>1. /\ Len(s) \in Nat /\ Len(s) > 0 /\ Len(s) - 1 \in Nat
        /\ \A i \in 1 .. Len(s) - 1 : s[i] \in Frame
    BY SMT
  <1>2. ASSUME NEW n \in Nat, \A i \in 1 .. n : s[i] \in Frame
        PROVE  /\ SubSeq(s, 1, n) \in Seq(Frame) /\ Len(SubSeq(s, 1, n)) = n
               /\ \A i \in 1 .. n : SubSeq(s, 1, n)[i] = s[i]
    BY <1>2, SMT
  <1>3. /\ SubSeq(s, 1, Len(s) - 1) \in Seq(Frame)
        /\ Len(SubSeq(s, 1, Len(s) - 1)) = Len(s) - 1
        /\ \A i \in 1 .. Len(s) - 1 : SubSeq(s, 1, Len(s) - 1)[i] = s[i]
    BY <1>1, <1>2
  <1> QED
    BY <1>1, <1>3 DEF Pop

(* An outermost iteration has at most one call under it. *)
LEMMA IterateBelow ==
  ASSUME NEW s \in Seq(Frame), Calls(s), s # <<>>, s[1].op = "iterate"
  PROVE  \/ Len(s) = 1
         \/ Len(s) = 2 /\ Under(s[1], s[Len(s)])
  <1>1. Len(s) \in Nat /\ Len(s) > 0
    BY SMT
  <1>2. ASSUME NEW n \in Nat, n > 0
        PROVE  /\ 1 \in 1 .. n
               /\ n = 1 \/ 1 < n
               /\ 1 = n - 1 => n = 2
    BY ONLY <1>2, SMT
  <1>3. /\ 1 \in 1 .. Len(s)
        /\ Len(s) = 1 \/ 1 < Len(s)
        /\ 1 = Len(s) - 1 => Len(s) = 2
    BY <1>1, <1>2
  <1> QED
    BY <1>3 DEF Calls

(* What one process does leaves the others' locks and calls alone. *)
Others(p) ==
    \A q \in Proc \ {p} :
        /\ plk'[q] = plk[q] /\ alk'[q] = alk[q] /\ db'[q] = db[q]
        /\ db_locks_held'[q] = db_locks_held[q]
        /\ db_lock_mode'[q] = db_lock_mode[q]
        /\ lockmode'[q] = lockmode[q] /\ lockcnt'[q] = lockcnt[q]
        /\ afd'[q] = afd[q]

Elsewhere(p) ==
    \A q \in Proc \ {p} : stack'[q] = stack[q] /\ pc'[q] = pc[q]

(* The other processes stay sane: locks and counts are per process. *)
LEMMA SaneElsewhere ==
  ASSUME NEW p \in Proc, NEW q \in Proc \ {p}, Others(p), Elsewhere(p), Sane(q)
  PROVE  Sane(q)'
  <1>1. /\ plk'[q] = plk[q] /\ alk'[q] = alk[q] /\ db'[q] = db[q]
        /\ db_locks_held'[q] = db_locks_held[q]
        /\ db_lock_mode'[q] = db_lock_mode[q]
        /\ lockmode'[q] = lockmode[q] /\ lockcnt'[q] = lockcnt[q]
        /\ afd'[q] = afd[q] /\ stack'[q] = stack[q] /\ pc'[q] = pc[q]
    BY DEF Others, Elsewhere
  <1>2. Top(q)' = Top(q) /\ (Released(q)' <=> Released(q))
    BY <1>1 DEF Top, Released
  <1>3. Regs(q)' /\ Nested(q)' /\ Strong(q)'
    BY <1>1, <1>2 DEF Sane, Regs, Nested, Strong, Writes, Base
  <1>4. Counts(q)'
    <2>1. One(Released(q)') = One(Released(q))
      BY <1>2 DEF One
    <2> QED
      BY <1>1, <1>2, <2>1 DEF Sane, Counts
  <1> QED
    BY <1>3, <1>4 DEF Sane

-----------------------------------------------------------------------------
(* The last release of a permanent lock creates the lock file, or does not. *)
LEMMA RecreateFacts ==
  ASSUME Types, NEW p \in Proc, Regs(p), lockmode[p] = PERMANENT,
         recreate_lockfile(p)
  PROVE  /\ lockmode' \in [Proc -> {0, 1, 2, 8}] /\ afd' \in [Proc -> Nat]
         /\ afile' \in Nat /\ ninode' \in Nat
         /\ \/ lockmode'[p] = lockmode[p] /\ afd'[p] = afd[p]
            \/ lockmode'[p] = 0
         /\ afile' # 0 \/ afile' = afile
         /\ \A q \in Proc \ {p} : lockmode'[q] = lockmode[q] /\ afd'[q] = afd[q]
  <1>1. ninode \in Nat /\ ninode + 1 \in Nat /\ ninode + 1 # 0 /\ 0 \in {0, 1, 2, 8}
    BY SMT DEF Types
  <1>2. CASE UNCHANGED <<lockmode, afd, afile, ninode>>
    BY <1>2 DEF Types
  <1>3. CASE /\ UNCHANGED <<lockmode, afd>>
             /\ ninode' = ninode + 1 /\ afile' = ninode + 1
    BY <1>1, <1>3 DEF Types
  <1>4. CASE /\ lockmode' = [lockmode EXCEPT ![p] = 0]
             /\ afd' = [afd EXCEPT ![p] = ninode + 1]
             /\ ninode' = ninode + 1 /\ afile' = ninode + 1
    BY <1>1, <1>4 DEF Types
  <1> QED
    BY <1>2, <1>3, <1>4 DEF recreate_lockfile

(* osa_adb_release_lock() counts down, and lets go at zero, unless it fails *)
(* to create the lock file.                                                 *)
LEMMA ReleaseFacts ==
  ASSUME Types, NEW p \in Proc, Regs(p), osa_adb_release_lock(p)
  PROVE  /\ alk' \in [Proc -> 0 .. 2] /\ lockmode' \in [Proc -> {0, 1, 2, 8}]
         /\ lockcnt' \in [Proc -> Nat] /\ afd' \in [Proc -> Nat]
         /\ afile' \in Nat /\ ninode' \in Nat
         /\ lockcnt'[p] = IF lockcnt[p] = 0 THEN 0 ELSE lockcnt[p] - 1
         /\ \/ lockmode'[p] = lockmode[p] /\ afd'[p] = afd[p]
            \/ lockmode'[p] = 0 /\ lockcnt'[p] = 0
         /\ lockcnt'[p] = 0 => lockmode'[p] \in {0, PERMANENT}
         /\ alk'[p] = IF lockmode'[p] = PERMANENT THEN 0 ELSE lockmode'[p]
         /\ afile' # 0 \/ afile' = afile
         /\ \A q \in Proc \ {p} :
              /\ alk'[q] = alk[q] /\ lockmode'[q] = lockmode[q]
              /\ lockcnt'[q] = lockcnt[q] /\ afd'[q] = afd[q]
  <1>1. CASE lockcnt[p] = 0
    BY <1>1 DEF osa_adb_release_lock, Types, Regs
  <1>2. CASE lockcnt[p] > 1
    <2>1. /\ lockcnt' = [lockcnt EXCEPT ![p] = @ - 1]
          /\ UNCHANGED <<lockmode, alk, afd, afile, ninode>>
      BY <1>2, SMT DEF osa_adb_release_lock, Types
    <2>2. lockcnt'[p] = lockcnt[p] - 1 /\ lockcnt[p] \in Nat
      BY <2>1 DEF Types
    <2>3. lockcnt' \in [Proc -> Nat]
      BY <1>2, <2>1, <2>2, SMT DEF Types
    <2> QED
      BY <1>2, <2>1, <2>2, <2>3, SMT DEF Types, Regs
  <1>3. CASE lockcnt[p] = 1 /\ lockmode[p] = PERMANENT
    <2>1. /\ lockcnt' = [lockcnt EXCEPT ![p] = 0]
          /\ recreate_lockfile(p) /\ UNCHANGED alk
      BY <1>3, SMT DEF osa_adb_release_lock, Types
    <2>2. lockcnt[p] - 1 = 0 /\ 0 \in Nat /\ lockcnt[p] # 0 /\ PERMANENT # 0
      BY <1>3, SMT
    <2> QED
      BY <1>3, <2>1, <2>2, RecreateFacts DEF Types, Regs
  <1>4. CASE lockcnt[p] = 1 /\ lockmode[p] # PERMANENT
    <2>1. /\ lockcnt' = [lockcnt EXCEPT ![p] = 0]
          /\ lockmode' = [lockmode EXCEPT ![p] = 0]
          /\ alk' = [alk EXCEPT ![p] = 0]
          /\ UNCHANGED <<afd, afile, ninode>>
      BY <1>4, SMT DEF osa_adb_release_lock, Types
    <2>2. lockcnt[p] - 1 = 0 /\ 0 \in 0 .. 2 /\ 0 \in {0, 1, 2, 8} /\ 0 \in Nat
          /\ lockcnt[p] # 0 /\ PERMANENT # 0
      BY <1>4, SMT
    <2> QED
      BY <1>4, <2>1, <2>2 DEF Types, Regs
  <1>5. lockcnt[p] \in Nat
    BY DEF Types
  <1>6. lockcnt[p] = 0 \/ lockcnt[p] = 1 \/ lockcnt[p] > 1
    BY ONLY <1>5
  <1> QED
    BY <1>1, <1>2, <1>3, <1>4, <1>6

(* ctx_unlock() counts down both locks. *)
LEMMA UnlockFacts ==
  ASSUME Types, NEW p \in Proc, Regs(p), ctx_unlock(p)
  PROVE  /\ plk' \in [Proc -> 0 .. 2] /\ alk' \in [Proc -> 0 .. 2]
         /\ afd' \in [Proc -> Nat] /\ afile' \in Nat /\ ninode' \in Nat
         /\ db_locks_held' \in [Proc -> Nat] /\ lockcnt' \in [Proc -> Nat]
         /\ db_lock_mode' \in [Proc -> 0 .. 2] /\ db' \in [Proc -> 0 .. 2]
         /\ lockmode' \in [Proc -> {0, 1, 2, 8}]
         /\ Regs(p)' /\ Others(p)
         /\ lockcnt'[p] = IF lockcnt[p] = 0 THEN 0 ELSE lockcnt[p] - 1
         /\ lockmode'[p] = lockmode[p] \/ lockcnt'[p] = 0
         /\ db_locks_held'[p] =
                IF db_locks_held[p] = 0 THEN 0 ELSE db_locks_held[p] - 1
         /\ plk'[p] = IF db_locks_held'[p] = 0 THEN 0 ELSE plk[p]
         /\ afile' # 0 \/ afile' = afile
  <1>1. osa_adb_release_lock(p)
    BY DEF ctx_unlock
  <1>2. /\ plk' \in [Proc -> 0 .. 2] /\ db_locks_held' \in [Proc -> Nat]
        /\ db_lock_mode' \in [Proc -> 0 .. 2] /\ db' \in [Proc -> 0 .. 2]
        /\ db_locks_held'[p] =
                IF db_locks_held[p] = 0 THEN 0 ELSE db_locks_held[p] - 1
        /\ plk'[p] = IF db_locks_held'[p] = 0 THEN 0 ELSE plk[p]
        /\ db'[p] = plk'[p] /\ db_lock_mode'[p] = plk'[p]
        /\ \A q \in Proc \ {p} :
            /\ plk'[q] = plk[q] /\ db'[q] = db[q]
            /\ db_locks_held'[q] = db_locks_held[q]
            /\ db_lock_mode'[q] = db_lock_mode[q]
    <2>1. CASE db_locks_held[p] = 0
      BY <2>1 DEF ctx_unlock, Types, Regs
    <2>2. CASE db_locks_held[p] > 1
      <3>1. /\ db_locks_held' = [db_locks_held EXCEPT ![p] = @ - 1]
            /\ UNCHANGED <<plk, db_lock_mode, db>>
        BY <2>2, SMT DEF ctx_unlock, Types
      <3>2. /\ db_locks_held'[p] = db_locks_held[p] - 1
            /\ db_locks_held[p] \in Nat
        BY <3>1 DEF Types
      <3>3. db_locks_held' \in [Proc -> Nat]
        BY <2>2, <3>1, <3>2, SMT DEF Types
      <3> QED
        BY <2>2, <3>1, <3>2, <3>3, SMT DEF Types, Regs
    <2>3. CASE db_locks_held[p] = 1
      <3>1. /\ db_locks_held' = [db_locks_held EXCEPT ![p] = 0]
            /\ plk' = [plk EXCEPT ![p] = 0]
            /\ db_lock_mode' = [db_lock_mode EXCEPT ![p] = 0]
            /\ db' = [db EXCEPT ![p] = 0]
        BY <2>3, SMT DEF ctx_unlock, Types
      <3> QED
        BY <2>3, <3>1, SMT DEF Types, Regs
    <2> QED
      BY <2>1, <2>2, <2>3, SMT DEF Types
  <1>3. Others(p)
    BY <1>1, <1>2, ReleaseFacts, SMT DEF Others
  <1>4. Regs(p)'
    <2>1. /\ \/ lockmode'[p] = lockmode[p] /\ afd'[p] = afd[p]
             \/ lockmode'[p] = 0 /\ lockcnt'[p] = 0
          /\ lockcnt'[p] = IF lockcnt[p] = 0 THEN 0 ELSE lockcnt[p] - 1
          /\ lockcnt'[p] = 0 => lockmode'[p] \in {0, PERMANENT}
          /\ alk'[p] = IF lockmode'[p] = PERMANENT THEN 0 ELSE lockmode'[p]
      BY <1>1, ReleaseFacts
    <2>2. 0 # PERMANENT
      BY SMT
    <2>3. /\ lockmode'[p] = 0 => lockcnt'[p] = 0
          /\ lockmode'[p] = PERMANENT => afd'[p] = 0
      BY <2>1, <2>2 DEF Regs
    <2> QED
      BY <1>2, <2>1, <2>3 DEF Regs
  <1> QED
    BY <1>1, <1>2, <1>3, <1>4, ReleaseFacts

(* A step that takes no lock. *)
Shrinks(p) ==
    /\ db_locks_held'[p] > 0 => db_locks_held[p] > 0 /\ plk'[p] = plk[p]
    /\ lockcnt'[p] > 0 => lockcnt[p] > 0 /\ lockmode'[p] = lockmode[p]
    /\ plk'[p] = 0 \/ plk'[p] = plk[p]
    /\ afile' # 0 \/ afile' = afile

LockTypes ==
    /\ plk \in [Proc -> 0 .. 2] /\ alk \in [Proc -> 0 .. 2]
    /\ afd \in [Proc -> Nat] /\ afile \in Nat /\ ninode \in Nat
    /\ db_locks_held \in [Proc -> Nat] /\ lockcnt \in [Proc -> Nat]
    /\ db_lock_mode \in [Proc -> 0 .. 2] /\ db \in [Proc -> 0 .. 2]
    /\ lockmode \in [Proc -> {0, 1, 2, 8}]

(* Giving locks up disturbs nobody: exclusion and permanence stay. *)
LEMMA ShrinkKeeps ==
  ASSUME NEW p \in Proc, Others(p), Shrinks(p), Apart, Permanent
  PROVE  Apart' /\ Permanent'
  <1>1. \A q \in Proc : plk'[q] = 0 \/ plk'[q] = plk[q]
    BY DEF Others, Shrinks
  <1>2. Apart'
    BY <1>1, SMT DEF Apart
  <1>3. ASSUME afile' = 0, NEW q \in Proc,
               db_locks_held'[q] > 0, lockcnt'[q] > 0
        PROVE  lockmode'[q] = PERMANENT
    BY <1>3 DEF Others, Shrinks, Permanent
  <1>4. Permanent'
    BY <1>3 DEF Permanent
  <1> QED
    BY <1>2, <1>4

(* ctx_unlock() only gives locks up. *)
LEMMA UnlockShrinks ==
  ASSUME Types, NEW p \in Proc, Regs(p), ctx_unlock(p)
  PROVE  LockTypes' /\ Regs(p)' /\ Others(p) /\ Shrinks(p)
  <1>1. LockTypes' /\ Regs(p)' /\ Others(p)
    BY UnlockFacts DEF LockTypes
  <1>2. lockcnt[p] \in Nat /\ db_locks_held[p] \in Nat
    BY DEF Types
  <1>3. /\ lockcnt'[p] = IF lockcnt[p] = 0 THEN 0 ELSE lockcnt[p] - 1
        /\ lockmode'[p] = lockmode[p] \/ lockcnt'[p] = 0
        /\ db_locks_held'[p] =
                IF db_locks_held[p] = 0 THEN 0 ELSE db_locks_held[p] - 1
        /\ plk'[p] = IF db_locks_held'[p] = 0 THEN 0 ELSE plk[p]
        /\ afile' # 0 \/ afile' = afile
    BY UnlockFacts
  <1>4. Shrinks(p)
    BY <1>2, <1>3, SMT DEF Shrinks
  <1> QED
    BY <1>1, <1>4

(* The end of a process, or of a context. *)
LEMMA ClosedFacts ==
  ASSUME Types, NEW p \in Proc, closed(p)
  PROVE  /\ LockTypes' /\ Regs(p)' /\ Others(p) /\ Shrinks(p)
         /\ db_locks_held'[p] = 0 /\ lockcnt'[p] = 0
  <1>1. LockTypes' /\ Others(p)
    BY SMT DEF closed, Types, LockTypes, Others
  <1>2. /\ plk'[p] = 0 /\ alk'[p] = 0 /\ db'[p] = 0 /\ db_lock_mode'[p] = 0
        /\ db_locks_held'[p] = 0 /\ lockcnt'[p] = 0 /\ lockmode'[p] = 0
        /\ afile' = afile
    BY DEF closed, Types
  <1> QED
    BY <1>1, <1>2, SMT DEF Regs, Shrinks

(* A step that touches no lock. *)
LEMMA UnchangedFacts ==
  ASSUME Types, NEW p \in Proc, Regs(p), UNCHANGED lockvars
  PROVE  /\ LockTypes' /\ Regs(p)' /\ Others(p) /\ Shrinks(p)
         /\ db_locks_held'[p] = db_locks_held[p] /\ lockcnt'[p] = lockcnt[p]
  <1>1. LockTypes' /\ Regs(p)' /\ Others(p)
    BY DEF lockvars, Types, LockTypes, Regs, Others
  <1>2. db_locks_held[p] \in Nat /\ lockcnt[p] \in Nat
    BY DEF Types
  <1>3. plk[p] = plk'[p] /\ db_locks_held'[p] = db_locks_held[p]
        /\ lockcnt'[p] = lockcnt[p] /\ lockmode'[p] = lockmode[p]
        /\ afile' = afile
    BY DEF lockvars
  <1> QED
    BY <1>1, <1>2, <1>3 DEF Shrinks

(* Only the process that is between the renames can leave them. *)
LEMMA WholeKept ==
  ASSUME Whole, NEW p \in Proc, Elsewhere(p), pc[p] # "renamed",
         UNCHANGED <<torn, dbgen, polgen>>
  PROVE  Whole'
  <1>1. ASSUME NEW r \in Proc, pc[r] = "renamed"
        PROVE  pc'[r] = "renamed"
    BY <1>1 DEF Elsewhere
  <1> QED
    BY <1>1 DEF Whole

Good(p) ==
    /\ Types' /\ Sane(p)' /\ Others(p) /\ Elsewhere(p)
    /\ Apart' /\ Permanent' /\ Whole'

(* A step of one process that is good for it keeps the whole invariant. *)
LEMMA GoodKeeps ==
  ASSUME IInv, NEW p \in Proc, Good(p)
  PROVE  IInv'
  <1>1. ASSUME NEW q \in Proc
        PROVE  Sane(q)'
    BY SaneElsewhere DEF IInv, Good
  <1> QED
    BY <1>1 DEF IInv, Good

-----------------------------------------------------------------------------
(* A call returns: its caller is where it was. *)
LEMMA ReturnFacts ==
  ASSUME Types, NEW p \in Proc, Nested(p), ~Idle(p), pc[p] # "callback",
         return(p)
  PROVE  /\ stack' \in [Proc -> Seq(Frame)]
         /\ pc' \in [Proc -> {"run", "lock", "policy", "callback", "renamed"}]
         /\ Elsewhere(p) /\ Nested(p)'
         /\ Released(p)' <=> Released(p)
         /\ pc'[p] \in {"run", "callback"}
         /\ Len(stack[p]) \in Nat /\ Len(stack[p]) > 0
         /\ Len(stack'[p]) = Len(stack[p]) - 1
         /\ Len(stack'[p]) > 0 =>
                /\ stack'[p][1] = stack[p][1]
                /\ Top(p).op' \notin PolicyOps
         /\ Released(p) => Len(stack[p]) > 1
  <1> DEFINE s == stack[p]
             t == stack'[p]
             n == Len(s)
  <1>1. s \in Seq(Frame) /\ s # <<>> /\ t = Pop(s)
    BY DEF Types, Idle, return
  <1>2. /\ t \in Seq(Frame) /\ Len(t) = n - 1 /\ n \in Nat /\ n > 0
        /\ \A i \in 1 .. n - 1 : t[i] = s[i]
    <2>1. n \in Nat
      BY <1>1, SMT
    <2> QED
      BY <1>1, <2>1, PopFacts
  <1>3. pc'[p] = IF n > 1 /\ s[n - 1].op = "iterate" THEN "callback" ELSE "run"
    BY DEF return, Types
  <1>4. /\ stack' \in [Proc -> Seq(Frame)]
        /\ pc' \in [Proc -> {"run", "lock", "policy", "callback", "renamed"}]
        /\ Elsewhere(p)
    BY <1>1, <1>2 DEF return, Types, Elsewhere
  <1> HIDE DEF t, n
  <1>5. /\ \A i \in 1 .. n :
            /\ s[i].mode \in Modes(s[i].op)
            /\ i > 1 => s[i].op \notin {"lock", "promote"}
            /\ i < n =>
                /\ s[i].op \in {"lock", "iterate"}
                /\ s[i].op = "iterate" => i = n - 1 /\ Under(s[i], s[n])
    BY DEF Nested, Calls, n
  <1>6. /\ \A i \in 1 .. n - 1 :
            /\ t[i].mode \in Modes(t[i].op)
            /\ i > 1 => t[i].op \notin {"lock", "promote"}
            /\ i < n - 1 => t[i].op = "lock"
    BY <1>2, <1>5, SMT
  <1>7. n > 1 => t[n - 1] = s[n - 1] /\ s[n - 1].op \in {"lock", "iterate"}
    BY <1>2, <1>5, SMT
  <1>8. Nested(p)'
    <2>1. Top(p)' = t[n - 1]
      BY <1>2 DEF Top, t
    <2>2. pc'[p] \in {"run", "callback"} /\ (n = 1 => pc'[p] = "run")
          /\ (pc'[p] = "callback" => n > 1 /\ s[n - 1].op = "iterate")
      BY <1>2, <1>3, SMT
    <2>3. Calls(t)
      BY <1>2, <1>6, <1>7 DEF Calls
    <2> QED
      BY <1>2, <1>7, <2>1, <2>2, <2>3, SMT DEF Nested, t
  <1>9. Released(p)' <=> Released(p)
    <2>1. Released(p) <=> p \in unlockiter /\ n > 1 /\ s[n - 1].op = "iterate"
      BY DEF Released, n
    <2>2. Released(p)' <=> /\ p \in unlockiter
                           /\ \/ pc'[p] = "callback"
                              \/ n - 1 > 1 /\ t[n - 2].op = "iterate"
      <3>1. Len(t) = n - 1 /\ n - 1 - 1 = n - 2
        BY <1>2, SMT
      <3> QED
        BY <3>1 DEF Released, t
    <2>3. n - 1 > 1 => t[n - 2].op = "lock"
      BY <1>2, <1>6, SMT
    <2> QED
      BY <1>3, <2>1, <2>2, <2>3
  <1>10. Released(p) => n > 1
    BY DEF Released, n
  <1>11. n > 1 => t[1] = s[1]
    BY <1>2, SMT
  <1>12. n > 1 => Top(p).op' \notin PolicyOps
    <2>1. Top(p).op' = t[n - 1].op
      BY <1>2 DEF Top, t
    <2> QED
      BY <2>1, <1>7 DEF PolicyOps
  <1> QED
    BY <1>2, <1>3, <1>4, <1>8, <1>9, <1>10, <1>11, <1>12, SMT DEF n, t

(* A call that gives back its lock and returns leaves its process sane. *)
LEMMA ReturnSane ==
  ASSUME Types, NEW p \in Proc, Sane(p), ~Idle(p), pc[p] # "callback",
         return(p), Regs(p)', Shrinks(p),
         db_locks_held'[p] = Len(stack[p]) - 1 - One(Released(p)),
         lockcnt'[p] = Len(stack[p]) - 1 - One(Released(p))
  PROVE  Sane(p)'
  <1>1. /\ Nested(p)' /\ (Released(p)' <=> Released(p))
        /\ pc'[p] \in {"run", "callback"}
        /\ Len(stack[p]) \in Nat /\ Len(stack'[p]) = Len(stack[p]) - 1
        /\ Len(stack'[p]) > 0 =>
                stack'[p][1] = stack[p][1] /\ Top(p).op' \notin PolicyOps
    BY ReturnFacts DEF Sane
  <1>2. Counts(p)'
    <2>1. /\ One(Released(p)') = One(Released(p))
          /\ One(Len(stack'[p]) > 0 /\ Top(p).op' \in PolicyOps) = 0
          /\ One(pc'[p] = "lock") = 0 /\ One(pc'[p] \in {"lock", "policy"}) = 0
          /\ One(Released(p)) \in {0, 1}
      BY <1>1 DEF One
    <2> QED
      BY <1>1, <2>1, SMT DEF Counts
  <1>3. Strong(p)'
    <2>1. Len(stack'[p]) > 0 => Len(stack[p]) > 0
      BY <1>1, SMT
    <2>2. CASE ~(Released(p) /\ stack[p][1].op = "iterate")
      <3>1. Writes(p)' => Writes(p)
        BY <1>1, <2>1, <2>2 DEF Writes, Base
      <3> QED
        BY <3>1 DEF Sane, Strong, Shrinks
    <2>3. CASE Released(p) /\ stack[p][1].op = "iterate"
      <3>1. Len(stack[p]) = 2
        <4>1. Len(stack[p]) > 1 /\ Calls(stack[p]) /\ stack[p] \in Seq(Frame)
          BY <2>3 DEF Released, Sane, Nested, Types
        <4>2. ~(1 > 1)
          BY SMT
        <4> QED
          BY <2>3, <4>1, <4>2, IterateBelow DEF Idle
      <3>2. One(Released(p)) = 1
        BY <2>3 DEF One
      <3>3. db_locks_held'[p] = 2 - 1 - 1 /\ lockcnt'[p] = 2 - 1 - 1
        BY <3>1, <3>2
      <3>4. ~(db_locks_held'[p] > 0) /\ ~(lockcnt'[p] > 0)
        BY <3>3, SMT
      <3> QED
        BY <3>4 DEF Strong
    <2> QED
      BY <2>2, <2>3
  <1> QED
    BY <1>1, <1>2, <1>3 DEF Sane

(* The return of a call that leaves the databases' generations alone. *)
LEMMA ReturnGood ==
  ASSUME IInv, NEW p \in Proc, ~Idle(p), pc[p] \notin {"callback", "renamed"},
         return(p), UNCHANGED <<torn, dbgen, polgen>>,
         LockTypes', Regs(p)', Others(p), Shrinks(p),
         db_locks_held'[p] = Len(stack[p]) - 1 - One(Released(p)),
         lockcnt'[p] = Len(stack[p]) - 1 - One(Released(p))
  PROVE  Good(p)
  <1>1. Types /\ Sane(p) /\ Apart /\ Permanent /\ Whole
    BY DEF IInv
  <1>2. Sane(p)'
    BY <1>1, ReturnSane
  <1>3. /\ stack' \in [Proc -> Seq(Frame)]
        /\ pc' \in [Proc -> {"run", "lock", "policy", "callback", "renamed"}]
        /\ Elsewhere(p)
    BY <1>1, ReturnFacts DEF Sane
  <1>4. Types'
    BY <1>3 DEF Types, LockTypes
  <1>5. Apart' /\ Permanent'
    BY <1>1, ShrinkKeeps
  <1>6. Whole'
    BY <1>1, <1>3, WholeKept
  <1> QED
    BY <1>2, <1>3, <1>4, <1>5, <1>6 DEF Good

(* Where a process that is in a call can be, in numbers. *)
LEMMA CountFacts ==
  ASSUME IInv, NEW p \in Proc, ~Idle(p)
  PROVE  /\ Len(stack[p]) \in Nat /\ Len(stack[p]) > 0
         /\ Top(p) = stack[p][Len(stack[p])] /\ Top(p) \in Frame
         /\ db_locks_held[p] \in Nat /\ lockcnt[p] \in Nat
         /\ One(Released(p)) \in {0, 1}
         /\ db_locks_held[p] = Len(stack[p]) - One(Released(p))
                - One(Top(p).op \in PolicyOps) - One(pc[p] = "lock")
         /\ lockcnt[p] = Len(stack[p]) - One(Released(p))
                - One(pc[p] \in {"lock", "policy"})
         /\ pc[p] # "callback" /\ Released(p) => Len(stack[p]) > 1
  <1>1. /\ stack[p] \in Seq(Frame) /\ stack[p] # <<>>
        /\ db_locks_held[p] \in Nat /\ lockcnt[p] \in Nat
    BY DEF IInv, Types, Idle
  <1>2. Len(stack[p]) \in Nat /\ Len(stack[p]) > 0 /\ Top(p) \in Frame
    BY <1>1, SMT DEF Top
  <1>3. One(Released(p)) \in {0, 1}
    BY DEF One
  <1>4. Counts(p)
    BY DEF IInv, Sane
  <1>5. Released(p) /\ pc[p] # "callback" => Len(stack[p]) > 1
    BY DEF Released
  <1> QED
    BY <1>1, <1>2, <1>3, <1>4, <1>5, SMT DEF Counts, Top

(* The end of an operation on the principal database. *)
LEMMA FinishGood ==
  ASSUME IInv, NEW p \in Proc, ~Idle(p), pc[p] = "run",
         Top(p).op \notin PolicyOps, ctx_unlock(p), return(p),
         UNCHANGED <<torn, dbgen, polgen>>
  PROVE  Good(p)
  <1>1. Types /\ Regs(p)
    BY DEF IInv, Sane
  <1>2. LockTypes' /\ Regs(p)' /\ Others(p) /\ Shrinks(p)
    BY <1>1, UnlockShrinks
  <1>3. /\ lockcnt'[p] = IF lockcnt[p] = 0 THEN 0 ELSE lockcnt[p] - 1
        /\ db_locks_held'[p] =
                IF db_locks_held[p] = 0 THEN 0 ELSE db_locks_held[p] - 1
    BY <1>1, UnlockFacts
  <1>4. /\ One(Top(p).op \in PolicyOps) = 0 /\ One(pc[p] = "lock") = 0
        /\ One(pc[p] \in {"lock", "policy"}) = 0
        /\ Released(p) => One(Released(p)) = 1
        /\ ~Released(p) => One(Released(p)) = 0
    BY DEF One
  <1>5. /\ db_locks_held'[p] = Len(stack[p]) - 1 - One(Released(p))
        /\ lockcnt'[p] = Len(stack[p]) - 1 - One(Released(p))
    <2>1. /\ Len(stack[p]) \in Nat /\ Len(stack[p]) > 0
          /\ db_locks_held[p] \in Nat /\ lockcnt[p] \in Nat
          /\ One(Released(p)) \in {0, 1}
          /\ db_locks_held[p] = Len(stack[p]) - One(Released(p))
                - One(Top(p).op \in PolicyOps) - One(pc[p] = "lock")
          /\ lockcnt[p] = Len(stack[p]) - One(Released(p))
                - One(pc[p] \in {"lock", "policy"})
          /\ Released(p) => Len(stack[p]) > 1
      BY CountFacts
    <2>2. One(Released(p)) = 1 => Len(stack[p]) > 1
      BY <2>1, <1>4
    <2> QED
      BY <1>3, <1>4, <2>1, <2>2, SMT
  <1> QED
    BY <1>2, <1>5, ReturnGood

(* The end of a policy operation. *)
LEMMA PolicyGood ==
  ASSUME IInv, NEW p \in Proc, osa_adb_close_and_unlock(p)
  PROVE  Good(p)
  <1>1. Types /\ Regs(p)
    BY DEF IInv, Sane
  <1>2. /\ pc[p] = "run" /\ ~Idle(p) /\ Top(p).op \in PolicyOps
        /\ osa_adb_release_lock(p) /\ return(p)
        /\ UNCHANGED <<plk, db_locks_held, db_lock_mode, db>>
        /\ UNCHANGED <<torn, dbgen, polgen>>
    BY DEF osa_adb_close_and_unlock, datavars
  <1>3. /\ alk' \in [Proc -> 0 .. 2] /\ lockmode' \in [Proc -> {0, 1, 2, 8}]
        /\ lockcnt' \in [Proc -> Nat] /\ afd' \in [Proc -> Nat]
        /\ afile' \in Nat /\ ninode' \in Nat
        /\ lockcnt'[p] = IF lockcnt[p] = 0 THEN 0 ELSE lockcnt[p] - 1
        /\ \/ lockmode'[p] = lockmode[p] /\ afd'[p] = afd[p]
           \/ lockmode'[p] = 0 /\ lockcnt'[p] = 0
        /\ lockcnt'[p] = 0 => lockmode'[p] \in {0, PERMANENT}
        /\ alk'[p] = IF lockmode'[p] = PERMANENT THEN 0 ELSE lockmode'[p]
        /\ afile' # 0 \/ afile' = afile
        /\ \A q \in Proc \ {p} :
              /\ alk'[q] = alk[q] /\ lockmode'[q] = lockmode[q]
              /\ lockcnt'[q] = lockcnt[q] /\ afd'[q] = afd[q]
    BY <1>1, <1>2, ReleaseFacts
  <1>4. LockTypes' /\ Others(p)
    BY <1>1, <1>2, <1>3 DEF Types, LockTypes, Others
  <1>5. lockcnt[p] \in Nat /\ db_locks_held[p] \in Nat
    BY <1>1 DEF Types
  <1>6. Shrinks(p)
    BY <1>2, <1>3, <1>5, SMT DEF Shrinks
  <1>7. Regs(p)'
    <2>1. 0 # PERMANENT
      BY SMT
    <2>2. /\ lockmode'[p] = 0 => lockcnt'[p] = 0
          /\ lockmode'[p] = PERMANENT => afd'[p] = 0
      BY <1>1, <1>3, <2>1 DEF Regs
    <2> QED
      BY <1>1, <1>2, <1>3, <2>2 DEF Regs
  <1>8. /\ One(Top(p).op \in PolicyOps) = 1 /\ One(pc[p] = "lock") = 0
        /\ One(pc[p] \in {"lock", "policy"}) = 0
        /\ Released(p) => One(Released(p)) = 1
        /\ ~Released(p) => One(Released(p)) = 0
    BY <1>2 DEF One
  <1>9. /\ db_locks_held'[p] = Len(stack[p]) - 1 - One(Released(p))
        /\ lockcnt'[p] = Len(stack[p]) - 1 - One(Released(p))
    <2>1. /\ Len(stack[p]) \in Nat /\ Len(stack[p]) > 0
          /\ db_locks_held[p] \in Nat /\ lockcnt[p] \in Nat
          /\ One(Released(p)) \in {0, 1}
          /\ db_locks_held[p] = Len(stack[p]) - One(Released(p))
                - One(Top(p).op \in PolicyOps) - One(pc[p] = "lock")
          /\ lockcnt[p] = Len(stack[p]) - One(Released(p))
                - One(pc[p] \in {"lock", "policy"})
          /\ Released(p) => Len(stack[p]) > 1
      BY <1>2, CountFacts
    <2>2. One(Released(p)) = 1 => Len(stack[p]) > 1
      BY <2>1, <1>8
    <2>3. db_locks_held'[p] = db_locks_held[p]
      BY <1>2
    <2>4. lockcnt'[p] = IF lockcnt[p] = 0 THEN 0 ELSE lockcnt[p] - 1
      BY <1>3
    <2>5. /\ Len(stack[p]) \in Nat /\ Len(stack[p]) > 0 /\ One(Released(p)) \in {0, 1}
          /\ db_locks_held[p] = Len(stack[p]) - One(Released(p)) - 1 - 0
          /\ lockcnt[p] = Len(stack[p]) - One(Released(p)) - 0
      BY <1>8, <2>1
    <2> QED
      BY ONLY <2>2, <2>3, <2>4, <2>5
  <1> QED
    BY <1>2, <1>4, <1>6, <1>7, <1>9, ReturnGood

-----------------------------------------------------------------------------
(* A process with nothing on its stack and no lock. *)
LEMMA NothingSane ==
  ASSUME NEW p \in Proc, Regs(p)', stack'[p] = <<>>, pc'[p] = "run",
         db_locks_held'[p] = 0, lockcnt'[p] = 0
  PROVE  Sane(p)'
  <1>1. Len(stack'[p]) = 0
    OBVIOUS
  <1>2. Nested(p)'
    BY <1>1, SMT DEF Nested, Calls
  <1>3. ~Released(p)'
    BY <1>1, SMT DEF Released
  <1>4. Counts(p)'
    BY <1>1, <1>3, SMT DEF Counts, One
  <1>5. Strong(p)'
    BY <1>1, SMT DEF Strong, Writes
  <1> QED
    BY <1>2, <1>4, <1>5 DEF Sane

(* The death of a process: the kernel drops its locks. *)
LEMMA GoneGood ==
  ASSUME IInv, NEW p \in Proc, gone(p)
  PROVE  Good(p)
  <1>1. Types /\ Apart /\ Permanent /\ Whole
    BY DEF IInv
  <1>2. /\ LockTypes' /\ Regs(p)' /\ Others(p) /\ Shrinks(p)
        /\ db_locks_held'[p] = 0 /\ lockcnt'[p] = 0
    BY <1>1, ClosedFacts DEF gone
  <1>3. stack' = [stack EXCEPT ![p] = <<>>] /\ pc' = [pc EXCEPT ![p] = "run"]
    BY DEF gone
  <1>4. /\ stack' \in [Proc -> Seq(Frame)]
        /\ pc' \in [Proc -> {"run", "lock", "policy", "callback", "renamed"}]
        /\ stack'[p] = <<>> /\ pc'[p] = "run" /\ Elsewhere(p)
    BY <1>1, <1>3, SMT DEF Types, Elsewhere
  <1>5. Sane(p)'
    BY <1>2, <1>4, NothingSane
  <1>6. Types'
    BY <1>2, <1>4 DEF Types, LockTypes
  <1>7. Apart' /\ Permanent'
    BY <1>1, <1>2, ShrinkKeeps
  <1>8. Whole'
    <2>1. CASE pc[p] = "renamed"
      BY <2>1 DEF gone, Whole
    <2>2. CASE pc[p] # "renamed"
      <3>1. ASSUME NEW r \in Proc, pc[r] = "renamed"
            PROVE  pc'[r] = "renamed"
        BY <3>1, <2>2, <1>4 DEF Elsewhere
      <3>2. (torn => torn') /\ UNCHANGED <<dbgen, polgen>>
        BY DEF gone
      <3> QED
        BY <1>1, <3>1, <3>2 DEF Whole
    <2> QED
      BY <2>1, <2>2
  <1> QED
    BY <1>2, <1>4, <1>5, <1>6, <1>7, <1>8 DEF Good

(* Opening and closing a context between calls. *)
LEMMA FiniGood ==
  ASSUME IInv, NEW p \in Proc, krb5_db2_fini(p)
  PROVE  Good(p)
  <1>1. Types /\ Apart /\ Permanent /\ Whole /\ Sane(p)
    BY DEF IInv
  <1>2. /\ LockTypes' /\ Regs(p)' /\ Others(p) /\ Shrinks(p)
        /\ db_locks_held'[p] = 0 /\ lockcnt'[p] = 0
    BY <1>1, ClosedFacts DEF krb5_db2_fini
  <1>3. /\ UNCHANGED <<stack, pc>> /\ UNCHANGED <<torn, dbgen, polgen>>
        /\ stack[p] = <<>>
    BY DEF krb5_db2_fini, Idle, datavars
  <1>4. pc[p] = "run"
    <2>1. Len(stack[p]) = 0
      BY <1>3, SMT
    <2> QED
      BY <1>1, <2>1 DEF Sane, Nested
  <1>5. Sane(p)'
    BY <1>2, <1>3, <1>4, NothingSane
  <1>6. Types' /\ Elsewhere(p)
    BY <1>1, <1>2, <1>3 DEF Types, LockTypes, Elsewhere
  <1>7. Apart' /\ Permanent'
    BY <1>1, <1>2, ShrinkKeeps
  <1>8. Whole'
    BY <1>1, <1>3, <1>4, <1>6, WholeKept
  <1> QED
    BY <1>2, <1>5, <1>6, <1>7, <1>8 DEF Good

(* krb5_db2_open() opens the policy lock file and takes no lock. *)
LEMMA OpenGood ==
  ASSUME IInv, NEW p \in Proc, krb5_db2_open(p)
  PROVE  Good(p)
  <1>1. /\ UNCHANGED <<plk, alk, afile, ninode, db_locks_held, db_lock_mode, db,
                       lockmode, lockcnt, stack, pc, torn, dbgen, polgen>>
        /\ afd' = [afd EXCEPT ![p] = afile] /\ lockmode[p] # PERMANENT
    BY DEF krb5_db2_open, datavars, inited
  <1>2. Types'
    BY <1>1 DEF IInv, Types
  <1>3. Others(p) /\ Elsewhere(p)
    BY <1>1 DEF IInv, Types, Others, Elsewhere
  <1>4. Sane(p)'
    BY <1>1 DEF IInv, Sane, Regs, Nested, Counts, Strong, Writes, Base, Released,
                Top, One
  <1>5. Apart' /\ Permanent' /\ Whole'
    BY <1>1 DEF IInv, Apart, Permanent, Whole
  <1> QED
    BY <1>2, <1>3, <1>4, <1>5 DEF Good

(* A call is pushed. *)
LEMMA CallGood ==
  ASSUME IInv, NEW p \in Proc, NEW op \in Ops,
         NEW mode \in {SHARED, EXCLUSIVE, PERMANENT}, Call(p, op, mode)
  PROVE  Good(p)
  <1> DEFINE s == stack[p]
             n == Len(s)
             f == [op |-> op, mode |-> mode]
             t == stack'[p]
  <1>1. Types /\ Apart /\ Permanent /\ Whole /\ Sane(p)
    BY DEF IInv
  <1>2. /\ pc[p] \in {"run", "callback"} /\ MayCall(p, op) /\ mode \in Modes(op)
        /\ stack' = [stack EXCEPT ![p] = Append(@, f)]
        /\ pc' = [pc EXCEPT ![p] = IF op \in PolicyOps THEN "policy" ELSE "lock"]
        /\ UNCHANGED lockvars /\ UNCHANGED <<torn, dbgen, polgen>>
    BY DEF Call, goto, datavars
  <1>3. /\ LockTypes' /\ Regs(p)' /\ Others(p) /\ Shrinks(p)
        /\ db_locks_held'[p] = db_locks_held[p] /\ lockcnt'[p] = lockcnt[p]
    BY <1>1, <1>2, UnchangedFacts DEF Sane
  <1>4. f \in Frame /\ f.op = op /\ f.mode = mode /\ s \in Seq(Frame)
    BY <1>1 DEF Frame, Types
  <1>5. /\ stack' \in [Proc -> Seq(Frame)] /\ t = Append(s, f)
        /\ pc' \in [Proc -> {"run", "lock", "policy", "callback", "renamed"}]
        /\ pc'[p] = IF op \in PolicyOps THEN "policy" ELSE "lock"
        /\ Elsewhere(p)
    <2>1. Append(s, f) \in Seq(Frame)
      BY <1>4, PushFacts
    <2> QED
      BY <1>1, <1>2, <2>1 DEF Types, Elsewhere
  <1>6. /\ n \in Nat /\ Len(t) = n + 1 /\ t[n + 1] = f
        /\ \A i \in 1 .. n : t[i] = s[i]
    BY <1>4, <1>5, PushFacts, SMT
  <1>7. n > 0 => ~Idle(p)
    BY SMT DEF Idle
  <1>8. n = 0 => Idle(p)
    BY <1>4, SMT DEF Idle
  <1> HIDE DEF f, t, n
  <1>9. n > 0 => /\ op \notin {"lock", "promote"}
                 /\ s[n].op \in {"lock", "iterate"}
                 /\ s[n].op = "iterate" => pc[p] = "callback" /\ Under(s[n], f)
    <2>1. ASSUME n > 0
          PROVE  /\ s[n].op \in {"lock", "iterate"}
                 /\ s[n].op = "lock" => op \notin {"lock", "promote"}
                 /\ s[n].op = "iterate" =>
                       /\ pc[p] = "callback"
                       /\ \/ op = "get"
                          \/ op \in {"put", "delete"} /\ s[n].mode = EXCLUSIVE
      BY <1>2, <1>7, <2>1 DEF MayCall, Top, n
    <2> QED
      BY <1>4, <2>1 DEF Under
  <1>10. \A i \in 1 .. n :
            /\ s[i].mode \in Modes(s[i].op)
            /\ i > 1 => s[i].op \notin {"lock", "promote"}
            /\ i < n =>
                /\ s[i].op \in {"lock", "iterate"}
                /\ s[i].op = "iterate" => i = n - 1 /\ Under(s[i], s[n])
    BY <1>1 DEF Sane, Nested, Calls, n
  <1>11. \A i \in 1 .. n : s[i].op = "iterate" => i = n
    <2>1. ASSUME NEW i \in 1 .. n, s[i].op = "iterate", i < n
          PROVE  FALSE
      <3>1. Under(s[i], s[n]) /\ n > 0
        BY <1>6, <1>10, <2>1, SMT
      <3> QED
        BY <1>9, <3>1 DEF Under
    <2> QED
      BY <1>6, <2>1, SMT
  <1>12. Top(p)' = f
    BY <1>6 DEF Top, t
  <1>13. Nested(p)'
    <2>1. ASSUME NEW i \in 1 .. n + 1
          PROVE  /\ t[i].mode \in Modes(t[i].op)
                 /\ i > 1 => t[i].op \notin {"lock", "promote"}
                 /\ i < n + 1 =>
                      /\ t[i].op \in {"lock", "iterate"}
                      /\ t[i].op = "iterate" => i = n /\ Under(t[i], t[n + 1])
      <3>1. CASE i = n + 1
        BY <3>1, <1>2, <1>4, <1>6, <1>9, SMT
      <3>2. CASE i \in 1 .. n
        <4>1. t[i] = s[i] /\ t[n + 1] = f
          BY <3>2, <1>4, <1>6
        <4>2. CASE i = n
          <5>1. i > 0 /\ n > 0
            BY <3>2, <1>6, <4>2, SMT
          <5> QED BY <3>2, <4>1, <4>2, <5>1, <1>9, <1>10
        <4>3. CASE i < n
          <5>1. i # n
            BY <4>3, <3>2, <1>6, SMT
          <5> QED BY <3>2, <4>1, <4>3, <5>1, <1>10, <1>11
        <4> QED BY <3>2, <1>6, <4>2, <4>3, SMT
      <3> QED
        BY <3>1, <3>2, <1>6, SMT
    <2>2. pc'[p] = "lock" => op \notin PolicyOps
      BY <1>5
    <2>3. pc'[p] \notin {"callback", "renamed"}
      BY <1>5
    <2>4. n + 1 - 1 = n
      BY <1>6, SMT
    <2>5. Calls(t)
      BY <1>6, <2>1, <2>4, SMT DEF Calls
    <2> QED
      BY <1>4, <1>6, <1>12, <2>2, <2>3, <2>5, SMT DEF Nested, t
  <1>14. Released(p)' <=> Released(p)
    <2>1. Released(p)' <=> p \in unlockiter /\ n > 0 /\ s[n].op = "iterate"
      <3>1. Len(t) > 1 <=> n > 0
        BY <1>6, SMT
      <3>2. n > 0 => t[Len(t) - 1] = s[n]
        BY <1>6, SMT
      <3>3. pc'[p] # "callback"
        BY <1>5
      <3> QED
        BY <3>1, <3>2, <3>3 DEF Released, t
    <2>2. Released(p) <=> p \in unlockiter /\ n > 0 /\ s[n].op = "iterate"
      <3>1. n > 1 => s[n - 1].op # "iterate"
        BY <1>6, <1>11, SMT
      <3>2. pc[p] = "callback" => n > 0 /\ s[n].op = "iterate"
        BY <1>1, <1>6, SMT DEF Sane, Nested, Top, n
      <3>3. n > 0 /\ s[n].op = "iterate" => pc[p] = "callback"
        BY <1>9
      <3> QED
        BY <3>1, <3>2, <3>3 DEF Released, n
    <2> QED
      BY <2>1, <2>2
  <1>15. /\ db_locks_held[p] = n - One(Released(p))
         /\ lockcnt[p] = n - One(Released(p))
         /\ One(Released(p)) \in {0, 1}
    <2>1. Counts(p)
      BY <1>1 DEF Sane
    <2>2. One(n > 0 /\ Top(p).op \in PolicyOps) = 0
      BY <1>9 DEF One, Top, PolicyOps, n
    <2>3. One(pc[p] = "lock") = 0 /\ One(pc[p] \in {"lock", "policy"}) = 0
          /\ One(Released(p)) \in {0, 1}
      BY <1>2 DEF One
    <2> QED
      BY <2>1, <2>2, <2>3, <1>6, SMT DEF Counts, n
  <1>16. Counts(p)'
    <2>2. One(Released(p)') = One(Released(p))
      BY <1>14 DEF One
    <2>3. One(Len(t) > 0 /\ Top(p).op' \in PolicyOps) + One(pc'[p] = "lock") = 1
      BY <1>4, <1>5, <1>6, <1>12, SMT DEF One
    <2>4. One(pc'[p] \in {"lock", "policy"}) = 1
      BY <1>5 DEF One
    <2>5. /\ One(Len(t) > 0 /\ Top(p).op' \in PolicyOps) \in {0, 1}
          /\ One(pc'[p] = "lock") \in {0, 1}
      BY DEF One
    <2>6. Counts(p)' <=>
            /\ db_locks_held[p] = Len(t) - One(Released(p))
                   - One(Len(t) > 0 /\ Top(p).op' \in PolicyOps) - One(pc'[p] = "lock")
            /\ lockcnt[p] = Len(t) - One(Released(p)) - 1
      BY <1>3, <2>2, <2>4 DEF Counts, t
    <2> DEFINE a == One(Len(t) > 0 /\ Top(p).op' \in PolicyOps)
               b == One(pc'[p] = "lock")
               r == One(Released(p))
    <2>7. n \in Nat /\ Len(t) = n + 1
      BY <1>6
    <2> HIDE DEF a, b, r
    <2>8. /\ db_locks_held[p] = n - r /\ lockcnt[p] = n - r /\ r \in {0, 1}
          /\ a + b = 1 /\ a \in {0, 1} /\ b \in {0, 1}
      BY <1>15, <2>3, <2>5 DEF a, b, r
    <2>9. db_locks_held[p] = Len(t) - r - a - b /\ lockcnt[p] = Len(t) - r - 1
      BY ONLY <2>7, <2>8
    <2> QED
      BY <2>6, <2>9 DEF a, b, r
  <1>17. Strong(p)'
    <2>1. CASE n > 0
      <3>1. t[1] = s[1] /\ Len(t) > 0 /\ Len(s) > 0
        BY <1>6, <2>1, SMT DEF n
      <3>2. UNCHANGED <<plk, lockmode, db_locks_held, lockcnt>>
        BY <1>2 DEF lockvars
      <3>3. CASE ~(Released(p) /\ s[1].op = "iterate")
        <4>1. Writes(p)' <=> Writes(p)
          BY <1>14, <3>1, <3>3 DEF Writes, Base, t
        <4> QED
          BY <1>1, <3>2, <4>1 DEF Sane, Strong
      <3>4. CASE Released(p) /\ s[1].op = "iterate"
        <4>1. n = 1
          BY <1>6, <1>11, <2>1, <3>4, SMT
        <4>2. One(Released(p)) = 1
          BY <3>4 DEF One
        <4>3. db_locks_held[p] = 1 - 1 /\ lockcnt[p] = 1 - 1
          BY <1>15, <4>1, <4>2
        <4>4. ~(db_locks_held'[p] > 0) /\ ~(lockcnt'[p] > 0)
          BY <1>3, <4>3, SMT
        <4> QED
          BY <4>4 DEF Strong
      <3> QED
        BY <3>3, <3>4
    <2>2. CASE n = 0
      <3>1. ~Released(p)
        BY <1>1, <2>2, SMT DEF Released, Sane, Nested, n
      <3>2. db_locks_held[p] = 0 /\ lockcnt[p] = 0
        <4>1. /\ One(Released(p)) = 0 /\ One(pc[p] = "lock") = 0
              /\ One(n > 0 /\ Top(p).op \in PolicyOps) = 0
              /\ One(pc[p] \in {"lock", "policy"}) = 0
          BY <1>2, <2>2, <3>1, SMT DEF One
        <4> QED
          BY <1>1, <2>2, <4>1, SMT DEF Sane, Counts, n
      <3> QED
        BY <1>3, <3>2, SMT DEF Strong
    <2> QED
      BY <1>6, <2>1, <2>2, SMT
  <1>18. Types'
    BY <1>3, <1>5 DEF Types, LockTypes
  <1>19. Apart' /\ Permanent'
    BY <1>1, <1>3, ShrinkKeeps
  <1>20. Whole'
    BY <1>1, <1>2, <1>5, WholeKept
  <1> QED
    BY <1>3, <1>5, <1>13, <1>16, <1>17, <1>18, <1>19, <1>20 DEF Good, Sane

(* A promotion begins, with a context of its own. *)
LEMMA PromoteGood ==
  ASSUME IInv, NEW p \in Proc, krb5_db2_promote_db(p)
  PROVE  Good(p)
  <1> DEFINE f == [op |-> "promote", mode |-> EXCLUSIVE]
             t == stack'[p]
  <1>1. Types /\ Apart /\ Permanent /\ Whole /\ Sane(p)
    BY DEF IInv
  <1>2. /\ stack[p] = <<>> /\ stack' = [stack EXCEPT ![p] = <<f>>]
        /\ pc' = [pc EXCEPT ![p] = "lock"]
        /\ afd' = [afd EXCEPT ![p] = afile]
        /\ lockmode[p] # PERMANENT
        /\ UNCHANGED <<plk, alk, afile, ninode, db_locks_held, db_lock_mode, db,
                       lockmode, lockcnt, torn, dbgen, polgen>>
    BY DEF krb5_db2_promote_db, Idle, goto, datavars, inited
  <1>3. f \in Frame
    BY DEF Frame, Ops
  <1>4. /\ t = <<f>> /\ t \in Seq(Frame) /\ Len(t) = 1 /\ t[1] = f
        /\ pc'[p] = "lock"
    BY <1>1, <1>2, <1>3, SMT DEF Types
  <1>5. Types' /\ Others(p) /\ Elsewhere(p)
    BY <1>1, <1>2, <1>3, SMT DEF Types, Others, Elsewhere
  <1>6. Len(stack[p]) = 0 /\ pc[p] = "run"
    BY <1>1, <1>2 DEF Sane, Nested
  <1>7. db_locks_held[p] = 0 /\ lockcnt[p] = 0
    <2>1. ~Released(p)
      BY <1>6, SMT DEF Released
    <2>2. /\ One(Released(p)) = 0 /\ One(pc[p] = "lock") = 0
          /\ One(Len(stack[p]) > 0 /\ Top(p).op \in PolicyOps) = 0
          /\ One(pc[p] \in {"lock", "policy"}) = 0
      BY <1>6, <2>1, SMT DEF One
    <2>3. db_locks_held[p] = 0 - 0 - 0 - 0 /\ lockcnt[p] = 0 - 0 - 0
      BY <1>1, <1>6, <2>2 DEF Sane, Counts
    <2> QED
      BY ONLY <2>3
  <1> HIDE DEF t
  <1>8. Top(p)' = f
    BY <1>4 DEF Top, t
  <1>9. Nested(p)'
    <2>1. Calls(t)
      BY <1>4, SMT DEF Calls, Modes
    <2> QED
      BY <1>4, <1>8, <2>1, SMT DEF Nested, PolicyOps, t
  <1>10. Counts(p)'
    <2>1. ~Released(p)'
      BY <1>4, SMT DEF Released, t
    <2>2. /\ One(Released(p)') = 0 /\ One(pc'[p] = "lock") = 1
          /\ One(Len(t) > 0 /\ Top(p).op' \in PolicyOps) = 0
          /\ One(pc'[p] \in {"lock", "policy"}) = 1
      BY <1>4, <1>8, <2>1, SMT DEF One, PolicyOps
    <2> QED
      BY ONLY <1>2, <1>4, <1>7, <2>2 DEF Counts, t
  <1>11. Regs(p)' /\ Strong(p)'
    BY <1>1, <1>2, <1>7, SMT DEF Sane, Regs, Strong
  <1>12. Apart' /\ Permanent'
    BY <1>1, <1>2 DEF Apart, Permanent
  <1>13. Whole'
    BY <1>1, <1>2, <1>5, <1>6, WholeKept
  <1> QED
    BY <1>5, <1>9, <1>10, <1>11, <1>12, <1>13 DEF Good, Sane

-----------------------------------------------------------------------------
(* The modes calls ask for: below the outermost one never PERMANENT, and     *)
(* below one that may not write only SHARED.                                 *)
LEMMA ModeFacts ==
  ASSUME IInv, NEW p \in Proc, ~Idle(p)
  PROVE  /\ Top(p).mode \in {SHARED, EXCLUSIVE, PERMANENT}
         /\ Len(stack[p]) > 1 => Top(p).mode \in {SHARED, EXCLUSIVE}
         /\ Len(stack[p]) > 1 => stack[p][1].mode >= EXCLUSIVE \/ Top(p).mode = SHARED
         /\ Len(stack[p]) > 1 /\ stack[p][1].op = "iterate" => Len(stack[p]) = 2
         /\ Len(stack[p]) = 1 => Top(p) = stack[p][1]
         /\ Top(p).mode = PERMANENT => Top(p).op = "lock"
         /\ Top(p).op \in {"lock", "promote"} => Len(stack[p]) = 1
         /\ Top(p).op \in {"delete", "promote"} => Top(p).mode = EXCLUSIVE
         /\ Len(stack[p]) > 1 /\ stack[p][Len(stack[p]) - 1].op = "iterate" =>
                Top(p).op \in {"get", "put", "delete"}
         /\ pc[p] # "callback" /\ Released(p) => Top(p).op \in {"get", "put", "delete"}
  <1> DEFINE s == stack[p]
             n == Len(s)
  <1>1. n \in Nat /\ n > 0 /\ Top(p) = s[n] /\ Top(p) \in Frame /\ s[1] \in Frame
    <2>1. n \in Nat /\ n > 0 /\ Top(p) = s[n] /\ Top(p) \in Frame
      BY CountFacts
    <2>2. s \in Seq(Frame)
      BY DEF IInv, Types
    <2> QED
      BY <2>1, <2>2, SMT
  <1>2. /\ \A i \in 1 .. n :
            /\ s[i].mode \in Modes(s[i].op)
            /\ i > 1 => s[i].op \notin {"lock", "promote"}
            /\ i < n =>
                /\ s[i].op \in {"lock", "iterate"}
                /\ s[i].op = "iterate" => i = n - 1 /\ Under(s[i], s[n])
    BY DEF IInv, Sane, Nested, Calls
  <1> HIDE DEF n
  <1>3. /\ s[n].mode \in Modes(s[n].op) /\ s[1].mode \in Modes(s[1].op)
        /\ n > 1 => s[n].op \notin {"lock", "promote"}
        /\ n > 1 => /\ s[1].op \in {"lock", "iterate"}
                    /\ s[1].op = "iterate" => n = 2 /\ Under(s[1], s[n])
        /\ n > 1 /\ s[n - 1].op = "iterate" => Under(s[n - 1], s[n])
    BY <1>1, <1>2, SMT
  <1>4. s[n].op \in Ops /\ s[n].mode \in {SHARED, EXCLUSIVE, PERMANENT}
    BY <1>1 DEF Frame
  <1>5. /\ s[n].op # "lock" => s[n].mode \in {SHARED, EXCLUSIVE}
        /\ s[n].op \in {"delete", "promote"} => s[n].mode = EXCLUSIVE
        /\ s[n].op = "get" => s[n].mode = SHARED
        /\ s[1].op = "lock" => s[1].mode >= EXCLUSIVE
        /\ SHARED # PERMANENT /\ EXCLUSIVE # PERMANENT /\ EXCLUSIVE >= EXCLUSIVE
    BY <1>3, <1>4, SMT DEF Modes, Ops
  <1>6. s[n].op \in {"lock", "promote"} => n = 1
    BY <1>1, <1>3, SMT
  <1>7. n > 1 /\ s[n - 1].op = "iterate" => s[n].op \in {"get", "put", "delete"}
    BY <1>3 DEF Under
  <1>8. pc[p] # "callback" /\ Released(p) => s[n].op \in {"get", "put", "delete"}
    BY <1>7 DEF Released, n
  <1>9. n > 1 => s[1].mode >= EXCLUSIVE \/ s[n].mode = SHARED
    BY <1>3, <1>5 DEF Under
  <1> QED
    BY <1>1, <1>3, <1>4, <1>5, <1>6, <1>7, <1>8, <1>9 DEF n

(* A call below another one has the locks it asks for already. *)
LEMMA Covered ==
  ASSUME IInv, NEW p \in Proc, ~Idle(p), Len(stack[p]) > 1,
         ~(Released(p) /\ stack[p][1].op = "iterate")
  PROVE  /\ Top(p).mode \in {SHARED, EXCLUSIVE}
         /\ db_locks_held[p] > 0 => plk[p] >= Top(p).mode
         /\ lockcnt[p] > 0 => lockmode[p] >= Top(p).mode
  <1>1. /\ Top(p).mode \in {SHARED, EXCLUSIVE}
        /\ stack[p][1].mode >= EXCLUSIVE \/ Top(p).mode = SHARED
        /\ Len(stack[p]) > 0
    BY ModeFacts, CountFacts
  <1>2. /\ plk[p] \in 0 .. 2 /\ lockmode[p] \in {0, 1, 2, 8}
        /\ db_locks_held[p] \in Nat /\ lockcnt[p] \in Nat
        /\ db_locks_held[p] = 0 <=> plk[p] = 0
        /\ lockmode[p] = 0 => lockcnt[p] = 0
    BY DEF IInv, Types, Sane, Regs
  <1>3. CASE Top(p).mode = SHARED
    BY <1>1, <1>2, <1>3, SMT
  <1>4. CASE stack[p][1].mode >= EXCLUSIVE
    <2>1. Writes(p)
      BY <1>1, <1>4 DEF Writes, Base
    <2>2. /\ db_locks_held[p] > 0 => plk[p] = EXCLUSIVE
          /\ lockcnt[p] > 0 => lockmode[p] >= EXCLUSIVE
      BY <2>1 DEF IInv, Sane, Strong
    <2> QED
      BY <1>1, <1>2, <2>2, SMT
  <1> QED
    BY <1>1, <1>3, <1>4

(* What a call that waits for a lock has, if it is the outermost or not. *)
LEMMA Outermost ==
  ASSUME IInv, NEW p \in Proc, pc[p] \in {"lock", "policy"}
  PROVE  /\ ~Idle(p) /\ db_locks_held[p] \in Nat /\ lockcnt[p] \in Nat
         /\ pc[p] = "lock" => lockcnt[p] = db_locks_held[p]
         /\ lockcnt[p] > 0 => /\ Len(stack[p]) > 1
                              /\ ~(Released(p) /\ stack[p][1].op = "iterate")
         /\ lockcnt[p] = 0 => Top(p) = Base(p)
         /\ pc[p] = "policy" /\ Top(p).op \notin PolicyOps =>
                db_locks_held[p] = lockcnt[p] + 1
         /\ pc[p] = "policy" /\ Top(p).op \in PolicyOps =>
                db_locks_held[p] = lockcnt[p]
  <1>1. ~Idle(p)
    <2>1. stack[p] = <<>> => Len(stack[p]) = 0
      BY SMT
    <2> QED
      BY <2>1 DEF IInv, Sane, Nested, Idle
  <1>2. /\ Len(stack[p]) \in Nat /\ Len(stack[p]) > 0
        /\ db_locks_held[p] \in Nat /\ lockcnt[p] \in Nat
        /\ One(Released(p)) \in {0, 1}
        /\ db_locks_held[p] = Len(stack[p]) - One(Released(p))
               - One(Top(p).op \in PolicyOps) - One(pc[p] = "lock")
        /\ lockcnt[p] = Len(stack[p]) - One(Released(p))
               - One(pc[p] \in {"lock", "policy"})
    BY <1>1, CountFacts
  <1>3. /\ One(pc[p] \in {"lock", "policy"}) = 1
        /\ pc[p] = "lock" => One(pc[p] = "lock") = 1
        /\ pc[p] # "lock" => One(pc[p] = "lock") = 0
        /\ Top(p).op \in PolicyOps => One(Top(p).op \in PolicyOps) = 1
        /\ Top(p).op \notin PolicyOps => One(Top(p).op \in PolicyOps) = 0
        /\ Released(p) => One(Released(p)) = 1
        /\ ~Released(p) => One(Released(p)) = 0
    BY DEF One
  <1>4. pc[p] = "lock" => Top(p).op \notin PolicyOps
    BY DEF IInv, Sane, Nested
  <1>5. pc[p] = "lock" => lockcnt[p] = db_locks_held[p]
    BY <1>2, <1>3, <1>4, SMT
  <1>6. /\ lockcnt[p] > 0 => Len(stack[p]) > 1
        /\ lockcnt[p] > 0 /\ Len(stack[p]) = 2 => One(Released(p)) = 0
        /\ lockcnt[p] = 0 /\ One(Released(p)) = 0 => Len(stack[p]) = 1
        /\ lockcnt[p] = 0 /\ One(Released(p)) = 1 => Len(stack[p]) - 1 = 1
        /\ 0 # 1
    <2>1. /\ Len(stack[p]) \in Nat /\ One(Released(p)) \in {0, 1}
          /\ lockcnt[p] = Len(stack[p]) - One(Released(p)) - 1
      BY <1>2, <1>3
    <2> DEFINE n == Len(stack[p])
               r == One(Released(p))
               c == lockcnt[p]
    <2>2. n \in Nat /\ r \in {0, 1} /\ c = n - r - 1
      BY <2>1
    <2> HIDE DEF n, r, c
    <2>3. /\ c > 0 => n > 1 /\ (n = 2 => r = 0)
          /\ c = 0 /\ r = 0 => n = 1
          /\ c = 0 /\ r = 1 => n - 1 = 1
          /\ 0 # 1
      BY <2>2, SMT
    <2> QED
      BY <2>3 DEF n, r, c
  <1>7. ASSUME lockcnt[p] > 0, Released(p), stack[p][1].op = "iterate"
        PROVE  FALSE
    <2>1. Len(stack[p]) = 2
      BY <1>1, <1>6, <1>7, ModeFacts
    <2> QED
      BY <1>3, <1>6, <1>7, <2>1
  <1>8. ASSUME lockcnt[p] = 0
        PROVE  Top(p) = Base(p)
    <2>1. CASE ~Released(p)
      BY <1>1, <1>3, <1>6, <1>8, <2>1, ModeFacts DEF Base
    <2>2. CASE Released(p)
      <3>1. pc[p] # "callback"
        OBVIOUS
      <3>2. stack[p][1].op = "iterate"
        BY <1>3, <1>6, <1>8, <2>2, <3>1 DEF Released
      <3> QED
        BY <2>2, <3>2 DEF Base
    <2> QED
      BY <2>1, <2>2
  <1>9. /\ pc[p] = "policy" /\ Top(p).op \notin PolicyOps =>
                db_locks_held[p] = lockcnt[p] + 1
        /\ pc[p] = "policy" /\ Top(p).op \in PolicyOps =>
                db_locks_held[p] = lockcnt[p]
    BY <1>2, <1>3, SMT
  <1> QED
    BY <1>1, <1>2, <1>5, <1>6, <1>7, <1>8, <1>9

(* A call inside another does not have to lock the principal database. *)
LEMMA NoUpgrade ==
  ASSUME IInv, NEW p \in Proc, pc[p] = "lock", db_locks_held[p] > 0
  PROVE  ~MustLock(p, LockFor(Top(p).op, Top(p).mode))
  <1>1. /\ Top(p).mode \in {SHARED, EXCLUSIVE}
        /\ plk[p] >= Top(p).mode
    BY Outermost, Covered
  <1>2. db_lock_mode[p] = plk[p] /\ plk[p] \in 0 .. 2 /\ db_locks_held[p] \in Nat
    BY DEF IInv, Types, Sane, Regs
  <1> QED
    BY <1>1, <1>2, SMT DEF MustLock, LockFor, kmode

(* Nor to ask for a stronger policy lock. *)
LEMMA NoPolicyUpgrade ==
  ASSUME IInv, NEW p \in Proc, pc[p] = "policy", lockcnt[p] > 0
  PROVE  ~get_lock_fails(p, LockFor(Top(p).op, Top(p).mode))
  <1>1. /\ Top(p).mode \in {SHARED, EXCLUSIVE}
        /\ lockmode[p] >= Top(p).mode
    BY Outermost, Covered
  <1>2. lockmode[p] \in {0, 1, 2, 8}
    BY DEF IInv, Types
  <1> QED
    BY <1>1, <1>2, SMT DEF get_lock_fails, LockFor

(* ctx_lock() gets the principal lock. *)
LEMMA LockGood ==
  ASSUME IInv, NEW p \in Proc, ctx_lock(p)
  PROVE  Good(p)
  <1> DEFINE mode == Top(p).mode
  <1>1. Types /\ Apart /\ Permanent /\ Whole /\ Sane(p)
    BY DEF IInv
  <1>2. /\ pc[p] = "lock" /\ lock_principal(p, mode)
        /\ pc' = [pc EXCEPT ![p] = "policy"]
        /\ UNCHANGED <<alk, afile, ninode, afd, lockmode, lockcnt, stack>>
        /\ UNCHANGED <<torn, dbgen, polgen>>
    BY DEF ctx_lock, LockFor, goto, datavars
  <1>3. ~Idle(p) /\ mode \in {SHARED, EXCLUSIVE, PERMANENT}
        /\ lockcnt[p] = db_locks_held[p]
    BY <1>2, Outermost, ModeFacts
  <1> HIDE DEF mode
  <1>4. /\ kmode(mode) \in {1, 2}
        /\ mode >= EXCLUSIVE => kmode(mode) = EXCLUSIVE
    BY <1>3, SMT DEF kmode
  <1>5. /\ plk' \in [Proc -> 0 .. 2] /\ db_lock_mode' \in [Proc -> 0 .. 2]
        /\ db' \in [Proc -> 0 .. 2] /\ db_locks_held' \in [Proc -> Nat]
        /\ db_locks_held'[p] = db_locks_held[p] + 1
        /\ db_locks_held[p] \in Nat
        /\ \A q \in Proc \ {p} :
              /\ plk'[q] = plk[q] /\ db'[q] = db[q]
              /\ db_locks_held'[q] = db_locks_held[q]
              /\ db_lock_mode'[q] = db_lock_mode[q]
    <2>1. CASE MustLock(p, mode)
      <3>1. /\ plk' = [plk EXCEPT ![p] = kmode(mode)]
            /\ db_lock_mode' = [db_lock_mode EXCEPT ![p] = kmode(mode)]
            /\ db' = [db EXCEPT ![p] =
                        IF kmode(mode) = SHARED THEN O_RDONLY ELSE O_RDWR]
            /\ db_locks_held' = [db_locks_held EXCEPT ![p] = @ + 1]
        BY <1>2, <2>1 DEF lock_principal
      <3> QED
        BY <1>1, <1>4, <3>1, SMT DEF Types
    <2>2. CASE ~MustLock(p, mode)
      <3>1. /\ UNCHANGED <<plk, db_lock_mode, db>>
            /\ db_locks_held' = [db_locks_held EXCEPT ![p] = @ + 1]
        BY <1>2, <2>2 DEF lock_principal
      <3> QED
        BY <1>1, <3>1, SMT DEF Types
    <2> QED
      BY <2>1, <2>2
  <1>6. /\ db_lock_mode'[p] = plk'[p] /\ db'[p] = plk'[p] /\ plk'[p] > 0
        /\ db_locks_held[p] > 0 => plk'[p] = plk[p]
        /\ db_locks_held[p] = 0 =>
              plk'[p] = kmode(mode) /\ PrincipalFree(p, kmode(mode))
    <2>1. CASE db_locks_held[p] > 0
      <3>1. ~MustLock(p, mode)
        BY <1>2, <2>1, NoUpgrade DEF LockFor, mode
      <3>2. UNCHANGED <<plk, db_lock_mode, db>>
        BY <1>2, <3>1 DEF lock_principal
      <3>3. plk[p] \in 0 .. 2 /\ plk[p] # 0
            /\ db_lock_mode[p] = plk[p] /\ db[p] = plk[p]
        BY <1>1, <2>1, SMT DEF Sane, Regs, Types
      <3> QED
        BY <2>1, <3>2, <3>3, SMT
    <2>2. CASE db_locks_held[p] = 0
      <3>1. /\ PrincipalFree(p, kmode(mode))
            /\ plk' = [plk EXCEPT ![p] = kmode(mode)]
            /\ db_lock_mode' = [db_lock_mode EXCEPT ![p] = kmode(mode)]
            /\ db' = [db EXCEPT ![p] =
                        IF kmode(mode) = SHARED THEN O_RDONLY ELSE O_RDWR]
        BY <1>2, <2>2 DEF lock_principal, MustLock
      <3> QED
        BY <1>1, <1>4, <2>2, <3>1, SMT DEF Types
    <2> QED
      BY <1>5, <2>1, <2>2, SMT
  <1>7. Types'
    BY <1>1, <1>2, <1>5 DEF Types
  <1>8. Others(p) /\ Elsewhere(p)
    BY <1>1, <1>2, <1>5 DEF Others, Elsewhere, Types
  <1>9. Regs(p)'
    BY <1>1, <1>2, <1>5, <1>6, SMT DEF Sane, Regs
  <1>10. pc'[p] = "policy" /\ Top(p).op \notin PolicyOps
    BY <1>1, <1>2 DEF Types, Sane, Nested
  <1>11. Nested(p)'
    BY <1>1, <1>2, <1>10 DEF Sane, Nested, Top
  <1>12. Counts(p)'
    <2>1. Released(p)' <=> Released(p)
      BY <1>2, <1>10 DEF Released
    <2>2. /\ One(Released(p)') = One(Released(p)) /\ One(Released(p)) \in {0, 1}
          /\ One(pc[p] = "lock") = 1 /\ One(pc'[p] = "lock") = 0
          /\ One(pc[p] \in {"lock", "policy"}) = 1
          /\ One(pc'[p] \in {"lock", "policy"}) = 1
          /\ One(Len(stack[p]) > 0 /\ Top(p).op \in PolicyOps) = 0
          /\ One(Len(stack'[p]) > 0 /\ Top(p).op' \in PolicyOps) = 0
      BY <1>2, <1>10, <2>1 DEF One, Top
    <2>3. Len(stack[p]) \in Nat /\ stack'[p] = stack[p] /\ lockcnt'[p] = lockcnt[p]
      BY <1>2, <1>3, CountFacts
    <2>4. /\ db_locks_held[p] = Len(stack[p]) - One(Released(p)) - 0 - 1
          /\ lockcnt[p] = Len(stack[p]) - One(Released(p)) - 1
          /\ db_locks_held'[p] = db_locks_held[p] + 1
      BY <1>1, <1>5, <2>2 DEF Sane, Counts
    <2>5. db_locks_held'[p] = Len(stack[p]) - One(Released(p)) - 0 - 0
      <3>1. One(Released(p)) \in {0, 1} /\ Len(stack[p]) \in Nat
        BY <2>2, <2>3
      <3> QED
        BY ONLY <2>4, <3>1
    <2> QED
      BY <2>2, <2>3, <2>4, <2>5 DEF Counts
  <1>13. Strong(p)'
    <2>0. Writes(p)' <=> Writes(p)
      BY <1>2, <1>10 DEF Writes, Base, Top, Released
    <2>1. ASSUME Writes(p)
          PROVE  /\ plk'[p] = EXCLUSIVE
                 /\ lockcnt[p] > 0 => lockmode[p] >= EXCLUSIVE
      <3>1. CASE db_locks_held[p] > 0
        BY <1>1, <1>6, <2>1, <3>1 DEF Sane, Strong
      <3>2. CASE db_locks_held[p] = 0
        <4>1. mode >= EXCLUSIVE
          BY <1>2, <1>3, <2>1, <3>2, Outermost DEF mode, Writes
        <4> QED
          BY <1>3, <1>4, <1>6, <3>2, <4>1, SMT
      <3> QED
        BY <1>5, <3>1, <3>2, SMT
    <2> QED
      BY <1>2, <2>0, <2>1 DEF Strong
  <1>14. Apart'
    <2>1. CASE db_locks_held[p] > 0
      <3>1. \A q \in Proc : plk'[q] = plk[q]
        BY <1>5, <1>6, <2>1
      <3> QED
        BY <1>1, <3>1, SMT DEF Apart
    <2>2. CASE db_locks_held[p] = 0
      <3>1. \A q \in Proc \ {p} :
              plk[q] = 0 \/ (plk[q] = SHARED /\ kmode(mode) = SHARED)
        BY <1>6, <2>2 DEF PrincipalFree, Grantable
      <3>2. plk'[p] = kmode(mode)
        BY <1>6, <2>2
      <3> QED
        BY <1>1, <1>5, <3>1, <3>2, SMT DEF Apart
    <2> QED
      BY <1>5, <2>1, <2>2, SMT
  <1>15. Permanent'
    <2>1. ASSUME afile = 0, NEW q \in Proc, db_locks_held'[q] > 0, lockcnt[q] > 0
          PROVE  lockmode[q] = PERMANENT
      <3>1. db_locks_held[q] > 0
        BY <1>3, <1>5, <2>1
      <3> QED
        BY <1>1, <2>1, <3>1 DEF Permanent
    <2> QED
      BY <1>2, <2>1 DEF Permanent
  <1>16. Whole'
    BY <1>1, <1>2, <1>8, WholeKept
  <1> QED
    BY <1>7, <1>8, <1>9, <1>11, <1>12, <1>13, <1>14, <1>15, <1>16 DEF Good, Sane

(* osa_adb_get_lock() gets the policy lock. *)
LEMMA GetGood ==
  ASSUME IInv, NEW p \in Proc, get_lock(p)
  PROVE  Good(p)
  <1> DEFINE mode == Top(p).mode
  <1>1. Types /\ Apart /\ Permanent /\ Whole /\ Sane(p)
    BY DEF IInv
  <1>2. /\ pc[p] = "policy" /\ osa_adb_get_lock(p, mode)
        /\ ~lockfile_missing(p, mode)
        /\ pc' = [pc EXCEPT ![p] = "run"]
        /\ UNCHANGED <<plk, db_locks_held, db_lock_mode, db, stack>>
        /\ UNCHANGED <<torn, dbgen, polgen>>
    BY DEF get_lock, LockFor, goto, datavars
  <1>3. /\ ~Idle(p) /\ mode \in {1, 2, 8}
        /\ lockcnt[p] \in Nat /\ lockmode[p] \in {0, 1, 2, 8}
        /\ lockcnt[p] = 0 => lockmode[p] \in {0, PERMANENT}
        /\ mode = 8 => Top(p).op = "lock"
        /\ mode < 8 => kmode(mode) = mode
        /\ lockmode[p] >= mode \/ afile # 0
    <2>1. ~Idle(p)
      BY <1>1, <1>2, Outermost
    <2>2. /\ mode \in {1, 2, 8}
          /\ mode = 8 => Top(p).op = "lock"
      BY <1>1, <2>1, ModeFacts
    <2>3. /\ lockcnt[p] \in Nat /\ lockmode[p] \in {0, 1, 2, 8}
          /\ lockcnt[p] = 0 => lockmode[p] \in {0, PERMANENT}
      BY <1>1 DEF Types, Sane, Regs
    <2>4. ~(lockmode[p] < mode) \/ afile # 0
      BY <1>2 DEF lockfile_missing
    <2> HIDE DEF mode
    <2>5. ~(lockmode[p] < mode) => lockmode[p] >= mode
      BY ONLY <2>2, <2>3
    <2>6. mode < 8 => kmode(mode) = mode
      BY <2>2, SMT DEF kmode
    <2> QED
      BY <2>1, <2>2, <2>3, <2>4, <2>5, <2>6
  <1> HIDE DEF mode
  <1>4. /\ lockcnt' \in [Proc -> Nat] /\ lockcnt'[p] = lockcnt[p] + 1
        /\ \A q \in Proc \ {p} : lockcnt'[q] = lockcnt[q]
        /\ ninode' = ninode
    <2>1. lockcnt' = [lockcnt EXCEPT ![p] = lockcnt[p] + 1] /\ ninode' = ninode
      BY <1>2 DEF osa_adb_get_lock
    <2>2. lockcnt \in [Proc -> Nat]
      BY <1>1 DEF Types
    <2> QED
      BY <2>1, <2>2, SMT
  <1>5. /\ lockmode' \in [Proc -> {0, 1, 2, 8}] /\ alk' \in [Proc -> 0 .. 2]
        /\ afd' \in [Proc -> Nat] /\ afile' \in Nat
        /\ lockmode'[p] = IF lockmode[p] >= mode THEN lockmode[p] ELSE mode
        /\ alk'[p] = IF lockmode'[p] = PERMANENT THEN 0 ELSE lockmode'[p]
        /\ afile' = IF lockmode[p] < mode /\ mode = 8 THEN 0 ELSE afile
        /\ lockmode'[p] = PERMANENT => afd'[p] = 0
        /\ \A q \in Proc \ {p} :
              lockmode'[q] = lockmode[q] /\ alk'[q] = alk[q] /\ afd'[q] = afd[q]
    <2>1. CASE lockmode[p] >= mode
      <3>1. UNCHANGED <<lockmode, alk, afile, afd>>
        BY <1>2, <2>1 DEF osa_adb_get_lock
      <3> QED
        BY <1>1, <1>3, <2>1, <3>1, SMT DEF Types, Sane, Regs
    <2>2. CASE lockmode[p] < mode /\ mode = 8
      <3>1. /\ lockmode' = [lockmode EXCEPT ![p] = 8] /\ afile' = 0
            /\ afd' = [afd EXCEPT ![p] = 0] /\ alk' = [alk EXCEPT ![p] = 0]
        BY <1>2, <1>3, <2>2, SMT DEF osa_adb_get_lock
      <3>2. ~(lockmode[p] >= mode) /\ 0 \in Nat /\ 0 \in 0 .. 2
        BY ONLY <1>3, <2>2
      <3> QED
        BY <1>1, <1>3, <2>2, <3>1, <3>2 DEF Types
    <2>3. CASE lockmode[p] < mode /\ mode < 8
      <3>1. /\ lockmode' = [lockmode EXCEPT ![p] = mode]
            /\ alk' = [alk EXCEPT ![p] = mode]
            /\ UNCHANGED <<afile, afd>>
        BY <1>2, <1>3, <2>3, SMT DEF osa_adb_get_lock
      <3>2. ~(lockmode[p] >= mode) /\ mode # 8 /\ mode \in 0 .. 2
        BY <1>3, <2>3, SMT
      <3> QED
        BY <1>1, <1>3, <2>3, <3>1, <3>2 DEF Types
    <2>4. lockmode[p] >= mode \/ (lockmode[p] < mode /\ (mode = 8 \/ mode < 8))
      <3>1. mode \in {1, 2, 8} /\ lockmode[p] \in {0, 1, 2, 8}
        BY <1>3
      <3> QED BY ONLY <3>1
    <2> QED
      BY <2>1, <2>2, <2>3, <2>4
  <1>6. Types'
    BY <1>1, <1>2, <1>4, <1>5 DEF Types
  <1>7. Others(p) /\ Elsewhere(p)
    BY <1>1, <1>2, <1>4, <1>5 DEF Others, Elsewhere, Types
  <1>8. Regs(p)'
    <2>1. lockcnt'[p] # 0 /\ lockmode'[p] # 0
      BY <1>3, <1>4, <1>5, SMT
    <2> QED
      BY <1>1, <1>2, <1>5, <2>1 DEF Sane, Regs
  <1>9. pc'[p] = "run"
    BY <1>1, <1>2 DEF Types
  <1>10. Nested(p)'
    BY <1>1, <1>2, <1>9 DEF Sane, Nested, Top
  <1>11. Counts(p)'
    <2>1. Released(p)' <=> Released(p)
      BY <1>2, <1>9 DEF Released
    <2>2. /\ One(Released(p)') = One(Released(p)) /\ One(Released(p)) \in {0, 1}
          /\ One(pc[p] = "lock") = 0 /\ One(pc'[p] = "lock") = 0
          /\ One(pc[p] \in {"lock", "policy"}) = 1
          /\ One(pc'[p] \in {"lock", "policy"}) = 0
          /\ One(Len(stack'[p]) > 0 /\ Top(p).op' \in PolicyOps) =
                One(Len(stack[p]) > 0 /\ Top(p).op \in PolicyOps)
      BY <1>2, <1>9, <2>1 DEF One, Top
    <2>3. /\ Len(stack[p]) \in Nat /\ stack'[p] = stack[p]
          /\ db_locks_held'[p] = db_locks_held[p]
      BY <1>2, <1>3, CountFacts
    <2>4. /\ lockcnt[p] = Len(stack[p]) - One(Released(p)) - 1
          /\ lockcnt'[p] = lockcnt[p] + 1
          /\ One(Released(p)) \in {0, 1} /\ Len(stack[p]) \in Nat
      BY <1>1, <1>4, <2>2, <2>3 DEF Sane, Counts
    <2>5. lockcnt'[p] = Len(stack[p]) - One(Released(p)) - 0
      BY ONLY <2>4
    <2>6. Counts(p)
      BY <1>1 DEF Sane
    <2> QED
      BY <2>2, <2>3, <2>5, <2>6 DEF Counts
  <1>12. Strong(p)'
    <2>0. Writes(p)' <=> Writes(p)
      BY <1>2, <1>9 DEF Writes, Base, Top, Released
    <2>1. ASSUME Writes(p)
          PROVE  lockmode'[p] >= EXCLUSIVE
      <3>1. CASE lockcnt[p] > 0
        <4>1. lockmode[p] >= EXCLUSIVE
          BY <1>1, <2>1, <3>1 DEF Sane, Strong
        <4> QED
          BY <1>3, <1>5, <4>1, SMT
      <3>2. CASE lockcnt[p] = 0
        <4>1. mode >= EXCLUSIVE
          BY <1>2, <2>1, <3>2, Outermost DEF mode, Writes
        <4> QED
          BY <1>3, <1>5, <4>1, SMT
      <3> QED
        BY <1>3, <3>1, <3>2, SMT
    <2> QED
      BY <1>1, <1>2, <2>0, <2>1 DEF Sane, Strong
  <1>13. Apart'
    BY <1>1, <1>2 DEF Apart
  <1>14. Permanent'
    <2>1. CASE lockmode[p] < mode /\ mode = 8
      <3>1. Top(p).op = "lock" /\ Top(p).op \notin PolicyOps
        BY <1>3, <2>1 DEF PolicyOps
      <3>2. Len(stack[p]) = 1 /\ Top(p) = stack[p][1]
        BY <1>3, <3>1, ModeFacts
      <3>3. db_locks_held[p] > 0
        <4>1. db_locks_held[p] = lockcnt[p] + 1 /\ lockcnt[p] \in Nat
          BY <1>2, <1>3, <3>1, Outermost
        <4> QED
          BY ONLY <4>1
      <3>4. plk[p] = EXCLUSIVE
        <4>1. mode = 8 /\ mode = stack[p][1].mode /\ Len(stack[p]) = 1
          BY <2>1, <3>2 DEF mode
        <4>2. Len(stack[p]) > 0 /\ stack[p][1].mode >= EXCLUSIVE
          BY <4>1, SMT
        <4>3. Writes(p)
          BY <3>1, <3>2, <4>2 DEF Writes, Base
        <4> QED
          BY <1>1, <3>3, <4>3 DEF Sane, Strong
      <3>5. ASSUME NEW q \in Proc \ {p}
            PROVE  db_locks_held[q] = 0
        BY <1>1, <3>4 DEF IInv, Sane, Regs, Apart
      <3>6. lockmode'[p] = PERMANENT
        BY <1>5, <2>1, <1>3, SMT
      <3>7. ASSUME NEW q \in Proc, db_locks_held'[q] > 0
            PROVE  lockmode'[q] = PERMANENT
        BY <1>2, <3>5, <3>6, <3>7, SMT
      <3> QED
        BY <3>7 DEF Permanent
    <2>2. CASE ~(lockmode[p] < mode /\ mode = 8)
      <3>1. ASSUME afile = 0, NEW q \in Proc, db_locks_held[q] > 0,
                   lockcnt'[q] > 0
            PROVE  lockmode'[q] = PERMANENT
        <4>1. CASE q = p
          <5>1. lockmode[p] >= mode /\ lockmode'[p] = lockmode[p]
            BY <1>3, <1>5, <3>1
          <5>2. CASE lockcnt[p] > 0
            BY <1>1, <3>1, <4>1, <5>1, <5>2 DEF Permanent
          <5>3. CASE lockcnt[p] = 0
            BY <1>3, <4>1, <5>1, <5>3, SMT
          <5> QED
            BY <1>3, <5>2, <5>3, SMT
        <4>2. CASE q # p
          BY <1>1, <1>4, <1>5, <3>1, <4>2 DEF Permanent
        <4> QED
          BY <4>1, <4>2
      <3>2. afile' = afile /\ db_locks_held' = db_locks_held
        BY <1>2, <1>5, <2>2
      <3> QED
        BY <3>1, <3>2 DEF Permanent
    <2> QED
      BY <2>1, <2>2
  <1>15. Whole'
    BY <1>1, <1>2, <1>7, WholeKept
  <1> QED
    BY <1>6, <1>7, <1>8, <1>10, <1>11, <1>12, <1>13, <1>14, <1>15 DEF Good, Sane

-----------------------------------------------------------------------------
(* A promotion is the only call of its process, and ends with its context. *)
LEMMA PromoteEnds ==
  ASSUME IInv, NEW p \in Proc, InCall(p, "promote"), pc[p] # "callback",
         closed(p), return(p)
  PROVE  Types' /\ Sane(p)' /\ Others(p) /\ Elsewhere(p) /\ Apart' /\ Permanent'
  <1>1. Types /\ Sane(p) /\ Apart /\ Permanent /\ ~Idle(p) /\ Top(p).op = "promote"
    BY DEF IInv, InCall
  <1>2. /\ LockTypes' /\ Regs(p)' /\ Others(p) /\ Shrinks(p)
        /\ db_locks_held'[p] = 0 /\ lockcnt'[p] = 0
    BY <1>1, ClosedFacts
  <1>3. Len(stack[p]) = 1
    BY <1>1, ModeFacts
  <1>4. ~Released(p)
    BY <1>3, SMT DEF Released
  <1>5. Len(stack[p]) - 1 - One(Released(p)) = 0
    <2>1. One(Released(p)) = 0
      BY <1>4 DEF One
    <2>2. Len(stack[p]) - 1 - One(Released(p)) = 1 - 1 - 0
      BY <1>3, <2>1
    <2> QED
      BY <2>2, SMT
  <1>6. Sane(p)'
    BY <1>1, <1>2, <1>5, ReturnSane
  <1>7. /\ stack' \in [Proc -> Seq(Frame)]
        /\ pc' \in [Proc -> {"run", "lock", "policy", "callback", "renamed"}]
        /\ Elsewhere(p)
    BY <1>1, ReturnFacts DEF Sane
  <1>8. Types'
    BY <1>2, <1>7 DEF Types, LockTypes
  <1>9. Apart' /\ Permanent'
    BY <1>1, <1>2, ShrinkKeeps
  <1> QED
    BY <1>2, <1>6, <1>7, <1>8, <1>9

(* A call whose lock failed, when it held nothing before. *)
Freed(p) ==
    /\ LockTypes' /\ Regs(p)' /\ Others(p) /\ Shrinks(p)
    /\ db_locks_held'[p] = 0 /\ lockcnt'[p] = 0

(* It ends its process, or its promotion, or returns to its caller. *)
LEMMA FailedGood ==
  ASSUME IInv, NEW p \in Proc, pc[p] \in {"lock", "policy"}, lockcnt[p] = 0,
         \/ gone(p)
         \/ /\ return(p) /\ UNCHANGED <<torn, dbgen, polgen>>
            /\ (InCall(p, "promote") /\ closed(p)) \/ Freed(p)
  PROVE  Good(p)
  <1>1. Types /\ Sane(p) /\ Apart /\ Permanent /\ Whole /\ ~Idle(p)
    BY Outermost DEF IInv
  <1>2. CASE gone(p)
    BY <1>2, GoneGood
  <1>3. CASE /\ return(p) /\ UNCHANGED <<torn, dbgen, polgen>>
             /\ InCall(p, "promote") /\ closed(p)
    <2>1. /\ Types' /\ Sane(p)' /\ Others(p) /\ Elsewhere(p)
          /\ Apart' /\ Permanent'
      BY <1>3, PromoteEnds
    <2>2. Whole'
      BY <1>1, <1>3, <2>1, WholeKept
    <2> QED
      BY <2>1, <2>2 DEF Good
  <1>4. CASE return(p) /\ UNCHANGED <<torn, dbgen, polgen>> /\ Freed(p)
    <2>1. /\ LockTypes' /\ Regs(p)' /\ Others(p) /\ Shrinks(p)
          /\ db_locks_held'[p] = 0 /\ lockcnt'[p] = 0
      BY <1>4 DEF Freed
    <2>2. Len(stack[p]) - 1 - One(Released(p)) = 0
      <3>1. /\ lockcnt[p] = Len(stack[p]) - One(Released(p))
                 - One(pc[p] \in {"lock", "policy"})
            /\ Len(stack[p]) \in Nat /\ One(Released(p)) \in {0, 1}
        BY <1>1, CountFacts
      <3>2. One(pc[p] \in {"lock", "policy"}) = 1
        BY DEF One
      <3>3. 0 = Len(stack[p]) - One(Released(p)) - 1
        BY <3>1, <3>2
      <3> QED
        BY <3>1, <3>3, SMT
    <2> QED
      BY <1>1, <1>4, <2>1, <2>2, ReturnGood
  <1> QED
    BY <1>2, <1>3, <1>4

(* krb5_lock_file() or open_db() fails: there was no lock to lose but the   *)
(* one just taken.                                                          *)
LEMMA LockFailsGood ==
  ASSUME IInv, NEW p \in Proc, lock_file_fails(p) \/ open_db_fails(p)
  PROVE  Good(p)
  <1>1. pc[p] = "lock" /\ MustLock(p, LockFor(Top(p).op, Top(p).mode))
    BY DEF lock_file_fails, open_db_fails
  <1>2. Types /\ Regs(p)
    BY DEF IInv, Sane
  <1>3. db_locks_held[p] = 0 /\ lockcnt[p] = 0
    <2>1. db_locks_held[p] \in Nat
      BY <1>2 DEF Types
    <2>2. db_locks_held[p] = 0
      BY <1>1, <2>1, NoUpgrade, SMT
    <2> QED
      BY <1>1, <2>2, Outermost
  <1>4. ASSUME UNCHANGED lockvars
        PROVE  Freed(p)
    BY <1>2, <1>3, <1>4, UnchangedFacts DEF Freed
  <1>5. ASSUME open_fails(p, LockFor(Top(p).op, Top(p).mode))
        PROVE  Freed(p)
    <2>1. /\ db' = [db EXCEPT ![p] = 0] /\ plk' = [plk EXCEPT ![p] = 0]
          /\ db_locks_held' = [db_locks_held EXCEPT ![p] = 0]
          /\ db_lock_mode' = [db_lock_mode EXCEPT ![p] = 0]
          /\ UNCHANGED <<lockcnt, lockmode, alk, afd, afile, ninode>>
      BY <1>3, <1>5 DEF open_fails, osa_adb_release_lock
    <2>2. LockTypes' /\ Others(p)
      BY <1>2, <2>1, SMT DEF Types, LockTypes, Others
    <2>3. /\ plk'[p] = 0 /\ db'[p] = 0 /\ db_lock_mode'[p] = 0
          /\ db_locks_held'[p] = 0 /\ lockcnt'[p] = 0
      BY <1>2, <1>3, <2>1 DEF Types
    <2>4. Regs(p)'
      BY <1>2, <2>1, <2>3 DEF Regs
    <2>5. Shrinks(p)
      BY <2>1, <2>3, SMT DEF Shrinks
    <2> QED
      BY <2>2, <2>3, <2>4, <2>5 DEF Freed
  <1>6. \/ gone(p)
        \/ /\ return(p) /\ UNCHANGED <<torn, dbgen, polgen>>
           /\ \/ InCall(p, "promote") /\ closed(p)
              \/ UNCHANGED lockvars
              \/ open_fails(p, LockFor(Top(p).op, Top(p).mode))
    BY DEF lock_file_fails, open_db_fails, failed, datavars
  <1> QED
    BY <1>1, <1>3, <1>4, <1>5, <1>6, FailedGood

(* osa_adb_get_lock() fails: only the principal lock, if the call took it, is *)
(* there to be given back.                                                    *)
LEMMA NoLockGood ==
  ASSUME IInv, NEW p \in Proc, no_lock(p)
  PROVE  Good(p)
  <1>1. /\ pc[p] = "policy"
        /\ get_lock_fails(p, LockFor(Top(p).op, Top(p).mode))
    BY DEF no_lock
  <1>2. Types /\ Regs(p)
    BY DEF IInv, Sane
  <1>3. lockcnt[p] = 0
    <2>1. lockcnt[p] \in Nat
      BY <1>2 DEF Types
    <2> QED
      BY <1>1, <2>1, NoPolicyUpgrade, SMT
  <1>4. /\ Top(p).op \notin PolicyOps => db_locks_held[p] = 0 + 1
        /\ Top(p).op \in PolicyOps => db_locks_held[p] = 0
    BY <1>1, <1>3, Outermost
  <1>5. ASSUME Top(p).op \in PolicyOps, UNCHANGED lockvars
        PROVE  Freed(p)
    BY <1>2, <1>3, <1>4, <1>5, UnchangedFacts DEF Freed
  <1>6. ASSUME Top(p).op \notin PolicyOps, ctx_unlock(p)
        PROVE  Freed(p)
    <2>1. LockTypes' /\ Regs(p)' /\ Others(p) /\ Shrinks(p)
      BY <1>2, <1>6, UnlockShrinks
    <2>2. db_locks_held'[p] = 0 /\ lockcnt'[p] = 0
      <3>1. /\ lockcnt'[p] = IF lockcnt[p] = 0 THEN 0 ELSE lockcnt[p] - 1
            /\ db_locks_held'[p] =
                  IF db_locks_held[p] = 0 THEN 0 ELSE db_locks_held[p] - 1
        BY <1>2, <1>6, UnlockFacts
      <3> QED
        BY <1>3, <1>4, <1>6, <3>1, SMT
    <2> QED
      BY <2>1, <2>2 DEF Freed
  <1>7. \/ gone(p)
        \/ /\ return(p) /\ UNCHANGED <<torn, dbgen, polgen>>
           /\ \/ InCall(p, "promote") /\ closed(p)
              \/ Top(p).op \in PolicyOps /\ UNCHANGED lockvars
              \/ Top(p).op \notin PolicyOps /\ ctx_unlock(p)
    BY DEF no_lock, failed, datavars, undo_lock
  <1> QED
    BY <1>1, <1>3, <1>5, <1>6, <1>7, FailedGood

-----------------------------------------------------------------------------
(* An iteration goes to its callback, with or without its locks. *)
LEMMA CallbackGood ==
  ASSUME IInv, NEW p \in Proc, pc[p] = "run", InCall(p, "iterate"),
         IF p \in unlockiter THEN ctx_unlock(p) ELSE UNCHANGED lockvars,
         goto(p, "callback"), UNCHANGED <<stack, torn, dbgen, polgen>>
  PROVE  Good(p)
  <1>1. /\ Types /\ Sane(p) /\ Apart /\ Permanent /\ Whole
        /\ ~Idle(p) /\ Top(p).op = "iterate"
    BY DEF IInv, InCall
  <1>2. pc' = [pc EXCEPT ![p] = "callback"] /\ pc'[p] = "callback"
    BY <1>1 DEF goto, Types
  <1>3. ~Released(p)
    BY <1>1, ModeFacts
  <1>4. /\ LockTypes' /\ Regs(p)' /\ Others(p) /\ Shrinks(p)
    BY <1>1, UnlockShrinks, UnchangedFacts DEF Sane
  <1>5. Types' /\ Elsewhere(p)
    BY <1>1, <1>2, <1>4 DEF Types, LockTypes, Elsewhere
  <1>6. Nested(p)'
    <2>1. Len(stack[p]) # 0
      <3>1. Len(stack[p]) \in Nat /\ Len(stack[p]) > 0
        BY <1>1, CountFacts
      <3> QED BY ONLY <3>1
    <2> QED
      BY <1>1, <1>2, <2>1 DEF Sane, Nested, Top
  <1>7. /\ Len(stack[p]) \in Nat /\ Len(stack[p]) > 0
        /\ db_locks_held[p] = Len(stack[p]) /\ lockcnt[p] = Len(stack[p])
    <2>1. /\ Len(stack[p]) \in Nat /\ Len(stack[p]) > 0
          /\ db_locks_held[p] = Len(stack[p]) - One(Released(p))
                - One(Top(p).op \in PolicyOps) - One(pc[p] = "lock")
          /\ lockcnt[p] = Len(stack[p]) - One(Released(p))
                - One(pc[p] \in {"lock", "policy"})
      BY <1>1, CountFacts
    <2>2. /\ One(Released(p)) = 0 /\ One(Top(p).op \in PolicyOps) = 0
          /\ One(pc[p] = "lock") = 0 /\ One(pc[p] \in {"lock", "policy"}) = 0
      BY <1>1, <1>3 DEF One, PolicyOps
    <2>3. /\ db_locks_held[p] = Len(stack[p]) - 0 - 0 - 0
          /\ lockcnt[p] = Len(stack[p]) - 0 - 0
      BY <2>1, <2>2
    <2> QED
      BY <2>1, <2>3, SMT
  <1>8. Counts(p)'
    <2>1. /\ One(Len(stack'[p]) > 0 /\ Top(p).op' \in PolicyOps) = 0
          /\ One(pc'[p] = "lock") = 0 /\ One(pc'[p] \in {"lock", "policy"}) = 0
      BY <1>1, <1>2 DEF One, PolicyOps, Top
    <2>2. CASE p \in unlockiter
      <3>1. One(Released(p)') = 1
        BY <1>2, <2>2 DEF Released, One
      <3>2. /\ db_locks_held'[p] = Len(stack[p]) - 1
            /\ lockcnt'[p] = Len(stack[p]) - 1
        <4>1. /\ lockcnt'[p] = IF lockcnt[p] = 0 THEN 0 ELSE lockcnt[p] - 1
              /\ db_locks_held'[p] =
                    IF db_locks_held[p] = 0 THEN 0 ELSE db_locks_held[p] - 1
          BY <1>1, <2>2, UnlockFacts DEF Sane
        <4> QED
          BY <1>7, <4>1, SMT
      <3>3. /\ db_locks_held'[p] = Len(stack[p]) - 1 - 0 - 0
            /\ lockcnt'[p] = Len(stack[p]) - 1 - 0
        BY <1>7, <3>2, SMT
      <3> QED
        BY <2>1, <3>1, <3>3 DEF Counts
    <2>3. CASE p \notin unlockiter
      <3>1. One(Released(p)') = 0
        BY <2>3 DEF Released, One
      <3>2. db_locks_held'[p] = Len(stack[p]) /\ lockcnt'[p] = Len(stack[p])
        BY <1>7, <2>3 DEF lockvars
      <3>3. /\ db_locks_held'[p] = Len(stack[p]) - 0 - 0 - 0
            /\ lockcnt'[p] = Len(stack[p]) - 0 - 0
        BY <1>7, <3>2, SMT
      <3> QED
        BY <2>1, <3>1, <3>3 DEF Counts
    <2> QED
      BY <2>2, <2>3
  <1>9. Strong(p)'
    <2>1. CASE ~(Released(p)' /\ stack[p][1].op = "iterate")
      <3>1. Writes(p)' => Writes(p)
        BY <1>3, <2>1 DEF Writes, Base
      <3> QED
        BY <1>1, <1>4, <3>1 DEF Sane, Strong, Shrinks
    <2>2. CASE Released(p)' /\ stack[p][1].op = "iterate"
      <3>1. Len(stack[p]) = 1
        <4>1. Calls(stack[p]) /\ stack[p] \in Seq(Frame)
          BY <1>1 DEF Sane, Nested, Types
        <4> QED
          BY <1>1, <2>2, <4>1, IterateBelow DEF Idle, Under, Top
      <3>2. p \in unlockiter
        BY <2>2 DEF Released
      <3>3. /\ lockcnt'[p] = IF lockcnt[p] = 0 THEN 0 ELSE lockcnt[p] - 1
            /\ db_locks_held'[p] =
                  IF db_locks_held[p] = 0 THEN 0 ELSE db_locks_held[p] - 1
        BY <1>1, <3>2, UnlockFacts DEF Sane
      <3>4. db_locks_held[p] = 1 /\ lockcnt[p] = 1
        BY <1>7, <3>1
      <3>5. ~(db_locks_held'[p] > 0) /\ ~(lockcnt'[p] > 0)
        BY ONLY <3>3, <3>4
      <3> QED
        BY <3>5 DEF Strong
    <2> QED
      BY <2>1, <2>2
  <1>10. Apart' /\ Permanent'
    BY <1>1, <1>4, ShrinkKeeps
  <1>11. Whole'
    BY <1>1, <1>5, WholeKept
  <1> QED
    BY <1>4, <1>5, <1>6, <1>8, <1>9, <1>10, <1>11 DEF Good, Sane

(* The callback returns: an unlocked iteration has to lock again. *)
LEMMA ResumeGood ==
  ASSUME IInv, NEW p \in Proc, curs_run_cb(p)
  PROVE  Good(p)
  <1>1. /\ Types /\ Sane(p) /\ Apart /\ Permanent /\ Whole
    BY DEF IInv
  <1>2. /\ pc[p] = "callback"
        /\ pc' = [pc EXCEPT ![p] = IF p \in unlockiter THEN "lock" ELSE "run"]
        /\ UNCHANGED lockvars /\ UNCHANGED <<stack, torn, dbgen, polgen>>
    BY DEF curs_run_cb, goto, datavars
  <1>3. pc'[p] = IF p \in unlockiter THEN "lock" ELSE "run"
    BY <1>1, <1>2 DEF Types
  <1>4. ~Idle(p) /\ Top(p).op = "iterate"
    <2>1. stack[p] = <<>> => Len(stack[p]) = 0
      BY SMT
    <2> QED
      BY <1>1, <1>2, <2>1 DEF Sane, Nested, Idle
  <1>5. /\ LockTypes' /\ Regs(p)' /\ Others(p) /\ Shrinks(p)
        /\ db_locks_held'[p] = db_locks_held[p] /\ lockcnt'[p] = lockcnt[p]
    BY <1>1, <1>2, UnchangedFacts DEF Sane
  <1>6. Types' /\ Elsewhere(p)
    BY <1>1, <1>2, <1>5 DEF Types, LockTypes, Elsewhere
  <1>7. /\ Len(stack[p]) \in Nat /\ Len(stack[p]) > 0
        /\ db_locks_held[p] = Len(stack[p]) - One(Released(p))
               - One(Top(p).op \in PolicyOps) - One(pc[p] = "lock")
        /\ lockcnt[p] = Len(stack[p]) - One(Released(p))
               - One(pc[p] \in {"lock", "policy"})
    BY <1>4, CountFacts
  <1>8. Nested(p)'
    <2>1. stack' = stack /\ pc'[p] \in {"lock", "run"}
      BY <1>2, <1>3
    <2>2. Calls(stack[p]) /\ Len(stack[p]) # 0 /\ Top(p).op \notin PolicyOps
      <3>1. Calls(stack[p])
        BY <1>1 DEF Sane, Nested
      <3>2. Len(stack[p]) # 0
        BY <1>7, SMT
      <3> QED BY <3>1, <3>2, <1>4 DEF PolicyOps
    <2>3. Top(p)' = Top(p)
      BY <2>1 DEF Top
    <2> QED BY <2>1, <2>2, <2>3 DEF Nested
  <1>9. Len(stack[p]) > 1 => stack[p][Len(stack[p]) - 1].op # "iterate"
    <2>1. /\ Len(stack[p]) - 1 \in 1 .. Len(stack[p])
          /\ Len(stack[p]) - 1 < Len(stack[p])
          <=> Len(stack[p]) > 1
      BY <1>7, SMT
    <2>2. Calls(stack[p])
      BY <1>1 DEF Sane, Nested
    <2> QED
      BY <1>4, <1>7, <2>1, <2>2 DEF Calls, Under, Top
  <1>10. Counts(p)'
    <2>1. /\ One(Len(stack'[p]) > 0 /\ Top(p).op' \in PolicyOps) = 0
          /\ One(Top(p).op \in PolicyOps) = 0
          /\ One(pc[p] = "lock") = 0 /\ One(pc[p] \in {"lock", "policy"}) = 0
      BY <1>2, <1>4 DEF One, PolicyOps, Top
    <2>2. ~Released(p)' /\ One(Released(p)') = 0
      <3>1. ~Released(p)'
        <4>1. stack' = stack /\ pc'[p] \in {"lock", "run"}
          BY <1>2, <1>3
        <4> QED BY <4>1, <1>9 DEF Released
      <3> QED
        BY <3>1 DEF One
    <2>3. CASE p \in unlockiter
      <3>1. /\ One(Released(p)) = 1 /\ One(pc'[p] = "lock") = 1
            /\ One(pc'[p] \in {"lock", "policy"}) = 1
        BY <1>2, <1>3, <2>3 DEF Released, One
      <3>2. /\ db_locks_held[p] = Len(stack[p]) - 1 - 0 - 0
            /\ lockcnt[p] = Len(stack[p]) - 1 - 0
            /\ Len(stack[p]) \in Nat
        BY <1>7, <2>1, <3>1
      <3>3. /\ db_locks_held[p] = Len(stack[p]) - 0 - 0 - 1
            /\ lockcnt[p] = Len(stack[p]) - 0 - 1
        BY ONLY <3>2
      <3>4. db_locks_held'[p] = db_locks_held[p] /\ lockcnt'[p] = lockcnt[p]
            /\ stack'[p] = stack[p]
        BY <1>2 DEF lockvars
      <3> QED
        BY <2>1, <2>2, <3>1, <3>3, <3>4 DEF Counts
    <2>4. CASE p \notin unlockiter
      <3>1. /\ One(Released(p)) = 0 /\ One(pc'[p] = "lock") = 0
            /\ One(pc'[p] \in {"lock", "policy"}) = 0
        BY <1>3, <2>4 DEF Released, One
      <3> QED
        BY <1>2, <1>5, <1>7, <2>1, <2>2, <3>1 DEF Counts
    <2> QED
      BY <2>3, <2>4
  <1>11. Strong(p)'
    <2>1. ASSUME Released(p), stack[p][1].op = "iterate"
          PROVE  db_locks_held[p] = 0 /\ lockcnt[p] = 0
      <3>1. Len(stack[p]) = 1
        <4>1. Calls(stack[p]) /\ stack[p] \in Seq(Frame)
          BY <1>1 DEF Sane, Nested, Types
        <4> QED
          BY <1>4, <2>1, <4>1, IterateBelow DEF Idle, Under, Top
      <3>2. /\ One(Released(p)) = 1 /\ One(Top(p).op \in PolicyOps) = 0
            /\ One(pc[p] = "lock") = 0 /\ One(pc[p] \in {"lock", "policy"}) = 0
        BY <1>2, <1>4, <2>1 DEF One, PolicyOps
      <3>3. db_locks_held[p] = 1 - 1 - 0 - 0 /\ lockcnt[p] = 1 - 1 - 0
        BY <1>7, <3>1, <3>2
      <3> QED
        BY <3>3, SMT
    <2>2. /\ ~(0 > 0) /\ stack' = stack
          /\ UNCHANGED <<plk, lockmode, db_locks_held, lockcnt>>
      BY <1>2, SMT DEF lockvars
    <2>3. Strong(p)
      BY <1>1 DEF Sane
    <2>4. CASE Released(p) /\ stack[p][1].op = "iterate"
      BY <2>1, <2>2, <2>4 DEF Strong
    <2>5. CASE ~(Released(p) /\ stack[p][1].op = "iterate")
      <3>1. ~(Released(p)' /\ stack[p][1].op = "iterate")
        BY <1>2, <1>3, <2>2, <2>5 DEF Released
      <3>2. Writes(p)' <=> Writes(p)
        BY <2>2, <2>5, <3>1 DEF Writes, Base
      <3> QED
        BY <2>2, <2>3, <3>2 DEF Strong
    <2> QED
      BY <2>4, <2>5
  <1>12. Apart' /\ Permanent'
    BY <1>1, <1>5, ShrinkKeeps
  <1>13. Whole'
    BY <1>1, <1>2, <1>6, WholeKept
  <1> QED
    BY <1>5, <1>6, <1>8, <1>10, <1>11, <1>12, <1>13 DEF Good, Sane

(* The two renames of a promotion. *)
LEMMA RenamePrincipalsGood ==
  ASSUME IInv, NEW p \in Proc, rename_principals(p)
  PROVE  Good(p)
  <1>1. /\ Types /\ Sane(p) /\ Apart /\ Permanent
    BY DEF IInv
  <1>2. /\ pc[p] = "run" /\ ~Idle(p) /\ Top(p).op = "promote"
        /\ pc' = [pc EXCEPT ![p] = "renamed"]
        /\ UNCHANGED lockvars /\ UNCHANGED stack
    BY DEF rename_principals, InCall, goto
  <1>3. pc'[p] = "renamed"
    BY <1>1, <1>2 DEF Types
  <1>4. /\ LockTypes' /\ Regs(p)' /\ Others(p) /\ Shrinks(p)
        /\ db_locks_held'[p] = db_locks_held[p] /\ lockcnt'[p] = lockcnt[p]
    BY <1>1, <1>2, UnchangedFacts DEF Sane
  <1>5. Types' /\ Elsewhere(p)
    BY <1>1, <1>2, <1>4 DEF Types, LockTypes, Elsewhere
  <1>6. Nested(p)'
    <2>1. Len(stack[p]) # 0
      BY <1>2, CountFacts, SMT
    <2> QED
      BY <1>1, <1>2, <1>3, <2>1 DEF Sane, Nested, Top
  <1>7. Counts(p)'
    <2>1. Released(p)' <=> Released(p)
      BY <1>2, <1>3 DEF Released
    <2>2. /\ One(Released(p)') = One(Released(p))
          /\ One(pc[p] = "lock") = 0 /\ One(pc[p] \in {"lock", "policy"}) = 0
          /\ One(pc'[p] = "lock") = 0 /\ One(pc'[p] \in {"lock", "policy"}) = 0
          /\ One(Len(stack'[p]) > 0 /\ Top(p).op' \in PolicyOps) =
                One(Len(stack[p]) > 0 /\ Top(p).op \in PolicyOps)
      BY <1>2, <1>3, <2>1 DEF One, Top
    <2> QED
      BY <1>1, <1>2, <1>4, <2>2 DEF Sane, Counts
  <1>8. Strong(p)'
    <2>1. Writes(p)' <=> Writes(p)
      BY <1>2, <1>3 DEF Writes, Base, Top, Released
    <2> QED
      BY <1>1, <1>2, <1>4, <2>1 DEF Sane, Strong, Shrinks
  <1>9. Apart' /\ Permanent'
    BY <1>1, <1>4, ShrinkKeeps
  <1>10. Whole'
    BY <1>3 DEF Whole
  <1> QED
    BY <1>4, <1>5, <1>6, <1>7, <1>8, <1>9, <1>10 DEF Good, Sane

(* A promotion whose first rename fails changes nothing but its locks. *)
LEMMA RenameFailsGood ==
  ASSUME IInv, NEW p \in Proc, rename_fails(p)
  PROVE  Good(p)
  <1>1. /\ pc[p] = "run" /\ InCall(p, "promote") /\ closed(p) /\ return(p)
        /\ UNCHANGED <<torn, dbgen, polgen>>
    BY DEF rename_fails, datavars
  <1>2. Types' /\ Sane(p)' /\ Others(p) /\ Elsewhere(p) /\ Apart' /\ Permanent'
    BY <1>1, PromoteEnds
  <1>3. Whole'
    BY <1>1, <1>2, WholeKept DEF IInv
  <1> QED
    BY <1>2, <1>3 DEF Good

(* The second rename of ctx_promote() ends the promotion, whole or torn. *)
LEMMA RenamePoliciesGood ==
  ASSUME IInv, NEW p \in Proc, rename_policies(p)
  PROVE  Good(p)
  <1>1. /\ pc[p] = "renamed" /\ closed(p) /\ return(p) /\ dbgen' = dbgen
        /\ polgen' = dbgen \/ torn'
    BY DEF rename_policies
  <1>2. InCall(p, "promote")
    <2>1. stack[p] = <<>> => Len(stack[p]) = 0
      BY SMT
    <2> QED
      BY <1>1, <2>1 DEF IInv, Sane, Nested, InCall, Idle
  <1>3. Types' /\ Sane(p)' /\ Others(p) /\ Elsewhere(p) /\ Apart' /\ Permanent'
    BY <1>1, <1>2, PromoteEnds
  <1>4. Whole'
    BY <1>1 DEF Whole
  <1> QED
    BY <1>3, <1>4 DEF Good

-----------------------------------------------------------------------------
(* No process is in a call at first, and none has a lock. *)
LEMMA InitIInv == Init => IInv
  <1> SUFFICES ASSUME Init PROVE IInv
    OBVIOUS
  <1>1. Types
    BY SMT DEF Init, LockInit, Types
  <1>2. ASSUME NEW p \in Proc
        PROVE  Sane(p)
    <2>1. Len(stack[p]) = 0 /\ pc[p] = "run"
      BY DEF Init
    <2>2. Regs(p)
      BY DEF Init, LockInit, Regs
    <2>3. Nested(p)
      BY <2>1, SMT DEF Nested, Calls
    <2>4. ~Released(p)
      BY <2>1, SMT DEF Released
    <2>5. db_locks_held[p] = 0 /\ lockcnt[p] = 0
      BY DEF Init, LockInit
    <2>6. Counts(p)
      <3>1. /\ One(Released(p)) = 0 /\ One(pc[p] = "lock") = 0
            /\ One(Len(stack[p]) > 0 /\ Top(p).op \in PolicyOps) = 0
            /\ One(pc[p] \in {"lock", "policy"}) = 0
        BY <2>1, <2>4, SMT DEF One
      <3> QED
        BY <2>1, <2>5, <3>1, SMT DEF Counts
    <2>7. Strong(p)
      BY <2>1, SMT DEF Strong, Writes
    <2> QED
      BY <2>2, <2>3, <2>6, <2>7 DEF Sane
  <1>3. Apart /\ Permanent /\ Whole
    BY DEF Init, LockInit, Apart, Permanent, Whole
  <1> QED
    BY <1>1, <1>2, <1>3 DEF IInv

(* A step of process p. *)
Step(p) ==
    \/ krb5_db2_open(p) \/ krb5_db2_fini(p) \/ Die(p)
    \/ \E op \in Ops, mode \in {SHARED, EXCLUSIVE, PERMANENT} : Call(p, op, mode)
    \/ ctx_lock(p) \/ lock_file_fails(p) \/ open_db_fails(p)
    \/ get_lock(p) \/ no_lock(p)
    \/ krb5_db2_get_principal(p) \/ krb5_db2_put_principal(p)
    \/ krb5_db2_delete_principal(p) \/ krb5_db2_unlock(p)
    \/ osa_adb_close_and_unlock(p)
    \/ ctx_iterate(p) \/ curs_run_cb(p)
    \/ krb5_db2_promote_db(p) \/ rename_fails(p)
    \/ rename_principals(p) \/ rename_policies(p)

(* Every operation, every failure and every death is good for its process. *)
LEMMA StepGood ==
  ASSUME IInv, NEW p \in Proc, Step(p)
  PROVE  Good(p)
  <1>1. CASE krb5_db2_open(p)
    BY <1>1, OpenGood
  <1>2. CASE krb5_db2_fini(p)
    BY <1>2, FiniGood
  <1>3. CASE Die(p)
    BY <1>3, GoneGood DEF Die
  <1>4. CASE \E op \in Ops, mode \in {SHARED, EXCLUSIVE, PERMANENT} :
                Call(p, op, mode)
    BY <1>4, CallGood
  <1>5. CASE ctx_lock(p)
    BY <1>5, LockGood
  <1>6. CASE lock_file_fails(p) \/ open_db_fails(p)
    BY <1>6, LockFailsGood
  <1>7. CASE get_lock(p) \/ no_lock(p)
    BY <1>7, GetGood, NoLockGood
  <1>8. CASE \/ krb5_db2_get_principal(p) \/ krb5_db2_put_principal(p)
             \/ krb5_db2_delete_principal(p) \/ krb5_db2_unlock(p)
    <2>1. /\ pc[p] = "run" /\ ~Idle(p) /\ Top(p).op \notin PolicyOps
          /\ ctx_unlock(p) /\ return(p) /\ UNCHANGED <<torn, dbgen, polgen>>
      BY <1>8 DEF krb5_db2_get_principal, krb5_db2_put_principal,
           krb5_db2_delete_principal, krb5_db2_unlock, InCall, PolicyOps,
           datavars
    <2> QED
      BY <2>1, FinishGood
  <1>9. CASE osa_adb_close_and_unlock(p)
    BY <1>9, PolicyGood
  <1>10. CASE ctx_iterate(p)
    <2>1. /\ pc[p] = "run" /\ InCall(p, "iterate")
          /\ UNCHANGED <<torn, dbgen, polgen>>
          /\ \/ ctx_unlock(p) /\ return(p)
             \/ /\ IF p \in unlockiter THEN ctx_unlock(p)
                                        ELSE UNCHANGED lockvars
                /\ goto(p, "callback") /\ UNCHANGED stack
      BY <1>10 DEF ctx_iterate, datavars
    <2>2. ~Idle(p) /\ Top(p).op \notin PolicyOps
      BY <2>1 DEF InCall, PolicyOps
    <2> QED
      BY <2>1, <2>2, FinishGood, CallbackGood
  <1>11. CASE curs_run_cb(p)
    BY <1>11, ResumeGood
  <1>12. CASE krb5_db2_promote_db(p)
    BY <1>12, PromoteGood
  <1>13. CASE rename_principals(p)
    BY <1>13, RenamePrincipalsGood
  <1>14. CASE rename_policies(p)
    BY <1>14, RenamePoliciesGood
  <1>15. CASE rename_fails(p)
    BY <1>15, RenameFailsGood
  <1> QED
    BY <1>1, <1>2, <1>3, <1>4, <1>5, <1>6, <1>7, <1>8, <1>9, <1>10, <1>11, <1>12,
       <1>13, <1>14, <1>15 DEF Step

(* Every operation, every failure and every death keep the invariant. *)
LEMMA StepKeepsIInv == IInv /\ [Next]_vars => IInv'
  <1> SUFFICES ASSUME IInv, [Next]_vars PROVE IInv'
    OBVIOUS
  <1>1. CASE UNCHANGED vars
    <2>1. /\ UNCHANGED <<plk, alk, afile, ninode, afd, db_locks_held,
                         db_lock_mode, db, lockmode, lockcnt>>
          /\ UNCHANGED <<stack, pc, torn, dbgen, polgen>>
      BY <1>1 DEF vars, lockvars
    <2>2. Types' /\ Apart' /\ Permanent' /\ Whole'
      BY <2>1 DEF IInv, Types, Apart, Permanent, Whole
    <2>3. ASSUME NEW p \in Proc
          PROVE  Sane(p)'
      BY <2>1 DEF IInv, Sane, Regs, Nested, Counts, Strong, Writes, Base, Released,
                  Top, One
    <2> QED
      BY <2>2, <2>3 DEF IInv
  <1>2. CASE Next
    <2>1. PICK p \in Proc : Step(p)
      BY <1>2 DEF Next, Step
    <2> QED
      BY <2>1, StepGood, GoodKeeps
  <1> QED
    BY <1>1, <1>2

(* The inductive invariant of the locks holds in every behaviour. *)
LEMMA Invariant == Spec => []IInv
  <1>1. Init => IInv
    BY InitIInv
  <1>2. IInv /\ [Next]_vars => IInv'
    BY StepKeepsIInv
  <1> QED
    BY <1>1, <1>2, PTL DEF Spec

-----------------------------------------------------------------------------
(* ctx_lock() and ctx_unlock() give one process at a time the principal      *)
(* database for writing, and then to itself.                                 *)
THEOREM WritersExclude == Spec => []Exclusion
  <1>1. IInv => Exclusion
    BY SMT DEF IInv, Sane, Regs, Apart, Exclusion
  <1> QED
    BY <1>1, Invariant, PTL

(* A process between two calls of the back end holds no lock and no handle,  *)
(* whichever way its calls ended; at most the mode of a permanent lock is    *)
(* left, without a lock file.                                                *)
THEOREM NothingIsKept == Spec => []NothingKept
  <1>1. IInv => NothingKept
    <2> SUFFICES ASSUME IInv, NEW p \in Proc, Idle(p)
                 PROVE  /\ plk[p] = 0 /\ alk[p] = 0 /\ db[p] = NULL
                        /\ db_locks_held[p] = 0 /\ lockcnt[p] = 0
                        /\ \/ lockmode[p] = 0
                           \/ lockmode[p] = PERMANENT /\ afd[p] = 0
      BY DEF NothingKept
    <2>1. Len(stack[p]) = 0
      BY SMT DEF Idle
    <2>2. pc[p] = "run"
      BY <2>1 DEF IInv, Sane, Nested
    <2>3. ~Released(p)
      BY <2>1, <2>2, SMT DEF Released
    <2>4. /\ One(Released(p)) = 0 /\ One(pc[p] = "lock") = 0
          /\ One(Len(stack[p]) > 0 /\ Top(p).op \in PolicyOps) = 0
          /\ One(pc[p] \in {"lock", "policy"}) = 0
      <3>1. ~(Len(stack[p]) > 0)
        BY <2>1, SMT
      <3> QED BY <3>1, <2>2, <2>3 DEF One
    <2>5. db_locks_held[p] = 0 /\ lockcnt[p] = 0
      <3>1. db_locks_held[p] = 0 - 0 - 0 - 0 /\ lockcnt[p] = 0 - 0 - 0
        BY <2>1, <2>4 DEF IInv, Sane, Counts
      <3> QED
        BY ONLY <3>1
    <2> QED
      BY <2>5 DEF IInv, Sane, Regs
  <1> QED
    BY <1>1, Invariant, PTL

(* Neither ctx_lock() nor osa_adb_get_lock() upgrades a lock: no call takes  *)
(* the handle of an iteration away, clears the counts of the calls it is     *)
(* nested in, or risks their policy lock.                                    *)
THEOREM LocksNotUpgraded == Spec => []NeverUpgraded
  <1>1. IInv => NeverUpgraded
    BY NoUpgrade, NoPolicyUpgrade DEF NeverUpgraded
  <1> QED
    BY <1>1, Invariant, PTL

(* A permanent lock keeps every other process out of the database until it   *)
(* is released, even if its holder has died.                                 *)
THEOREM PermanentLockSurvives == Spec => []PermanentSurvives
  <1>1. IInv => PermanentSurvives
    <2> SUFFICES ASSUME IInv, afile = 0, NEW p \in Proc,
                        db_locks_held[p] > 0, pc[p] \notin {"lock", "policy"}
                 PROVE  lockmode[p] = PERMANENT
      BY DEF PermanentSurvives
    <2>1. lockcnt[p] > 0
      <3>1. /\ One(pc[p] \in {"lock", "policy"}) = 0 /\ One(pc[p] = "lock") = 0
            /\ One(Len(stack[p]) > 0 /\ Top(p).op \in PolicyOps) \in {0, 1}
            /\ One(Released(p)) \in {0, 1}
        BY DEF One
      <3>2. Counts(p) /\ stack[p] \in Seq(Frame)
        BY DEF IInv, Sane, Types
      <3> QED
        BY <3>1, <3>2, SMT DEF Counts
    <2> QED
      BY <2>1 DEF IInv, Permanent
  <1> QED
    BY <1>1, Invariant, PTL

(* Whoever has the lock finds the principal and the policy database of the   *)
(* same promotion, unless a promotion ended between its two renames.         *)
THEOREM GenerationsAgree == Spec => []OneGeneration
  <1>1. IInv => OneGeneration
    <2> SUFFICES ASSUME IInv, NEW p \in Proc, db_locks_held[p] > 0,
                        pc[p] # "renamed", ~torn
                 PROVE  dbgen = polgen
      BY DEF OneGeneration
    <2>1. ASSUME NEW q \in Proc, pc[q] = "renamed"
          PROVE  FALSE
      <3>1. ~Idle(q) /\ Top(q).op = "promote"
        <4>1. stack[q] = <<>> => Len(stack[q]) = 0
          BY SMT
        <4> QED
          BY <2>1, <4>1 DEF IInv, Sane, Nested, Idle
      <3>2. Len(stack[q]) = 1 /\ stack[q][1].mode = EXCLUSIVE
        BY <3>1, ModeFacts
      <3>3. db_locks_held[q] > 0
        <4>1. /\ Len(stack[q]) \in Nat /\ db_locks_held[q] \in Nat
              /\ db_locks_held[q] = Len(stack[q]) - One(Released(q))
                    - One(Top(q).op \in PolicyOps) - One(pc[q] = "lock")
          BY <3>1, CountFacts
        <4>2. /\ One(Released(q)) = 0 /\ One(Top(q).op \in PolicyOps) = 0
              /\ One(pc[q] = "lock") = 0
          BY <2>1, <3>1, <3>2, SMT DEF One, Released, PolicyOps
        <4>3. db_locks_held[q] = 1 - 0 - 0 - 0
          BY <3>2, <4>1, <4>2
        <4> QED
          BY <4>3, SMT
      <3>4. plk[q] = EXCLUSIVE
        <4>1. Top(q) = stack[q][1] /\ Len(stack[q]) > 0 /\ EXCLUSIVE >= EXCLUSIVE
          BY <3>1, <3>2, ModeFacts, SMT
        <4>2. Writes(q)
          BY <3>1, <3>2, <4>1 DEF Writes, Base
        <4> QED
          BY <3>3, <4>2 DEF IInv, Sane, Strong
      <3>5. plk[p] = 0
        BY <2>1, <3>4 DEF IInv, Apart
      <3> QED
        BY <3>5, SMT DEF IInv, Sane, Regs
    <2> QED
      BY <2>1 DEF IInv, Whole
  <1> QED
    BY <1>1, Invariant, PTL

(* A process that has a lock of the policy database does not wait. *)
LEMMA PolicyHolderRuns ==
  ASSUME IInv, NEW r \in Proc, alk[r] # 0
  PROVE  ~Waits(r) /\ alk[r] > 0
  <1>1. /\ lockcnt[r] \in Nat /\ lockcnt[r] > 0 /\ alk[r] > 0
        /\ lockmode[r] \in {0, 1, 2, 8} /\ db_locks_held[r] \in Nat
    BY SMT DEF IInv, Types, Sane, Regs
  <1>2. ASSUME pc[r] = "lock"
        PROVE  ~MustLock(r, LockFor(Top(r).op, Top(r).mode))
    <2>1. db_locks_held[r] > 0
      BY <1>1, <1>2, Outermost
    <2> QED
      BY <1>2, <2>1, NoUpgrade
  <1>3. ASSUME pc[r] = "policy"
        PROVE  get_lock_granted(r, LockFor(Top(r).op, Top(r).mode))
    BY <1>1, <1>3, Outermost, Covered DEF get_lock_granted, LockFor
  <1> QED
    BY <1>1, <1>2, <1>3 DEF Waits

(* The processes never all wait for each other's locks: ctx_lock() takes the *)
(* principal lock before the policy lock, and calls inside others need no    *)
(* stronger lock than those have.                                            *)
THEOREM LocksDoNotDeadlock == Spec => []NoDeadlock
  <1>1. IInv => NoDeadlock
    <2> SUFFICES ASSUME IInv, NEW p \in Proc, Waits(p)
                 PROVE  \E q \in Proc : ~Waits(q) /\ (plk[q] > 0 \/ alk[q] > 0)
      BY DEF NoDeadlock
    <2>1. ASSUME NEW q \in Proc, pc[q] = "policy",
                 ~get_lock_granted(q, LockFor(Top(q).op, Top(q).mode))
          PROVE  \E r \in Proc : ~Waits(r) /\ alk[r] > 0
      <3>1. PICK r \in Proc \ {q} : alk[r] # 0
        BY <2>1 DEF get_lock_granted, PolicyFree, Grantable
      <3> QED
        BY <3>1, PolicyHolderRuns
    <2>2. CASE pc[p] = "policy"
      BY <2>1, <2>2 DEF Waits
    <2>3. CASE pc[p] = "lock"
      <3>1. PICK q \in Proc \ {p} : plk[q] # 0
        BY <2>3 DEF Waits, PrincipalFree, Grantable
      <3>2. db_locks_held[q] > 0 /\ plk[q] > 0
        <4>1. /\ db_locks_held[q] = 0 <=> plk[q] = 0
              /\ db_locks_held[q] \in Nat /\ plk[q] \in 0 .. 2
          BY <3>1 DEF IInv, Types, Sane, Regs
        <4> QED
          BY <3>1, <4>1, SMT
      <3>3. CASE ~Waits(q)
        BY <3>2, <3>3
      <3>4. CASE Waits(q)
        <4>1. ~(pc[q] = "lock" /\ MustLock(q, LockFor(Top(q).op, Top(q).mode)))
          BY <3>2, NoUpgrade
        <4>2. /\ pc[q] = "policy"
              /\ ~get_lock_granted(q, LockFor(Top(q).op, Top(q).mode))
          BY <3>4, <4>1 DEF Waits
        <4> QED
          BY <2>1, <4>2
      <3> QED
        BY <3>3, <3>4
    <2> QED
      BY <2>2, <2>3 DEF Waits
  <1> QED
    BY <1>1, Invariant, PTL

-----------------------------------------------------------------------------
(* Forwards without the lock, an entry that follows directly on a deleted one *)
(* may have been passed over.                                                 *)
Skipped(p, c, k) ==
    /\ p \in unlockiter
    /\ \E j \in c.seen \ c.need : j < k /\ \A i \in c.need : i < j \/ i >= k

(* Where an iteration is: of what is due, it has shown everything that is not *)
(* beyond its cursor, but for what was skipped.                               *)
Shown(p, c) ==
    /\ c.key \in Key /\ c.key \in c.seen
    /\ \A k \in c.need :
        IF c.rev THEN k >= c.key <=> k \in c.seen
        ELSE k <= c.key => k \in c.seen \/ Skipped(p, c, k)

(* It has its lock: it runs, or a call of its callback does. *)
Iterates(p) ==
    \/ InCall(p, "iterate") /\ pc[p] \in {"run", "callback"}
    \/ Len(stack[p]) > 1 /\ stack[p][Len(stack[p]) - 1].op = "iterate"

CursorOK(p) ==
    IF curs[p].key = None THEN curs[p].seen = {}
    ELSE /\ Shown(p, curs[p]) /\ curs[p].need \subseteq princ
         /\ p \in unlockiter \/ Iterates(p)

CInv ==
    /\ curs \in [Proc -> Cursor] /\ princ \in SUBSET Key
    /\ \A p \in Proc : CursorOK(p)

(* db->seq() towards the end of the database: an entry, or the end when none *)
(* is left.                                                                  *)
LEMMA LeastFacts ==
  ASSUME NEW S \in SUBSET Key
  PROVE  /\ Least(S) = End => S = {}
         /\ Least(S) # End => Least(S) \in S /\ \A j \in S : Least(S) <= j
  <1>1. K \in Nat /\ End = K + 1 /\ Key = 1 .. K
    BY Db2Assumption DEF End, Key
  <1>2. CASE S = {}
    BY <1>2 DEF Least
  <1>3. CASE S # {}
    <2>1. S \in SUBSET Nat
      BY <1>1, SMT
    <2>2. \E x \in S : \A y \in S : x =< y
      BY <1>3, <2>1, LeastExists
    <2>3. Least(S) \in S /\ \A j \in S : Least(S) <= j
      BY <1>3, <2>2 DEF Least
    <2>4. Least(S) # End
      BY <1>1, <2>3, SMT
    <2> QED
      BY <2>3, <2>4
  <1> QED
    BY <1>2, <1>3

(* db->seq() towards its beginning. *)
LEMMA GreatestFacts ==
  ASSUME NEW S \in SUBSET Key
  PROVE  /\ Greatest(S) = End => S = {}
         /\ Greatest(S) # End =>
                Greatest(S) \in S /\ \A j \in S : Greatest(S) >= j
  <1>1. K \in Nat /\ End = K + 1 /\ Key = 1 .. K
    BY Db2Assumption DEF End, Key
  <1>2. CASE S = {}
    BY <1>2 DEF Greatest
  <1>3. CASE S # {}
    <2>0. K \in Nat /\ S \in SUBSET (0 .. K)
      BY <1>1, SMT
    <2>1. \E x \in S : \A y \in S : x >= y
      BY <1>3, <2>0, GreatestExists
    <2>2. Greatest(S) \in S /\ \A j \in S : Greatest(S) >= j
      BY <1>3, <2>1 DEF Greatest
    <2>3. Greatest(S) # End
      BY <1>1, <2>2, SMT
    <2> QED
      BY <2>2, <2>3
  <1> QED
    BY <1>2, <1>3

(* db->seq(R_CURSOR): the entry of a key, or the next greater one. *)
LEMMA FirstFacts ==
  ASSUME princ \in SUBSET Key, NEW key, NEW at, at = bt_first(key)
  PROVE  /\ at = End => \A k \in princ : ~(k >= key)
         /\ at # End => /\ at \in princ /\ at >= key
                        /\ \A k \in princ : k >= key => at <= k
  <1> DEFINE S == {k \in princ : k >= key}
  <1>1. S \in SUBSET Key /\ at = Least(S)
    BY DEF bt_first
  <1>2. /\ at = End => S = {}
        /\ at # End => at \in S /\ \A j \in S : at <= j
    BY <1>1, LeastFacts
  <1> QED
    BY <1>2

(* db->seq(R_NEXT) and (R_PREV): the neighbour of an entry, or, if the entry *)
(* has been deleted, the next greater one.                                   *)
LEMMA AdvanceFacts ==
  ASSUME princ \in SUBSET Key, NEW key \in Key, NEW rev, NEW next,
         next = bt_seqadv(key, rev)
  PROVE  /\ next # End => next \in princ
         /\ key \notin princ =>
              /\ next = End => \A k \in princ : k < key
              /\ next # End =>
                    next > key /\ \A k \in princ : k < key \/ k >= next
         /\ key \in princ /\ rev =>
              /\ next = End => \A k \in princ : k >= key
              /\ next # End =>
                    next < key /\ \A k \in princ : k <= next \/ k >= key
         /\ key \in princ /\ ~rev =>
              /\ next = End => \A k \in princ : k <= key
              /\ next # End =>
                    next > key /\ \A k \in princ : k <= key \/ k >= next
  <1>1. key \in Int /\ \A k \in princ : k \in Int
    BY Db2Assumption, SMT DEF Key
  <1>2. CASE key \notin princ
    <2>1. next = bt_first(key)
      BY <1>2 DEF bt_seqadv
    <2>2. /\ next = End => \A k \in princ : ~(k >= key)
          /\ next # End => /\ next \in princ /\ next >= key
                           /\ \A k \in princ : k >= key => next <= k
      BY <2>1, FirstFacts
    <2>3. next = End => \A k \in princ : k < key
      BY <1>1, <2>2, SMT
    <2>4. ASSUME next # End
          PROVE  next > key /\ \A k \in princ : k < key \/ k >= next
      <3>1. next \in princ /\ next >= key /\ next # key /\ next \in Int
        BY <1>1, <1>2, <2>2, <2>4
      <3>2. next > key
        BY ONLY <1>1, <3>1
      <3>3. \A k \in princ : k >= key => next <= k
        BY <2>2, <2>4
      <3> QED
        BY ONLY <1>1, <3>1, <3>2, <3>3
    <2> QED
      BY <1>2, <2>2, <2>3, <2>4
  <1>3. CASE key \in princ /\ rev
    <2> DEFINE S == {k \in princ : k < key}
    <2>1. S \in SUBSET Key /\ next = Greatest(S)
      BY <1>3 DEF bt_seqadv
    <2>2. /\ next = End => S = {}
          /\ next # End => next \in S /\ \A j \in S : next >= j
      BY <2>1, GreatestFacts
    <2>3. next = End => \A k \in princ : k >= key
      BY <1>1, <2>2, SMT
    <2>4. next # End => /\ next \in princ /\ next < key
                        /\ \A k \in princ : k <= next \/ k >= key
      BY <1>1, <2>2, SMT
    <2> QED
      BY <1>3, <2>3, <2>4
  <1>4. CASE key \in princ /\ ~rev
    <2> DEFINE S == {k \in princ : k > key}
    <2>1. S \in SUBSET Key /\ next = Least(S)
      BY <1>4 DEF bt_seqadv
    <2>2. /\ next = End => S = {}
          /\ next # End => next \in S /\ \A j \in S : next <= j
      BY <2>1, LeastFacts
    <2>3. next = End => \A k \in princ : k <= key
      BY <1>1, <2>2, SMT
    <2>4. next # End => /\ next \in princ /\ next > key
                        /\ \A k \in princ : k <= key \/ k >= next
      BY <1>1, <2>2, SMT
    <2> QED
      BY <1>4, <2>3, <2>4
  <1> QED
    BY <1>2, <1>3, <1>4

(* curs_step() finds the cursor again, and goes on from there. *)
LEMMA FoundAgain ==
  ASSUME princ \in SUBSET Key, NEW p \in Proc, NEW c, c.key \in Key,
         NEW key, key = curs_step(p, c)
  PROVE  \/ key = bt_seqadv(c.key, c.rev) /\ (p \in unlockiter => c.key \in princ)
         \/ /\ p \in unlockiter /\ c.key \notin princ /\ key = End
            /\ \A k \in princ : k < c.key
         \/ /\ p \in unlockiter /\ c.key \notin princ
            /\ \E at \in princ :
                  /\ at > c.key /\ key = bt_seqadv(at, c.rev)
                  /\ \A k \in princ : k < c.key \/ k >= at
  <1>1. c.key \in Int /\ c.key # End /\ \A k \in princ : k \in Int
    BY Db2Assumption, SMT DEF Key, End
  <1>2. CASE p \notin unlockiter
    BY <1>1, <1>2 DEF curs_step
  <1>3. CASE p \in unlockiter
    <2> DEFINE at == bt_first(c.key)
    <2>1. key = IF at = End THEN End ELSE bt_seqadv(at, c.rev)
      BY <1>3 DEF curs_step
    <2>2. /\ at = End => \A k \in princ : ~(k >= c.key)
          /\ at # End => /\ at \in princ /\ at >= c.key
                         /\ \A k \in princ : k >= c.key => at <= k
      BY FirstFacts
    <2> HIDE DEF at
    <2>3. CASE at = End
      <3>1. c.key \notin princ /\ \A k \in princ : k < c.key
        BY <1>1, <2>2, <2>3, SMT
      <3> QED
        BY <1>3, <2>1, <2>3, <3>1
    <2>4. CASE at # End /\ at = c.key
      BY <2>1, <2>2, <2>4
    <2>5. CASE at # End /\ at # c.key
      <3>1. /\ at \in princ /\ at > c.key /\ c.key \notin princ
            /\ \A k \in princ : k < c.key \/ k >= at
        BY <1>1, <2>2, <2>5, SMT
      <3> QED
        BY <1>3, <2>1, <2>5, <3>1
    <2> QED
      BY <2>3, <2>4, <2>5
  <1> QED
    BY <1>2, <1>3

(* Backwards: to the previous entry, or, at a deleted one, to the next. *)
LEMMA BackFacts ==
  ASSUME princ \in SUBSET Key, NEW p \in Proc, NEW c, c.key \in Key, c.rev,
         NEW key, key = curs_step(p, c)
  PROVE  /\ key = End => \/ \A k \in princ : k < c.key
                         \/ \A k \in princ : k >= c.key
         /\ key # End =>
              /\ key \in princ
              /\ \/ key < c.key /\ \A k \in princ : k <= key \/ k >= c.key
                 \/ key > c.key /\ \A k \in princ : k < c.key \/ k >= key
  <1>1. c.key \in Int /\ \A k \in princ : k \in Int /\ k \in Key
    BY Db2Assumption, SMT DEF Key
  <1>2. CASE key = bt_seqadv(c.key, c.rev)
    BY <1>2, AdvanceFacts
  <1>3. CASE key = End /\ \A k \in princ : k < c.key
    BY <1>3
  <1>4. ASSUME NEW at \in princ, at > c.key, key = bt_seqadv(at, c.rev),
               c.key \notin princ, \A k \in princ : k < c.key \/ k >= at
        PROVE  /\ key = End => \A k \in princ : k >= c.key
               /\ key # End => /\ key \in princ /\ key < c.key
                               /\ \A k \in princ : k <= key \/ k >= c.key
    <2>1. /\ key = End => \A k \in princ : k >= at
          /\ key # End => /\ key \in princ /\ key < at
                          /\ \A k \in princ : k <= key \/ k >= at
      BY <1>1, <1>4, AdvanceFacts
    <2>2. at \in Int
      BY <1>1, <1>4
    <2>3. CASE key = End
      <3>1. \A k \in princ : k >= at
        BY <2>1, <2>3
      <3>2. \A k \in princ : k >= c.key
        BY ONLY <1>1, <1>4, <2>2, <3>1
      <3> QED
        BY <2>3, <3>2
    <2>4. CASE key # End
      <3>1. /\ key \in princ /\ key < at /\ key \in Int
            /\ \A k \in princ : k <= key \/ k >= at
        BY <1>1, <2>1, <2>4
      <3>2. key < c.key \/ key >= at
        BY <1>4, <3>1
      <3>3. key < c.key
        BY ONLY <1>1, <2>2, <3>1, <3>2
      <3>4. \A k \in princ : k <= key \/ k >= c.key
        BY ONLY <1>1, <1>4, <2>2, <3>1
      <3> QED
        BY <2>4, <3>1, <3>3, <3>4
    <2> QED
      BY <2>3, <2>4
  <1> QED
    BY <1>2, <1>3, <1>4, FoundAgain

(* Forwards: to the next entry; without the lock, past the one that has taken *)
(* the place of a deleted one.                                                *)
LEMMA ForthFacts ==
  ASSUME princ \in SUBSET Key, NEW p \in Proc, NEW c, c.key \in Key, ~c.rev,
         NEW key, key = curs_step(p, c)
  PROVE  /\ key # End => key \in princ /\ key > c.key
         /\ \A k \in princ :
              \/ k <= c.key
              \/ key # End /\ k >= key
              \/ /\ p \in unlockiter /\ c.key \notin princ /\ k > c.key
                 /\ \A i \in princ : i < c.key \/ i >= k
  <1>1. c.key \in Int /\ \A k \in princ : k \in Int /\ k \in Key
    BY Db2Assumption, SMT DEF Key
  <1>2. CASE key = bt_seqadv(c.key, c.rev)
    <2>1. /\ key # End => key \in princ
          /\ c.key \notin princ =>
                /\ key = End => \A k \in princ : k < c.key
                /\ key # End =>
                      key > c.key /\ \A k \in princ : k < c.key \/ k >= key
          /\ c.key \in princ =>
                /\ key = End => \A k \in princ : k <= c.key
                /\ key # End =>
                      key > c.key /\ \A k \in princ : k <= c.key \/ k >= key
      <3> DEFINE at == c.key  rev == c.rev
      <3>1. at \in Key /\ ~rev /\ key = bt_seqadv(at, rev)
        BY <1>2
      <3> HIDE DEF at, rev
      <3>2. /\ key # End => key \in princ
            /\ at \notin princ =>
                  /\ key = End => \A k \in princ : k < at
                  /\ key # End =>
                        key > at /\ \A k \in princ : k < at \/ k >= key
            /\ at \in princ =>
                  /\ key = End => \A k \in princ : k <= at
                  /\ key # End =>
                        key > at /\ \A k \in princ : k <= at \/ k >= key
        BY ONLY princ \in SUBSET Key, <3>1, AdvanceFacts, SMT
      <3> QED
        BY <3>2 DEF at
    <2>2. \A k \in princ : k < c.key => k <= c.key
      BY ONLY <1>1
    <2> QED
      BY <2>1, <2>2
  <1>3. CASE key = End /\ \A k \in princ : k < c.key
    BY <1>1, <1>3, SMT
  <1>4. ASSUME NEW at \in princ, at > c.key, key = bt_seqadv(at, c.rev),
               p \in unlockiter, c.key \notin princ,
               \A k \in princ : k < c.key \/ k >= at
        PROVE  /\ key # End => key \in princ /\ key > c.key
               /\ \A k \in princ : \/ k <= c.key
                                   \/ key # End /\ k >= key
                                   \/ k = at
    <2>1. /\ key = End => \A k \in princ : k <= at
          /\ key # End => /\ key \in princ /\ key > at
                          /\ \A k \in princ : k <= at \/ k >= key
      BY <1>1, <1>4, AdvanceFacts
    <2>2. at \in Int
      BY <1>1, <1>4
    <2>3. \A k \in princ : k <= at => k <= c.key \/ k = at
      <3>1. \A k \in princ : k < c.key \/ k >= at
        BY <1>4
      <3> QED
        BY ONLY <1>1, <2>2, <3>1
    <2>4. key # End => key > c.key
      <3>1. ASSUME key \in Int, key > at
            PROVE  key > c.key
        BY ONLY <1>1, <1>4, <2>2, <3>1
      <3> QED
        BY <1>1, <2>1, <3>1
    <2> QED
      BY <2>1, <2>3, <2>4
  <1>5. ASSUME NEW at \in princ, at > c.key, key = bt_seqadv(at, c.rev),
               p \in unlockiter, c.key \notin princ,
               \A k \in princ : k < c.key \/ k >= at,
               NEW k \in princ
        PROVE  \/ k <= c.key
               \/ key # End /\ k >= key
               \/ k > c.key /\ \A i \in princ : i < c.key \/ i >= k
    BY <1>4, <1>5
  <1> QED
    BY <1>2, <1>3, <1>4, <1>5, FoundAgain

(* curs_step(): the iteration goes on where it was, or is over. *)
LEMMA StepShows ==
  ASSUME princ \in SUBSET Key, NEW p \in Proc, NEW c \in Cursor,
         c.key # None, Shown(p, c), c.need \subseteq princ,
         NEW key, key = curs_step(p, c)
  PROVE  /\ key = End => Complete(p, c)
         /\ key # End =>
              /\ key \in princ
              /\ c.rev \/ key > c.key
              /\ \A k \in c.need :
                    IF c.rev THEN k >= key <=> k \in c.seen \cup {key}
                    ELSE k <= key => k \in c.seen \cup {key} \/ Skipped(p, c, k)
  <1> DEFINE at == c.key  rev == c.rev  seen == c.seen  need == c.need
  <1>1. at \in Key /\ at \in Int /\ at \in seen
    BY Db2Assumption, SMT DEF Key, Shown
  <1>2. \A k \in princ : k \in Int
    BY Db2Assumption, SMT DEF Key
  <1>3. CASE rev
    <2>1. \A k \in need : k >= at <=> k \in seen
      BY <1>3 DEF Shown
    <2>2. /\ key = End => \/ \A k \in princ : k < at
                          \/ \A k \in princ : k >= at
          /\ key # End =>
              /\ key \in princ
              /\ \/ key < at /\ \A k \in princ : k <= key \/ k >= at
                 \/ key > at /\ \A k \in princ : k < at \/ k >= key
      BY <1>1, <1>3, BackFacts
    <2>3. need \subseteq princ
      OBVIOUS
    <2>4. ASSUME key = End
          PROVE  \A k \in need \ seen : seen \cap need = {}
      <3>1. CASE \A k \in princ : k < at
        <4>1. \A k \in need : ~(k >= at)
          BY ONLY <1>1, <1>2, <2>3, <3>1
        <4> QED
          BY <2>1, <4>1
      <3>2. CASE \A k \in princ : k >= at
        BY <2>1, <2>3, <3>2
      <3> QED
        BY <2>2, <2>4, <3>1, <3>2
    <2>5. ASSUME key # End
          PROVE  \A k \in need : k >= key <=> k \in seen \cup {key}
      <3>1. key \in Int /\ key \in princ
        BY <1>2, <2>2, <2>5
      <3>2. CASE key < at /\ \A k \in princ : k <= key \/ k >= at
        <4>1. ASSUME NEW k \in need
              PROVE  k >= key <=> k >= at \/ k = key
          <5>1. k \in Int /\ (k <= key \/ k >= at)
            BY <1>2, <2>3, <3>2, <4>1
          <5> QED
            BY ONLY <1>1, <3>1, <3>2, <5>1
        <4> QED
          BY <2>1, <4>1
      <3>3. CASE key > at /\ \A k \in princ : k < at \/ k >= key
        <4>1. ASSUME NEW k \in need
              PROVE  k >= key <=> k >= at
          <5>1. k \in Int /\ (k < at \/ k >= key)
            BY <1>2, <2>3, <3>3, <4>1
          <5> QED
            BY ONLY <1>1, <3>1, <3>3, <5>1
        <4>2. key >= at
          BY ONLY <1>1, <3>1, <3>3
        <4> QED
          BY <2>1, <4>1, <4>2
      <3> QED
        BY <2>2, <2>5, <3>2, <3>3
    <2> QED
      BY <1>3, <2>2, <2>4, <2>5 DEF Complete
  <1>4. CASE ~rev
    <2>1. \A k \in need : k <= at => k \in seen \/ Skipped(p, c, k)
      BY <1>4 DEF Shown
    <2>2. /\ key # End => key \in princ /\ key > at
          /\ \A k \in princ :
              \/ k <= at
              \/ key # End /\ k >= key
              \/ /\ p \in unlockiter /\ at \notin princ /\ k > at
                 /\ \A i \in princ : i < at \/ i >= k
      BY <1>1, <1>4, ForthFacts
    <2>3. ASSUME NEW k \in need
          PROVE  \/ k \in seen \/ Skipped(p, c, k)
                 \/ key # End /\ k >= key
      <3>1. CASE /\ p \in unlockiter /\ at \notin princ /\ k > at
                 /\ \A i \in princ : i < at \/ i >= k
        <4>1. k \in Int
          BY <1>2, <2>3
        <4>2. at < k
          BY ONLY <1>1, <3>1, <4>1
        <4> QED
          BY <1>1, <3>1, <4>2 DEF Skipped
      <3> QED
        BY <2>1, <2>2, <2>3, <3>1
    <2>4. key = End => Complete(p, c)
      BY <1>4, <2>3 DEF Complete, Skipped
    <2>5. ASSUME key # End, NEW k \in need, k <= key
          PROVE  k \in seen \cup {key} \/ Skipped(p, c, k)
      <3>1. key \in Int /\ k \in Int
        BY <1>2, <2>2, <2>5
      <3>2. k >= key => k = key
        BY ONLY <2>5, <3>1
      <3> QED
        BY <2>3, <2>5, <3>2
    <2> QED
      BY <1>4, <2>2, <2>4, <2>5
  <1> QED
    BY <1>3, <1>4

(* curs_start(): it begins with the first entry, or the last. *)
LEMMA StartShows ==
  ASSUME princ \in SUBSET Key, NEW p \in Proc, NEW c \in Cursor,
         c.key = None, c.seen = {}, c.need = princ,
         NEW key, key = curs_start(c)
  PROVE  /\ key = End => Complete(p, c)
         /\ key # End =>
              /\ key \in princ
              /\ c.rev \/ key > c.key
              /\ \A k \in c.need :
                    IF c.rev THEN k >= key <=> k \in c.seen \cup {key}
                    ELSE k <= key => k \in c.seen \cup {key} \/ Skipped(p, c, k)
  <1>1. \A k \in princ : k \in Int /\ k > None
    BY Db2Assumption, SMT DEF Key, None
  <1>2. key = IF c.rev THEN Greatest(princ) ELSE Least(princ)
    BY DEF curs_start
  <1>3. CASE c.rev
    <2>1. /\ key = End => princ = {}
          /\ key # End => key \in princ /\ \A j \in princ : key >= j
      BY <1>2, <1>3, GreatestFacts
    <2>2. ASSUME key # End, NEW k \in princ
          PROVE  k >= key <=> k = key
      <3>1. key \in Int /\ k \in Int /\ key >= k
        BY <1>1, <2>1, <2>2
      <3> QED
        BY ONLY <3>1
    <2> QED
      BY <1>3, <2>1, <2>2 DEF Complete
  <1>4. CASE ~c.rev
    <2>1. /\ key = End => princ = {}
          /\ key # End => key \in princ /\ \A j \in princ : key <= j
      BY <1>2, <1>4, LeastFacts, SMT
    <2>2. ASSUME key # End, NEW k \in princ, k <= key
          PROVE  k = key
      <3>1. key \in Int /\ k \in Int /\ key <= k
        BY <1>1, <2>1, <2>2
      <3> QED
        BY ONLY <2>2, <3>1
    <2> QED
      BY <1>1, <1>4, <2>1, <2>2 DEF Complete
  <1> QED
    BY <1>3, <1>4

(* What one step of an iteration finds, and what it leaves the cursor at. *)
LEMMA IterateFacts ==
  ASSUME CInv, NEW p \in Proc, NEW c, NEW key, c = begun(p),
         key = IF c.key = None THEN curs_start(c) ELSE curs_step(p, c)
  PROVE  /\ c \in Cursor /\ c.need \subseteq princ /\ c.key = curs[p].key
         /\ c.rev = curs[p].rev /\ c.err = curs[p].err
         /\ key = End => Complete(p, c)
         /\ key # End =>
              /\ key \in princ
              /\ c.rev \/ key > c.key
              /\ \A k \in c.need :
                    IF c.rev THEN k >= key <=> k \in c.seen \cup {key}
                    ELSE k <= key => k \in c.seen \cup {key} \/ Skipped(p, c, k)
  <1>1. curs[p] \in Cursor /\ princ \in SUBSET Key /\ CursorOK(p)
    BY DEF CInv
  <1>2. CASE curs[p].key = None
    <2>1. c = [curs[p] EXCEPT !.need = princ]
      BY <1>2 DEF begun
    <2>2. /\ c \in Cursor /\ c.need = princ /\ c.key = curs[p].key
          /\ c.rev = curs[p].rev /\ c.err = curs[p].err
          /\ c.seen = curs[p].seen
      <3> DEFINE b == curs[p]
      <3>1. b \in Cursor /\ c = [b EXCEPT !.need = princ]
        BY <1>1, <2>1
      <3> HIDE DEF b
      <3>2. /\ c \in Cursor /\ c.need = princ /\ c.key = b.key
            /\ c.rev = b.rev /\ c.err = b.err /\ c.seen = b.seen
        BY <1>1, <3>1 DEF Cursor
      <3> QED
        BY <3>2 DEF b
    <2>3. c.key = None /\ c.seen = {} /\ key = curs_start(c)
      BY <1>1, <1>2, <2>2 DEF CursorOK
    <2>4. c.need \subseteq princ
      BY <2>2
    <2> QED
      BY <1>1, <2>2, <2>3, <2>4, StartShows
  <1>3. CASE curs[p].key # None
    <2>1. c = curs[p]
      BY <1>3 DEF begun
    <2>2. /\ c \in Cursor /\ c.key # None /\ Shown(p, c)
          /\ c.need \subseteq princ /\ key = curs_step(p, c)
      BY <1>1, <1>3, <2>1 DEF CursorOK
    <2> QED
      BY <1>1, <2>1, <2>2, StepShows
  <1> QED
    BY <1>2, <1>3

(* Whoever is about to take principals away has the database to itself. *)
LEMMA WriterAlone ==
  ASSUME IInv, NEW p \in Proc, pc[p] = "run",
         InCall(p, "delete") \/ InCall(p, "promote")
  PROVE  plk[p] = EXCLUSIVE
  <1>1. ~Idle(p) /\ Top(p).op \in {"delete", "promote"}
    BY DEF InCall
  <1>2. /\ Top(p).mode = EXCLUSIVE /\ Top(p).op \notin PolicyOps
        /\ Len(stack[p]) = 1 => Top(p) = stack[p][1]
    BY <1>1, ModeFacts DEF PolicyOps
  <1>3. /\ Len(stack[p]) \in Nat /\ Len(stack[p]) > 0
        /\ db_locks_held[p] = Len(stack[p]) - One(Released(p))
               - One(Top(p).op \in PolicyOps) - One(pc[p] = "lock")
        /\ Released(p) => Len(stack[p]) > 1
    BY <1>1, CountFacts
  <1>4. /\ One(Top(p).op \in PolicyOps) = 0 /\ One(pc[p] = "lock") = 0
        /\ Released(p) => One(Released(p)) = 1
        /\ ~Released(p) => One(Released(p)) = 0
    BY <1>2 DEF One
  <1>5. db_locks_held[p] > 0
    <2> DEFINE n == Len(stack[p])
               r == One(Released(p))
               h == db_locks_held[p]
    <2>1. n \in Nat /\ n > 0 /\ h = n - r - 0 - 0 /\ (r = 0 \/ (r = 1 /\ n > 1))
      BY <1>3, <1>4
    <2> HIDE DEF n, r, h
    <2>2. h > 0
      BY <2>1, SMT
    <2> QED
      BY <2>2 DEF h
  <1>6. EXCLUSIVE >= EXCLUSIVE /\ (Len(stack[p]) = 1 \/ Len(stack[p]) > 1)
    <2>1. \A n \in Nat : n > 0 => n = 1 \/ n > 1
      BY SMT
    <2>2. EXCLUSIVE >= EXCLUSIVE
      BY SMT
    <2> QED
      BY <1>3, <2>1, <2>2
  <1>7. CASE Base(p) = Top(p)
    BY <1>2, <1>3, <1>5, <1>6, <1>7 DEF IInv, Sane, Strong, Writes
  <1>8. CASE Base(p) # Top(p)
    <2>1. Len(stack[p]) > 1 /\ ~(Released(p) /\ stack[p][1].op = "iterate")
      BY <1>2, <1>6, <1>8 DEF Base
    <2>2. plk[p] >= EXCLUSIVE /\ plk[p] \in 0 .. 2
      BY <1>1, <1>2, <1>5, <2>1, Covered DEF IInv, Types
    <2> QED
      BY <2>2, SMT
  <1> QED
    BY <1>7, <1>8

(* A locked iteration has the database locked throughout. *)
LEMMA IteratorLocks ==
  ASSUME IInv, NEW p \in Proc \ unlockiter, Iterates(p)
  PROVE  ~Idle(p) /\ plk[p] # 0
  <1>1. ~Idle(p)
    <2>1. ~(Len(<<>>) > 1)
      BY SMT
    <2> QED
      BY <2>1 DEF Iterates, InCall, Idle
  <1>2. /\ Len(stack[p]) \in Nat /\ Len(stack[p]) > 0
        /\ db_locks_held[p] = Len(stack[p]) - One(Released(p))
               - One(Top(p).op \in PolicyOps) - One(pc[p] = "lock")
    BY <1>1, CountFacts
  <1>3. /\ Top(p).op \notin PolicyOps
        /\ pc[p] = "lock" => Len(stack[p]) > 1
    BY <1>1, ModeFacts DEF Iterates, InCall, PolicyOps
  <1>4. /\ One(Top(p).op \in PolicyOps) = 0 /\ One(Released(p)) = 0
        /\ pc[p] = "lock" => One(pc[p] = "lock") = 1
        /\ pc[p] # "lock" => One(pc[p] = "lock") = 0
    BY <1>3 DEF One, Released
  <1>5. db_locks_held[p] # 0
    <2> DEFINE n == Len(stack[p])
               l == One(pc[p] = "lock")
               h == db_locks_held[p]
    <2>1. n \in Nat /\ n > 0 /\ h = n - 0 - 0 - l /\ (l = 0 \/ (l = 1 /\ n > 1))
      BY <1>2, <1>3, <1>4
    <2> HIDE DEF n, l, h
    <2>2. h # 0
      BY <2>1, SMT
    <2> QED
      BY <2>2 DEF h
  <1> QED
    BY <1>1, <1>5 DEF IInv, Sane, Regs

(* The return of a call in a callback leads back to the iteration. *)
LEMMA ReturnIterates ==
  ASSUME IInv, NEW p \in Proc, ~Idle(p), Iterates(p), return(p),
         ~InCall(p, "iterate")
  PROVE  Iterates(p)'
  <1> DEFINE s == stack[p]
  <1>1. /\ Len(s) > 1 /\ s[Len(s) - 1].op = "iterate"
        /\ s \in Seq(Frame) /\ s # <<>>
    BY DEF Iterates, IInv, Types, Idle
  <1>2. stack'[p] = Pop(s) /\ pc'[p] = "callback"
    BY <1>1 DEF return, IInv, Types
  <1>3. /\ Pop(s) \in Seq(Frame) /\ Len(Pop(s)) = Len(s) - 1
        /\ \A i \in 1 .. Len(s) - 1 : Pop(s)[i] = s[i]
    BY <1>1, PopFacts
  <1>4. Len(s) - 1 \in 1 .. Len(s) - 1 /\ Len(s) - 1 # 0
    <2>1. Len(s) \in Nat
      BY <1>1, SMT
    <2>2. \A n \in Nat : n > 1 => n - 1 \in 1 .. n - 1 /\ n - 1 # 0
      BY SMT
    <2> QED
      BY <1>1, <2>1, <2>2
  <1>5. Pop(s) # <<>>
    <2>1. Len(<<>>) = 0
      BY SMT
    <2> QED
      BY <1>3, <1>4, <2>1
  <1>6. Top(p)' = s[Len(s) - 1]
    BY <1>2, <1>3, <1>4 DEF Top
  <1> QED
    BY <1>1, <1>2, <1>5, <1>6 DEF Iterates, InCall, Idle

Ended(p) == curs'[p].key = None /\ curs'[p].seen = {}

(* A locked iteration goes on, or its cursor is cleared. *)
LEMMA IteratesKept ==
  ASSUME IInv, CInv, NEW p \in Proc \ unlockiter, Iterates(p), Step(p)
  PROVE  Iterates(p)' \/ Ended(p)
  <1>1. /\ ~Idle(p) /\ curs \in [Proc -> Cursor]
        /\ stack[p] \in Seq(Frame) /\ stack \in [Proc -> Seq(Frame)]
        /\ pc \in [Proc -> {"run", "lock", "policy", "callback", "renamed"}]
    BY IteratorLocks DEF CInv, IInv, Types
  <1>2. NoCursor.key = None /\ NoCursor.seen = {}
    BY DEF NoCursor
  <1>3. CASE krb5_db2_open(p) \/ krb5_db2_fini(p) \/ krb5_db2_promote_db(p)
    BY <1>1, <1>3 DEF krb5_db2_open, krb5_db2_fini, krb5_db2_promote_db
  <1>4. CASE Die(p)
    BY <1>1, <1>2, <1>4 DEF Die, gone, Ended
  <1>5. ASSUME NEW op \in Ops, NEW mode \in {SHARED, EXCLUSIVE, PERMANENT},
               Call(p, op, mode)
        PROVE  Iterates(p)' \/ Ended(p)
    <2>1. CASE op = "iterate"
      <3>1. PICK r \in BOOLEAN :
                curs' = [curs EXCEPT ![p] = [NoCursor EXCEPT !.rev = r]]
        BY <1>5, <2>1 DEF Call
      <3>2. /\ [NoCursor EXCEPT !.rev = r].key = None
            /\ [NoCursor EXCEPT !.rev = r].seen = {}
        BY DEF NoCursor
      <3> QED
        BY <1>1, <3>1, <3>2 DEF Ended
    <2>2. CASE op # "iterate"
      <3> DEFINE s == stack[p]
                 f == [op |-> op, mode |-> mode]
      <3>1. InCall(p, "iterate")
        <4>1. MayCall(p, op)
          BY <1>5 DEF Call
        <4>2. Top(p).op = "lock" \/ Top(p).op = "iterate"
          BY <1>1, <4>1 DEF MayCall
        <4>3. Top(p).op # "lock"
          BY <1>1, ModeFacts DEF Iterates, InCall
        <4> QED
          BY <1>1, <4>2, <4>3 DEF InCall
      <3>2. stack'[p] = Append(s, f) /\ f \in Frame
        BY <1>1, <1>5 DEF Call, Frame
      <3>3. /\ Len(Append(s, f)) = Len(s) + 1
            /\ \A i \in 1 .. Len(s) : Append(s, f)[i] = s[i]
        BY <1>1, <3>2, PushFacts
      <3>4. Len(s) \in Nat /\ Len(s) > 0 /\ Top(p) = s[Len(s)]
        BY <1>1, CountFacts
      <3>5. Len(s) \in 1 .. Len(s) /\ Len(s) + 1 > 1 /\ Len(s) + 1 - 1 = Len(s)
        <4>1. ASSUME NEW n \in Nat, n > 0
              PROVE  n \in 1 .. n /\ n + 1 > 1 /\ n + 1 - 1 = n
          BY ONLY <4>1
        <4> QED
          BY <3>4, <4>1
      <3>6. Append(s, f)[Len(s)].op = "iterate"
        BY <3>1, <3>3, <3>4, <3>5 DEF InCall
      <3>7. /\ Len(stack'[p]) = Len(s) + 1
            /\ stack'[p][Len(s) + 1 - 1].op = "iterate"
        BY <3>2, <3>3, <3>5, <3>6
      <3> HIDE DEF s
      <3>8. /\ Len(stack'[p]) > 1
            /\ stack'[p][Len(stack'[p]) - 1].op = "iterate"
        BY ONLY <3>5, <3>7
      <3> QED
        BY <3>8 DEF Iterates
    <2> QED
      BY <2>1, <2>2
  <1>6. CASE ctx_lock(p) \/ get_lock(p)
    <2>1. UNCHANGED stack /\ pc[p] \notin {"run", "callback"}
      BY <1>6 DEF ctx_lock, get_lock
    <2> QED
      BY <2>1 DEF Iterates
  <1>7. CASE lock_file_fails(p) \/ open_db_fails(p) \/ no_lock(p)
    <2>1. \/ curs' = [curs EXCEPT ![p] = NoCursor]
          \/ return(p) /\ ~InCall(p, "iterate")
      BY <1>7 DEF lock_file_fails, open_db_fails, no_lock, failed, gone
    <2> QED
      BY <1>1, <1>2, <2>1, ReturnIterates DEF Ended
  <1>8. CASE \/ krb5_db2_get_principal(p) \/ krb5_db2_put_principal(p)
             \/ krb5_db2_delete_principal(p) \/ krb5_db2_unlock(p)
             \/ osa_adb_close_and_unlock(p)
             \/ rename_fails(p) \/ rename_policies(p)
    <2>1. return(p)
      BY <1>8 DEF krb5_db2_get_principal, krb5_db2_put_principal,
         krb5_db2_delete_principal, krb5_db2_unlock, osa_adb_close_and_unlock,
         rename_fails, rename_policies
    <2>2. pc[p] = "renamed" => Top(p).op = "promote"
      BY DEF IInv, Sane, Nested
    <2>3. ~InCall(p, "iterate")
      BY <1>8, <2>2 DEF krb5_db2_get_principal, krb5_db2_put_principal,
         krb5_db2_delete_principal, krb5_db2_unlock, osa_adb_close_and_unlock,
         rename_fails, rename_policies, InCall, PolicyOps
    <2> QED
      BY <1>1, <2>1, <2>3, ReturnIterates
  <1>9. CASE ctx_iterate(p)
    <2>1. /\ InCall(p, "iterate")
          /\ \/ curs' = [curs EXCEPT ![p] = NoCursor]
             \/ goto(p, "callback") /\ UNCHANGED stack
      BY <1>9 DEF ctx_iterate
    <2>2. CASE goto(p, "callback") /\ UNCHANGED stack
      BY <1>1, <2>1, <2>2 DEF goto, Iterates, InCall, Idle, Top
    <2> QED
      BY <1>1, <1>2, <2>1, <2>2 DEF Ended
  <1>10. CASE curs_run_cb(p)
    <2>1. /\ pc[p] = "callback" /\ pc' = [pc EXCEPT ![p] = "run"]
          /\ UNCHANGED stack
      BY <1>10 DEF curs_run_cb, goto
    <2>2. Top(p).op = "iterate"
      BY <2>1 DEF IInv, Sane, Nested
    <2> QED
      BY <1>1, <2>1, <2>2 DEF Iterates, InCall, Idle, Top
  <1>11. CASE rename_principals(p)
    <2>1. UNCHANGED stack /\ ~InCall(p, "iterate")
      BY <1>11 DEF rename_principals, InCall
    <2> QED
      BY <2>1 DEF Iterates
  <1> QED
    BY <1>3, <1>4, <1>5, <1>6, <1>7, <1>8, <1>9, <1>10, <1>11 DEF Step

(* What every step but that of an iteration does to the cursors: it clears   *)
(* one, or leaves it where it is with no more keys due to it.                *)
Steady(p) ==
    \/ Ended(p)
    \/ /\ curs'[p].key = curs[p].key /\ curs'[p].rev = curs[p].rev
       /\ curs'[p].seen = curs[p].seen
       /\ curs'[p].need \subseteq curs[p].need
       /\ curs[p].need \subseteq princ => curs'[p].need \subseteq princ'

(* It keeps what the iteration has shown. *)
LEMMA SteadyKeeps ==
  ASSUME NEW p \in Proc, CursorOK(p), Steady(p),
         p \notin unlockiter /\ Iterates(p) => Iterates(p)' \/ Ended(p)
  PROVE  CursorOK(p)'
  <1>1. CASE Ended(p)
    BY <1>1 DEF Ended, CursorOK
  <1>2. CASE ~Ended(p)
    <2>1. /\ curs'[p].key = curs[p].key /\ curs'[p].rev = curs[p].rev
          /\ curs'[p].seen = curs[p].seen
          /\ curs'[p].need \subseteq curs[p].need
          /\ curs[p].need \subseteq princ => curs'[p].need \subseteq princ'
      BY <1>2 DEF Steady
    <2>2. curs[p].key # None
      BY <1>2, <2>1 DEF CursorOK, Ended
    <2>3. /\ Shown(p, curs[p]) /\ curs[p].need \subseteq princ
          /\ p \in unlockiter \/ Iterates(p)'
      BY <1>2, <2>2 DEF CursorOK
    <2>4. \A k : Skipped(p, curs[p], k) => Skipped(p, curs[p], k)'
      BY <2>1 DEF Skipped
    <2>5. Shown(p, curs[p])'
      BY <2>1, <2>3, <2>4 DEF Shown
    <2> QED
      BY <2>1, <2>2, <2>3, <2>5 DEF CursorOK
  <1> QED
    BY <1>1, <1>2

(* A cleared cursor is one. *)
LEMMA NoCursorFacts ==
  /\ NoCursor \in Cursor /\ NoCursor.key = None /\ NoCursor.seen = {}
  /\ \A r \in BOOLEAN : /\ [NoCursor EXCEPT !.rev = r] \in Cursor
                         /\ [NoCursor EXCEPT !.rev = r].key = None
                         /\ [NoCursor EXCEPT !.rev = r].seen = {}
  <1>1. None \in 0 .. End
    BY Db2Assumption, SMT DEF None, End
  <1> QED
    BY <1>1 DEF NoCursor, Cursor

SteadyAll ==
    /\ curs' \in [Proc -> Cursor] /\ princ' \in SUBSET Key
    /\ \A q \in Proc : Steady(q)

(* A step that changes no cursor and takes no principal away. *)
LEMMA StillSteady ==
  ASSUME CInv, UNCHANGED curs, princ \subseteq princ', princ' \in SUBSET Key
  PROVE  SteadyAll
  BY DEF CInv, SteadyAll, Steady

(* The cursor of one process is cleared. *)
LEMMA ClearSteady ==
  ASSUME CInv, NEW p \in Proc, NEW c \in Cursor, c.key = None, c.seen = {},
         curs' = [curs EXCEPT ![p] = c], UNCHANGED princ
  PROVE  SteadyAll
  <1>1. curs' \in [Proc -> Cursor] /\ curs'[p] = c
    BY DEF CInv
  <1>2. \A q \in Proc \ {p} : curs'[q] = curs[q]
    BY DEF CInv
  <1>3. \A q \in Proc : Steady(q)
    BY <1>1, <1>2 DEF Steady, Ended
  <1> QED
    BY <1>1, <1>3 DEF SteadyAll, CInv

(* Keys leave the database: the locks keep the locked iterations of other    *)
(* processes out, and to all others they are no longer due.                  *)
LEMMA DueSteady ==
  ASSUME IInv, CInv, NEW p \in Proc, pc[p] = "run",
         InCall(p, "delete") \/ InCall(p, "promote"),
         NEW keys, princ' \in SUBSET Key, princ \ keys \subseteq princ',
         curs' = Due(p, keys)
  PROVE  SteadyAll
  <1>1. ASSUME NEW q \in Proc
        PROVE  curs'[q] \in Cursor /\ Steady(q)
    <2>1. curs[q] \in Cursor /\ CursorOK(q)
      BY DEF CInv
    <2>2. CASE q = p \/ q \in unlockiter
      <3> DEFINE c == curs[q]
                 d == curs'[q]
      <3>1. c \in Cursor /\ d = [c EXCEPT !.need = @ \ keys]
        BY <2>1, <2>2 DEF Due
      <3> HIDE DEF c, d
      <3>2. /\ d \in Cursor
            /\ d.key = c.key /\ d.rev = c.rev /\ d.seen = c.seen
        BY <3>1 DEF Cursor
      <3>3. d.need = c.need \ keys
        BY <3>1 DEF Cursor
      <3>4. d.need \subseteq c.need /\ (c.need \subseteq princ => d.need \subseteq princ')
        BY <3>3
      <3> QED
        BY <3>2, <3>4 DEF c, d, Steady
    <2>3. CASE q # p /\ q \notin unlockiter
      <3>1. curs'[q] = curs[q]
        BY <2>3 DEF Due
      <3>2. plk[q] = 0
        BY <2>3, WriterAlone DEF IInv, Apart
      <3>3. curs[q].key = None /\ curs[q].seen = {}
        BY <2>1, <2>3, <3>2, IteratorLocks DEF CursorOK
      <3> QED
        BY <2>1, <3>1, <3>3 DEF Steady, Ended
    <2> QED
      BY <2>2, <2>3
  <1>2. curs' \in [Proc -> Cursor]
    BY <1>1 DEF Due
  <1> QED
    BY <1>1, <1>2 DEF SteadyAll

(* All steps but those of an iteration are of one of these kinds. *)
LEMMA StepSteady ==
  ASSUME IInv, CInv, NEW p \in Proc, Step(p), ~ctx_iterate(p)
  PROVE  SteadyAll
  <1>0. princ \in SUBSET Key /\ princ \subseteq princ /\ curs \in [Proc -> Cursor]
    BY DEF CInv
  <1>1. CASE \/ krb5_db2_open(p) \/ krb5_db2_fini(p) \/ ctx_lock(p) \/ get_lock(p)
             \/ krb5_db2_get_principal(p) \/ krb5_db2_unlock(p)
             \/ osa_adb_close_and_unlock(p) \/ krb5_db2_promote_db(p)
             \/ rename_fails(p) \/ rename_policies(p)
    <2>1. UNCHANGED <<curs, princ>>
      BY <1>1 DEF krb5_db2_open, krb5_db2_fini, ctx_lock, get_lock,
         krb5_db2_get_principal, krb5_db2_unlock, osa_adb_close_and_unlock,
         krb5_db2_promote_db, rename_fails, rename_policies, datavars
    <2> QED
      BY <1>0, <2>1, StillSteady
  <1>2. CASE Die(p) \/ lock_file_fails(p) \/ open_db_fails(p) \/ no_lock(p)
    <2>1. \/ curs' = [curs EXCEPT ![p] = NoCursor] /\ UNCHANGED princ
          \/ curs' = [curs EXCEPT ![p] = curs[p]] /\ UNCHANGED princ
      BY <1>2 DEF Die, lock_file_fails, open_db_fails, no_lock, failed, gone,
         datavars
    <2>2. CASE curs' = [curs EXCEPT ![p] = curs[p]] /\ UNCHANGED princ
      <3>1. curs' = curs
        BY <1>0, <2>2
      <3> QED
        BY <1>0, <2>2, <3>1, StillSteady
    <2> QED
      BY <2>1, <2>2, NoCursorFacts, ClearSteady
  <1>3. ASSUME NEW op \in Ops, NEW mode \in {SHARED, EXCLUSIVE, PERMANENT},
               Call(p, op, mode)
        PROVE  SteadyAll
    <2>1. UNCHANGED princ
      BY <1>3 DEF Call, datavars
    <2>2. CASE op = "iterate"
      <3>1. PICK r \in BOOLEAN :
                curs' = [curs EXCEPT ![p] = [NoCursor EXCEPT !.rev = r]]
        BY <1>3, <2>2 DEF Call
      <3> QED
        BY <2>1, <3>1, NoCursorFacts, ClearSteady
    <2>3. CASE op # "iterate"
      <3>1. curs' = curs
        BY <1>3, <2>3 DEF Call
      <3> QED
        BY <1>0, <2>1, <3>1, StillSteady
    <2> QED
      BY <2>2, <2>3
  <1>4. CASE krb5_db2_put_principal(p)
    <2>1. UNCHANGED curs /\ \E k \in Key : princ' = princ \cup {k}
      BY <1>4 DEF krb5_db2_put_principal
    <2> QED
      BY <1>0, <2>1, StillSteady
  <1>5. CASE krb5_db2_delete_principal(p)
    <2>1. PICK k \in Key : princ' = princ \ {k} /\ curs' = Due(p, {k})
      BY <1>5 DEF krb5_db2_delete_principal
    <2>2. pc[p] = "run" /\ InCall(p, "delete")
      BY <1>5 DEF krb5_db2_delete_principal
    <2>3. princ' \in SUBSET Key /\ princ \ {k} \subseteq princ'
      BY <1>0, <2>1
    <2> QED
      BY <2>1, <2>2, <2>3, DueSteady
  <1>6. CASE rename_principals(p)
    <2>1. /\ pc[p] = "run" /\ InCall(p, "promote") /\ princ' \in SUBSET Key
          /\ curs' = Due(p, princ \ princ')
      BY <1>6 DEF rename_principals
    <2>2. princ \ (princ \ princ') \subseteq princ'
      OBVIOUS
    <2> QED
      BY <2>1, <2>2, DueSteady
  <1>7. CASE curs_run_cb(p)
    <2>1. PICK err \in BOOLEAN : curs' = [curs EXCEPT ![p].err = err]
      BY <1>7 DEF curs_run_cb
    <2>2. UNCHANGED princ
      BY <1>7 DEF curs_run_cb, datavars
    <2>3. ASSUME NEW q \in Proc
          PROVE  /\ curs'[q] \in Cursor
                 /\ curs'[q].key = curs[q].key /\ curs'[q].rev = curs[q].rev
                 /\ curs'[q].seen = curs[q].seen
                 /\ curs'[q].need = curs[q].need
      BY <1>0, <2>1 DEF Cursor
    <2>4. curs' \in [Proc -> Cursor]
      BY <1>0, <2>1, <2>3
    <2>5. \A q \in Proc : Steady(q)
      BY <2>2, <2>3 DEF Steady
    <2> QED
      BY <1>0, <2>2, <2>4, <2>5 DEF SteadyAll
  <1> QED
    BY <1>1, <1>2, <1>3, <1>4, <1>5, <1>6, <1>7 DEF Step

(* A step of an iteration. *)
LEMMA IterateKeeps ==
  ASSUME IInv, CInv, NEW p \in Proc, ctx_iterate(p), Elsewhere(p)
  PROVE  CInv'
  <1> DEFINE c == begun(p)
             key == IF c.key = None THEN curs_start(c) ELSE curs_step(p, c)
  <1>1. /\ princ' = princ /\ princ \in SUBSET Key /\ curs \in [Proc -> Cursor]
        /\ pc[p] = "run" /\ InCall(p, "iterate")
    BY DEF ctx_iterate, datavars, CInv
  <1>2. ASSUME curs' \in [Proc -> Cursor], CursorOK(p)',
               \A q \in Proc \ {p} : curs'[q] = curs[q]
        PROVE  CInv'
    <2>1. ASSUME NEW q \in Proc \ {p}
          PROVE  CursorOK(q)'
      <3>1. /\ curs'[q] = curs[q] /\ stack'[q] = stack[q] /\ pc'[q] = pc[q]
            /\ CursorOK(q)
        BY <1>2, <2>1 DEF Elsewhere, CInv
      <3> QED
        BY <1>1, <3>1 DEF CursorOK, Shown, Skipped, Iterates, InCall, Idle, Top
    <2> QED
      BY <1>1, <1>2, <2>1 DEF CInv
  <1>3. CASE c.err \/ key = End
    <2>1. curs' = [curs EXCEPT ![p] = NoCursor]
      BY <1>3 DEF ctx_iterate
    <2>2. curs' \in [Proc -> Cursor] /\ curs'[p] = NoCursor
      BY <1>1, <2>1, NoCursorFacts
    <2>3. \A q \in Proc \ {p} : curs'[q] = curs[q]
      BY <1>1, <2>1
    <2>4. CursorOK(p)'
      BY <2>2, NoCursorFacts DEF CursorOK
    <2> QED
      BY <1>2, <2>2, <2>3, <2>4
  <1>4. CASE ~(c.err \/ key = End)
    <2> DEFINE d == [c EXCEPT !.key = key, !.seen = @ \cup {key}]
    <2>1. /\ curs' = [curs EXCEPT ![p] = d] /\ stack' = stack
          /\ pc' = [pc EXCEPT ![p] = "callback"]
      BY <1>4 DEF ctx_iterate, goto
    <2>2. /\ c \in Cursor /\ c.need \subseteq princ /\ key \in princ
          /\ \A k \in c.need :
                IF c.rev THEN k >= key <=> k \in c.seen \cup {key}
                ELSE k <= key => k \in c.seen \cup {key} \/ Skipped(p, c, k)
      <3>1. /\ c = begun(p) /\ key # End
            /\ key = IF c.key = None THEN curs_start(c) ELSE curs_step(p, c)
        BY <1>4
      <3> HIDE DEF c, key
      <3> QED
        BY <3>1, IterateFacts
    <2> HIDE DEF c, key
    <2>3. key \in Key /\ key \in 0 .. End /\ key # None
      <3>1. key \in Key
        BY <1>1, <2>2
      <3> QED
        BY <3>1, Db2Assumption, SMT DEF Key, End, None
    <2>4. /\ d \in Cursor /\ d.key = key /\ d.seen = c.seen \cup {key}
          /\ d.need = c.need /\ d.rev = c.rev
      BY <2>2, <2>3 DEF Cursor
    <2> HIDE DEF d
    <2>5. curs' \in [Proc -> Cursor] /\ curs'[p] = d
      BY <1>1, <2>1, <2>4
    <2>6. \A q \in Proc \ {p} : curs'[q] = curs[q]
      BY <1>1, <2>1
    <2>7. Shown(p, d)
      <3>1. \A k : Skipped(p, c, k) => Skipped(p, d, k)
        BY <2>4 DEF Skipped
      <3> QED
        BY <2>2, <2>3, <2>4, <3>1 DEF Shown
    <2>8. Iterates(p)'
      BY <1>1, <2>1 DEF Iterates, InCall, Idle, Top, IInv, Types
    <2>9. Shown(p, curs[p])'
      BY <2>5, <2>7 DEF Shown, Skipped
    <2>10. CursorOK(p)'
      BY <1>1, <2>2, <2>3, <2>4, <2>5, <2>8, <2>9 DEF CursorOK
    <2> QED
      BY <1>2, <2>5, <2>6, <2>10
  <1> QED
    BY <1>3, <1>4

(* Every step keeps what the iterations rely on. *)
LEMMA StepKeepsCInv == IInv /\ CInv /\ [Next]_vars => CInv'
  <1> SUFFICES ASSUME IInv, CInv, [Next]_vars
               PROVE  CInv'
    OBVIOUS
  <1>1. CASE UNCHANGED vars
    <2>1. UNCHANGED <<curs, princ, stack, pc>>
      BY <1>1 DEF vars
    <2>2. ASSUME NEW p \in Proc
          PROVE  CursorOK(p)'
      BY <2>1 DEF CInv, CursorOK, Shown, Skipped, Iterates, InCall, Idle, Top
    <2> QED
      BY <2>1, <2>2 DEF CInv
  <1>2. ASSUME NEW p \in Proc, Step(p)
        PROVE  CInv'
    <2>1. Elsewhere(p)
      BY <1>2, StepGood DEF Good
    <2>2. CASE ctx_iterate(p)
      BY <2>1, <2>2, IterateKeeps
    <2>3. CASE ~ctx_iterate(p)
      <3>1. SteadyAll
        BY <1>2, <2>3, StepSteady
      <3>2. ASSUME NEW q \in Proc
            PROVE  q \notin unlockiter /\ Iterates(q) => Iterates(q)' \/ Ended(q)
        <4>1. CASE q = p
          BY <1>2, <4>1, IteratesKept
        <4>2. CASE q # p
          <5>1. stack'[q] = stack[q] /\ pc'[q] = pc[q]
            BY <2>1, <4>2 DEF Elsewhere
          <5> QED
            BY <5>1 DEF Iterates, InCall, Idle, Top
        <4> QED
          BY <4>1, <4>2
      <3>3. ASSUME NEW q \in Proc
            PROVE  CursorOK(q)'
        BY <3>1, <3>2, SteadyKeeps DEF SteadyAll, CInv
      <3> QED
        BY <3>1, <3>3 DEF CInv, SteadyAll
    <2> QED
      BY <2>2, <2>3
  <1>3. CASE Next
    <2>1. PICK p \in Proc : Step(p)
      BY <1>3 DEF Next, Step
    <2> QED
      BY <1>2, <2>1
  <1> QED
    BY <1>1, <1>3

(* So it holds in every behaviour. *)
LEMMA CursorInvariant == Spec => []CInv
  <1>1. Init => CInv
    <2> SUFFICES ASSUME Init
                 PROVE  CInv
      OBVIOUS
    <2>1. /\ curs \in [Proc -> Cursor] /\ princ \in SUBSET Key
          /\ \A p \in Proc : curs[p].key = None /\ curs[p].seen = {}
      BY NoCursorFacts DEF Init
    <2> QED
      BY <2>1 DEF CInv, CursorOK
  <1>2. IInv /\ CInv /\ [Next]_vars => CInv'
    BY StepKeepsCInv
  <1> QED
    BY <1>1, <1>2, Invariant, PTL DEF Spec

(* An iteration that ends has shown what it should: everything due, with the *)
(* lock and forwards; without the lock, all but what follows directly on a   *)
(* deleted entry; backwards, everything unless all it had shown is gone.  And *)
(* forwards it never comes back to an entry.                                 *)
THEOREM IterationsComplete == Spec => IterationComplete
  <1>1. ASSUME IInv, CInv, NEW p \in Proc, ctx_iterate(p)
        PROVE  IF stack' = stack
               THEN curs[p].rev \/ curs'[p].key > curs[p].key
               ELSE curs[p].err \/ Complete(p, begun(p))
    <2> DEFINE c == begun(p)
               key == IF c.key = None THEN curs_start(c) ELSE curs_step(p, c)
    <2>1. /\ c \in Cursor /\ c.key = curs[p].key /\ c.rev = curs[p].rev
          /\ c.err = curs[p].err
          /\ key = End => Complete(p, c)
          /\ key # End => c.rev \/ key > c.key
      <3>1. /\ c = begun(p)
            /\ key = IF c.key = None THEN curs_start(c) ELSE curs_step(p, c)
        OBVIOUS
      <3> HIDE DEF c, key
      <3> QED
        BY <1>1, <3>1, IterateFacts
    <2>2. CASE c.err \/ key = End
      <3>1. return(p) /\ InCall(p, "iterate")
        BY <1>1, <2>2 DEF ctx_iterate
      <3>2. /\ stack \in [Proc -> Seq(Frame)] /\ stack[p] \in Seq(Frame)
            /\ stack[p] # <<>>
        BY <1>1, <3>1 DEF IInv, Types, InCall, Idle
      <3>3. stack'[p] = Pop(stack[p])
        BY <3>1, <3>2 DEF return
      <3>4. Len(stack'[p]) = Len(stack[p]) - 1 /\ Len(stack[p]) \in Nat
        <4>1. Len(stack[p]) \in Nat
          BY <3>2, SMT
        <4> QED
          BY <3>2, <3>3, <4>1, PopFacts
      <3>5. Len(stack'[p]) # Len(stack[p])
        <4>1. \A n \in Nat : n - 1 # n
          BY SMT
        <4> QED
          BY <3>4, <4>1
      <3>6. stack' # stack
        BY <3>5
      <3> HIDE DEF key
      <3> QED
        BY <2>1, <2>2, <3>6
    <2>3. CASE ~(c.err \/ key = End)
      <3> DEFINE d == [c EXCEPT !.key = key, !.seen = @ \cup {key}]
      <3>1. curs' = [curs EXCEPT ![p] = d] /\ stack' = stack
        BY <1>1, <2>3 DEF ctx_iterate
      <3>2. curs'[p] = d
        BY <1>1, <3>1 DEF CInv
      <3> HIDE DEF c, key
      <3>3. d.key = key
        BY <2>1 DEF Cursor
      <3> QED
        BY <2>1, <2>3, <3>1, <3>2, <3>3
    <2> QED
      BY <2>2, <2>3
  <1>2. IInv /\ CInv =>
          [\A p \in Proc : ctx_iterate(p) =>
              IF stack' = stack
              THEN curs[p].rev \/ curs'[p].key > curs[p].key
              ELSE curs[p].err \/ Complete(p, begun(p))]_vars
    BY <1>1
  <1> QED
    BY <1>2, Invariant, CursorInvariant, PTL DEF IterationComplete

-----------------------------------------------------------------------------
(* Types.  The policy lock files are numbered, and so are the promotions:     *)
(* neither runs past its bound, the promotions since one process at a time    *)
(* promotes.                                                                  *)
Files ==
    /\ ninode \in 1 .. MaxInode /\ afile \in 0 .. ninode
    /\ \A p \in Proc : afd[p] \in 0 .. ninode

Generations ==
    /\ dbgen \in 0 .. MaxGen /\ polgen \in 0 .. MaxGen /\ torn \in BOOLEAN
    /\ \A p \in Proc : InCall(p, "promote") /\ pc[p] # "renamed" => dbgen < MaxGen
    /\ \A p, q \in Proc : InCall(p, "promote") /\ InCall(q, "promote") => p = q

(* What a step does to the lock files: it opens, closes or removes the one    *)
(* there is, or creates one.                                                  *)
SameFiles ==
    /\ ninode' = ninode /\ afile' \in {afile, 0}
    /\ \A q \in Proc : afd'[q] \in {afd[q], 0, afile}
NewFile ==
    /\ ninode < MaxInode /\ ninode' = ninode + 1 /\ afile' = ninode'
    /\ \A q \in Proc : afd'[q] \in {afd[q], ninode'}

(* Either keeps the numbers in their bounds. *)
LEMMA FilesKept ==
  ASSUME Files, SameFiles \/ NewFile
  PROVE  Files'
  <1>1. /\ MaxInode \in Nat /\ ninode \in Nat /\ ninode >= 1 /\ ninode <= MaxInode
        /\ afile \in 0 .. ninode
    <2>1. ninode \in 1 .. MaxInode /\ afile \in 0 .. ninode
      BY DEF Files
    <2> QED
      BY ONLY <2>1, LockAssumption
  <1>2. \A q \in Proc : afd[q] \in 0 .. ninode
    BY DEF Files
  <1>3. CASE SameFiles
    <2>1. 0 \in 0 .. ninode
      BY ONLY <1>1
    <2> QED
      BY <1>2, <1>3, <2>1 DEF SameFiles, Files
  <1>4. CASE NewFile
    <2>1. ninode < MaxInode /\ ninode' = ninode + 1 /\ afile' = ninode'
      BY <1>4 DEF NewFile
    <2>2. /\ ninode' \in 1 .. MaxInode /\ ninode' \in 0 .. ninode'
          /\ \A n \in 0 .. ninode : n \in 0 .. ninode'
      BY ONLY <1>1, <2>1
    <2> QED
      BY <1>2, <1>4, <2>1, <2>2 DEF NewFile, Files
  <1> QED
    BY <1>3, <1>4

(* The two functions that create and remove lock files. *)
LEMMA ReleaseFiles ==
  ASSUME Types, NEW p \in Proc, osa_adb_release_lock(p)
  PROVE  SameFiles \/ NewFile
  <1>1. CASE UNCHANGED <<afile, ninode, afd>>
    BY <1>1 DEF SameFiles
  <1>2. CASE recreate_lockfile(p)
    <2>1. CASE /\ ninode < MaxInode /\ ninode' = ninode + 1 /\ afile' = ninode'
               /\ afd' = afd \/ afd' = [afd EXCEPT ![p] = ninode']
      <3>1. \A q \in Proc : afd'[q] \in {afd[q], ninode'}
        BY <2>1 DEF Types
      <3> QED
        BY <2>1, <3>1 DEF NewFile
    <2> QED
      BY <1>1, <1>2, <2>1 DEF recreate_lockfile
  <1> QED
    BY <1>1, <1>2 DEF osa_adb_release_lock

(* osa_adb_get_lock() creates none. *)
LEMMA GetFiles ==
  ASSUME Types, NEW p \in Proc, NEW mode, osa_adb_get_lock(p, mode)
  PROVE  SameFiles
  <1>1. CASE UNCHANGED <<afile, afd>>
    BY <1>1 DEF osa_adb_get_lock, SameFiles
  <1>2. CASE afile' = 0 /\ afd' = [afd EXCEPT ![p] = 0]
    <2>1. \A q \in Proc : afd'[q] \in {afd[q], 0}
      BY <1>2 DEF Types
    <2> QED
      BY <1>2, <2>1 DEF osa_adb_get_lock, SameFiles
  <1> QED
    BY <1>1, <1>2 DEF osa_adb_get_lock

(* A context is opened or closed. *)
LEMMA CloseFiles ==
  ASSUME Types, NEW p \in Proc,
         closed(p) \/ /\ afd' = [afd EXCEPT ![p] = afile]
                      /\ UNCHANGED <<afile, ninode>>
  PROVE  SameFiles
  <1>1. /\ UNCHANGED <<afile, ninode>>
        /\ \/ afd' = [afd EXCEPT ![p] = afile]
           \/ afd' = [afd EXCEPT ![p] = 0]
    BY DEF closed
  <1>2. \A q \in Proc : afd'[q] \in {afd[q], 0, afile}
    BY <1>1 DEF Types
  <1> QED
    BY <1>1, <1>2 DEF SameFiles

(* What any step does to the lock files is one of the two. *)
LEMMA StepFiles ==
  ASSUME IInv, NEW p \in Proc, Step(p)
  PROVE  SameFiles \/ NewFile
  <1>1. Types
    BY DEF IInv
  <1>2. ASSUME closed(p)
        PROVE  SameFiles
    BY <1>1, <1>2, CloseFiles
  <1>3. ASSUME osa_adb_release_lock(p) \/ ctx_unlock(p)
        PROVE  SameFiles \/ NewFile
    BY <1>1, <1>3, ReleaseFiles DEF ctx_unlock
  <1>4. ASSUME UNCHANGED <<afile, ninode, afd>>
        PROVE  SameFiles
    BY <1>4 DEF SameFiles
  <1>5. CASE krb5_db2_open(p) \/ krb5_db2_promote_db(p)
    <2>1. afd' = [afd EXCEPT ![p] = afile] /\ UNCHANGED <<afile, ninode>>
      BY <1>5 DEF krb5_db2_open, krb5_db2_promote_db
    <2> QED
      BY <1>1, <2>1, CloseFiles
  <1>6. CASE \/ krb5_db2_fini(p) \/ Die(p) \/ rename_fails(p) \/ rename_policies(p)
    BY <1>2, <1>6 DEF krb5_db2_fini, Die, gone, rename_fails, rename_policies
  <1>7. CASE \/ \E op \in Ops, mode \in {SHARED, EXCLUSIVE, PERMANENT} :
                   Call(p, op, mode)
             \/ ctx_lock(p) \/ curs_run_cb(p) \/ rename_principals(p)
    BY <1>4, <1>7
       DEF Call, ctx_lock, curs_run_cb, rename_principals, lockvars
  <1>8. CASE lock_file_fails(p) \/ open_db_fails(p) \/ no_lock(p)
    <2>1. \/ closed(p) \/ UNCHANGED lockvars
          \/ osa_adb_release_lock(p) \/ ctx_unlock(p)
      BY <1>8 DEF lock_file_fails, open_db_fails, no_lock, failed, gone,
         open_fails, undo_lock
    <2> QED
      BY <1>2, <1>3, <1>4, <2>1 DEF lockvars
  <1>9. CASE get_lock(p)
    BY <1>1, <1>9, GetFiles DEF get_lock
  <1>10. CASE \/ krb5_db2_get_principal(p) \/ krb5_db2_put_principal(p)
              \/ krb5_db2_delete_principal(p) \/ krb5_db2_unlock(p)
              \/ osa_adb_close_and_unlock(p)
    BY <1>3, <1>10 DEF krb5_db2_get_principal, krb5_db2_put_principal,
       krb5_db2_delete_principal, krb5_db2_unlock, osa_adb_close_and_unlock
  <1>11. CASE ctx_iterate(p)
    <2>1. ctx_unlock(p) \/ UNCHANGED lockvars
      BY <1>11 DEF ctx_iterate
    <2> QED
      BY <1>3, <1>4, <2>1 DEF lockvars
  <1> QED
    BY <1>5, <1>6, <1>7, <1>8, <1>9, <1>10, <1>11 DEF Step

-----------------------------------------------------------------------------
(* What a step of p does to the promotions: it leaves the databases' number   *)
(* alone unless it renames one, begins a promotion only when nobody is in     *)
(* one, and takes a promotion from before its renames to after them.          *)
Settled(p) ==
    /\ dbgen' = dbgen /\ polgen' \in {polgen, dbgen} /\ torn' \in BOOLEAN
    /\ InCall(p, "promote")' =>
         InCall(p, "promote") /\ pc[p] # "renamed"
Begun(p) ==
    /\ UNCHANGED <<dbgen, polgen, torn>> /\ dbgen < MaxGen
    /\ \A q \in Proc : ~InCall(q, "promote")
Renamed(p) ==
    /\ dbgen' = dbgen + 1 /\ UNCHANGED <<polgen, torn, stack>>
    /\ InCall(p, "promote") /\ pc[p] # "renamed" /\ pc'[p] = "renamed"

LEMMA GenerationsKept ==
  ASSUME Generations, NEW p \in Proc, Elsewhere(p),
         Settled(p) \/ Begun(p) \/ Renamed(p)
  PROVE  Generations'
  <1>1. /\ MaxGen \in Nat /\ dbgen \in 0 .. MaxGen /\ polgen \in 0 .. MaxGen
        /\ torn \in BOOLEAN
    BY Db2Assumption DEF Generations
  <1>2. \A q \in Proc : InCall(q, "promote") /\ pc[q] # "renamed" => dbgen < MaxGen
    BY DEF Generations
  <1>3. \A q, r \in Proc : InCall(q, "promote") /\ InCall(r, "promote") => q = r
    BY DEF Generations
  <1>4. \A q \in Proc \ {p} : /\ InCall(q, "promote")' <=> InCall(q, "promote")
                              /\ pc'[q] = pc[q]
    BY DEF Elsewhere, InCall, Idle, Top
  <1>5. CASE Settled(p)
    <2>1. /\ dbgen' \in 0 .. MaxGen /\ polgen' \in 0 .. MaxGen /\ torn' \in BOOLEAN
          /\ dbgen' = dbgen
      BY <1>1, <1>5 DEF Settled
    <2>2. InCall(p, "promote")' => InCall(p, "promote") /\ pc[p] # "renamed"
      BY <1>5 DEF Settled
    <2>3. ASSUME NEW q \in Proc, InCall(q, "promote")', pc'[q] # "renamed"
          PROVE  dbgen' < MaxGen
      BY <1>2, <1>4, <2>1, <2>2, <2>3
    <2>4. ASSUME NEW q \in Proc, NEW r \in Proc,
                 InCall(q, "promote")', InCall(r, "promote")'
          PROVE  q = r
      BY <1>3, <1>4, <2>2, <2>4
    <2> QED
      BY <2>1, <2>3, <2>4 DEF Generations
  <1>6. CASE Begun(p)
    <2>1. /\ dbgen' \in 0 .. MaxGen /\ polgen' \in 0 .. MaxGen /\ torn' \in BOOLEAN
          /\ dbgen' < MaxGen
      BY <1>1, <1>6 DEF Begun
    <2>2. ASSUME NEW q \in Proc, InCall(q, "promote")'
          PROVE  q = p
      BY <1>4, <1>6, <2>2 DEF Begun
    <2> QED
      BY <2>1, <2>2 DEF Generations
  <1>7. CASE Renamed(p)
    <2>1. /\ dbgen' = dbgen + 1 /\ polgen' = polgen /\ torn' = torn
          /\ InCall(p, "promote") /\ pc[p] # "renamed" /\ pc'[p] = "renamed"
          /\ stack' = stack
      BY <1>7 DEF Renamed
    <2>2. dbgen < MaxGen
      BY <1>2, <2>1
    <2>3. dbgen' \in 0 .. MaxGen
      BY ONLY <1>1, <2>1, <2>2
    <2>4. ASSUME NEW q \in Proc, InCall(q, "promote")'
          PROVE  q = p
      <3>1. InCall(q, "promote")
        BY <2>1, <2>4 DEF InCall, Idle, Top
      <3> QED
        BY <1>3, <2>1, <3>1
    <2> QED
      BY <1>1, <2>1, <2>3, <2>4 DEF Generations
  <1> QED
    BY <1>5, <1>6, <1>7

(* A call that returns does not return into a promotion. *)
LEMMA ReturnsElsewhere ==
  ASSUME IInv, NEW p \in Proc, ~Idle(p), return(p)
  PROVE  ~InCall(p, "promote")'
  <1> DEFINE s == stack[p]
             t == Pop(s)
  <1>1. /\ s \in Seq(Frame) /\ s # <<>> /\ stack'[p] = t /\ Calls(s)
    BY DEF IInv, Types, Sane, Nested, Idle, return
  <1>2. /\ Len(t) = Len(s) - 1 /\ Len(s) > 0 /\ t \in Seq(Frame)
        /\ \A i \in 1 .. Len(s) - 1 : t[i] = s[i]
    BY <1>1, PopFacts
  <1> HIDE DEF s, t
  <1>3. ASSUME t # <<>>
        PROVE  t[Len(t)].op # "promote"
    <2>1. /\ Len(t) \in 1 .. Len(s) /\ Len(t) < Len(s) /\ Len(t) \in 1 .. Len(s) - 1
      <3>1. t \in Seq(Frame) /\ t # <<>> /\ s \in Seq(Frame)
        BY <1>1, <1>2, <1>3
      <3>2. Len(t) \in Nat /\ Len(t) # 0
        BY ONLY <3>1
      <3>3. Len(s) \in Nat
        BY ONLY <3>1
      <3>4. Len(t) = Len(s) - 1
        BY <1>2
      <3> QED
        BY ONLY <3>2, <3>3, <3>4
    <2>2. s[Len(t)].op \in {"lock", "iterate"}
      BY <1>1, <2>1 DEF Calls
    <2>3. s[Len(t)].op # "promote"
      BY ONLY <2>2
    <2> QED
      BY <1>2, <2>1, <2>3
  <1> QED
    BY <1>1, <1>3 DEF InCall, Idle, Top

(* What any step does to the promotions is one of the three. *)
LEMMA StepGenerations ==
  ASSUME IInv, Generations, NEW p \in Proc, Step(p)
  PROVE  Settled(p) \/ Begun(p) \/ Renamed(p)
  <1>1. torn \in BOOLEAN
    BY DEF Generations
  <1>2. ASSUME ~Idle(p), return(p)
        PROVE  ~InCall(p, "promote")'
    BY <1>2, ReturnsElsewhere
  <1>3. ASSUME UNCHANGED <<dbgen, polgen, torn>>, return(p), ~Idle(p)
        PROVE  Settled(p)
    BY <1>1, <1>2, <1>3 DEF Settled
  <1>4. ASSUME UNCHANGED <<dbgen, polgen, torn, stack>>, pc[p] # "renamed"
        PROVE  Settled(p)
    BY <1>1, <1>4 DEF Settled, InCall, Idle, Top
  <1>5. ASSUME gone(p)
        PROVE  Settled(p)
    <2>1. /\ UNCHANGED <<dbgen, polgen>> /\ torn' = (torn \/ pc[p] = "renamed")
          /\ stack' = [stack EXCEPT ![p] = <<>>]
      BY <1>5 DEF gone
    <2>2. stack'[p] = <<>> /\ torn' \in BOOLEAN
      BY <2>1 DEF IInv, Types
    <2> QED
      BY <2>1, <2>2 DEF Settled, InCall, Idle
  <1>6. /\ stack[p] = <<>> => pc[p] = "run"
        /\ pc[p] = "renamed" => ~Idle(p)
    <2>1. stack[p] = <<>> => Len(stack[p]) = 0
      BY SMT
    <2>2. stack[p] = <<>> => pc[p] = "run"
      BY <2>1 DEF IInv, Sane, Nested
    <2> QED
      BY <2>2 DEF Idle
  <1>7. CASE krb5_db2_open(p) \/ krb5_db2_fini(p)
    <2>1. UNCHANGED <<dbgen, polgen, torn, stack>> /\ stack[p] = <<>>
      BY <1>7 DEF krb5_db2_open, krb5_db2_fini, datavars, Idle
    <2> QED
      BY <1>4, <1>6, <2>1
  <1>8. CASE Die(p)
    BY <1>5, <1>8 DEF Die
  <1>9. ASSUME NEW op \in Ops, NEW mode \in {SHARED, EXCLUSIVE, PERMANENT},
               Call(p, op, mode)
        PROVE  Settled(p)
    <2> DEFINE f == [op |-> op, mode |-> mode]
    <2>1. /\ UNCHANGED <<dbgen, polgen, torn>> /\ MayCall(p, op)
          /\ stack'[p] = Append(stack[p], f) /\ stack[p] \in Seq(Frame)
      BY <1>9 DEF Call, datavars, IInv, Types
    <2>2. op # "promote"
      BY <2>1 DEF MayCall
    <2>3. f \in Frame /\ f.op = op
      BY DEF Frame
    <2> HIDE DEF f
    <2>4. /\ Len(stack'[p]) = Len(stack[p]) + 1
          /\ stack'[p][Len(stack[p]) + 1] = f
      <3>1. stack[p] \in Seq(Frame) /\ f \in Frame
        BY <2>1, <2>3
      <3>2. /\ Len(Append(stack[p], f)) = Len(stack[p]) + 1
            /\ Append(stack[p], f)[Len(stack[p]) + 1] = f
        BY ONLY <3>1, PushFacts, Zenon
      <3> QED
        BY ONLY <2>1, <3>2, Zenon
    <2>5. ~InCall(p, "promote")'
      BY <2>2, <2>3, <2>4 DEF InCall, Top
    <2> QED
      BY <1>1, <2>1, <2>5 DEF Settled
  <1>10. CASE ctx_lock(p) \/ get_lock(p) \/ curs_run_cb(p)
    <2>1. UNCHANGED <<dbgen, polgen, torn, stack>> /\ pc[p] # "renamed"
      BY <1>10 DEF ctx_lock, get_lock, curs_run_cb, datavars
    <2> QED
      BY <1>4, <2>1
  <1>11. CASE lock_file_fails(p) \/ open_db_fails(p) \/ no_lock(p)
    <2>1. ~Idle(p)
      BY <1>6, <1>11 DEF lock_file_fails, open_db_fails, no_lock, Idle
    <2>2. gone(p) \/ (return(p) /\ UNCHANGED <<dbgen, polgen, torn>>)
      BY <1>11 DEF lock_file_fails, open_db_fails, no_lock, failed, datavars
    <2> QED
      BY <1>3, <1>5, <2>1, <2>2
  <1>12. CASE \/ krb5_db2_get_principal(p) \/ krb5_db2_put_principal(p)
              \/ krb5_db2_delete_principal(p) \/ krb5_db2_unlock(p)
              \/ osa_adb_close_and_unlock(p) \/ rename_fails(p)
    <2>1. ~Idle(p) /\ return(p) /\ UNCHANGED <<dbgen, polgen, torn>>
      BY <1>12 DEF krb5_db2_get_principal, krb5_db2_put_principal,
         krb5_db2_delete_principal, krb5_db2_unlock, osa_adb_close_and_unlock,
         rename_fails, datavars, InCall
    <2> QED
      BY <1>3, <2>1
  <1>13. CASE ctx_iterate(p)
    <2>1. /\ ~Idle(p) /\ pc[p] # "renamed" /\ UNCHANGED <<dbgen, polgen, torn>>
          /\ return(p) \/ UNCHANGED stack
      BY <1>13 DEF ctx_iterate, datavars, InCall
    <2> QED
      BY <1>3, <1>4, <2>1
  <1>14. CASE krb5_db2_promote_db(p)
    BY <1>14 DEF krb5_db2_promote_db, datavars, Begun
  <1>15. CASE rename_principals(p)
    <2>1. /\ InCall(p, "promote") /\ pc[p] = "run" /\ dbgen' = dbgen + 1
          /\ pc' = [pc EXCEPT ![p] = "renamed"] /\ UNCHANGED <<polgen, torn, stack>>
      BY <1>15 DEF rename_principals, goto
    <2>2. pc'[p] = "renamed" /\ pc[p] # "renamed"
      BY <2>1 DEF IInv, Types
    <2> QED
      BY <2>1, <2>2 DEF Renamed
  <1>16. CASE rename_policies(p)
    <2>1. /\ pc[p] = "renamed" /\ return(p) /\ dbgen' = dbgen
          /\ polgen' \in {polgen, dbgen} /\ torn' \in {torn, TRUE}
      BY <1>16 DEF rename_policies
    <2>2. ~InCall(p, "promote")'
      BY <1>2, <1>6, <2>1
    <2> QED
      BY <1>1, <2>1, <2>2 DEF Settled
  <1> QED
    BY <1>7, <1>8, <1>9, <1>10, <1>11, <1>12, <1>13, <1>14, <1>15, <1>16 DEF Step

(* The lock files and the promotions stay within their bounds. *)
LEMMA Bounds == Spec => [](Files /\ Generations)
  <1>1. Init => Files /\ Generations
    <2> SUFFICES ASSUME Init
                 PROVE  Files /\ Generations
      OBVIOUS
    <2>1. /\ afile = 1 /\ ninode = 1 /\ dbgen = 0 /\ polgen = 0 /\ torn = FALSE
          /\ \A p \in Proc : afd[p] = 0 /\ stack[p] = <<>>
      BY DEF Init, LockInit
    <2>2. Files
      <3>1. 1 \in 1 .. MaxInode /\ 1 \in 0 .. 1 /\ 0 \in 0 .. 1
        BY LockAssumption, SMT
      <3> QED
        BY ONLY <2>1, <3>1 DEF Files
    <2>3. Generations
      <3>1. 0 \in 0 .. MaxGen
        BY Db2Assumption, SMT
      <3> QED
        BY <2>1, <3>1 DEF Generations, InCall, Idle
    <2> QED
      BY <2>2, <2>3
  <1>2. Files /\ Generations /\ IInv /\ [Next]_vars => (Files /\ Generations)'
    <2> SUFFICES ASSUME Files, Generations, IInv, [Next]_vars
                 PROVE  Files' /\ Generations'
      OBVIOUS
    <2>1. CASE UNCHANGED vars
      <3>1. UNCHANGED <<afile, ninode, afd, dbgen, polgen, torn, stack, pc>>
        BY <2>1 DEF vars, lockvars
      <3>2. Files'
        BY <3>1 DEF Files
      <3>3. Generations'
        BY <3>1 DEF Generations, InCall, Idle, Top
      <3> QED
        BY <3>2, <3>3
    <2>2. CASE Next
      <3>1. PICK p \in Proc : Step(p)
        BY <2>2 DEF Next, Step
      <3>2. Elsewhere(p)
        BY <3>1, StepGood DEF Good
      <3>3. Files'
        BY <3>1, StepFiles, FilesKept
      <3>4. Generations'
        BY <3>1, <3>2, StepGenerations, GenerationsKept
      <3> QED
        BY <3>3, <3>4
    <2> QED
      BY <2>1, <2>2
  <1> QED
    BY <1>1, <1>2, Invariant, PTL DEF Spec

(* Every variable keeps its type: in particular a process has no lock file    *)
(* open that osa_adb_release_lock() did not create, and the promotions never  *)
(* run past their bound, because krb5_db2_promote_db() begins only when no    *)
(* other promotion is under way.                                              *)
THEOREM TypeCorrect == Spec => []TypeOK
  <1>1. IInv /\ CInv /\ Files /\ Generations => TypeOK
    <2> SUFFICES ASSUME IInv, CInv, Files, Generations
                 PROVE  TypeOK
      OBVIOUS
    <2>1. curs \in [Proc -> Cursor] /\ princ \in SUBSET Key
      BY DEF CInv
    <2>2. afd \in [Proc -> 0 .. ninode]
      <3>1. afd \in [Proc -> Nat] /\ \A p \in Proc : afd[p] \in 0 .. ninode
        BY DEF IInv, Types, Files
      <3> QED
        BY ONLY <3>1
    <2>3. db \in [Proc -> {0, 1, 2}]
      <3>1. db \in [Proc -> 0 .. 2] /\ 0 .. 2 = {0, 1, 2}
        BY SMT DEF IInv, Types
      <3> QED
        BY <3>1
    <2>4. LockTypeOK
      BY <2>2, <2>3 DEF IInv, Types, Files, LockTypeOK
    <2>5. /\ stack \in [Proc -> Seq(Frame)]
          /\ pc \in [Proc -> {"run", "lock", "policy", "callback", "renamed"}]
      BY DEF IInv, Types
    <2>6. dbgen \in 0 .. MaxGen /\ polgen \in 0 .. MaxGen /\ torn \in BOOLEAN
      BY DEF Generations
    <2> QED
      BY <2>1, <2>4, <2>5, <2>6 DEF TypeOK
  <1> QED
    BY <1>1, Invariant, CursorInvariant, Bounds, PTL
=============================================================================
