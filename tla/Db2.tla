-------------------------------- MODULE Db2 ---------------------------------
(***************************************************************************)
(* The operations of the db2 back end (src/plugins/kdb/db2/kdb_db2.c and   *)
(* adb_policy.c) as processes call them: lookups, changes, iteration with  *)
(* and without the lock, policy operations, an explicit lock with calls    *)
(* under it ("kadmin lock", ulog_replay(), "kdb5_util load -update"), and  *)
(* the promotion of a loaded database.  A call is a frame on the stack of  *)
(* its process.  Between two steps other processes run; a process may die  *)
(* at any point, and the kernel then drops its locks.                      *)
(***************************************************************************)
EXTENDS Db2Lock

CONSTANTS
    K,                   \* the principals are the keys 1 .. K, in key order
    unlockiter,          \* the processes that iterate with the lock released
    MaxGen               \* bound on the databases ever promoted

Key == 1 .. K
None == 0
End == K + 1             \* db->seq() found no entry

ASSUME Db2Assumption ==
    /\ K \in Nat \ {0} /\ MaxGen \in Nat \ {0}
    /\ unlockiter \subseteq Proc

VARIABLES
    stack,               \* the calls a process is in, the outermost first
    pc,                  \* where the innermost one is
    curs,                \* iter_curs, and what this iteration has shown
    princ,               \* the keys in the principal database
    dbgen, polgen,       \* which promotion the two database files come from
    torn                 \* history: a promotion ended between its renames

vars == <<lockvars, stack, pc, curs, princ, dbgen, polgen, torn>>
datavars == <<princ, dbgen, polgen, torn>>

Ops == {"get", "put", "delete", "iterate", "lock", "getpol", "putpol",
        "promote"}
PolicyOps == {"getpol", "putpol"}
Frame == [op : Ops, mode : {SHARED, EXCLUSIVE, PERMANENT}]

\* key is the entry a cursor is at.  For the properties: seen holds the keys
\* the iteration has shown, need those of the database it began with, less the
\* ones its own process has deleted and, if it runs unlocked, any process.
Cursor == [key : 0 .. End, rev : BOOLEAN, err : BOOLEAN,
           seen : SUBSET Key, need : SUBSET Key]
NoCursor == [key |-> None, rev |-> FALSE, err |-> FALSE,
             seen |-> {}, need |-> {}]

\* Every variable has its type.
TypeOK ==
    /\ LockTypeOK
    /\ stack \in [Proc -> Seq(Frame)]
    /\ pc \in [Proc -> {"run", "lock", "policy", "callback", "renamed"}]
    /\ curs \in [Proc -> Cursor]
    /\ princ \in SUBSET Key
    /\ dbgen \in 0 .. MaxGen /\ polgen \in 0 .. MaxGen
    /\ torn \in BOOLEAN

Init ==
    /\ LockInit
    /\ stack = [p \in Proc |-> <<>>]
    /\ pc = [p \in Proc |-> "run"]
    /\ curs = [p \in Proc |-> NoCursor]
    /\ princ \in SUBSET Key
    /\ dbgen = 0 /\ polgen = 0
    /\ torn = FALSE

-----------------------------------------------------------------------------
Idle(p) == stack[p] = <<>>
Top(p) == stack[p][Len(stack[p])]
InCall(p, op) == ~Idle(p) /\ Top(p).op = op
Pop(s) == SubSeq(s, 1, Len(s) - 1)

\* The innermost call returns to its caller: an iteration's callback, the
\* holder of an explicit lock, or the program itself.
return(p) ==
    /\ stack' = [stack EXCEPT ![p] = Pop(@)]
    /\ pc' = [pc EXCEPT ![p] =
           IF Len(stack[p]) > 1 /\ stack[p][Len(stack[p]) - 1].op = "iterate"
           THEN "callback" ELSE "run"]

goto(p, label) == pc' = [pc EXCEPT ![p] = label]

\* What process p takes out of the database is no longer due to its own
\* iteration, nor to one that runs unlocked.
Due(p, keys) ==
    [q \in Proc |-> IF q = p \/ q \in unlockiter
                    THEN [curs[q] EXCEPT !.need = @ \ keys] ELSE curs[q]]

-----------------------------------------------------------------------------
\* The context has a policy database, whose lock file is open unless the
\* process has, or could not end, a permanent lock.
inited(p) == afd[p] # 0 \/ lockmode[p] = PERMANENT

\* krb5_db2_open(): check_openable() opens the database to read, without a
\* lock, and closes it before it returns, so db is not concerned; ctx_init()
\* then needs the policy lock file to exist.
krb5_db2_open(p) ==
    /\ Idle(p) /\ ~inited(p) /\ afile # 0
    /\ afd' = [afd EXCEPT ![p] = afile]
    /\ UNCHANGED <<plk, alk, afile, ninode, db_locks_held, db_lock_mode, db,
                   lockmode, lockcnt, stack, pc, curs, datavars>>

\* krb5_db2_fini(), at the end of a program.
krb5_db2_fini(p) ==
    /\ Idle(p) /\ inited(p)
    /\ closed(p)
    /\ UNCHANGED <<stack, pc, curs, datavars>>

\* The process is gone, wherever it was.
gone(p) ==
    /\ closed(p)
    /\ stack' = [stack EXCEPT ![p] = <<>>]
    /\ pc' = [pc EXCEPT ![p] = "run"]
    /\ curs' = [curs EXCEPT ![p] = NoCursor]
    /\ torn' = (torn \/ pc[p] = "renamed")
    /\ UNCHANGED <<princ, dbgen, polgen>>

Die(p) == ~Idle(p) /\ gone(p)

-----------------------------------------------------------------------------
\* The lock mode each operation passes to ctx_lock() or osa_adb_get_lock().
Modes(op) ==
    CASE op \in {"get", "getpol"} -> {SHARED}
      [] op \in {"put", "delete", "putpol", "promote"} -> {EXCLUSIVE}
      [] op = "iterate" -> {SHARED, EXCLUSIVE}
      [] op = "lock" -> {EXCLUSIVE, PERMANENT}

\* Mutant: curs_init() does not heed KRB5_DB_ITER_WRITE.
LockSharedOnly(op, mode) == IF op = "iterate" THEN SHARED ELSE mode

\* curs_init() locks with EXCLUSIVE for KRB5_DB_ITER_WRITE; the other
\* operations have a mode of their own.
LockFor(op, mode) == mode

\* Mutant: a policy operation looks up a principal before it lets go.
CallUnderPolicy(p, op) ==
    IF Idle(p) THEN op # "promote" /\ inited(p)
    ELSE CASE Top(p).op = "lock" -> op \notin {"lock", "promote"}
           [] Top(p).op = "putpol" -> op = "get"
           [] OTHER -> FALSE

\* Which calls the programs make under which: any operation under an explicit
\* lock, a lookup in the callback of an iteration, and a change in that of an
\* iteration that may write.
MayCall(p, op) ==
    IF Idle(p) THEN op # "promote" /\ inited(p)
    ELSE CASE Top(p).op = "lock" -> op \notin {"lock", "promote"}
           [] Top(p).op = "iterate" ->
                  /\ pc[p] = "callback"
                  /\ \/ op = "get"
                     \/ op \in {"put", "delete"} /\ Top(p).mode = EXCLUSIVE
           [] OTHER -> FALSE

\* The frame keeps the mode that was asked for; an iteration that asks for
\* EXCLUSIVE has a callback that writes.
Call(p, op, mode) ==
    /\ pc[p] \in {"run", "callback"}
    /\ MayCall(p, op)
    /\ mode \in Modes(op)
    /\ stack' = [stack EXCEPT ![p] = Append(@, [op |-> op, mode |-> mode])]
    /\ goto(p, IF op \in PolicyOps THEN "policy" ELSE "lock")
    /\ IF op = "iterate"
       THEN \E r \in BOOLEAN :
                curs' = [curs EXCEPT ![p] = [NoCursor EXCEPT !.rev = r]]
       ELSE UNCHANGED curs
    /\ UNCHANGED <<lockvars, datavars>>

\* krb5_db2_promote_db() has a context of its own.  It first tries to create
\* the database, which asks for the principal lock without waiting: a process
\* that holds it at that moment makes the promotion fail.  The database
\* exists, so it then is opened and locked like by any other call.  The lock
\* of the temporary database lets one process at a time load and promote.
krb5_db2_promote_db(p) ==
    /\ Idle(p) /\ ~inited(p)
    /\ \A q \in Proc : ~InCall(q, "promote")
    /\ PrincipalFree(p, EXCLUSIVE)
    /\ afile # 0
    /\ dbgen < MaxGen
    /\ afd' = [afd EXCEPT ![p] = afile]
    /\ stack' = [stack EXCEPT ![p] =
           <<[op |-> "promote", mode |-> EXCLUSIVE]>>]
    /\ goto(p, "lock")
    /\ UNCHANGED <<plk, alk, afile, ninode, db_locks_held, db_lock_mode, db,
                   lockmode, lockcnt, curs, datavars>>

\* ctx_lock(), as far as the policy lock.
ctx_lock(p) ==
    /\ pc[p] = "lock"
    /\ lock_principal(p, LockFor(Top(p).op, Top(p).mode))
    /\ goto(p, "policy")
    /\ UNCHANGED <<alk, afile, ninode, afd, lockmode, lockcnt, stack, curs,
                   datavars>>

\* What a call does whose lock failed, after the cleanup of the lock: it
\* returns; a promotion closes its context; and ctx_iterate() ignores the
\* error of curs_init() and reads through a null handle.
failed(p, cleanup) ==
    IF InCall(p, "iterate") /\ curs[p].key = None
    THEN gone(p)
    ELSE /\ IF InCall(p, "promote") THEN closed(p) ELSE cleanup
         /\ return(p)
         /\ curs' = [curs EXCEPT ![p] =
                IF InCall(p, "iterate") THEN NoCursor ELSE @]
         /\ UNCHANGED <<datavars>>

\* Mutant: the principal lock is kept when the policy lock is not to be had.
KeepPrincipalLock(p) == UNCHANGED lockvars

\* ctx_lock() gives the principal lock back when the policy lock fails.
undo_lock(p) == ctx_unlock(p)

\* The two errors of the first half of ctx_lock(): krb5_lock_file() fails, or
\* the file is locked and the database cannot be opened.
lock_file_fails(p) ==
    /\ pc[p] = "lock"
    /\ MustLock(p, LockFor(Top(p).op, Top(p).mode))
    /\ failed(p, UNCHANGED lockvars)

open_db_fails(p) ==
    /\ pc[p] = "lock"
    /\ MustLock(p, LockFor(Top(p).op, Top(p).mode))
    /\ PrincipalFree(p, kmode(LockFor(Top(p).op, Top(p).mode)))
    /\ failed(p, open_fails(p, LockFor(Top(p).op, Top(p).mode)))

\* osa_adb_get_lock(), from ctx_lock() or osa_adb_open_and_lock().
get_lock(p) ==
    /\ pc[p] = "policy"
    /\ get_lock_granted(p, LockFor(Top(p).op, Top(p).mode))
    /\ ~lockfile_missing(p, LockFor(Top(p).op, Top(p).mode))
    /\ osa_adb_get_lock(p, LockFor(Top(p).op, Top(p).mode))
    /\ goto(p, "run")
    /\ UNCHANGED <<plk, db_locks_held, db_lock_mode, db, stack, curs, datavars>>

no_lock(p) ==
    /\ pc[p] = "policy"
    /\ get_lock_fails(p, LockFor(Top(p).op, Top(p).mode))
    /\ failed(p, IF Top(p).op \in PolicyOps
                 THEN UNCHANGED lockvars ELSE undo_lock(p))

-----------------------------------------------------------------------------
\* The operations, once they have their locks, to their return.
krb5_db2_get_principal(p) ==
    /\ pc[p] = "run" /\ InCall(p, "get")
    /\ ctx_unlock(p) /\ return(p)
    /\ UNCHANGED <<curs, datavars>>

krb5_db2_put_principal(p) ==
    /\ pc[p] = "run" /\ InCall(p, "put")
    /\ \E k \in Key : princ' = princ \cup {k}
    /\ ctx_unlock(p) /\ return(p)
    /\ UNCHANGED <<curs, dbgen, polgen, torn>>

krb5_db2_delete_principal(p) ==
    /\ pc[p] = "run" /\ InCall(p, "delete")
    /\ \E k \in Key : princ' = princ \ {k} /\ curs' = Due(p, {k})
    /\ ctx_unlock(p) /\ return(p)
    /\ UNCHANGED <<dbgen, polgen, torn>>

\* krb5_db2_unlock() ends an explicit lock.
krb5_db2_unlock(p) ==
    /\ pc[p] = "run" /\ InCall(p, "lock")
    /\ ctx_unlock(p) /\ return(p)
    /\ UNCHANGED <<curs, datavars>>

\* The operations of adb_policy.c, to CLOSELOCK.  They do not take the lock of
\* the principal database.
osa_adb_close_and_unlock(p) ==
    /\ pc[p] = "run" /\ ~Idle(p) /\ Top(p).op \in PolicyOps
    /\ osa_adb_release_lock(p) /\ return(p)
    /\ UNCHANGED <<plk, db_locks_held, db_lock_mode, db, curs, datavars>>

-----------------------------------------------------------------------------
\* db->seq() of a btree, whose keys are not duplicated.
Least(S) == IF S = {} THEN End ELSE CHOOSE k \in S : \A j \in S : k <= j
Greatest(S) == IF S = {} THEN End ELSE CHOOSE k \in S : \A j \in S : k >= j

bt_first(key) == Least({k \in princ : k >= key})

\* Mutant: the entry found in the place of a deleted one is stepped over.
seqadv_past(key, rev) ==
    IF bt_first(key) = End THEN End
    ELSE IF rev THEN Greatest({k \in princ : k < bt_first(key)})
                ELSE Least({k \in princ : k > bt_first(key)})

\* R_NEXT and R_PREV.  The deletion of the entry the cursor is at saves its
\* key; unless the entry is back, the step goes to the next greater one, in
\* either direction.
bt_seqadv(key, rev) ==
    IF key \notin princ THEN bt_first(key)
    ELSE IF rev THEN Greatest({k \in princ : k < key})
                ELSE Least({k \in princ : k > key})

curs_start(c) == IF c.rev THEN Greatest(princ) ELSE Least(princ)

\* With unlockiter the cursor is found again by the copy of its key, or by the
\* next key that is still there.
curs_step(p, c) ==
    LET at == IF p \in unlockiter THEN bt_first(c.key) ELSE c.key
    IN  IF at = End THEN End ELSE bt_seqadv(at, c.rev)

\* The cursor, with what is due to an iteration that is about to begin.
begun(p) ==
    IF curs[p].key = None THEN [curs[p] EXCEPT !.need = princ] ELSE curs[p]

\* The part of ctx_iterate() from one callback to the next, or to the end.
ctx_iterate(p) ==
    LET c == begun(p)
        key == IF c.key = None THEN curs_start(c) ELSE curs_step(p, c)
    IN  /\ pc[p] = "run" /\ InCall(p, "iterate")
        /\ IF c.err \/ key = End
           THEN /\ ctx_unlock(p) /\ return(p)
                /\ curs' = [curs EXCEPT ![p] = NoCursor]
           ELSE /\ curs' = [curs EXCEPT ![p] =
                       [c EXCEPT !.key = key, !.seen = @ \cup {key}]]
                /\ IF p \in unlockiter THEN ctx_unlock(p)
                                       ELSE UNCHANGED lockvars
                /\ goto(p, "callback")
                /\ UNCHANGED <<stack>>
        /\ UNCHANGED datavars

\* curs_run_cb() after the callback, which may have failed.
curs_run_cb(p) ==
    /\ pc[p] = "callback"
    /\ \E err \in BOOLEAN : curs' = [curs EXCEPT ![p].err = err]
    /\ goto(p, IF p \in unlockiter THEN "lock" ELSE "run")
    /\ UNCHANGED <<lockvars, stack, datavars>>

-----------------------------------------------------------------------------
\* ctx_promote(): the database loaded meanwhile takes the place of the old one
\* in two renames, under both locks, which krb5_db2_promote_db() then gives up.
rename_fails(p) ==
    /\ pc[p] = "run" /\ InCall(p, "promote")
    /\ closed(p) /\ return(p)
    /\ UNCHANGED <<curs, datavars>>

rename_principals(p) ==
    /\ pc[p] = "run" /\ InCall(p, "promote")
    /\ princ' \in SUBSET Key
    /\ curs' = Due(p, princ \ princ')
    /\ dbgen' = dbgen + 1
    /\ goto(p, "renamed")
    /\ UNCHANGED <<lockvars, stack, polgen, torn>>

\* Mutant: the locks are given up between the two renames.
unlock_then_rename(p) ==
    /\ pc[p] = "renamed"
    /\ IF afd[p] # 0
       THEN closed(p) /\ UNCHANGED <<stack, pc, polgen, torn>>
       ELSE polgen' = dbgen /\ return(p) /\ UNCHANGED <<lockvars, torn>>
    /\ UNCHANGED <<curs, princ, dbgen>>

rename_policies(p) ==
    /\ pc[p] = "renamed"
    /\ \/ polgen' = dbgen /\ UNCHANGED torn
       \/ torn' = TRUE /\ UNCHANGED polgen      \* the rename fails
    /\ closed(p) /\ return(p)
    /\ UNCHANGED <<curs, princ, dbgen>>

Next ==
    \E p \in Proc :
        \/ krb5_db2_open(p) \/ krb5_db2_fini(p) \/ Die(p)
        \/ \E op \in Ops, mode \in {SHARED, EXCLUSIVE, PERMANENT} :
               Call(p, op, mode)
        \/ ctx_lock(p) \/ lock_file_fails(p) \/ open_db_fails(p)
        \/ get_lock(p) \/ no_lock(p)
        \/ krb5_db2_get_principal(p) \/ krb5_db2_put_principal(p)
        \/ krb5_db2_delete_principal(p) \/ krb5_db2_unlock(p)
        \/ osa_adb_close_and_unlock(p)
        \/ ctx_iterate(p) \/ curs_run_cb(p)
        \/ krb5_db2_promote_db(p) \/ rename_fails(p)
        \/ rename_principals(p) \/ rename_policies(p)

Spec == Init /\ [][Next]_vars

-----------------------------------------------------------------------------
\* The principal database is open for writing in one process at most, and
\* then no other process has it open at all: what ctx_lock() and ctx_unlock()
\* are for, through nested calls, failures, permanent locks and deaths.  The
\* database a process has open is the handle of its context; the open and close
\* of check_openable() heeds no lock.
Exclusion ==
    \A p, q \in Proc : p # q /\ db[p] = O_RDWR => db[q] = NULL

\* A process that is in no call holds nothing: each path of ctx_lock() that
\* fails, and each operation, gives back what it took.  The one thing that may
\* stay is the mode of a permanent lock whose file could not be created again,
\* and then the process has no policy lock file open.
NothingKept ==
    \A p \in Proc : Idle(p) =>
        /\ plk[p] = 0 /\ alk[p] = 0 /\ db[p] = NULL
        /\ db_locks_held[p] = 0 /\ lockcnt[p] = 0
        /\ lockmode[p] = 0 \/ (lockmode[p] = PERMANENT /\ afd[p] = 0)

\* A call never has to upgrade its process's locks.  The reopening in
\* ctx_lock() would take the handle away from the iteration that is going on,
\* and its failure would clear the counts of the calls it is nested in; a
\* failure of osa_adb_get_lock() would drop the policy lock they count on.
NeverUpgraded ==
    \A p \in Proc :
        /\ pc[p] = "lock" /\ db_locks_held[p] > 0 =>
               ~MustLock(p, LockFor(Top(p).op, Top(p).mode))
        /\ pc[p] = "policy" /\ lockcnt[p] > 0 =>
               ~get_lock_fails(p, LockFor(Top(p).op, Top(p).mode))

\* A call of the process waits in krb5_lock_file().
Waits(p) ==
    \/ /\ pc[p] = "lock"
       /\ MustLock(p, LockFor(Top(p).op, Top(p).mode))
       /\ ~PrincipalFree(p, kmode(LockFor(Top(p).op, Top(p).mode)))
    \/ /\ pc[p] = "policy"
       /\ ~get_lock_granted(p, LockFor(Top(p).op, Top(p).mode))

\* Not everyone waits for everyone: if a process waits for a lock, some
\* process that is not waiting holds one.
NoDeadlock ==
    (\E p \in Proc : Waits(p)) =>
        \E q \in Proc : ~Waits(q) /\ (plk[q] > 0 \/ alk[q] > 0)

\* A permanent lock survives its process: while the policy lock file is
\* missing, no call gets past ctx_lock() but those of a process that took the
\* permanent lock itself, whether or not that one still runs.
PermanentSurvives ==
    afile = 0 => \A p \in Proc :
        db_locks_held[p] > 0 /\ pc[p] \notin {"lock", "policy"} =>
            lockmode[p] = PERMANENT

\* Whoever has the database locked finds a principal and a policy database of
\* the same promotion, unless a promotion ended between its renames.
OneGeneration ==
    \A p \in Proc :
        /\ db_locks_held[p] > 0 /\ pc[p] # "renamed"
        /\ ~torn
        => dbgen = polgen

\* What an iteration that ends without an error has left out.  Forwards and
\* with the lock: nothing of what it began with and did not delete itself.
\* Forwards without it: an entry that follows directly on one that was shown
\* and then deleted, because the saved key is found at that entry, and the
\* step goes past it.  Backwards: nothing, or, if all that was shown has been
\* deleted, anything, because no greater key is left to go back to.
Complete(p, c) ==
    \A k \in c.need \ c.seen :
        IF c.rev THEN c.seen \cap c.need = {}
        ELSE /\ p \in unlockiter
             /\ \E j \in c.seen \ c.need :
                   j < k /\ \A i \in c.need : i < j \/ i >= k

\* An iteration shows what it should (see Complete), and one that runs
\* forwards shows no entry a second time, whatever its callbacks, or other
\* processes during them, change: curs_start(), curs_step() and the cursor of
\* the btree under ctx_iterate().
IterationComplete ==
    [][\A p \in Proc : ctx_iterate(p) =>
          IF stack' = stack
          THEN curs[p].rev \/ curs'[p].key > curs[p].key
          ELSE curs[p].err \/ Complete(p, begun(p))]_vars
=============================================================================
