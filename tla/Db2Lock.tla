------------------------------ MODULE Db2Lock -------------------------------
(***************************************************************************)
(* The locks of the db2 back end: ctx_lock() and ctx_unlock() of           *)
(* src/plugins/kdb/db2/kdb_db2.c over osa_adb_get_lock() and               *)
(* osa_adb_release_lock() of adb_openclose.c.  Each process has one        *)
(* context.  The principal database is guarded by a lock file that stays,  *)
(* the policy database by one that a permanent lock unlinks and a release  *)
(* creates anew, so the name can stand for different files over time.      *)
(***************************************************************************)
EXTENDS Integers, Sequences

CONSTANTS
    Proc,                \* the processes
    MaxInode             \* bound on the policy lock files ever created

ASSUME LockAssumption == MaxInode \in Nat \ {0}

\* Lock modes of krb5.h and kdb.h: PERMANENT is known to ctx_lock() and the
\* policy lock only, the file locks are SHARED or EXCLUSIVE.
SHARED == 1
EXCLUSIVE == 2
PERMANENT == 8

\* How a database is open.
NULL == 0
O_RDONLY == 1
O_RDWR == 2

VARIABLES
    plk,                 \* the principal lock file: the lock of each process
    alk,                 \* the policy lock file a process has open: its lock
    afile,               \* the file with the policy lock file's name, or 0
    ninode,              \* how many such files there have been
    afd,                 \* the policy lock file each process has open, or 0
    db_locks_held, db_lock_mode, db,    \* of krb5_db2_context
    lockmode, lockcnt                   \* of the policy database's lockinfo

lockvars == <<plk, alk, afile, ninode, afd, db_locks_held, db_lock_mode, db,
              lockmode, lockcnt>>

LockTypeOK ==
    /\ plk \in [Proc -> 0 .. EXCLUSIVE] /\ alk \in [Proc -> 0 .. EXCLUSIVE]
    /\ ninode \in 1 .. MaxInode
    /\ afile \in 0 .. ninode
    /\ afd \in [Proc -> 0 .. ninode]
    /\ db_locks_held \in [Proc -> Nat]
    /\ db_lock_mode \in [Proc -> 0 .. EXCLUSIVE]
    /\ db \in [Proc -> {NULL, O_RDONLY, O_RDWR}]
    /\ lockmode \in [Proc -> {0, SHARED, EXCLUSIVE, PERMANENT}]
    /\ lockcnt \in [Proc -> Nat]

LockInit ==
    /\ plk = [p \in Proc |-> 0] /\ alk = [p \in Proc |-> 0]
    /\ afile = 1 /\ ninode = 1
    /\ afd = [p \in Proc |-> 0]
    /\ db_locks_held = [p \in Proc |-> 0]
    /\ db_lock_mode = [p \in Proc |-> 0]
    /\ db = [p \in Proc |-> NULL]
    /\ lockmode = [p \in Proc |-> 0]
    /\ lockcnt = [p \in Proc |-> 0]

-----------------------------------------------------------------------------
\* krb5_lock_file() without DONTBLOCK waits until the kernel grants the lock.
Grantable(lk, others, mode) ==
    \A q \in others : lk[q] = 0 \/ (lk[q] = SHARED /\ mode = SHARED)

PrincipalFree(p, mode) == Grantable(plk, Proc \ {p}, mode)
PolicyFree(p, mode) ==
    Grantable(alk, {q \in Proc \ {p} : afd[q] = afd[p]}, mode)

kmode(mode) == IF mode = SHARED THEN SHARED ELSE EXCLUSIVE

\* Mutant: a lock that is not held is released all the same.
release_unheld(p) ==
    /\ lockcnt' = [lockcnt EXCEPT ![p] = @ - 1]
    /\ IF lockcnt[p] = 1
       THEN /\ lockmode' = [lockmode EXCEPT ![p] = 0]
            /\ alk' = [alk EXCEPT ![p] = 0]
       ELSE UNCHANGED <<lockmode, alk>>
    /\ UNCHANGED <<afd, afile, ninode>>

\* The last release of a permanent lock creates the lock file anew, in the
\* place of the one that was unlinked.  open(O_CREAT | O_EXCL) or fdopen() may
\* fail, and the lock then stays permanent: after open() there is no file,
\* after fdopen() there is one that this process does not have open.
recreate_lockfile(p) ==
    \/ UNCHANGED <<lockmode, afd, afile, ninode>>
    \/ /\ afile = 0 /\ ninode < MaxInode
       /\ ninode' = ninode + 1
       /\ afile' = ninode'
       /\ \/ UNCHANGED <<lockmode, afd>>
          \/ /\ lockmode' = [lockmode EXCEPT ![p] = 0]
             /\ afd' = [afd EXCEPT ![p] = ninode']

\* osa_adb_release_lock() counts down, and lets go at zero.
osa_adb_release_lock(p) ==
    IF lockcnt[p] = 0
    THEN UNCHANGED <<lockcnt, lockmode, alk, afd, afile, ninode>>
    ELSE /\ lockcnt' = [lockcnt EXCEPT ![p] = @ - 1]
         /\ IF lockcnt[p] > 1
            THEN UNCHANGED <<lockmode, alk, afd, afile, ninode>>
            ELSE IF lockmode[p] = PERMANENT
            THEN recreate_lockfile(p) /\ UNCHANGED alk
            ELSE /\ lockmode' = [lockmode EXCEPT ![p] = 0]
                 /\ alk' = [alk EXCEPT ![p] = 0]
                 /\ UNCHANGED <<afd, afile, ninode>>

\* ctx_unlock(): the last unlock closes the database.
ctx_unlock(p) ==
    /\ osa_adb_release_lock(p)
    /\ IF db_locks_held[p] = 0
       THEN UNCHANGED <<plk, db_locks_held, db_lock_mode, db>>
       ELSE /\ db_locks_held' = [db_locks_held EXCEPT ![p] = @ - 1]
            /\ IF db_locks_held[p] > 1
               THEN UNCHANGED <<plk, db_lock_mode, db>>
               ELSE /\ plk' = [plk EXCEPT ![p] = 0]
                    /\ db_lock_mode' = [db_lock_mode EXCEPT ![p] = 0]
                    /\ db' = [db EXCEPT ![p] = NULL]

\* ctx_lock() has to lock the file and to (re)open the database.
MustLock(p, mode) == db_locks_held[p] = 0 \/ db_lock_mode[p] < kmode(mode)

\* Mutant: the database is opened without waiting for the lock.
lock_principal_nowait(p, mode) ==
    /\ plk' = [plk EXCEPT ![p] = IF MustLock(p, mode) THEN kmode(mode) ELSE @]
    /\ db_lock_mode' = [db_lock_mode EXCEPT ![p] =
           IF MustLock(p, mode) THEN kmode(mode) ELSE @]
    /\ db' = [db EXCEPT ![p] = IF MustLock(p, mode) THEN kmode(mode) ELSE @]
    /\ db_locks_held' = [db_locks_held EXCEPT ![p] = @ + 1]

\* The first half of ctx_lock(), up to the policy lock.
lock_principal(p, mode) ==
    /\ IF MustLock(p, mode)
       THEN /\ PrincipalFree(p, kmode(mode))
            /\ plk' = [plk EXCEPT ![p] = kmode(mode)]
            /\ db_lock_mode' = [db_lock_mode EXCEPT ![p] = kmode(mode)]
            /\ db' = [db EXCEPT ![p] =
                   IF kmode(mode) = SHARED THEN O_RDONLY ELSE O_RDWR]
       ELSE UNCHANGED <<plk, db_lock_mode, db>>
    /\ db_locks_held' = [db_locks_held EXCEPT ![p] = @ + 1]

\* ctx_lock() when open_db() fails: the counts are cleared, the policy lock is
\* released once, and the file is unlocked.
open_fails(p, mode) ==
    /\ MustLock(p, mode) /\ PrincipalFree(p, kmode(mode))
    /\ db' = [db EXCEPT ![p] = NULL]
    /\ db_locks_held' = [db_locks_held EXCEPT ![p] = 0]
    /\ db_lock_mode' = [db_lock_mode EXCEPT ![p] = 0]
    /\ plk' = [plk EXCEPT ![p] = 0]
    /\ osa_adb_release_lock(p)

\* osa_adb_get_lock() blocks on the lock file the process has open, and then
\* insists that a file of that name exists.  A permanent lock unlinks it and
\* closes it, which also drops the file lock.  It returns an error, with
\* nothing changed, if it cannot lock, or has locked and now unlocks because
\* the file is missing or cannot be unlinked; all of that only if the mode the
\* process already has is too weak.
get_lock_fails(p, mode) == lockmode[p] < mode

get_lock_granted(p, mode) == lockmode[p] >= mode \/ PolicyFree(p, kmode(mode))

\* Mutant: the lock file need not exist.
NeverMissing(p, mode) == FALSE

lockfile_missing(p, mode) == lockmode[p] < mode /\ afile = 0

osa_adb_get_lock(p, mode) ==
    /\ lockcnt' = [lockcnt EXCEPT ![p] = @ + 1]
    /\ IF lockmode[p] >= mode
       THEN UNCHANGED <<lockmode, alk, afile, afd>>
       ELSE /\ lockmode' = [lockmode EXCEPT ![p] = mode]
            /\ IF mode = PERMANENT
               THEN /\ afile' = 0
                    /\ afd' = [afd EXCEPT ![p] = 0]
                    /\ alk' = [alk EXCEPT ![p] = 0]
               ELSE /\ alk' = [alk EXCEPT ![p] = kmode(mode)]
                    /\ UNCHANGED <<afile, afd>>
    /\ UNCHANGED ninode

\* The process ends: the kernel drops its locks and closes its files.
closed(p) ==
    /\ plk' = [plk EXCEPT ![p] = 0] /\ alk' = [alk EXCEPT ![p] = 0]
    /\ afd' = [afd EXCEPT ![p] = 0]
    /\ db_locks_held' = [db_locks_held EXCEPT ![p] = 0]
    /\ db_lock_mode' = [db_lock_mode EXCEPT ![p] = 0]
    /\ db' = [db EXCEPT ![p] = NULL]
    /\ lockmode' = [lockmode EXCEPT ![p] = 0]
    /\ lockcnt' = [lockcnt EXCEPT ![p] = 0]
    /\ UNCHANGED <<afile, ninode>>
=============================================================================
