# Specifications of MIT krb5

TLA+ specifications of parts of MIT krb5 whose correctness depends on the order
in which several processes, callbacks or messages take their steps. Paths are
relative to the `src/` directory of the source tree. `PROJECT.json` maps each
definition to the lines it models, lists the hazards of the modelled code with
the properties that are about them, and names every part that is not modelled.

## 1. The system and its parts

krb5 is a KDC with its database and administration, a client library with
GSS-API on top of it, and what both are built from.

| Part | State | What makes it hard | Module |
| --- | --- | --- | --- |
| Update log, `lib/kdb/kdb_log.c` | a mapped file: header, ring of entries | processes die in the middle; the ring circles; serial numbers end; blocks grow | Ulog, UlogFile, UpdateLog |
| Database front end, `lib/kdb/kdb5.c` | - | put and log are separate critical sections | Iprop |
| kadmind's iprop service, `kadmin/server/ipropd_svc.c` | the log | children outlive the request | Iprop |
| kpropd, `slave/kpropd.c` | position, outstanding resync | two processes work on one database | Iprop |
| Dump and load, `kadmin/dbutil/dump.c` | dump file, database, log | neither is atomic | Iprop |
| db2 back end, `plugins/kdb/db2` | files, locks, lock counts | nested locks, failing releases, iteration that unlocks, two renames | Db2Lock, Db2 |
| KDC lookaside cache and dispatch, `kdc/replay.c`, `kdc/dispatch.c` | queue of requests and replies, requests in progress | asynchronous AS exchanges, retransmissions, failing allocations | Lookaside, Dispatch |
| OTP module and RADIUS client, `plugins/preauth/otp`, `lib/krad` | outstanding packets, timers, connections | callbacks into callers that are not finished; retries | Krad |
| Network loop, `lib/apputils/net-server.c` | connections | a limit that drops connections, deferred replies | NetServer |
| KDC exchange of the client, `lib/krb5/os/sendto_kdc.c` | connection attempts, poll set | all connections wait at once; timeouts race late answers | Sendto |
| GSS-API sequence numbers, `lib/gssapi/generic/util_seqstate.c` | a window over received numbers | numbers wrap, windows end | SeqState |

How they interact: kadmind changes the database through the front end, which
calls the db2 back end and then logs the change. kpropd on a replica polls
kadmind for entries of the log, replays them into its own database and log, or
is sent a dump, which kdb5_util loads. A client finds a KDC with sendto_kdc.c;
the KDC's network loop reads the request, dispatch answers it from the
lookaside cache or processes it, and an AS request with an OTP value waits for
the RADIUS client. Applications then use GSS-API contexts.

What each has to guarantee:

* *Update log*: a replica that is answered with updates gets all that was
  logged after its position, and nothing else; a position that the log does not
  know any more is refused.
* *Propagation*: a replica that the master takes to be at a position has the
  database of that position, and replicas end up with the master's database.
* *db2*: a writer has the principal database alone; every path gives back its
  locks; a permanent lock outlives its process; nobody sees half of a
  promotion; an iteration leaves out no more than its cursor makes it.
* *Lookaside and dispatch*: copies of a request get the reply of the first one
  and do not start a second exchange; the cache keeps to its size.
* *OTP and RADIUS*: a verification is answered exactly once, always, and leaves
  nothing behind that would call back.
* *Network loop*: the limit on connections is kept by an exact count, and a
  connection whose request is being processed is not closed.
* *Client exchange*: it waits no longer than the stated time, tries every
  address, and returns with the answer that was received.
* *Sequence numbers*: repeated, lost and reordered tokens are reported as such.

## 2. Modules

    UpdateLog                                   abstract update log
       ^ (refinement)
    Ulog -- UlogFile -- UlogFileProofs                       MCUlogFile
        \-- Iprop -- IpropLogProofs -- IpropStepProofs
                         -- IpropProofs                      MCIprop
    Db2Lock -- Db2 -- Db2Proofs                              MCDb2
    Lookaside -- Dispatch --\                                MCDispatch
    NetServer ----------------- ServerProofs                 MCNetServer
    Krad ------\                                             MCKrad
    SeqState ---- MessageProofs                              MCSeqState
    Sendto -- SendtoProofs                                   MCSendto

`ServerProofs` and `MessageProofs` each hold the proofs of two components that
share no state; the names of NetServer (`NetInit`, `NetNext`, `NetTypeOK` ...)
and of SeqState (`SeqInit` ...) carry a prefix so that one module can extend
both.

An operator whose comment starts with "Mutant:" or "A fault:" is a wrong version
of a definition that follows it. Nothing uses it. Putting it in the place of
that definition violates the property `PROJECT.json` lists it for, which shows
that the property depends on the code it is about.

**Ulog** has the functions of `kdb_log.c` as operators on the contents of a log
file (`Contents`: header and slots). `StoreUpdate` is `store_update()`,
`StoreInterrupted` the contents it can leave when its process dies after each
of its writes; `ResetUlog` and `ResetInterrupted` likewise. `Reread` says what
the slots hold after the block size in the header has changed: the offsets
move, so they can hold any of the old entries or zeros.

**UlogFile** is the state machine of one log file: one action per operation,
each a single step since the operations hold the lock on the file, plus the
actions in which the process dies. `hist` and `start` are history variables:
what was logged since the log was last started over.

**UpdateLog** is what a log promises, without files: a function from the serial
numbers a replica may be at to their entries, which grows by the next number,
forgets from its old end, or starts over. `UlogFile!ImplementsUpdateLog` is the
refinement, with the entries that `get_sno_status()` accepts for `log`.

**Iprop** composes two logs, two databases, and the processes between them.

| Action | Code |
| --- | --- |
| `PutPrincipal`, `LogUpdate`, `DieUnlogged`, `DieLogging` | `krb5_db_put_principal()`/`delete`: the put, then the log |
| `PutPolicy`, `ResetForPolicy` | policy changes, then `ulog_init_header()` |
| `FullResync`, `CheckDump`, `DumpHeader`, `DumpPrincipals`, `DumpPolicies`, `Send`, `JobDies` | `ipropx_resync()` and the child it forks: `kdb5_util dump -i -c`, then `kprop` |
| `LoadInit`, `LoadPromote`, `LoadReinit`, `LoadSetLast`, `LoadDies` | `load_db()` on the replica |
| `GetLast`, `GetUpdates`, `StillWaiting`, `InSync`, `Replay`, `ReplayFails`, `ResyncTimeout`, `CallFails`, `FullResyncFails` | `do_iprop()` and the RPC procedures that serve it |
| `KpropdDies`, `ReplayDies` | kpropd dies and is started again |

`lost` and `overlap` are history variables that name the situations in which
the properties of replicas are not claimed: a process died between a put and
its log entry, or in the log with no trace of it, or a later update hid its
death; two writers logged in the other order than they put; a resync was asked
for although the replica did not need one any more.

**Db2Lock** has `ctx_lock()`, `ctx_unlock()`, `osa_adb_get_lock()` and
`osa_adb_release_lock()` as operators on the locks and counts of one process.
The policy lock file is an inode: a permanent lock unlinks it, a release makes
a new one, and processes that were running keep the old one open (`afd`). The
release can fail to make it (`recreate_lockfile`); the count is zero then and
the mode stays permanent. `osa_adb_get_lock()` fails where the lock is not to be
had, the file is missing or cannot be unlinked, with nothing changed.
**Db2** has the callers. A call is a frame on the stack of its process, with
`pc` for where the innermost one is; `Call` starts one, `ctx_lock`, `get_lock`,
`lock_file_fails`, `open_db_fails`, `no_lock` take it through locking or its
error paths, `ctx_iterate` and `curs_run_cb` are the loop of an iteration and
its callback, `rename_principals`, `rename_policies`, `rename_fails` a
promotion, `Die` a death at any step. `MayCall` says which calls nest: any
operation under an explicit lock, lookups in the callback of an iteration, and
puts and deletes in that of one that may write. `bt_first` and `bt_seqadv` are the
cursor of `libdb2/btree/bt_seq.c`, with the key it keeps of an entry that was
deleted under it; `curs_start` and `curs_step` use it as `kdb_db2.c` does, which
finds its place again by a copy of the key when it iterates without the lock.
`torn` and, in a cursor, `seen` and `need` are history: what an iteration has
shown, and what it began with less what its own process deleted, or, without the
lock, anybody. That nobody else deletes under the lock is shown, not built in.

**Lookaside** has the functions of `replay.c` as operators on the expiration
queue. A reply is its length; the hash table only indexes the queue.
`kdc_insert_lookaside` is the set of caches it may leave, since it fails
silently. **Dispatch** is one KDC process. `Hit` is `dispatch()` answering from
the cache, `Answer` a request it finishes itself, `StartAS` and `FinishAS` the
two ends of an asynchronous AS exchange with `finish_dispatch_cache()`. `runs`,
`forgotten` and `copyfailed` are history variables. `up` becomes false where
`make_too_big_error()` is called without a realm: the model stops there, and
nothing is claimed about it.

**Krad** runs in one thread. An action is one event: a verification that comes
in (`Verify`), the timer of a packet (`Timeout`), a writable or a readable
socket (`Write`, `Read`). The chain of callbacks that the event sets off is
computed by operators named for the functions: `request_finish` tells
`on_response` of client.c, which sends to the next address or completes and
calls `callback` of the OTP module, all before the functions further down have
finished. Answers may be lost, late or repeated and sockets may fail at any
time. `answers`, and in a packet `tries` and `revived`, are history variables.

**NetServer** runs in one thread as well, one action per callback
(`accept_tcp_connection`, `process_tcp_connection_read`, `process_tcp_response`,
`process_tcp_connection_write`, `accept_rpc_connection`,
`process_rpc_connection`, `loop_setup_network`). A descriptor
is reused, the lowest free one first, as the kernel does. `dispatched` are the
connections that were taken out of the loop while their request is processed.

**Sendto** is one call of `krb5_sendto_kdc()` from its start to its return: the
caller's thread (`ResolveServer`, `Start`, `Retransmit`, `NextConn`, `NextPass`,
`GiveUp` ...) and, inside `service_fds()`, what the sockets of all connections
do (`service_connect`, `service_write`, `Lost`, `ReplyFinal`,
`ReplyUnavailable`) while the clock runs (`Tick`).

**SeqState** is `g_seqstate_check()`. The bitmap is a set of positions. `seen`
is what was received in this cycle of the numbers, `overshot` whether the
bitmap was shifted by its width or more, which C leaves undefined and the model
leaves open.

## 3. Runs

Runs that pass:

| Run | Properties | States | Shows |
| --- | --- | --- | --- |
| `ulog_file` | `TypeOK` `Ring` `ReplyExact` `ImplementsUpdateLog` | 82 686 | replies are exact and the file implements the abstract log wherever processes die, the ring circles, the numbers end and blocks grow |
| `iprop` | `TypeOK` `ReplicaFollows` `DumpFollows` | 1 363 576 | replica and dumps are where the log says, through policy changes, two writers and the death of any process |
| `iprop_live` | `Converges` | 206 027 | the replica gets there, with one lost call and one death |
| `db2` | `TypeOK` `Exclusion` `NothingKept` `NeverUpgraded` `NoDeadlock` `PermanentSurvives` `OneGeneration` `IterationComplete` | 465 400 | locks, nesting, error paths, permanent locks, promotion and iteration of two processes that may die |
| `dispatch` | `TypeOK` `OneEntry` `ProcessedOnce` `Accounted` | 114 033 | copies of requests at every point of two exchanges, with failing allocations |
| `krad` | `TypeOK` `OneAnswer` `NothingLeft` `NeverStuck` `TriesBounded` `Answered` | 27 311 | with one token, each verification is answered exactly once, whatever servers and sockets do |
| `netserver` | `Counted` `Owned` `Bounded` | 812 150 | the count and the limit of connections through every way of closing one |
| `sendto` | `TypeOK` `Polled` `WorstCase` `Verdict` `TenSeconds` `EveryServerTried` `Returns` | 610 671 | the exchange keeps to its time, tries every address, and reports what was answered |
| `seqstate` | `Bitmap` `NoReplay` `NoFalseReplay` `InSequence` | 18 400 | every order of tokens, around the end of the window and of the numbers |

Each property is stated in words above its definition.

Runs in which the code does not do what it says (`findings` in `PROJECT.json`
has the quotations):

| Run | Property | Behaviour |
| --- | --- | --- |
| `iprop_overlap` | `NilMeansInSync` | kpropd acts on an answer about a position that a load replaced; the second load puts back an older dump under kpropd's feet |
| `dispatch_repeat` | `RepeatDropped` | a copy of a request in progress is sent an empty packet, not dropped |
| `otp_tokens` | `OneAnswer` | with two tokens, the rejection of the first makes the module answer the verification although it has just sent the second token's request |

Behaviours that a property excludes by name, since the code allows them:

* two writers put in one order and log in the other, and a later update clears
  the mark of a writer that died in the log (`lost` in Iprop);
* an iteration of db2 that releases the lock steps over an entry when the one
  before it, where the cursor is, is deleted, and a backward iteration ends early
  when all it has shown is deleted (`Complete`); a permanent lock whose file cannot
  be created again leaves its mode behind (`NothingKept`); processes that were
  running when a permanent lock was released keep the old policy lock file, so they
  do not exclude newcomers from policies (`afd`); a promotion that ends between its
  renames leaves databases of two dumps (`torn`);
* finishing one copy of a request can remove the mark of another copy, which then
  counts as an entry that was lost (`forgotten` in Dispatch);
* a packet that timed out for good can be given a timer again, and `retries`
  has wrapped then (`revived` in Krad);
* connections in dispatch are counted but cannot be dropped, so the limit can
  be exceeded by as many (`peak` in NetServer);
* a TCP connection that is established at once gets no end time
  (`established` in Sendto); an HTTPS connection gets none at all, so
  `TenSeconds` is about TCP connections; while some descriptor is ready at every
  poll, `service_fds()` goes on past the end time (`PollsEmpty`);
* a number 63 or more ahead shifts the bitmap by its width (`overshot`).

In `ulog_replay()` an update that does not follow the last one resets the log
without clearing the slots, so that a replica which serves other replicas could
still serve a position from before the gap. UlogFile leaves such updates out
(`Follows`) and claims nothing about them; Iprop has them.

### Bounds

* *Log*: a ring of two slots and serial numbers up to 3, so that the ring
  circles and the numbers end; block 2 with records of 1 and 3, so that a
  record fits or needs a resize. `UlogFileProofs` has the general
  case.
* *Propagation*: two principals (one in `iprop_live`) with one value (present or
  absent), two writers (one in `iprop_live`), one resync at a time, three
  serial numbers, a clock that allows for three changes, one of them of a
  policy. That is enough for a change before, during and after a dump, for the
  ring to lose a position, and for the numbers to start over. One death
  (`MaxDeath`) and one lost call (`MaxLoss`) at any point. A clock that goes to
  4 was tried once (10 362 644 states). `IpropProofs` has the general case.
* *db2*: two processes, the second of which iterates without the lock; three
  keys, so that an iteration has a middle and something on both sides of it; one
  permanent lock that is released (`MaxInode` = 2) and one promotion. The state
  constraint of `MCDb2` keeps to what is large in one respect at a time: all calls
  and their nesting over one principal, with a promotion or a new policy lock file,
  or an iteration over all three principals among puts and deletes of both
  processes. `Db2Proofs` has the general case, without it.
* *Dispatch*: an AS request, a TGS request and a packet of neither type; two
  exchanges in progress; room for two or three entries; `MaxRuns` bounds how often one
  packet is processed. `ServerProofs` has the general case. Symmetry over the
  dispatch states, as over principals and writers in `iprop`: they are
  interchangeable and no property names one.
* *Krad*: two verifications that share a UDP address or a UNIX domain socket, a
  server with two addresses, one retry, two identifiers, so that the
  identifiers run out. `MessageProofs` has the general case.
* *NetServer*: four descriptors for a limit of two: two connections in
  dispatch, one new and one more. `ServerProofs` has the general case.
* *Sendto*: four lists of servers that use every transport and strategy: both
  transports of one name, HTTPS before a datagram address, datagrams left out,
  and more addresses than the poll set has room for. The three passes are the
  code's. `SendtoProofs` has the general case.
* *SeqState*: a bitmap of three bits, numbers of two and three bits: a cycle
  that is hardly longer than the bitmap, and one of more than twice its width.
  `MessageProofs` has the general case.

Deadlock is checked in `netserver`, `sendto` and `seqstate`. In the other runs
bounds on clocks, deaths, runs and verifications make every behaviour stop; for
db2, `NoDeadlock` says what deadlock would mean there.

### Fairness

* `Fairness` in Iprop is weak fairness of each process that is in the middle of
  something (a writer before its log entry, a child, a load), of the polling
  loop, which waits for nothing but its timer and the RPC, and of the expiry of
  `iprop_resync_timeout`. There is none for changes of the database, deaths or
  lost calls. `Converges` also supposes that no resync overlaps, since
  `iprop_overlap` shows what happens then.
* `FairSpec` in Krad is weak fairness of writing to a socket that asks for it
  and of the timer of a request's packet at its current remote: the event loop
  runs timers that are due. The second is written out as the definition of weak
  fairness, with `Ticking` for what enables `CurrentTimeout`, since TLC evaluates
  that condition much faster than ENABLED of the action. The timer is enabled
  exactly if the packet is listed and its timer runs, which is what the guard of
  `Timeout` asks. There is none for answers: `Answered` holds if no server ever
  answers.
* `FairSpec` in Sendto is weak fairness of the caller's own steps, leaving a wait
  with no descriptor left among them, and of the clock. There is none for the
  network. `Returns` therefore has a premise (`PollsEmpty`): a wait that is over
  is not prolonged for ever by a descriptor that is ready at every poll, since
  `service_fds()` returns only when poll finds none. TLC finds the call held if
  the premise is left out.

### Assumptions of the models

* The clock of a host does not return one microsecond twice for two entries of
  a log, and the clocks of two hosts do not agree to the microsecond.
* `kdb_block` holds the block size (`RecordsFit`).
* A process that dies leaves files as its last write left them. The crash of a
  host, and so `msync()` and `fsync()`, is not modelled.
* Operations on a log are atomic. The one reset that runs under a shared lock
  (`ulog_get_entries()`) is a hazard listed without a property.
* In Iprop the principals of a dump are read in one step and both files of a
  database are promoted in one; Db2 has the two renames and the iteration.
* In Db2 the principal database is a B-tree, seen as a set of ordered keys
  without pages. The cursor of an iteration is the one of the handle, which is not
  reopened under it (`NeverUpgraded`). Unlocking a file does not fail.
  `check_openable()` opens and closes the database without a lock before a program
  begins; that handle is not the one of the properties. `ctx_iterate()` ignores
  the error of `curs_init()` and goes on with a null handle; the model ends the
  process there.
* In Krad no allocation fails, and a packet is known by its request: at most
  `MaxId` of a remote's packets are outstanding, with different identifiers.
* In Sendto time passes only in `poll()`, and not past the end of the wait: the
  time in which descriptors are served is not counted.
* In SeqState tokens have valid checksums; only their numbers are looked at.

## 4. Proofs

The provers check every step; nothing is assumed but the named ASSUMEs on the
constants (`UlogAssumption`, `RecordsFit`, `MaxTimeAssumption`,
`LookasideAssumption`, `DispatchAssumption`, `LockAssumption`,
`Db2Assumption`, `IpropAssumption`, `KradAssumption`, `NetAssumption`, `SendtoAssumption`,
`SeqStateAssumption`), which TLC evaluates in the runs. Each theorem holds for every value of the constants.

**The log file** (`UlogFileProofs`): `TypeCorrect`, `RingIsTail`,
`RepliesAreExact`. `ReplyExact` is not inductive: it says nothing of a log that
is half-written, and nothing of slots outside of the range of the header.
`Ring` is what the steps preserve. It ties every slot to `hist`: a slot holds
the entry of the last serial number that maps to it, except for the one slot
that a half-written log may already have overwritten; and a slot never holds
the number of an entry that was overwritten, which is what makes `check_sno()`
refuse it although the header still counts it. `IInv == TypeOK /\ Ring` is
inductive. Most of the proof is about one question: after `last_sno` moves to
the next number, which slot does each number of the ring map to? The lemmas on
`%` answer it. The action lemmas, one for each way in which the file changes
(reset, store, interrupted store, set_dummy), then give the step.

**The log file implements the abstract log** (also in `UlogFileProofs`):
`FileImplementsUpdateLog`. The initial file maps to an initial log and every
step to a step or a stutter. `Ring` says what the slots hold but not how far
back the header may reach; `Behind` does, and with it the first number that is
served never moves back while the log goes on.

**Incremental propagation** (`IpropLogProofs`: the log, the master, a replay and
the invariant; `IpropStepProofs`: the steps that do not ask the master;
`IpropProofs`: those that do, and the theorems): `TypeCorrect`, `DumpCanBeShared`,
`ReplicaTellsTheTruth`. The two properties compare whole databases, and only
while every change is logged; what the steps preserve is a statement about one
principal at a time, at any time. `Leaves(f, a, b, old, p, v)` says that the
updates a + 1 to b leave principal p with v if it had old before: the last of
them about p has v, or none is about p and v is old. It needs no recursion, and
the lemmas on it (an update more, a range that is joined, shifted or read from
other slots) take the place of reasoning about folds; that the recursive
definitions `Updated` and `Replayed` compute what it says is proved by least
counterexample. On it rest:

* `Told`: a database at a position that the master knows has the master's
  policies or a writer is about to start the log over; and for each principal
  the entries after the position leave it with what the master has, or a writer
  has still to log just that value. It is claimed of the dump file, of a dump
  that is being loaded, of a dump half written (with the master's database for
  what is not written yet), and of the replica.
* `Ring`: the serial numbers of the header are in their slots, but for the
  oldest while it is being overwritten, no slot is stamped later than the clock,
  and a log that is marked stable is in order. So a position that the master
  does not know is never known again (`Dead`): a serial number is used again
  only with a later time. This is what makes an answer, a position or a dump
  that is out of date harmless.
* `Forth`: every step of the master, deaths in the middle of a store or a reset
  included, keeps `Ring`, makes no dead position known, and keeps `Told` of
  every database and position at once. The actions of the replica and of the
  resync then need not look at the master at all, nor those of the master at
  them.
* `Serial`, as long as no resync overlaps: one resync at a time, during which
  the replica's own position is dead; kpropd polls with its log's position or
  with a dead one; and of the updates it was sent, the replica may put any
  number and say that it has put them all or all but the last (`Served`), which
  is where ulog_replay() can be interrupted.

`IInv` is their conjunction with the types. TLC checked an earlier form of it on
the instance of `iprop` before it was proved.

**The lookaside cache** (`ServerProofs`): `OneEntryEach`,
`ProcessedOnceEach`, `TotalAccounted`, `TypeCorrect`. The argument of the first
two counts: an entry is inserted only where the
lookup found none or could not copy what it found, so entries of a packet are
at most one more than failed copies; and each run of a request left an entry,
so runs are paid for by entries that are there, were lost, or could not be
copied (`Paid`). `IInv == Shape /\ OneEntry /\ Paid`. The lemmas on the queue
say what removal, purge and insertion do to the number of entries of a packet.
The third is about a sum. `SizeOf` adds up the entries by recursion over the
queue; the lemmas say what it is after an entry is appended, taken out or purged
from the front (`AppendSize`, `WithoutSize`, `PurgeSize`). Each compares two
functions of partial sums and looks at the least place where they would differ.
With them `Rest` (types, total, limit) is inductive next to `IInv`.

**The db2 back end** (`Db2Proofs`): `WritersExclude`, `NothingIsKept`, `LocksNotUpgraded`,
`PermanentLockSurvives`, `GenerationsAgree`, `LocksDoNotDeadlock`,
`IterationsComplete`, `TypeCorrect`. None is inductive, since none says what the counts
are in the middle of nested calls. `IInv` does: the counts of a process are
determined by its stack and by where its innermost call is, less the one an
unlocked iteration has given back (`Counts`); a call under another one needs no
stronger lock (`Nested`, `Strong`); handles follow locks (`Regs`), and a mode that
a failed release left behind goes with no file. Exclusion
then is the kernel's (`Apart`). There is no deadlock because a process that
holds the policy lock waits for nothing, so whoever waits for it waits for a
process that runs; and a holder of the principal lock can only wait for the
policy lock. Iterations have an invariant of their own
(`CInv`): what is due and was not shown yet lies ahead of the cursor, or follows on
an entry that was deleted where the cursor is (`Skipped`, without the lock only);
and what is due is in the database: whoever takes a principal away, by a delete or
a promotion, has the database to itself, so that no locked iteration of another
process is under way. So have the types: a policy lock file is created only below
the bound and where there is none (`Files`), and one process at a time promotes,
and begins only below the bound (`Generations`).

**The RADIUS client and the OTP module** (`MessageProofs`): `TypeCorrect`,
`NoPacketIsLeft`, `RequestsAreNeverStuck`, `TriesAreBounded`,
`OneTokenOneAnswer`. An event is a chain of operators on a record of all the
state, in which a callback runs before the function that called it has finished.
The invariant is therefore a predicate on such records (`Good`), and each
operator has a lemma that says what it leaves of it: `GoodBut` and `Half` hold
where one request is between two states. Of each request `Good` says that it is
either open, listed by the remote it was last sent to and by no remote it was
not sent to, with a timer or a connection that asks to write (`Running`), or
listed nowhere (`Absent`). The bound on transmissions pays for each one: what
was transmitted and what is still due (`Due`: the retries, and a transmission
that is waited for) never exceed the retries and one (`Frugal`). A wrapped
counter of retries has no timer unless the packet was revived. `OneAnswer` is
proved for one token, in addition to `Good`, with `Single`: a verification with
an open request has no answer. For two tokens it is false (`otp_tokens`).

**The network loop** (`ServerProofs`): `ConnectionsCounted`,
`ConnectionsOwned`, `ConnectionsBounded`. They are inductive together with
`EventsOpen` (an event is for an open descriptor) and `PeakSeen` (`peak` is at
least what is in dispatch now): the count is the cardinality of a set that
every callback changes by at most one element, and when the limit is passed
either there is a candidate to drop or all others are in dispatch.

**The client's exchange** (`SendtoProofs`): `TypeCorrect`, `PollsetExact`,
`RightVerdict`, `StreamsHaveTheirTime`, `NoServerLeftOut`, `TimeBounded`. The
invariant says what the state of a connection implies for its descriptor, its
place in the poll set and its end time (`Fine`), and that it was tried exactly
as often as the loops came to it (`Due`, `Turns`), which follows from pass,
phase and position; the one exception is a loop that ended because no descriptor
was left (`Over`). The bound on the time needs an account next to it (`Timely`):
the clock and all end times stay within what has been granted so far
(`Allowed`), one second for each pair of a connection and a turn, ten for each
TCP connection established later, and the pauses so far. Counting the pairs
gives the bound of the comment. `2^n` is written as a recursive function
(`Power2`), which the provers can unfold.

**Sequence numbers** (`MessageProofs`): `BitmapCorrect`, `ReplaysReported`,
`DuplicatesWereSeen`, `SequenceReported`. `SeqTypeOK /\ Bitmap` is inductive; the
three action properties follow from it, one case for each of the three places a
number can be in (ahead, in the window, before it).

Every invariant, action property and refinement that a passing run checks is
proved. What holds under fairness (`Converges`, `Answered`, `Returns`) is out of
the prover's reach and is model-checked only.

## 5. Not modelled

`PROJECT.json` has the complete list with a reason for each part. The groups:

* *Encodings, cryptography, profile and portability libraries, command line
  programs, platform code, back ends that translate to other databases*: these
  are most of the lines of the code base. They are sequential functions of
  data that is too large for an explicit-state checker at sizes where it would
  find anything; tests with vectors and fuzzing reach them better. The share of
  the whole code base that is modelled is therefore small, about one percent;
  the aim is the code in which order and failure matter.
* *Parts of modelled components*: the transfer of a dump (kprop, `doit()` and
  its alarm, which ends the receiver but not the load it started), creating and
  destroying a database, merging of non-replicated attributes, UDP and
  listening sockets, locating of servers, TLS handshakes.
* *Candidates that would fit the method*: the lockout counters across KDC
  workers, the supervision of workers, the preauthentication loop, referral
  loops of `get_creds.c`, FILE credential caches and keytabs under concurrent
  processes, reference counts of the profile library, master key rollover.
* *Hazards without a property*: that alarm (two loads could then run at once),
  the reset of a log under a shared lock in `ulog_get_entries()`, and the gap in
  `ulog_replay()` that section 3 describes.
