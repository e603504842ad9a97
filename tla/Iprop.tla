------------------------------- MODULE Iprop -------------------------------
(***************************************************************************)
(* Incremental propagation from a master KDC to one replica.               *)
(*                                                                         *)
(* Processes that change the database (Writers) put an entry, and then log *)
(* it, with no lock held across the two.  The replica's kpropd polls the   *)
(* master's kadmind with the position its own update log is at, and        *)
(* replays what it is sent.  When kadmind does not know that position,     *)
(* kpropd asks for a full resync: kadmind forks a child (Jobs) that dumps  *)
(* the database, or takes the dump that an earlier one left, and has kprop *)
(* send it; on the replica a kdb5_util process loads it, beside the kpropd *)
(* that goes on polling.  Any of these processes may die between two steps.*)
(*                                                                         *)
(* Every record fits in a block here, so the slots of a log stay in place: *)
(* UlogFile has the logs whose blocks grow.                                *)
(***************************************************************************)
EXTENDS Ulog, FiniteSets, Sequences

CONSTANTS
  Princ,         \* names of principals
  Val,           \* database entries
  Absent,        \* no entry under that name
  StartSno,      \* numbers that the master's log may start with
  Writers,       \* processes of the master that change the database
  Jobs,          \* resyncs that the master can be working on
  MaxTime,       \* how far the master's clock runs on behalf of Writers
  MaxPol,        \* policy changes
  MaxLoss,       \* RPC calls that fail
  MaxDeath,      \* processes that die, or give up on an error
  WriterDeath    \* where Writers are among those: "unlogged", "logging"

ASSUME IpropAssumption ==
  /\ Absent \notin Val
  /\ Update = [princ : Princ, val : Val \cup {Absent}]
  /\ \A r \in RecSize : r <= ULOG_BLOCK
  /\ StartSno \subseteq Sno \ {0}
  /\ MaxTime \in Nat /\ MaxPol \in Nat /\ MaxLoss \in Nat /\ MaxDeath \in Nat
  /\ WriterDeath \subseteq {"unlogged", "logging"}

VARIABLES
  mdb, mpol,     \* the master's principals and version of its policies
  mulog,         \* its update log
  now,           \* its clock
  writer,        \* where each of Writers is
  dumpfile,      \* the dump that all resyncs share
  job,           \* where each of Jobs is
  load,          \* the load of a dump on the replica
  rdb, rpol,     \* the replica's principals and policies
  rulog,         \* its update log
  kpropd,        \* where its polling process is
  frrequested,   \* whether that has a full resync outstanding
  losses, deaths,
  lost,          \* history: a change is in mdb or mpol that mulog will not tell of
  overlap        \* history: a resync was asked for that was not needed any more

master  == <<mdb, mpol, mulog, now, writer, lost>>
resync  == <<dumpfile, job, overlap>>
replica == <<rdb, rpol, rulog>>
poller  == <<kpropd, frrequested>>
bounds  == <<losses, deaths>>
vars    == <<master, resync, load, replica, poller, bounds>>

Database == [Princ -> Val \cup {Absent}]
Position == [sno : Sno, time : Nat]
Dump     == [last : Position, db : Database, pol : 0 .. MaxPol]
NoDump   == [last |-> [sno |-> 0, time |-> 0], db |-> [p \in Princ |-> Absent],
             pol |-> 0]

\* The time that the replica stamps its own resets with.  The clocks of two
\* hosts do not return the same microsecond: no entry of the master has it.
ReplicaTime == 0

\* reset_ulog() of a log whose blocks have the default size.
Fresh(u, time) == SetDummy(ZeroHeader(ULOG_BLOCK, "STABLE", u.ent), 1, time)

\* ulog_map(), which every process on the replica starts with.
MapReplicaLog(u) == IF Unusable(u) THEN Fresh(u, ReplicaTime) ELSE u

Put(db, upd) == [db EXCEPT ![upd.princ] = upd.val]

\* Where one of Writers is: between two changes, or with one that is not logged.
Idle       == [pc |-> "idle"]
AtPolicy   == [pc |-> "policy"]
AtLog(upd) == [pc |-> "log", upd |-> upd]

NoReply == [ret |-> "NIL", updates |-> <<>>]

\* Where a process that is between two calls is, with nothing in its variables.
AtPoll      == [pc |-> "poll", mylast |-> NoDump.last, reply |-> NoReply]
NoLoad      == [pc |-> "idle", dump |-> NoDump]
JobAt(pc)   == [pc |-> pc, last |-> NoDump.last, db |-> NoDump.db]

\* Every variable has its type, serial numbers that wrap among them.
TypeOK ==
  /\ mdb \in Database /\ mpol \in 0 .. MaxPol /\ mulog \in Contents /\ now \in Nat
  /\ writer \in [Writers -> {Idle, AtPolicy} \cup {AtLog(upd) : upd \in Update}]
  /\ dumpfile \in Dump
  /\ job \in [Jobs -> [pc : {"idle", "check", "dump", "princs", "pols", "send"},
                      last : Position, db : Database]]
  /\ load \in [pc : {"idle", "init", "promote", "reinit", "setlast"}, dump : Dump]
  /\ rdb \in Database /\ rpol \in 0 .. MaxPol /\ rulog \in Contents
  /\ kpropd \in [pc : {"poll", "call", "reply"}, mylast : Position,
                 reply : [ret : {"NIL", "OK", "FULL_RESYNC"}, updates : Seq(Entry)]]
  /\ frrequested \in BOOLEAN
  /\ losses \in 0 .. MaxLoss /\ deaths \in 0 .. MaxDeath
  /\ lost \in BOOLEAN /\ overlap \in BOOLEAN

NewLog(time) == Fresh(EmptyFile, time)

\* The master's log is new, or was set to the position of the dump that its
\* database was loaded from.
Init ==
  /\ mdb \in [Princ -> Val] /\ mpol = 0 /\ now = 1
  /\ \E sno \in StartSno : mulog = SetDummy(NewLog(1), sno, 1)
  /\ writer = [w \in Writers |-> Idle]
  /\ dumpfile = NoDump
  /\ job = [j \in Jobs |-> JobAt("idle")]
  /\ load = NoLoad
  /\ rdb = [p \in Princ |-> Absent] /\ rpol = 0 /\ rulog = NewLog(ReplicaTime)
  /\ kpropd = AtPoll
  /\ frrequested = FALSE
  /\ losses = 0 /\ deaths = 0 /\ lost = FALSE /\ overlap = FALSE

Dies == deaths < MaxDeath /\ deaths' = deaths + 1 /\ UNCHANGED losses

-----------------------------------------------------------------------------
(* Processes of the master that change the database.                       *)

WriterStays == UNCHANGED <<resync, load, replica, poller>>
Pending     == {w \in Writers : writer[w].pc # "idle"}
Goto(w, pc) == writer' = [writer EXCEPT ![w] = pc]

\* krb5_db_put_principal() and krb5_db_delete_principal(), up to the log.  Puts
\* that leave the database as it is are left out, to bound the model.
PutPrincipal(w, upd) ==
  /\ writer[w].pc = "idle" /\ now + Cardinality(Pending) < MaxTime
  /\ mdb[upd.princ] # upd.val
  /\ mdb' = Put(mdb, upd)
  /\ Goto(w, AtLog(upd))
  /\ UNCHANGED <<mpol, mulog, now, lost, bounds>> /\ WriterStays

\* Mutant: the log is not started over when the serial numbers are used up.
LogPastEnd(w) ==
  /\ writer[w].pc = "log"
  /\ mulog' = StoreUpdate(mulog, NewEntry(mulog, now + 1, writer[w].upd))
  /\ lost' = (lost \/ mulog.state = "UNSTABLE")
  /\ now' = now + 1
  /\ Goto(w, Idle)
  /\ UNCHANGED <<mdb, mpol, bounds>> /\ WriterStays

\* The entry of w will be the last about its principal, which has been changed
\* by another process that has logged it already.
Overtaken(w) ==
  LET upd == writer[w].upd
  IN /\ mdb[upd.princ] # upd.val
     /\ \A x \in Pending \ {w} :
          writer[x].pc = "log" => writer[x].upd # [upd EXCEPT !.val = mdb[upd.princ]]

\* Storing an entry leaves the log stable, so that nothing tells any more that
\* an earlier process died before it had counted its own.
LogUpdate(w) ==
  /\ writer[w].pc = "log"
  /\ LET u == IF mulog.last_sno = MaxSno THEN Fresh(mulog, now + 1) ELSE mulog
     IN /\ mulog' = StoreUpdate(u, NewEntry(u, now + 1, writer[w].upd))
        /\ lost' = \/ Overtaken(w)
                   \/ u = mulog /\ (lost \/ mulog.state = "UNSTABLE")
  /\ now' = now + 1
  /\ Goto(w, Idle)
  /\ UNCHANGED <<mdb, mpol, bounds>> /\ WriterStays

\* krb5_db_create_policy(), krb5_db_put_policy(), krb5_db_delete_policy().
PutPolicy(w) ==
  /\ writer[w].pc = "idle" /\ now + Cardinality(Pending) < MaxTime /\ mpol < MaxPol
  /\ mpol' = mpol + 1
  /\ Goto(w, AtPolicy)
  /\ UNCHANGED <<mdb, mulog, now, lost, bounds>> /\ WriterStays

ResetForPolicy(w) ==
  /\ writer[w].pc = "policy"
  /\ mulog' = Fresh(mulog, now + 1) /\ now' = now + 1 /\ lost' = FALSE
  /\ Goto(w, Idle)
  /\ UNCHANGED <<mdb, mpol, bounds>> /\ WriterStays

\* A process dies before the log shows anything of its change.
DieUnlogged(w) ==
  /\ "unlogged" \in WriterDeath /\ Dies /\ writer[w].pc # "idle"
  /\ lost' = TRUE
  /\ Goto(w, Idle)
  /\ UNCHANGED <<mdb, mpol, mulog, now>> /\ WriterStays

\* A process dies within store_update() or reset_ulog(), and the log shows it.
DieLogging(w) ==
  /\ "logging" \in WriterDeath /\ Dies
  /\ \/ /\ writer[w].pc = "log" /\ mulog.last_sno < MaxSno
        /\ mulog' \in StoreInterrupted(mulog, NewEntry(mulog, now + 1, writer[w].upd))
        /\ lost' = (lost \/ mulog.state = "UNSTABLE" \/ mulog' = mulog)
     \/ /\ writer[w].pc = "policy"
        /\ mulog' \in ResetInterrupted(mulog, now + 1)
        /\ lost' = FALSE
  /\ HalfWritten(mulog')
  /\ now' = now + 1
  /\ Goto(w, Idle)
  /\ UNCHANGED <<mdb, mpol>> /\ WriterStays

-----------------------------------------------------------------------------
(* The children that kadmind forks in ipropx_resync(): kdb5_util dump -i -c, *)
(* then kprop.                                                               *)

JobStep(j, from) == job[j].pc = from /\ UNCHANGED <<master, overlap, rdb, rpol, poller, bounds>>

\* current_dump_sno_in_ulog(): an older dump will do if the log goes on from it.
CheckDump(j) ==
  /\ JobStep(j, "check")
  /\ job' = [job EXCEPT ![j].pc =
       IF dumpfile # NoDump /\ GetSnoStatus(mulog, dumpfile.last) \in {"OK", "NIL"}
       THEN "send" ELSE "dump"]
  /\ UNCHANGED <<dumpfile, load, rulog>>

\* prep_ok_file() lets one process dump at a time.
DumpHeader(j) ==
  /\ JobStep(j, "dump")
  /\ \A k \in Jobs : job[k].pc \notin {"princs", "pols"}
  /\ job' = [job EXCEPT ![j].pc = "princs", ![j].last = LastPos(mulog)]
  /\ UNCHANGED <<dumpfile, load, rulog>>

DumpPrincipals(j) ==
  /\ JobStep(j, "princs")
  /\ job' = [job EXCEPT ![j].pc = "pols", ![j].db = mdb]
  /\ UNCHANGED <<dumpfile, load, rulog>>

\* Mutant: the position is read once the principals are written.
DumpPoliciesLate(j) ==
  /\ JobStep(j, "pols")
  /\ dumpfile' = [last |-> LastPos(mulog), db |-> job[j].db, pol |-> mpol]
  /\ job' = [job EXCEPT ![j] = JobAt("send")]
  /\ UNCHANGED <<load, rulog>>

\* The policies, and the rename to the shared name.
DumpPolicies(j) ==
  /\ JobStep(j, "pols")
  /\ dumpfile' = [last |-> job[j].last, db |-> job[j].db, pol |-> mpol]
  /\ job' = [job EXCEPT ![j] = JobAt("send")]
  /\ UNCHANGED <<load, rulog>>

\* kprop sends what the shared name holds by then.  do_standalone() of the
\* replica's kpropd takes one connection at a time, and runs kdb5_util.
Send(j) ==
  /\ JobStep(j, "send")
  /\ load.pc = "idle"
  /\ load' = [pc |-> "init", dump |-> dumpfile]
  /\ job' = [job EXCEPT ![j] = JobAt("idle")]
  /\ rulog' = MapReplicaLog(rulog)
  /\ UNCHANGED dumpfile

JobDies(j) ==
  /\ Dies /\ job[j].pc # "idle"
  /\ job' = [job EXCEPT ![j] = JobAt("idle")]
  /\ UNCHANGED <<master, dumpfile, overlap, load, replica, poller>>

-----------------------------------------------------------------------------
(* kdb5_util load -i on the replica: load_db(), once the dump is restored    *)
(* into a temporary database.                                                *)

LoadStep(from, to) ==
  /\ load.pc = from
  /\ load' = IF to = "idle" THEN NoLoad ELSE [load EXCEPT !.pc = to]
  /\ UNCHANGED <<master, resync, poller, bounds>>

ResetReplicaLog == rulog' = Fresh(rulog, ReplicaTime) /\ UNCHANGED <<rdb, rpol>>

LoadInit == LoadStep("init", "promote") /\ ResetReplicaLog

LoadPromote ==
  /\ LoadStep("promote", "reinit")
  /\ rdb' = load.dump.db /\ rpol' = load.dump.pol
  /\ UNCHANGED rulog

LoadReinit == LoadStep("reinit", "setlast") /\ ResetReplicaLog

LoadSetLast ==
  /\ LoadStep("setlast", "idle")
  /\ rulog' = SetDummy(rulog, load.dump.last.sno, load.dump.last.time)
  /\ UNCHANGED <<rdb, rpol>>

LoadDies ==
  /\ Dies /\ load.pc # "idle"
  /\ load' = NoLoad
  /\ UNCHANGED <<master, resync, replica, poller>>

-----------------------------------------------------------------------------
(* do_iprop(), and iprop_get_updates_1_svc() that answers it.                *)

GetLast ==
  /\ kpropd.pc = "poll"
  /\ kpropd' = [pc |-> "call", mylast |-> LastPos(rulog), reply |-> NoReply]
  /\ UNCHANGED <<master, resync, load, replica, frrequested, bounds>>

\* ulog_get_entries(), which starts over a log that was left half-written.
GetUpdates ==
  /\ kpropd.pc = "call"
  /\ LET t   == IF HalfWritten(mulog) THEN now + 1 ELSE now
         u   == IF HalfWritten(mulog) THEN Fresh(mulog, t) ELSE mulog
         ret == GetSnoStatus(u, kpropd.mylast)
     IN /\ mulog' = u /\ now' = t
        /\ lost' = (lost /\ ~HalfWritten(mulog))
        /\ kpropd' = [kpropd EXCEPT !.pc = "reply", !.reply =
             [ret |-> ret,
              updates |-> IF ret = "OK" THEN Updates(u, kpropd.mylast.sno) ELSE <<>>]]
  /\ UNCHANGED <<mdb, mpol, writer, resync, load, replica, frrequested, bounds>>

\* A call fails before or after kadmind has served it; do_iprop() starts over.
CallFails ==
  /\ losses < MaxLoss /\ losses' = losses + 1
  /\ kpropd.pc \in {"call", "reply"} /\ kpropd' = AtPoll
  /\ UNCHANGED <<master, resync, load, replica, frrequested, deaths>>

Replied(ret) ==
  kpropd.pc = "reply" /\ kpropd.reply.ret = ret /\ kpropd' = AtPoll
  /\ UNCHANGED <<master, load, dumpfile>>

StillWaiting ==
  /\ Replied("FULL_RESYNC") /\ frrequested
  /\ UNCHANGED <<job, overlap, replica, frrequested, bounds>>

\* full_resync(): kadmind forks a child.  The answer that makes kpropd ask may
\* be about a position that a load has replaced since; or an earlier resync may
\* be under way still, if it outlasts iprop_resync_timeout or this kpropd is
\* not the one that asked for it.
FullResync(j) ==
  /\ Replied("FULL_RESYNC") /\ ~frrequested
  /\ frrequested' = TRUE
  /\ job[j].pc = "idle" /\ job' = [job EXCEPT ![j] = JobAt("check")]
  /\ overlap' = \/ overlap \/ kpropd.mylast # LastPos(rulog)
                \/ load.pc # "idle" \/ \E k \in Jobs : job[k].pc # "idle"
  /\ UNCHANGED <<replica, bounds>>

\* The same when the call never reaches kadmind.
FullResyncFails ==
  /\ Replied("FULL_RESYNC") /\ ~frrequested
  /\ losses < MaxLoss /\ losses' = losses + 1
  /\ frrequested' = TRUE
  /\ UNCHANGED <<job, overlap, replica, deaths>>

InSync ==
  /\ Replied("NIL")
  /\ frrequested' = FALSE
  /\ UNCHANGED <<job, overlap, replica, bounds>>

\* An update that does not follow the last one has ulog_replay() start over.
BeforeStore(u, e) ==
  IF u.num # 0 /\ e.sno # u.last_sno + 1 THEN Fresh(u, ReplicaTime) ELSE u

ReplayOne(r, e) ==
  [db |-> Put(r.db, e.upd), ulog |-> StoreUpdate(BeforeStore(r.ulog, e), e)]

\* The loop of ulog_replay(), after the first n of updates.
Replayed(updates, n) ==
  LET r[k \in 0 .. Len(updates)] ==
        IF k = 0 THEN [db |-> rdb, ulog |-> rulog] ELSE ReplayOne(r[k - 1], updates[k])
  IN r[n]

Committed(updates, n) == \A k \in 1 .. n : updates[k].commit

\* It does not get past an uncommitted update.
Replay ==
  /\ Replied("OK")
  /\ frrequested' = FALSE
  /\ LET updates == kpropd.reply.updates
     IN \E n \in 0 .. Len(updates) :
          /\ Committed(updates, n) /\ (n < Len(updates) => ~updates[n + 1].commit)
          /\ rdb' = Replayed(updates, n).db /\ rulog' = Replayed(updates, n).ulog
  /\ UNCHANGED <<rpol, job, overlap, bounds>>

\* The put of the k-th update fails, or else its store: ulog_replay() starts
\* the log over and returns.
ReplayFails ==
  /\ Replied("OK") /\ Dies
  /\ frrequested' = FALSE
  /\ LET updates == kpropd.reply.updates
     IN \E k \in 1 .. Len(updates) :
          LET e == updates[k]
              r == Replayed(updates, k - 1)
              u == Writing(BeforeStore(r.ulog, e), e, [e EXCEPT !.commit = FALSE])
          IN /\ Committed(updates, k)
             /\ \/ rdb' = r.db /\ rulog' = Fresh(r.ulog, ReplicaTime)
                \/ rdb' = Put(r.db, e.upd) /\ rulog' = Fresh(u, ReplicaTime)
  /\ UNCHANGED <<rpol, job, overlap>>

\* kpropd dies, and its next incarnation has no resync outstanding.
Restart == kpropd' = AtPoll /\ frrequested' = FALSE

KpropdDies ==
  /\ Dies /\ Restart
  /\ rulog' = MapReplicaLog(rulog)
  /\ UNCHANGED <<master, resync, load, rdb, rpol>>

\* Mutant: an update is stored in the log before it is put.
StoredBeforePut ==
  /\ Dies /\ Restart
  /\ kpropd.pc = "reply" /\ kpropd.reply.ret = "OK"
  /\ LET updates == kpropd.reply.updates
     IN \E k \in 1 .. Len(updates) :
          /\ Committed(updates, k)
          /\ rdb' = Replayed(updates, k - 1).db /\ rulog' = Replayed(updates, k).ulog
  /\ UNCHANGED <<master, resync, load, rpol>>

\* It dies in ulog_replay(), with the k-th update put and perhaps not stored.
ReplayDies ==
  /\ Dies /\ Restart
  /\ kpropd.pc = "reply" /\ kpropd.reply.ret = "OK"
  /\ LET updates == kpropd.reply.updates
     IN \E k \in 1 .. Len(updates) :
          LET before == BeforeStore(Replayed(updates, k - 1).ulog, updates[k])
              after  == Replayed(updates, k)
          IN /\ Committed(updates, k)
             /\ rdb' = after.db
             /\ \E u \in StoreInterrupted(before, updates[k]) \cup {after.ulog} :
                  rulog' = MapReplicaLog(u)
  /\ UNCHANGED <<master, resync, load, rpol>>

\* Mutant: the time of the request is not looked at.
NoResyncTimeout == FALSE /\ UNCHANGED vars

\* iprop_resync_timeout passes.
ResyncTimeout ==
  /\ frrequested /\ frrequested' = FALSE
  /\ UNCHANGED <<master, resync, load, replica, kpropd, bounds>>

-----------------------------------------------------------------------------
Write == \E w \in Writers :
  \/ \E upd \in Update : PutPrincipal(w, upd)
  \/ LogUpdate(w) \/ PutPolicy(w) \/ ResetForPolicy(w)
  \/ DieUnlogged(w) \/ DieLogging(w)

Resync == \E j \in Jobs :
  \/ CheckDump(j) \/ DumpHeader(j) \/ DumpPrincipals(j) \/ DumpPolicies(j)
  \/ Send(j) \/ JobDies(j)

Load == LoadInit \/ LoadPromote \/ LoadReinit \/ LoadSetLast \/ LoadDies

Poll ==
  \/ GetLast \/ GetUpdates \/ CallFails
  \/ StillWaiting \/ (\E j \in Jobs : FullResync(j)) \/ FullResyncFails
  \/ InSync \/ Replay \/ ReplayFails
  \/ KpropdDies \/ ReplayDies \/ ResyncTimeout

Next == Write \/ Resync \/ Load \/ Poll

Spec == Init /\ [][Next]_vars

\* Processes that are in the middle of something go on with it; the resync
\* timer runs out; kpropd polls for ever.  Nothing makes anyone change the
\* database, and nothing makes processes die or calls fail.
Fairness ==
  /\ \A w \in Writers : WF_vars(LogUpdate(w) \/ ResetForPolicy(w))
  /\ \A j \in Jobs : WF_vars(CheckDump(j) \/ DumpHeader(j) \/ DumpPrincipals(j)
                             \/ DumpPolicies(j) \/ Send(j))
  /\ WF_vars(LoadInit \/ LoadPromote \/ LoadReinit \/ LoadSetLast)
  /\ WF_vars(GetLast \/ GetUpdates \/ StillWaiting \/ InSync \/ Replay
             \/ \E j \in Jobs : FullResync(j))
  /\ WF_vars(ResyncTimeout)

FairSpec == Spec /\ Fairness

-----------------------------------------------------------------------------
\* No change to the database is on its way to the log, or was lost on it.
AllLogged == Pending = {} /\ ~lost /\ ~HalfWritten(mulog)

\* The database once the updates are put, one after the other.
Updated(db, updates) ==
  LET puts[n \in 0 .. Len(updates)] ==
        IF n = 0 THEN db ELSE Put(puts[n - 1], updates[n].upd)
  IN puts[Len(updates)]

\* A database at position pos, once it has been sent what the master would
\* send it, is the master's.
Follows(db, pol, pos) ==
  GetSnoStatus(mulog, pos) \in {"OK", "NIL"} =>
    /\ pol = mpol
    /\ Updated(db, Updates(mulog, pos.sno)) = mdb

(***************************************************************************)
(* A position that the master answers with updates, or with UPDATE_NIL, is *)
(* never a lie: the replica's database and those updates make the master's *)
(* database, policies included, as long as resyncs do not overlap.  It     *)
(* holds whichever process of the replica or of the resync dies, in        *)
(* load_db() and ulog_replay() too.                                        *)
(***************************************************************************)
ReplicaFollows == AllLogged /\ ~overlap => Follows(rdb, rpol, LastPos(rulog))

(***************************************************************************)
(* "It's OK to share an older dump, as long as its sno and timestamp are   *)
(* in the ulog": a dump that kdb5_util dump -c takes for good enough makes,*)
(* with the updates after it, the master's database, although the database *)
(* was being changed while it was dumped.                                  *)
(***************************************************************************)
DumpFollows ==
  AllLogged /\ dumpfile # NoDump =>
    Follows(dumpfile.db, dumpfile.pol, dumpfile.last)

(***************************************************************************)
(* When kadmind answers UPDATE_NIL, which do_iprop() takes to mean that    *)
(* "Master-slave are in sync", the two databases are the same, unless a    *)
(* change is still on its way to the log or a resync is under way.         *)
(***************************************************************************)
NilMeansInSync ==
  /\ Pending = {} /\ load.pc = "idle" /\ \A j \in Jobs : job[j].pc = "idle"
  /\ kpropd.pc = "call" /\ kpropd.mylast = LastPos(rulog)
  /\ ~HalfWritten(mulog) /\ GetSnoStatus(mulog, kpropd.mylast) = "NIL"
  => rdb = mdb /\ rpol = mpol

(***************************************************************************)
(* Once nobody changes the master's database any more, and no more calls   *)
(* fail and processes die than the bounds allow, the replica comes to hold *)
(* the same database and stays so: no resync is forgotten, in whatever     *)
(* step of it a process died.                                              *)
(***************************************************************************)
Converges == []~overlap => <>[](rdb = mdb /\ rpol = mpol)
=============================================================================
