-------------------------- MODULE IpropStepProofs ---------------------------
(***************************************************************************)
(* The second of three modules of proofs about incremental propagation:    *)
(* the steps of the processes that write the database, of the resyncs and  *)
(* of load_db(), and those of do_iprop() that do not ask the master, keep  *)
(* the invariant.                                                          *)
(***************************************************************************)
EXTENDS IpropLogProofs, TLAPS

(* The leaves are for Zenon, unless they name another prover or say ONLY. *)
USE Zenon

-----------------------------------------------------------------------------
(* The steps of Writers.                                                      *)

(* The record of the variables of the master.                                *)
LEMMA MasterIs ==
  /\ Master.db = mdb /\ Master.pol = mpol /\ Master.ulog = mulog
  /\ Master.now = now /\ Master.writer = writer /\ Master.lost = lost
  /\ Master'.db = mdb' /\ Master'.pol = mpol' /\ Master'.ulog = mulog'
  /\ Master'.now = now' /\ Master'.writer = writer' /\ Master'.lost = lost'
  BY SMT DEF Master

(* The record of the variables of the master has its type.                   *)
LEMMA MasterTyped ==
  ASSUME mdb' \in Database, mpol' \in 0 .. MaxPol, mulog' \in Contents, now' \in Nat,
         writer' \in [Writers -> Places], lost' \in BOOLEAN
  PROVE  Master' \in MasterState
  <1>1. Master' = [db |-> mdb', pol |-> mpol', ulog |-> mulog', now |-> now',
                   writer |-> writer', lost |-> lost']
    BY DEF Master
  <1> QED
    BY <1>1 DEF MasterState

(* What the invariant says of the master. *)
LEMMA MasterVars ==
  ASSUME Master \in MasterState
  PROVE  /\ mdb \in Database /\ mpol \in 0 .. MaxPol /\ mulog \in Contents
         /\ now \in Nat /\ writer \in [Writers -> Places] /\ lost \in BOOLEAN
  BY MasterTypes, MasterIs

(* A death is counted.                                                       *)
LEMMA DiesBounds ==
  ASSUME losses \in 0 .. MaxLoss, deaths \in 0 .. MaxDeath, Dies
  PROVE  losses' \in 0 .. MaxLoss /\ deaths' \in 0 .. MaxDeath
  <1>1. deaths < MaxDeath /\ deaths' = deaths + 1 /\ losses' = losses /\ MaxDeath \in Nat
    BY IpropAssumption DEF Dies, IpropAssumption
  <1> QED
    BY <1>1, SMT

(* A step of the master alone. *)
LEMMA MasterStep ==
  ASSUME IInv, Master' \in MasterState, Forth(Master, Master'),
         UNCHANGED <<resync, load, replica, poller>>,
         losses' \in 0 .. MaxLoss, deaths' \in 0 .. MaxDeath
  PROVE  IInv'
  <1>1. /\ dumpfile' = dumpfile /\ job' = job /\ overlap' = overlap /\ load' = load
        /\ rdb' = rdb /\ rpol' = rpol /\ rulog' = rulog
        /\ kpropd' = kpropd /\ frrequested' = frrequested
    BY DEF resync, replica, poller
  <1>2. /\ Master \in MasterState
        /\ dumpfile \in Dump /\ job \in [Jobs -> JobState] /\ load \in LoadState
        /\ rdb \in Database /\ rpol \in 0 .. MaxPol
        /\ rulog \in Contents /\ rulog.num # 0
        /\ kpropd \in PollState /\ AllUpdates(kpropd.reply.updates)
        /\ frrequested \in BOOLEAN /\ overlap \in BOOLEAN
        /\ Dumped(Master, dumpfile, job, load)
        /\ ~overlap => Serial(Master, job, load, rdb, rpol, rulog, kpropd)
    BY DEF IInv
  <1>3. Ring(mulog', now')
    BY MasterIs DEF Forth
  <1>4. Dumped(Master', dumpfile, job, load)
    BY <1>2, DumpedForth
  <1>5. ~overlap => Serial(Master', job, load, rdb, rpol, rulog, kpropd)
    BY <1>2, SerialForth
  <1> QED
    BY <1>1, <1>2, <1>3, <1>4, <1>5 DEF IInv

(* A process stored a principal, and has not logged it.                      *)
LEMMA PutPrincipalStep ==
  ASSUME IInv, NEW w \in Writers, NEW upd \in Update, PutPrincipal(w, upd)
  PROVE  IInv'
  <1>1. /\ Master \in MasterState /\ Ring(mulog, now)
        /\ losses \in 0 .. MaxLoss /\ deaths \in 0 .. MaxDeath
    BY DEF IInv
  <1>2. /\ writer[w].pc = "idle" /\ mdb' = Put(mdb, upd)
        /\ writer' = [writer EXCEPT ![w] = AtLog(upd)] /\ mpol' = mpol
        /\ mulog' = mulog /\ now' = now /\ lost' = lost
        /\ losses' = losses /\ deaths' = deaths
        /\ UNCHANGED <<resync, load, replica, poller>>
    BY DEF PutPrincipal, Goto, WriterStays, bounds
  <1>3. /\ mdb \in Database /\ mpol \in 0 .. MaxPol /\ mulog \in Contents
        /\ now \in Nat /\ writer \in [Writers -> Places] /\ lost \in BOOLEAN
    BY <1>1, MasterVars
  <1>4. writer[w] = Idle
    BY <1>2, <1>3, PlaceOf
  <1>5. mdb' \in Database
    BY <1>2, <1>3, PutType
  <1>6. writer' \in [Writers -> Places]
    <2>1. AtLog(upd) \in Places
      BY DEF Places
    <2> QED
      BY <1>2, <1>3, <2>1
  <1>7. Master' \in MasterState
    BY <1>2, <1>3, <1>5, <1>6, MasterTyped
  <1>8. Forth(Master, Master')
    <2>1. /\ Ring(Master.ulog, Master.now) /\ Master.writer[w] = Idle
          /\ Master'.db = Put(Master.db, upd)
          /\ Master'.writer = [Master.writer EXCEPT ![w] = AtLog(upd)]
          /\ Master'.pol = Master.pol /\ Master'.ulog = Master.ulog
          /\ Master'.now = Master.now /\ Master'.lost = Master.lost
      BY <1>1, <1>2, <1>4, MasterIs
    <2> QED
      BY ONLY w \in Writers, upd \in Update, <1>1, <1>7, <2>1, PutForth, Zenon
  <1> QED
    BY <1>1, <1>2, <1>7, <1>8, MasterStep

(* A process stored a policy, and has not reset the log.                     *)
LEMMA PutPolicyStep ==
  ASSUME IInv, NEW w \in Writers, PutPolicy(w)
  PROVE  IInv'
  <1>1. /\ Master \in MasterState /\ Ring(mulog, now)
        /\ losses \in 0 .. MaxLoss /\ deaths \in 0 .. MaxDeath
    BY DEF IInv
  <1>2. /\ writer[w].pc = "idle" /\ mpol < MaxPol /\ mpol' = mpol + 1
        /\ writer' = [writer EXCEPT ![w] = AtPolicy] /\ mdb' = mdb
        /\ mulog' = mulog /\ now' = now /\ lost' = lost
        /\ losses' = losses /\ deaths' = deaths
        /\ UNCHANGED <<resync, load, replica, poller>>
    BY DEF PutPolicy, Goto, WriterStays, bounds
  <1>3. /\ mdb \in Database /\ mpol \in 0 .. MaxPol /\ mulog \in Contents
        /\ now \in Nat /\ writer \in [Writers -> Places] /\ lost \in BOOLEAN
    BY <1>1, MasterVars
  <1>4. writer[w] = Idle
    BY <1>2, <1>3, PlaceOf
  <1>5. mpol' \in 0 .. MaxPol
    <2>1. MaxPol \in Nat
      BY IpropAssumption DEF IpropAssumption
    <2> QED
      BY ONLY <1>2, <1>3, <2>1
  <1>6. writer' \in [Writers -> Places]
    <2>1. AtPolicy \in Places
      BY DEF Places
    <2> QED
      BY <1>2, <1>3, <2>1
  <1>7. Master' \in MasterState
    BY <1>2, <1>3, <1>5, <1>6, MasterTyped
  <1>8. Forth(Master, Master')
    BY <1>1, <1>2, <1>4, <1>7, MasterIs, PolicyForth
  <1> QED
    BY <1>1, <1>2, <1>7, <1>8, MasterStep

(* The entry is not overtaken: it says what the master has, or another process *)
(* will.                                                                       *)
LEMMA NotOvertaken ==
  ASSUME Master \in MasterState, NEW w \in Writers, NEW upd \in Update,
         writer[w] = AtLog(upd), ~Overtaken(w)
  PROVE  Vouched(Master, w, upd)
  <1>1. writer \in [Writers -> Places] /\ writer[w].upd = upd
    BY MasterVars, PlacesAre
  <1>2. SUFFICES ASSUME mdb[upd.princ] # upd.val
                 PROVE  \E x \in Writers \ {w} :
                    writer[x] = AtLog([princ |-> upd.princ, val |-> mdb[upd.princ]])
    BY MasterIs DEF Vouched
  <1> DEFINE told == [upd EXCEPT !.val = mdb[upd.princ]]
  <1>3. PICK x \in Pending \ {w} : writer[x].pc = "log" /\ writer[x].upd = told
    BY <1>1, <1>2 DEF Overtaken
  <1>4. x \in Writers \ {w} /\ writer[x] \in Places
    BY <1>1, <1>3 DEF Pending
  <1>5. told = [princ |-> upd.princ, val |-> mdb[upd.princ]]
    <2>1. upd \in [princ : Princ, val : Val \cup {Absent}]
      BY IpropAssumption DEF IpropAssumption
    <2> QED
      BY ONLY <2>1
  <1> HIDE DEF told
  <1>6. writer[x] = AtLog(told)
    BY <1>3, <1>4, PlaceOf
  <1> QED
    BY <1>4, <1>5, <1>6

(* The types after a step that leaves a process at Idle and the database as   *)
(* it is.                                                                     *)
LEMMA LoggedTyped ==
  ASSUME Master \in MasterState, NEW w \in Writers,
         writer' = [writer EXCEPT ![w] = Idle], mdb' = mdb, mpol' = mpol,
         mulog' \in Contents, now' \in {now, now + 1}, lost' \in BOOLEAN
  PROVE  Master' \in MasterState
  <1>1. /\ mdb \in Database /\ mpol \in 0 .. MaxPol /\ mulog \in Contents
        /\ now \in Nat /\ writer \in [Writers -> Places] /\ lost \in BOOLEAN
    BY MasterVars
  <1>2. now' \in Nat
    BY <1>1, SMT
  <1>3. writer' \in [Writers -> Places]
    <2>1. Idle \in Places
      BY DEF Places
    <2> QED
      BY <1>1, <2>1
  <1> QED
    BY <1>1, <1>2, <1>3, MasterTyped

(* ulog_add_update(), whole or cut short.                                    *)
LEMMA LogUpdateStep ==
  ASSUME IInv, NEW w \in Writers, LogUpdate(w)
  PROVE  IInv'
  <1> DEFINE upd == writer[w].upd
             u == IF mulog.last_sno = MaxSno THEN Fresh(mulog, now + 1) ELSE mulog
  <1>1. /\ Master \in MasterState /\ Ring(mulog, now)
        /\ losses \in 0 .. MaxLoss /\ deaths \in 0 .. MaxDeath
    BY DEF IInv
  <1>2. /\ writer[w].pc = "log" /\ mulog' = StoreUpdate(u, NewEntry(u, now + 1, upd))
        /\ lost' = (Overtaken(w) \/ (u = mulog /\ (lost \/ mulog.state = "UNSTABLE")))
        /\ now' = now + 1 /\ writer' = [writer EXCEPT ![w] = Idle]
        /\ mdb' = mdb /\ mpol' = mpol /\ losses' = losses /\ deaths' = deaths
        /\ UNCHANGED <<resync, load, replica, poller>>
    BY DEF LogUpdate, Goto, WriterStays, bounds
  <1>3. /\ mulog \in Contents /\ now \in Nat /\ writer \in [Writers -> Places]
        /\ mulog.last_sno \in Sno
    BY <1>1, MasterVars, FieldTypes
  <1>4. upd \in Update /\ writer[w] = AtLog(upd)
    BY <1>2, <1>3, PlaceOf
  <1>5. lost' \in BOOLEAN
    BY <1>2
  <1> DEFINE T == now + 1
  <1>6. T \in Nat /\ 1 <= T /\ now <= T /\ T = now + 1
    BY <1>3, SMT
  <1>7. mulog' \in Contents => Master' \in MasterState
    BY <1>1, <1>2, <1>5, LoggedTyped
  <1>8. CASE mulog.last_sno = MaxSno
    <2>1. u = Fresh(mulog, T)
      BY <1>8
    <2>2. u \in Contents /\ Ring(u, T) /\ u.last_sno = 1
      BY <1>1, <1>3, <2>1, FreshRing
    <2>3. u.last_sno < MaxSno
      BY <2>2, UlogAssumption, SMT
    <2> HIDE DEF u, upd, T
    <2>4. Logs(u, T, upd, mulog')
      BY <1>2, <2>3 DEF Logs, T
    <2>5. mulog' \in Contents
      BY <1>4, <1>6, <2>2, <2>4, LogsRing
    <2>6. Master' \in MasterState
      BY <1>7, <2>5
    <2>7. /\ Ring(Master.ulog, Master.now) /\ Master'.now = Master.now + 1
          /\ Logs(Fresh(Master.ulog, Master.now + 1), Master.now + 1, upd, Master'.ulog)
      BY <1>1, <1>2, <2>1, <2>4, MasterIs DEF T
    <2>8. Forth(Master, Master')
      BY ONLY <1>1, <1>4, <2>6, <2>7, WrapForth, Zenon
    <2> QED
      BY <1>1, <1>2, <2>6, <2>8, MasterStep
  <1>9. CASE mulog.last_sno # MaxSno
    <2>1. u = mulog
      BY <1>9
    <2>2. mulog.last_sno < MaxSno
      BY <1>3, <1>9, UlogAssumption, SMT DEF Sno
    <2>3. Ring(mulog, T)
      BY <1>1, <1>3, <1>6, RingLater
    <2> HIDE DEF u, upd, T
    <2>4. Logs(mulog, T, upd, mulog')
      BY <1>2, <2>1, <2>2 DEF Logs, T
    <2>5. mulog' \in Contents
      BY <1>3, <1>4, <1>6, <2>3, <2>4, LogsRing
    <2>6. Master' \in MasterState
      BY <1>7, <2>5
    <2>7. ~Master'.lost =>
            ~Master.lost /\ Master.ulog.state # "UNSTABLE" /\ Vouched(Master, w, upd)
      <3>1. ~lost' => ~Overtaken(w) /\ ~lost /\ mulog.state # "UNSTABLE"
        BY <1>2, <2>1
      <3> QED
        BY <1>1, <1>4, <3>1, MasterIs, NotOvertaken
    <2>8. /\ Ring(Master.ulog, Master.now) /\ Master.writer[w] = AtLog(upd)
          /\ Master'.db = Master.db /\ Master'.pol = Master.pol
          /\ Master'.now = Master.now + 1
          /\ Master'.writer = [Master.writer EXCEPT ![w] = Idle]
          /\ Logs(Master.ulog, Master.now + 1, upd, Master'.ulog)
      BY <1>1, <1>2, <1>4, <2>4, MasterIs DEF T
    <2>9. Forth(Master, Master')
      BY ONLY w \in Writers, <1>1, <1>4, <2>6, <2>7, <2>8, LogForth, Zenon
    <2> QED
      BY <1>1, <1>2, <2>6, <2>9, MasterStep
  <1> QED
    BY <1>8, <1>9

(* A step of a process after which the log has forgotten everything, or has   *)
(* lost a change, or is half-written.                                         *)
LEMMA QuietStep ==
  ASSUME IInv, NEW w \in Writers, writer' = [writer EXCEPT ![w] = Idle],
         mdb' = mdb, mpol' = mpol, now' \in {now, now + 1}, lost' \in BOOLEAN,
         mulog' \in Contents, Ring(mulog', now'), Forgets(mulog, mulog', now),
         lost' \/ mulog'.state = "UNSTABLE" \/ Blank(mulog', now),
         UNCHANGED <<resync, load, replica, poller>>,
         losses' \in 0 .. MaxLoss, deaths' \in 0 .. MaxDeath
  PROVE  IInv'
  <1>1. Master \in MasterState /\ now \in Nat
    <2>1. Master \in MasterState
      BY DEF IInv
    <2> QED
      BY <2>1, MasterVars
  <1>2. Master' \in MasterState
    BY <1>1, LoggedTyped
  <1>3. now <= now'
    BY <1>1, SMT
  <1>4. /\ Master.now <= Master'.now /\ Ring(Master'.ulog, Master'.now)
        /\ Forgets(Master.ulog, Master'.ulog, Master.now)
        /\ \/ Master'.lost \/ Master'.ulog.state = "UNSTABLE"
           \/ Blank(Master'.ulog, Master.now)
    BY <1>3, MasterIs
  <1>5. Forth(Master, Master')
    BY ONLY <1>1, <1>2, <1>4, QuietForth, Zenon
  <1> QED
    BY <1>2, <1>5, MasterStep

(* ulog_init_header() after a change of a policy.                            *)
LEMMA ResetForPolicyStep ==
  ASSUME IInv, NEW w \in Writers, ResetForPolicy(w)
  PROVE  IInv'
  <1>1. /\ Master \in MasterState /\ Ring(mulog, now)
        /\ losses \in 0 .. MaxLoss /\ deaths \in 0 .. MaxDeath
    BY DEF IInv
  <1>2. /\ mulog' = Fresh(mulog, now + 1) /\ now' = now + 1 /\ lost' = FALSE
        /\ writer' = [writer EXCEPT ![w] = Idle]
        /\ mdb' = mdb /\ mpol' = mpol /\ losses' = losses /\ deaths' = deaths
        /\ UNCHANGED <<resync, load, replica, poller>>
    BY DEF ResetForPolicy, Goto, WriterStays, bounds
  <1>3. mulog \in Contents /\ now \in Nat
    BY <1>1, MasterVars
  <1>4. mulog' \in Contents /\ Ring(mulog', now') /\ Blank(mulog', now)
    BY <1>1, <1>2, <1>3, FreshRing
  <1>5. Forgets(mulog, mulog', now)
    BY <1>4, BlankForgets
  <1> QED
    BY <1>1, <1>2, <1>4, <1>5, QuietStep

(* A process died between the database and the log.                          *)
LEMMA DieUnloggedStep ==
  ASSUME IInv, NEW w \in Writers, DieUnlogged(w)
  PROVE  IInv'
  <1>1. /\ Master \in MasterState /\ Ring(mulog, now)
        /\ losses \in 0 .. MaxLoss /\ deaths \in 0 .. MaxDeath
    BY DEF IInv
  <1>2. /\ mulog' = mulog /\ now' = now /\ lost' = TRUE /\ Dies
        /\ writer' = [writer EXCEPT ![w] = Idle] /\ mdb' = mdb /\ mpol' = mpol
        /\ UNCHANGED <<resync, load, replica, poller>>
    BY DEF DieUnlogged, Goto, WriterStays
  <1>3. mulog \in Contents /\ losses' \in 0 .. MaxLoss /\ deaths' \in 0 .. MaxDeath
    BY <1>1, <1>2, MasterVars, DiesBounds
  <1>4. Forgets(mulog, mulog', now) /\ Ring(mulog', now') /\ mulog' \in Contents
    BY <1>1, <1>2, <1>3 DEF Forgets
  <1> QED
    BY <1>2, <1>3, <1>4, QuietStep

(* A process died within ulog_add_update().                                  *)
LEMMA DieLoggingStep ==
  ASSUME IInv, NEW w \in Writers, DieLogging(w)
  PROVE  IInv'
  <1> DEFINE upd == writer[w].upd
             e == NewEntry(mulog, now + 1, upd)
  <1>1. /\ Master \in MasterState /\ Ring(mulog, now)
        /\ losses \in 0 .. MaxLoss /\ deaths \in 0 .. MaxDeath
    BY DEF IInv
  <1>2. /\ now' = now + 1 /\ Dies
        /\ writer' = [writer EXCEPT ![w] = Idle] /\ mdb' = mdb /\ mpol' = mpol
        /\ UNCHANGED <<resync, load, replica, poller>>
    BY DEF DieLogging, Goto, WriterStays
  <1>3. /\ mulog \in Contents /\ now \in Nat /\ writer \in [Writers -> Places]
        /\ losses' \in 0 .. MaxLoss /\ deaths' \in 0 .. MaxDeath
    BY <1>1, <1>2, MasterVars, DiesBounds
  <1>4. CASE /\ writer[w].pc = "log" /\ mulog.last_sno < MaxSno
             /\ mulog' \in StoreInterrupted(mulog, e)
             /\ lost' = (lost \/ mulog.state = "UNSTABLE" \/ mulog' = mulog)
    <2>1. upd \in Update
      BY <1>3, <1>4, PlaceOf
    <2>2. /\ mulog' \in Contents /\ Ring(mulog', now + 1) /\ Forgets(mulog, mulog', now)
          /\ mulog' = mulog \/ mulog'.state = "UNSTABLE"
      <3> HIDE DEF upd
      <3> QED
        BY <1>1, <1>3, <1>4, <2>1, InterruptedRing
    <2>3. Ring(mulog', now') /\ lost' \in BOOLEAN
      BY <1>2, <1>4, <2>2
    <2>4. lost' \/ mulog'.state = "UNSTABLE" \/ Blank(mulog', now)
      BY <1>4, <2>2
    <2> QED
      BY <1>2, <1>3, <2>2, <2>3, <2>4, QuietStep
  <1>5. CASE mulog' \in ResetInterrupted(mulog, now + 1) /\ lost' = FALSE
    <2>1. mulog' \in Contents /\ Ring(mulog', now + 1) /\ Blank(mulog', now)
      BY <1>1, <1>3, <1>5, ResetInterruptedRing
    <2>2. Ring(mulog', now') /\ lost' \in BOOLEAN
      BY <1>2, <1>5, <2>1
    <2>3. Forgets(mulog, mulog', now)
      BY <2>1, BlankForgets
    <2> QED
      BY <1>2, <1>3, <2>1, <2>2, <2>3, QuietStep
  <1> QED
    BY <1>4, <1>5 DEF DieLogging

-----------------------------------------------------------------------------
(* The other steps leave the master as it is.                                 *)

(* A step that leaves the master alone keeps the invariant if what it        *)
(* leaves elsewhere is right.                                                *)
LEMMA FarStep ==
  ASSUME IInv, UNCHANGED master,
         dumpfile' \in Dump, job' \in [Jobs -> JobState], load' \in LoadState,
         rdb' \in Database, rpol' \in 0 .. MaxPol, rulog' \in Contents, rulog'.num # 0,
         kpropd' \in PollState, AllUpdates(kpropd'.reply.updates),
         frrequested' \in BOOLEAN, overlap' \in BOOLEAN,
         losses' \in 0 .. MaxLoss, deaths' \in 0 .. MaxDeath,
         Dumped(Master, dumpfile', job', load'),
         ~overlap' => Serial(Master, job', load', rdb', rpol', rulog', kpropd')
  PROVE  IInv'
  <1>1. mulog' = mulog /\ now' = now /\ Master' = Master
    BY DEF master, Master
  <1>2. Master \in MasterState /\ Ring(mulog, now)
    BY DEF IInv
  <1> QED
    BY <1>1, <1>2 DEF IInv

(* The parts of the invariant that such a step may need. *)
LEMMA Parts ==
  ASSUME IInv
  PROVE  /\ Master \in MasterState /\ Ring(Master.ulog, Master.now)
         /\ dumpfile \in Dump /\ job \in [Jobs -> JobState] /\ load \in LoadState
         /\ rdb \in Database /\ rpol \in 0 .. MaxPol
         /\ rulog \in Contents /\ rulog.num # 0
         /\ kpropd \in PollState /\ AllUpdates(kpropd.reply.updates)
         /\ frrequested \in BOOLEAN /\ overlap \in BOOLEAN
         /\ losses \in 0 .. MaxLoss /\ deaths \in 0 .. MaxDeath
         /\ Dumped(Master, dumpfile, job, load)
         /\ ~overlap => Serial(Master, job, load, rdb, rpol, rulog, kpropd)
  BY MasterIs DEF IInv

(* A position with the time of a replica's reset deceives nobody. *)
LEMMA NotTold ==
  ASSUME NEW m \in MasterState, Ring(m.ulog, m.now), NEW v \in Contents,
         LastPos(v).time = 0
  PROVE  Dead(m, LastPos(v)) /\ \A db, pol : Told(m, db, pol, LastPos(v))
  <1>1. Dead(m, LastPos(v))
    BY LastPosType, ZeroDead
  <1> QED
    BY <1>1, DeadTold

(* While a resync is under way, the master does not know the replica's        *)
(* position, or the one that it starts its log over with.                     *)
LEMMA BusyDead ==
  ASSUME NEW m \in MasterState, Ring(m.ulog, m.now), NEW jb, NEW ld, NEW db, NEW pol,
         NEW u, NEW kp, Serial(m, jb, ld, db, pol, u, kp), Busy(jb, ld),
         NEW v \in Contents, LastPos(v) = LastPos(u) \/ LastPos(v).time = 0
  PROVE  Dead(m, LastPos(v)) /\ \A d, q : Told(m, d, q, LastPos(v))
  <1>1. Dead(m, LastPos(u))
    BY DEF Serial
  <1>2. Dead(m, LastPos(v))
    BY <1>1, NotTold
  <1> QED
    BY <1>2, DeadTold

(* A step of a resync. *)
LEMMA BusySerial ==
  ASSUME NEW m, NEW jb, NEW ld, NEW db, NEW pol, NEW u, NEW kp,
         Serial(m, jb, ld, db, pol, u, kp), Busy(jb, ld),
         NEW ob, NEW od, NEW d, NEW q, NEW v,
         Single(ob, od), Busy(ob, od) => Dead(m, LastPos(v)),
         od.pc \in {"reinit", "setlast"} => d = od.dump.db /\ q = od.dump.pol,
         Told(m, d, q, LastPos(v))
  PROVE  Serial(m, ob, od, d, q, v, kp)
  <1>1. Dead(m, LastPos(u)) /\ Polled(m, jb, ld, u, kp)
    BY DEF Serial
  <1>2. ~ (kp.pc = "reply" /\ kp.reply.ret # "FULL_RESYNC")
    BY <1>1 DEF Polled
  <1>3. "OK" # "FULL_RESYNC"
    BY SMT
  <1>4. Polled(m, ob, od, v, kp)
    BY <1>1, <1>2 DEF Polled
  <1>5. ~ (kp.pc = "reply" /\ kp.reply.ret = "OK")
    BY <1>2, <1>3
  <1> QED
    BY <1>4, <1>5 DEF Serial

(* A step of kpropd after which it will poll. *)
LEMMA PollSerial ==
  ASSUME NEW m, NEW jb, NEW ld, NEW d, NEW q, NEW v, NEW kp, kp.pc = "poll",
         Single(jb, ld), Busy(jb, ld) => Dead(m, LastPos(v)),
         ld.pc \in {"reinit", "setlast"} => d = ld.dump.db /\ q = ld.dump.pol,
         Told(m, d, q, LastPos(v))
  PROVE  Serial(m, jb, ld, d, q, v, kp)
  <1>1. kp.pc # "call" /\ kp.pc # "reply"
    BY SMT
  <1>2. Polled(m, jb, ld, v, kp)
    BY <1>1 DEF Polled
  <1> QED
    BY <1>1, <1>2 DEF Serial

(* What a process that is between two calls has in its variables. *)
LEMMA Blanks ==
  /\ NoDump \in Dump /\ NoDump.last \in Position /\ NoDump.last.time = 0
  /\ AtPoll \in PollState /\ AtPoll.pc = "poll" /\ AtPoll.reply = NoReply
  /\ AllUpdates(AtPoll.reply.updates)
  /\ NoReply \in Reply /\ NoReply.ret = "NIL" /\ AllUpdates(NoReply.updates)
  /\ NoLoad \in LoadState /\ NoLoad.pc = "idle" /\ NoLoad.dump = NoDump
  <1>1. /\ NoDump.last = [sno |-> 0, time |-> 0] /\ NoDump.pol = 0
        /\ NoDump.db = [p \in Princ |-> Absent]
        /\ NoDump = [last |-> NoDump.last, db |-> NoDump.db, pol |-> NoDump.pol]
    BY SMT DEF NoDump
  <1>2. NoDump.last \in Position /\ NoDump.last.time = 0
    BY <1>1, UlogAssumption, SMT DEF Position, Sno
  <1>3. NoDump.db \in Database
    BY <1>1 DEF Database
  <1>4. NoDump.pol \in 0 .. MaxPol
    BY <1>1, IpropAssumption, SMT DEF IpropAssumption
  <1>5. NoDump \in Dump
    BY ONLY <1>1, <1>2, <1>3, <1>4, Zenon DEF Dump
  <1>6. NoReply \in Reply /\ NoReply.ret = "NIL" /\ NoReply.updates = << >>
    BY SMT DEF NoReply, Reply
  <1>7. AllUpdates(NoReply.updates)
    BY <1>6, SMT DEF AllUpdates
  <1>8. AtPoll \in PollState /\ AtPoll.pc = "poll" /\ AtPoll.reply = NoReply
    <2>1. AtPoll = [pc |-> "poll", mylast |-> NoDump.last, reply |-> NoReply]
      BY DEF AtPoll
    <2> QED
      BY ONLY <1>2, <1>6, <2>1 DEF PollState
  <1>9. NoLoad \in LoadState /\ NoLoad.pc = "idle" /\ NoLoad.dump = NoDump
    <2>1. NoLoad = [pc |-> "idle", dump |-> NoDump]
      BY DEF NoLoad
    <2> QED
      BY ONLY <1>5, <2>1 DEF LoadState
  <1> QED
    BY <1>2, <1>5, <1>6, <1>7, <1>8, <1>9

(* A job that begins a phase.                                                *)
LEMMA JobAtType ==
  ASSUME NEW pc \in {"idle", "check", "dump", "princs", "pols", "send"}
  PROVE  JobAt(pc) \in JobState /\ JobAt(pc).pc = pc
  <1>1. JobAt(pc) = [pc |-> pc, last |-> NoDump.last, db |-> NoDump.db]
    BY DEF JobAt
  <1>2. NoDump.last \in Position /\ NoDump.db \in Database
    BY Blanks, DumpTypes
  <1> QED
    BY ONLY <1>1, <1>2 DEF JobState

-----------------------------------------------------------------------------
(* The steps of Jobs.                                                         *)

(* What a step of one job does to the dumps.                                 *)
LEMMA JobDumped ==
  ASSUME NEW m, NEW file, NEW jb \in [Jobs -> JobState], NEW ld, Dumped(m, file, jb, ld),
         NEW f, Told(m, f.db, f.pol, f.last),
         NEW l, Told(m, l.dump.db, l.dump.pol, l.dump.last),
         NEW j \in Jobs, NEW js,
         js.pc = "princs" => Told(m, m.db, m.pol, js.last),
         js.pc = "pols" => Told(m, js.db, m.pol, js.last)
  PROVE  Dumped(m, f, [jb EXCEPT ![j] = js], l)
  <1> DEFINE b == [jb EXCEPT ![j] = js]
  <1>1. b[j] = js /\ \A k \in Jobs : k # j => b[k] = jb[k]
    OBVIOUS
  <1> HIDE DEF b
  <1>2. ASSUME NEW k \in Jobs
        PROVE  /\ b[k].pc = "princs" => Told(m, m.db, m.pol, b[k].last)
               /\ b[k].pc = "pols" => Told(m, b[k].db, m.pol, b[k].last)
    <2>1. CASE k = j
      BY <1>1, <2>1
    <2>2. CASE k # j
      BY <1>1, <2>2 DEF Dumped
    <2> QED
      BY <2>1, <2>2
  <1>3. Dumped(m, f, b, l)
    BY <1>2 DEF Dumped
  <1> QED
    BY <1>3 DEF b

(* A step of a job keeps the invariant.                                      *)
LEMMA JobMoves ==
  ASSUME IInv, NEW j \in Jobs, job[j].pc # "idle",
         UNCHANGED master, UNCHANGED <<overlap, rdb, rpol, kpropd, frrequested>>,
         losses' \in 0 .. MaxLoss, deaths' \in 0 .. MaxDeath,
         NEW js \in JobState, job' = [job EXCEPT ![j] = js],
         js.pc = "princs" => Told(Master, mdb, mpol, js.last),
         js.pc = "pols" => Told(Master, js.db, mpol, js.last),
         dumpfile' \in Dump, Told(Master, dumpfile'.db, dumpfile'.pol, dumpfile'.last),
         \/ load' = load
         \/ load.pc = "idle" /\ load' = [pc |-> "init", dump |-> dumpfile] /\ js.pc = "idle",
         rulog' \in Contents, rulog'.num # 0,
         LastPos(rulog') = LastPos(rulog) \/ LastPos(rulog').time = 0
  PROVE  IInv'
  <1>1. /\ Master \in MasterState /\ Ring(Master.ulog, Master.now)
        /\ dumpfile \in Dump /\ job \in [Jobs -> JobState] /\ load \in LoadState
        /\ rdb \in Database /\ rpol \in 0 .. MaxPol
        /\ kpropd \in PollState /\ AllUpdates(kpropd.reply.updates)
        /\ frrequested \in BOOLEAN /\ overlap \in BOOLEAN
        /\ Dumped(Master, dumpfile, job, load)
        /\ ~overlap => Serial(Master, job, load, rdb, rpol, rulog, kpropd)
    BY Parts
  <1>2. job' \in [Jobs -> JobState]
    BY <1>1
  <1>3. /\ load' \in LoadState
        /\ load' = load \/ (load'.pc = "init" /\ load'.dump = dumpfile /\ js.pc = "idle")
    <2>1. CASE load' = [pc |-> "init", dump |-> dumpfile] /\ js.pc = "idle"
      BY ONLY <1>1, <2>1 DEF LoadState
    <2> QED
      BY <1>1, <2>1
  <1>4. Dumped(Master, dumpfile', job', load')
    <2>1. Told(Master, load'.dump.db, load'.dump.pol, load'.dump.last)
      BY <1>1, <1>3 DEF Dumped
    <2> QED
      BY <1>1, <2>1, JobDumped, MasterIs
  <1>5. ASSUME ~overlap
        PROVE  Serial(Master, job', load', rdb, rpol, rulog', kpropd)
    <2>1. Serial(Master, job, load, rdb, rpol, rulog, kpropd) /\ Busy(job, load)
      BY <1>1, <1>5 DEF Busy
    <2>2. load.pc = "idle" /\ \A k \in Jobs : k # j => job[k].pc = "idle"
      BY <2>1 DEF Serial, Single
    <2>3. job'[j] = js /\ \A k \in Jobs : k # j => job'[k] = job[k]
      BY <1>1
    <2>4. Single(job', load')
      <3>1. \A k \in Jobs : k # j => job'[k].pc = "idle"
        BY <2>2, <2>3
      <3>2. load'.pc # "idle" => js.pc = "idle"
        BY <1>3, <2>2
      <3> QED
        BY <2>3, <3>1, <3>2 DEF Single
    <2>5. load'.pc \notin {"reinit", "setlast"}
      <3>1. load'.pc \in {"idle", "init"}
        BY <1>3, <2>2
      <3> QED
        BY ONLY <3>1
    <2>6. Dead(Master, LastPos(rulog')) /\ Told(Master, rdb, rpol, LastPos(rulog'))
      BY <1>1, <2>1, BusyDead
    <2> QED
      BY <2>1, <2>4, <2>5, <2>6, BusySerial
  <1>6. ~overlap' => Serial(Master, job', load', rdb', rpol', rulog', kpropd')
    BY <1>5
  <1>7. /\ rdb' \in Database /\ rpol' \in 0 .. MaxPol /\ kpropd' \in PollState
        /\ AllUpdates(kpropd'.reply.updates)
        /\ frrequested' \in BOOLEAN /\ overlap' \in BOOLEAN
    BY <1>1
  <1> QED
    BY <1>2, <1>3, <1>4, <1>6, <1>7, FarStep

(* What a step of a job leaves alone.                                        *)
LEMMA JobStepIs ==
  ASSUME IInv, NEW j \in Jobs, NEW from, JobStep(j, from)
  PROVE  /\ job[j].pc = from /\ UNCHANGED master
         /\ UNCHANGED <<overlap, rdb, rpol, kpropd, frrequested>>
         /\ losses' \in 0 .. MaxLoss /\ deaths' \in 0 .. MaxDeath
  <1>1. /\ job[j].pc = from /\ UNCHANGED master
        /\ UNCHANGED <<overlap, rdb, rpol, kpropd, frrequested>>
        /\ losses' = losses /\ deaths' = deaths
    BY DEF JobStep, poller, bounds
  <1> QED
    BY <1>1, Parts

(* What a job knows of the dump, and where the log of the replica is. *)
LEMMA JobParts ==
  ASSUME IInv, NEW j \in Jobs
  PROVE  /\ dumpfile \in Dump
         /\ Told(Master, dumpfile.db, dumpfile.pol, dumpfile.last)
         /\ job \in [Jobs -> JobState] /\ job[j] \in JobState
         /\ job[j].last \in Position /\ job[j].db \in Database
         /\ mdb \in Database /\ mpol \in 0 .. MaxPol
         /\ job[j].pc = "princs" => Told(Master, mdb, mpol, job[j].last)
         /\ job[j].pc = "pols" => Told(Master, job[j].db, mpol, job[j].last)
         /\ rulog \in Contents /\ rulog.num # 0
         /\ LastPos(mulog) \in Position /\ Told(Master, mdb, mpol, LastPos(mulog))
  <1>1. /\ Master \in MasterState /\ Ring(Master.ulog, Master.now)
        /\ dumpfile \in Dump /\ job \in [Jobs -> JobState]
        /\ rulog \in Contents /\ rulog.num # 0
        /\ Dumped(Master, dumpfile, job, load)
    BY Parts
  <1>2. LastPos(mulog) \in Position /\ Told(Master, mdb, mpol, LastPos(mulog))
    BY <1>1, LastTold, MasterIs
  <1>3. /\ Told(Master, dumpfile.db, dumpfile.pol, dumpfile.last)
        /\ job[j].pc = "princs" => Told(Master, mdb, mpol, job[j].last)
        /\ job[j].pc = "pols" => Told(Master, job[j].db, mpol, job[j].last)
    BY <1>1, MasterIs DEF Dumped
  <1> QED
    BY <1>1, <1>2, <1>3, JobTypes, MasterVars

(* The job looked at the dump that is there.                                 *)
LEMMA CheckDumpStep ==
  ASSUME IInv, NEW j \in Jobs, CheckDump(j)
  PROVE  IInv'
  <1> DEFINE X == IF dumpfile # NoDump /\ GetSnoStatus(mulog, dumpfile.last) \in {"OK", "NIL"}
                  THEN "send" ELSE "dump"
             js == [job[j] EXCEPT !.pc = X]
  <1>1. /\ JobStep(j, "check") /\ job' = [job EXCEPT ![j].pc = X]
        /\ dumpfile' = dumpfile /\ load' = load /\ rulog' = rulog
    BY DEF CheckDump
  <1>2. X \in {"send", "dump"}
    BY SMT
  <1> HIDE DEF X
  <1>3. job' = [job EXCEPT ![j] = js]
    BY <1>1
  <1>4. js \in JobState /\ js.pc \in {"send", "dump"}
    <2>1. job[j] \in JobState
      BY JobParts
    <2>2. js.pc = X
      BY <2>1 DEF JobState
    <2>3. X \in {"idle", "check", "dump", "princs", "pols", "send"}
      BY <1>2, SMT
    <2>4. js \in JobState
      BY <2>1, <2>3 DEF JobState
    <2> QED
      BY <1>2, <2>2, <2>4
  <1>5. js.pc # "princs" /\ js.pc # "pols" /\ "check" # "idle"
    BY <1>4, SMT
  <1> HIDE DEF js
  <1>6. job[j].pc # "idle"
    BY <1>1, <1>5, JobStepIs
  <1> QED
    BY <1>1, <1>3, <1>4, <1>5, <1>6, JobStepIs, JobParts, JobMoves

(* The job wrote the header of a dump.                                       *)
LEMMA DumpHeaderStep ==
  ASSUME IInv, NEW j \in Jobs, DumpHeader(j)
  PROVE  IInv'
  <1> DEFINE L == LastPos(mulog)
             js == [job[j] EXCEPT !.pc = "princs", !.last = L]
  <1>1. /\ JobStep(j, "dump")
        /\ job' = [job EXCEPT ![j].pc = "princs", ![j].last = L]
        /\ dumpfile' = dumpfile /\ load' = load /\ rulog' = rulog
    BY DEF DumpHeader
  <1>2. job[j] \in JobState /\ job \in [Jobs -> JobState] /\ L \in Position
    BY JobParts
  <1>3. Told(Master, mdb, mpol, L)
    BY JobParts
  <1> HIDE DEF L
  <1>4. job' = [job EXCEPT ![j] = js]
    <2> DEFINE x == [job[j] EXCEPT !.pc = "princs"]
               y == [job EXCEPT ![j] = x]
    <2>1. job' = [y EXCEPT ![j] = [y[j] EXCEPT !.last = L]]
      BY <1>1
    <2>2. y[j] = x
      BY <1>2
    <2>3. job' = [y EXCEPT ![j] = js]
      BY <2>1, <2>2
    <2> HIDE DEF x, js
    <2> QED
      BY <1>2, <2>3
  <1>5. js \in JobState /\ js.pc = "princs" /\ js.last = L
    <2> DEFINE x == [job[j] EXCEPT !.pc = "princs"]
    <2>0. "princs" \in {"idle", "check", "dump", "princs", "pols", "send"}
      BY SMT
    <2>1. x \in JobState /\ x.pc = "princs"
      BY <1>2, <2>0 DEF JobState
    <2>2. js = [x EXCEPT !.last = L]
      OBVIOUS
    <2> HIDE DEF x
    <2> QED
      BY <1>2, <2>1, <2>2 DEF JobState
  <1>6. "princs" # "pols" /\ "dump" # "idle"
    BY SMT
  <1> HIDE DEF js
  <1>7. job[j].pc # "idle"
    BY <1>1, <1>6, JobStepIs
  <1> QED
    BY <1>1, <1>3, <1>4, <1>5, <1>6, <1>7, JobStepIs, JobParts, JobMoves

(* The job wrote the principals.                                             *)
LEMMA DumpPrincipalsStep ==
  ASSUME IInv, NEW j \in Jobs, DumpPrincipals(j)
  PROVE  IInv'
  <1> DEFINE js == [job[j] EXCEPT !.pc = "pols", !.db = mdb]
             x == [job[j] EXCEPT !.pc = "pols"]
  <1>1. /\ JobStep(j, "princs")
        /\ job' = [job EXCEPT ![j].pc = "pols", ![j].db = mdb]
        /\ dumpfile' = dumpfile /\ load' = load /\ rulog' = rulog
    BY DEF DumpPrincipals
  <1>2. job[j] \in JobState /\ job \in [Jobs -> JobState] /\ mdb \in Database
    BY JobParts
  <1>3. Told(Master, mdb, mpol, job[j].last)
    BY <1>1, JobStepIs, JobParts
  <1>4. job' = [job EXCEPT ![j] = js]
    <2> DEFINE y == [job EXCEPT ![j] = x]
    <2>1. job' = [y EXCEPT ![j] = [y[j] EXCEPT !.db = mdb]]
      BY <1>1
    <2>2. y[j] = x
      BY <1>2
    <2>3. job' = [y EXCEPT ![j] = js]
      BY <2>1, <2>2
    <2> HIDE DEF x, js
    <2> QED
      BY <1>2, <2>3
  <1>5. js \in JobState /\ js.pc = "pols" /\ js.db = mdb /\ js.last = job[j].last
    <2>0. "pols" \in {"idle", "check", "dump", "princs", "pols", "send"}
      BY SMT
    <2>1. x \in JobState /\ x.pc = "pols" /\ x.last = job[j].last
      BY <1>2, <2>0 DEF JobState
    <2>2. js = [x EXCEPT !.db = mdb]
      OBVIOUS
    <2> HIDE DEF x
    <2> QED
      BY <1>2, <2>1, <2>2 DEF JobState
  <1>6. "pols" # "princs" /\ "princs" # "idle"
    BY SMT
  <1> HIDE DEF js
  <1>7. job[j].pc # "idle"
    BY <1>1, <1>6, JobStepIs
  <1> QED
    BY <1>1, <1>3, <1>4, <1>5, <1>6, <1>7, JobStepIs, JobParts, JobMoves

(* A job that has done its part: what it knew is gone. *)
LEMMA JobDone ==
  ASSUME IInv, NEW j \in Jobs, job[j].pc # "idle",
         UNCHANGED master, UNCHANGED <<overlap, rdb, rpol, kpropd, frrequested>>,
         losses' \in 0 .. MaxLoss, deaths' \in 0 .. MaxDeath,
         NEW pc \in {"idle", "send"}, job' = [job EXCEPT ![j] = JobAt(pc)],
         dumpfile' \in Dump, Told(Master, dumpfile'.db, dumpfile'.pol, dumpfile'.last),
         \/ load' = load
         \/ load.pc = "idle" /\ load' = [pc |-> "init", dump |-> dumpfile] /\ pc = "idle",
         rulog' \in Contents, rulog'.num # 0,
         LastPos(rulog') = LastPos(rulog) \/ LastPos(rulog').time = 0
  PROVE  IInv'
  <1> DEFINE js == JobAt(pc)
  <1>1. /\ pc \in {"idle", "check", "dump", "princs", "pols", "send"}
        /\ pc # "princs" /\ pc # "pols"
    BY SMT
  <1>2. js \in JobState /\ js.pc = pc
    BY <1>1, JobAtType
  <1>3. job' = [job EXCEPT ![j] = js]
    OBVIOUS
  <1> HIDE DEF js
  <1> QED
    BY <1>1, <1>2, <1>3, JobMoves

(* The job wrote the policies, and the dump is whole.                        *)
LEMMA DumpPoliciesStep ==
  ASSUME IInv, NEW j \in Jobs, DumpPolicies(j)
  PROVE  IInv'
  <1>1. /\ JobStep(j, "pols")
        /\ dumpfile' = [last |-> job[j].last, db |-> job[j].db, pol |-> mpol]
        /\ job' = [job EXCEPT ![j] = JobAt("send")] /\ load' = load /\ rulog' = rulog
    BY DEF DumpPolicies
  <1>2. /\ job[j].last \in Position /\ job[j].db \in Database /\ mpol \in 0 .. MaxPol
        /\ Told(Master, job[j].db, mpol, job[j].last)
        /\ rulog \in Contents /\ rulog.num # 0
    BY <1>1, JobStepIs, JobParts
  <1>3. /\ dumpfile' \in Dump /\ dumpfile'.last = job[j].last
        /\ dumpfile'.db = job[j].db /\ dumpfile'.pol = mpol
    <2>1. dumpfile' = [last |-> job[j].last, db |-> job[j].db, pol |-> mpol]
      BY <1>1
    <2> QED
      BY ONLY <1>2, <2>1 DEF Dump
  <1>4. "pols" # "idle" /\ "send" \in {"idle", "send"}
    BY SMT
  <1>5. job[j].pc # "idle"
    BY <1>1, <1>4, JobStepIs
  <1> QED
    BY <1>1, <1>2, <1>3, <1>4, <1>5, JobStepIs, JobDone

(* The job sent the dump to kpropd.                                          *)
LEMMA SendStep ==
  ASSUME IInv, NEW j \in Jobs, Send(j)
  PROVE  IInv'
  <1>1. /\ JobStep(j, "send") /\ load.pc = "idle"
        /\ load' = [pc |-> "init", dump |-> dumpfile]
        /\ job' = [job EXCEPT ![j] = JobAt("idle")]
        /\ rulog' = MapReplicaLog(rulog) /\ dumpfile' = dumpfile
    BY DEF Send
  <1>2. /\ dumpfile' \in Dump
        /\ Told(Master, dumpfile'.db, dumpfile'.pol, dumpfile'.last)
        /\ rulog \in Contents /\ rulog.num # 0
    BY <1>1, JobParts
  <1>3. /\ rulog' \in Contents /\ rulog'.num # 0
        /\ LastPos(rulog') = LastPos(rulog) \/ LastPos(rulog').time = 0
    BY <1>1, <1>2, MapReplica
  <1>4. "send" # "idle" /\ "idle" \in {"idle", "send"}
    BY SMT
  <1>5. job[j].pc # "idle"
    BY <1>1, <1>4, JobStepIs
  <1> QED
    BY <1>1, <1>2, <1>3, <1>4, <1>5, JobStepIs, JobDone

(* The job died, or was not started.                                         *)
LEMMA JobDiesStep ==
  ASSUME IInv, NEW j \in Jobs, JobDies(j)
  PROVE  IInv'
  <1>1. /\ Dies /\ job[j].pc # "idle" /\ job' = [job EXCEPT ![j] = JobAt("idle")]
        /\ UNCHANGED master /\ UNCHANGED <<overlap, rdb, rpol, kpropd, frrequested>>
        /\ dumpfile' = dumpfile /\ load' = load /\ rulog' = rulog
    BY DEF JobDies, replica, poller
  <1>2. /\ dumpfile' \in Dump
        /\ Told(Master, dumpfile'.db, dumpfile'.pol, dumpfile'.last)
        /\ rulog' \in Contents /\ rulog'.num # 0
    BY <1>1, JobParts
  <1>3. losses' \in 0 .. MaxLoss /\ deaths' \in 0 .. MaxDeath
    BY <1>1, Parts, DiesBounds
  <1>4. "idle" \in {"idle", "send"}
    BY SMT
  <1> QED
    BY <1>1, <1>2, <1>3, <1>4, JobDone

-----------------------------------------------------------------------------
(* The steps of load_db().                                                    *)

(* A step of a load keeps the invariant.                                     *)
LEMMA LoadMoves ==
  ASSUME IInv, load.pc # "idle",
         UNCHANGED master, UNCHANGED <<dumpfile, job, overlap, kpropd, frrequested>>,
         losses' \in 0 .. MaxLoss, deaths' \in 0 .. MaxDeath,
         load' \in LoadState, load'.dump = load.dump \/ load' = NoLoad,
         rdb' \in Database, rpol' \in 0 .. MaxPol, rulog' \in Contents, rulog'.num # 0,
         ~overlap => \/ Dead(Master, LastPos(rulog'))
                     \/ load' = NoLoad /\ Told(Master, rdb', rpol', LastPos(rulog')),
         ~overlap /\ load'.pc \in {"reinit", "setlast"} =>
           rdb' = load'.dump.db /\ rpol' = load'.dump.pol
  PROVE  IInv'
  <1>1. /\ Master \in MasterState /\ Ring(Master.ulog, Master.now)
        /\ dumpfile \in Dump /\ job \in [Jobs -> JobState]
        /\ kpropd \in PollState /\ AllUpdates(kpropd.reply.updates)
        /\ frrequested \in BOOLEAN /\ overlap \in BOOLEAN
        /\ Dumped(Master, dumpfile, job, load)
        /\ ~overlap => Serial(Master, job, load, rdb, rpol, rulog, kpropd)
    BY Parts
  <1>2. Told(Master, load'.dump.db, load'.dump.pol, load'.dump.last)
    <2>1. CASE load'.dump = load.dump
      BY <1>1, <2>1 DEF Dumped
    <2>2. CASE load' = NoLoad
      <3>1. load'.dump = NoDump
        BY <2>2, Blanks
      <3>2. Dead(Master, NoDump.last)
        BY <1>1, Blanks, ZeroDead
      <3> QED
        BY <3>1, <3>2, DeadTold
    <2> QED
      BY <2>1, <2>2
  <1>3. Dumped(Master, dumpfile, job, load')
    BY <1>1, <1>2 DEF Dumped
  <1>4. ASSUME ~overlap
        PROVE  Serial(Master, job, load', rdb', rpol', rulog', kpropd)
    <2>1. Serial(Master, job, load, rdb, rpol, rulog, kpropd) /\ Busy(job, load)
      BY <1>1, <1>4 DEF Busy
    <2>2. \A j \in Jobs : job[j].pc = "idle"
      BY <2>1 DEF Serial, Single
    <2>3. Single(job, load')
      BY <2>2 DEF Single
    <2>4. Busy(job, load') => Dead(Master, LastPos(rulog'))
      BY <1>4, <2>2, Blanks DEF Busy
    <2>5. Told(Master, rdb', rpol', LastPos(rulog'))
      BY <1>4, DeadTold
    <2> QED
      BY <1>4, <2>1, <2>3, <2>4, <2>5, BusySerial
  <1>5. /\ dumpfile' = dumpfile /\ job' = job /\ overlap' = overlap /\ kpropd' = kpropd
        /\ frrequested' = frrequested
    OBVIOUS
  <1>6. /\ Dumped(Master, dumpfile', job', load')
        /\ ~overlap' => Serial(Master, job', load', rdb', rpol', rulog', kpropd')
    BY ONLY <1>3, <1>4, <1>5
  <1>7. /\ dumpfile' \in Dump /\ job' \in [Jobs -> JobState]
        /\ kpropd' \in PollState /\ AllUpdates(kpropd'.reply.updates)
        /\ frrequested' \in BOOLEAN /\ overlap' \in BOOLEAN
    BY <1>1, <1>5
  <1> QED
    BY <1>6, <1>7, FarStep

(* What a step of a load leaves alone.                                       *)
LEMMA LoadStepIs ==
  ASSUME IInv, NEW from, NEW to, LoadStep(from, to),
         to \in {"idle", "promote", "reinit", "setlast"}
  PROVE  /\ load.pc = from /\ UNCHANGED master
         /\ UNCHANGED <<dumpfile, job, overlap, kpropd, frrequested>>
         /\ losses' \in 0 .. MaxLoss /\ deaths' \in 0 .. MaxDeath
         /\ load' \in LoadState /\ load'.pc = to
         /\ IF to = "idle" THEN load' = NoLoad ELSE load'.dump = load.dump
  <1>1. /\ load.pc = from /\ UNCHANGED master
        /\ UNCHANGED <<dumpfile, job, overlap, kpropd, frrequested>>
        /\ losses' = losses /\ deaths' = deaths
    BY DEF LoadStep, resync, poller, bounds
  <1>2. /\ losses \in 0 .. MaxLoss /\ deaths \in 0 .. MaxDeath /\ load \in LoadState
    BY Parts
  <1>3. CASE to = "idle"
    BY <1>1, <1>2, <1>3, Blanks DEF LoadStep
  <1>4. CASE to # "idle"
    <2>1. load' = [load EXCEPT !.pc = to]
      BY <1>4 DEF LoadStep
    <2>2. to \in {"idle", "init", "promote", "reinit", "setlast"}
      BY SMT
    <2>3. load' \in LoadState /\ load'.pc = to /\ load'.dump = load.dump
      BY <1>2, <2>1, <2>2 DEF LoadState
    <2> QED
      BY <1>1, <1>2, <1>4, <2>3
  <1> QED
    BY <1>3, <1>4

(* While a dump is loaded, the master does not know the replica's position. *)
LEMMA LoadingDead ==
  ASSUME IInv, load.pc # "idle", ~overlap
  PROVE  /\ Serial(Master, job, load, rdb, rpol, rulog, kpropd)
         /\ Dead(Master, LastPos(rulog))
  <1>1. Serial(Master, job, load, rdb, rpol, rulog, kpropd) /\ Busy(job, load)
    BY Parts DEF Busy
  <1> QED
    BY <1>1 DEF Serial

(* reset_ulog() on the replica. *)
LEMMA ResetDead ==
  ASSUME IInv, NEW u \in Contents, rulog' = Fresh(u, ReplicaTime)
  PROVE  /\ rulog' \in Contents /\ rulog'.num # 0 /\ Dead(Master, LastPos(rulog'))
         /\ \A db, pol : Told(Master, db, pol, LastPos(rulog'))
  <1>1. rulog' \in Contents /\ rulog'.num # 0 /\ LastPos(rulog').time = 0
    BY ReplicaReset
  <1> QED
    BY <1>1, Parts, NotTold

(* kdb5_util load began.                                                     *)
LEMMA LoadInitStep ==
  ASSUME IInv, LoadInit
  PROVE  IInv'
  <1>1. /\ LoadStep("init", "promote") /\ rulog' = Fresh(rulog, ReplicaTime)
        /\ rdb' = rdb /\ rpol' = rpol
    BY DEF LoadInit, ResetReplicaLog
  <1>2. rdb \in Database /\ rpol \in 0 .. MaxPol /\ rulog \in Contents
    BY Parts
  <1>3. /\ "promote" \in {"idle", "promote", "reinit", "setlast"} /\ "init" # "idle"
        /\ "promote" # "idle" /\ "promote" \notin {"reinit", "setlast"}
    BY SMT
  <1>4. rulog' \in Contents /\ rulog'.num # 0 /\ Dead(Master, LastPos(rulog'))
    BY <1>1, <1>2, ResetDead
  <1>5. /\ load.pc = "init" /\ UNCHANGED master
        /\ UNCHANGED <<dumpfile, job, overlap, kpropd, frrequested>>
        /\ losses' \in 0 .. MaxLoss /\ deaths' \in 0 .. MaxDeath
        /\ load' \in LoadState /\ load'.pc = "promote" /\ load'.dump = load.dump
    BY <1>1, <1>3, LoadStepIs
  <1> QED
    BY <1>1, <1>2, <1>3, <1>4, <1>5, LoadMoves

(* The new database took the place of the old one.                           *)
LEMMA LoadPromoteStep ==
  ASSUME IInv, LoadPromote
  PROVE  IInv'
  <1>1. /\ LoadStep("promote", "reinit") /\ rulog' = rulog
        /\ rdb' = load.dump.db /\ rpol' = load.dump.pol
    BY DEF LoadPromote
  <1>2. rulog \in Contents /\ rulog.num # 0 /\ load \in LoadState
    BY Parts
  <1>3. rdb' \in Database /\ rpol' \in 0 .. MaxPol
    BY <1>1, <1>2, LoadTypes, DumpTypes
  <1>4. /\ "reinit" \in {"idle", "promote", "reinit", "setlast"} /\ "promote" # "idle"
        /\ "reinit" # "idle"
    BY SMT
  <1>5. /\ load.pc = "promote" /\ UNCHANGED master
        /\ UNCHANGED <<dumpfile, job, overlap, kpropd, frrequested>>
        /\ losses' \in 0 .. MaxLoss /\ deaths' \in 0 .. MaxDeath
        /\ load' \in LoadState /\ load'.pc = "reinit" /\ load'.dump = load.dump
    BY <1>1, <1>4, LoadStepIs
  <1>6. ~overlap => Dead(Master, LastPos(rulog'))
    BY <1>1, <1>4, <1>5, LoadingDead
  <1> QED
    BY <1>1, <1>2, <1>3, <1>4, <1>5, <1>6, LoadMoves

(* The log of the replica was reset.                                         *)
LEMMA LoadReinitStep ==
  ASSUME IInv, LoadReinit
  PROVE  IInv'
  <1>1. /\ LoadStep("reinit", "setlast") /\ rulog' = Fresh(rulog, ReplicaTime)
        /\ rdb' = rdb /\ rpol' = rpol
    BY DEF LoadReinit, ResetReplicaLog
  <1>2. rdb \in Database /\ rpol \in 0 .. MaxPol /\ rulog \in Contents
    BY Parts
  <1>3. /\ "setlast" \in {"idle", "promote", "reinit", "setlast"} /\ "reinit" # "idle"
        /\ "setlast" # "idle" /\ "reinit" \in {"reinit", "setlast"}
    BY SMT
  <1>4. rulog' \in Contents /\ rulog'.num # 0 /\ Dead(Master, LastPos(rulog'))
    BY <1>1, <1>2, ResetDead
  <1>5. /\ load.pc = "reinit" /\ UNCHANGED master
        /\ UNCHANGED <<dumpfile, job, overlap, kpropd, frrequested>>
        /\ losses' \in 0 .. MaxLoss /\ deaths' \in 0 .. MaxDeath
        /\ load' \in LoadState /\ load'.pc = "setlast" /\ load'.dump = load.dump
    BY <1>1, <1>3, LoadStepIs
  <1>6. ~overlap => rdb' = load'.dump.db /\ rpol' = load'.dump.pol
    BY <1>1, <1>3, <1>5, LoadingDead DEF Serial
  <1> QED
    BY <1>1, <1>2, <1>3, <1>4, <1>5, <1>6, LoadMoves

(* The position of the dump was put in the log of the replica.               *)
LEMMA LoadSetLastStep ==
  ASSUME IInv, LoadSetLast
  PROVE  IInv'
  <1> DEFINE pos == load.dump.last
  <1>1. /\ LoadStep("setlast", "idle") /\ rulog' = SetDummy(rulog, pos.sno, pos.time)
        /\ rdb' = rdb /\ rpol' = rpol
    BY DEF LoadSetLast
  <1>2. /\ rdb \in Database /\ rpol \in 0 .. MaxPol /\ rulog \in Contents
        /\ load \in LoadState /\ Dumped(Master, dumpfile, job, load)
    BY Parts
  <1>3. /\ "idle" \in {"idle", "promote", "reinit", "setlast"} /\ "setlast" # "idle"
        /\ "setlast" \in {"reinit", "setlast"} /\ "idle" \notin {"reinit", "setlast"}
    BY SMT
  <1>4. pos \in Position /\ pos.sno \in Sno /\ pos.time \in Nat
    <2>1. pos \in Position
      BY <1>2, LoadTypes, DumpTypes
    <2> QED
      BY <2>1 DEF Position
  <1>5. pos = [sno |-> pos.sno, time |-> pos.time]
    <2> HIDE DEF pos
    <2> QED
      BY ONLY <1>4 DEF Position
  <1>6. rulog' \in Contents /\ rulog'.num # 0 /\ LastPos(rulog') = pos
    <2>1. Started(rulog', rulog.ent, pos.sno, pos.time, rulog.state)
      BY <1>1, <1>2, <1>4, SetDummyStarts
    <2>2. /\ rulog' \in Contents /\ rulog'.num = 1
          /\ rulog'.last_sno = pos.sno /\ rulog'.last_time = pos.time
      BY <2>1 DEF Started
    <2>3. LastPos(rulog') = pos
      BY <1>5, <2>2 DEF LastPos
    <2>4. 1 # 0
      BY SMT
    <2> QED
      BY <2>2, <2>3, <2>4
  <1>7. /\ load.pc = "setlast" /\ UNCHANGED master
        /\ UNCHANGED <<dumpfile, job, overlap, kpropd, frrequested>>
        /\ losses' \in 0 .. MaxLoss /\ deaths' \in 0 .. MaxDeath
        /\ load' \in LoadState /\ load'.pc = "idle" /\ load' = NoLoad
    BY <1>1, <1>3, LoadStepIs
  <1>8. ~overlap => Told(Master, rdb', rpol', LastPos(rulog'))
    <2>1. ~overlap => rdb = load.dump.db /\ rpol = load.dump.pol
      BY <1>3, <1>7, LoadingDead DEF Serial
    <2> QED
      BY <1>1, <1>2, <1>6, <2>1 DEF Dumped
  <1> QED
    BY <1>1, <1>2, <1>3, <1>6, <1>7, <1>8, LoadMoves

(* kdb5_util load died.                                                      *)
LEMMA LoadDiesStep ==
  ASSUME IInv, LoadDies
  PROVE  IInv'
  <1>1. /\ Dies /\ load.pc # "idle" /\ load' = NoLoad /\ UNCHANGED master
        /\ UNCHANGED <<dumpfile, job, overlap, kpropd, frrequested>>
        /\ rdb' = rdb /\ rpol' = rpol /\ rulog' = rulog
    BY DEF LoadDies, resync, replica, poller
  <1>2. /\ rdb \in Database /\ rpol \in 0 .. MaxPol /\ rulog \in Contents /\ rulog.num # 0
        /\ losses' \in 0 .. MaxLoss /\ deaths' \in 0 .. MaxDeath
    BY <1>1, Parts, DiesBounds
  <1>3. load' \in LoadState /\ load'.pc \notin {"reinit", "setlast"}
    <2>1. "idle" \notin {"reinit", "setlast"}
      BY SMT
    <2> QED
      BY <1>1, <2>1, Blanks
  <1>4. ~overlap => Dead(Master, LastPos(rulog'))
    BY <1>1, LoadingDead
  <1> QED
    BY <1>1, <1>2, <1>3, <1>4, LoadMoves

-----------------------------------------------------------------------------
(* The steps of do_iprop().                                                   *)

(* What is true of a replica whose kpropd is about to poll. *)
Quiet(m, jb, ld, db, pol, u) ==
    /\ Single(jb, ld) /\ (Busy(jb, ld) => Dead(m, LastPos(u)))
    /\ ld.pc \in {"reinit", "setlast"} => db = ld.dump.db /\ pol = ld.dump.pol
    /\ Told(m, db, pol, LastPos(u))

(* kpropd goes back to sleep.                                                *)
LEMMA PollMoves ==
  ASSUME IInv, UNCHANGED master, UNCHANGED <<dumpfile, load, rpol>>,
         kpropd' = AtPoll, frrequested' \in BOOLEAN, overlap' \in BOOLEAN,
         losses' \in 0 .. MaxLoss, deaths' \in 0 .. MaxDeath,
         job' \in [Jobs -> JobState], Dumped(Master, dumpfile, job', load),
         rdb' \in Database, rulog' \in Contents, rulog'.num # 0,
         ~overlap' => Quiet(Master, job', load, rdb', rpol, rulog')
  PROVE  IInv'
  <1>1. dumpfile \in Dump /\ load \in LoadState /\ rpol \in 0 .. MaxPol
    BY Parts
  <1>2. ASSUME ~overlap'
        PROVE  Serial(Master, job', load, rdb', rpol, rulog', AtPoll)
    BY <1>2, Blanks, PollSerial DEF Quiet
  <1>3. dumpfile' = dumpfile /\ load' = load /\ rpol' = rpol
    OBVIOUS
  <1>4. /\ Dumped(Master, dumpfile', job', load')
        /\ ~overlap' => Serial(Master, job', load', rdb', rpol', rulog', kpropd')
    BY ONLY <1>2, <1>3, kpropd' = AtPoll, Dumped(Master, dumpfile, job', load)
  <1>5. /\ dumpfile' \in Dump /\ load' \in LoadState /\ rpol' \in 0 .. MaxPol
        /\ kpropd' \in PollState /\ AllUpdates(kpropd'.reply.updates)
    BY <1>1, <1>3, Blanks
  <1> QED
    BY <1>4, <1>5, FarStep

(* The replica and its resyncs as they are. *)
LEMMA QuietNow ==
  ASSUME IInv
  PROVE  ~overlap => Quiet(Master, job, load, rdb, rpol, rulog)
  BY Parts DEF Serial, Quiet

(* kpropd starts over, and nothing else happens. *)
LEMMA PollOnly ==
  ASSUME IInv, UNCHANGED master, UNCHANGED <<dumpfile, job, overlap, load, replica>>,
         kpropd' = AtPoll, frrequested' \in BOOLEAN,
         losses' \in 0 .. MaxLoss, deaths' \in 0 .. MaxDeath
  PROVE  IInv'
  <1>1. /\ job' = job /\ overlap' = overlap /\ dumpfile' = dumpfile /\ load' = load
        /\ rdb' = rdb /\ rpol' = rpol /\ rulog' = rulog
    BY DEF replica
  <1>2. /\ job \in [Jobs -> JobState] /\ overlap \in BOOLEAN
        /\ Dumped(Master, dumpfile, job, load)
        /\ rdb \in Database /\ rulog \in Contents /\ rulog.num # 0
    BY Parts
  <1>3. /\ ~overlap' => Quiet(Master, job', load, rdb', rpol, rulog')
        /\ Dumped(Master, dumpfile, job', load)
    <2>1. ~overlap => Quiet(Master, job, load, rdb, rpol, rulog)
      BY QuietNow
    <2> QED
      BY ONLY <1>1, <1>2, <2>1
  <1>4. /\ job' \in [Jobs -> JobState] /\ overlap' \in BOOLEAN
        /\ rdb' \in Database /\ rulog' \in Contents /\ rulog'.num # 0
    BY <1>1, <1>2
  <1> QED
    BY <1>1, <1>3, <1>4, PollMoves

(* A lost call is counted.                                                   *)
LEMMA LossesBounds ==
  ASSUME losses \in 0 .. MaxLoss, losses < MaxLoss, losses' = losses + 1
  PROVE  losses' \in 0 .. MaxLoss
  <1>1. MaxLoss \in Nat
    BY IpropAssumption DEF IpropAssumption
  <1> QED
    BY <1>1, SMT

(* The call or its answer was lost.                                          *)
LEMMA CallFailsStep ==
  ASSUME IInv, CallFails
  PROVE  IInv'
  <1>1. /\ losses < MaxLoss /\ losses' = losses + 1 /\ deaths' = deaths
        /\ kpropd' = AtPoll /\ frrequested' = frrequested /\ UNCHANGED master
        /\ UNCHANGED <<dumpfile, job, overlap, load, replica>>
    BY DEF CallFails, resync
  <1>2. losses' \in 0 .. MaxLoss /\ deaths' \in 0 .. MaxDeath /\ frrequested' \in BOOLEAN
    BY <1>1, Parts, LossesBounds
  <1> QED
    BY <1>1, <1>2, PollOnly

(* kpropd waits for the full resync it asked for.                            *)
LEMMA StillWaitingStep ==
  ASSUME IInv, StillWaiting
  PROVE  IInv'
  <1>1. /\ losses' = losses /\ deaths' = deaths
        /\ kpropd' = AtPoll /\ frrequested' = frrequested /\ UNCHANGED master
        /\ UNCHANGED <<dumpfile, job, overlap, load, replica>>
    BY DEF StillWaiting, Replied, bounds
  <1>2. losses' \in 0 .. MaxLoss /\ deaths' \in 0 .. MaxDeath /\ frrequested' \in BOOLEAN
    BY <1>1, Parts
  <1> QED
    BY <1>1, <1>2, PollOnly

(* The call for a full resync was lost.                                      *)
LEMMA FullResyncFailsStep ==
  ASSUME IInv, FullResyncFails
  PROVE  IInv'
  <1>1. /\ losses < MaxLoss /\ losses' = losses + 1 /\ deaths' = deaths
        /\ kpropd' = AtPoll /\ frrequested' = TRUE /\ UNCHANGED master
        /\ UNCHANGED <<dumpfile, job, overlap, load, replica>>
    BY DEF FullResyncFails, Replied
  <1>2. losses' \in 0 .. MaxLoss /\ deaths' \in 0 .. MaxDeath /\ frrequested' \in BOOLEAN
    BY <1>1, Parts, LossesBounds
  <1> QED
    BY <1>1, <1>2, PollOnly

(* The answer was that nothing is new.                                       *)
LEMMA InSyncStep ==
  ASSUME IInv, InSync
  PROVE  IInv'
  <1>1. /\ losses' = losses /\ deaths' = deaths
        /\ kpropd' = AtPoll /\ frrequested' = FALSE /\ UNCHANGED master
        /\ UNCHANGED <<dumpfile, job, overlap, load, replica>>
    BY DEF InSync, Replied, bounds
  <1>2. losses' \in 0 .. MaxLoss /\ deaths' \in 0 .. MaxDeath /\ frrequested' \in BOOLEAN
    BY <1>1, Parts
  <1> QED
    BY <1>1, <1>2, PollOnly

(* The master was asked for a full resync.                                   *)
LEMMA FullResyncStep ==
  ASSUME IInv, NEW j \in Jobs, FullResync(j)
  PROVE  IInv'
  <1> DEFINE js == JobAt("check")
  <1>1. /\ kpropd.pc = "reply" /\ kpropd.reply.ret = "FULL_RESYNC" /\ kpropd' = AtPoll
        /\ UNCHANGED master /\ UNCHANGED <<dumpfile, load, rpol>>
        /\ frrequested' = TRUE /\ job' = [job EXCEPT ![j] = js]
        /\ rdb' = rdb /\ rulog' = rulog /\ losses' = losses /\ deaths' = deaths
        /\ overlap' = (\/ overlap \/ kpropd.mylast # LastPos(rulog)
                       \/ load.pc # "idle" \/ \E k \in Jobs : job[k].pc # "idle")
    BY DEF FullResync, Replied, replica, bounds
  <1>2. /\ job \in [Jobs -> JobState] /\ Dumped(Master, dumpfile, job, load)
        /\ rdb \in Database /\ rulog \in Contents /\ rulog.num # 0
        /\ losses \in 0 .. MaxLoss /\ deaths \in 0 .. MaxDeath
        /\ ~overlap => Serial(Master, job, load, rdb, rpol, rulog, kpropd)
    BY Parts
  <1>3. /\ "check" \in {"idle", "check", "dump", "princs", "pols", "send"}
        /\ "check" # "princs" /\ "check" # "pols" /\ "idle" \notin {"reinit", "setlast"}
    BY SMT
  <1>4. js \in JobState /\ js.pc = "check"
    BY <1>3, JobAtType
  <1> HIDE DEF js
  <1>5. job' \in [Jobs -> JobState]
    BY <1>1, <1>2, <1>4
  <1>6. Dumped(Master, dumpfile, job', load)
    <2>1. /\ Told(Master, dumpfile.db, dumpfile.pol, dumpfile.last)
          /\ Told(Master, load.dump.db, load.dump.pol, load.dump.last)
      BY <1>2 DEF Dumped
    <2>2. js.pc # "princs" /\ js.pc # "pols"
      BY <1>3, <1>4
    <2>3. Dumped(Master, dumpfile, [job EXCEPT ![j] = js], load)
      BY ONLY j \in Jobs, <1>2, <2>1, <2>2, JobDumped, Zenon
    <2> QED
      BY <1>1, <2>3
  <1>7. overlap' \in BOOLEAN
    BY <1>1
  <1>8. ASSUME ~overlap'
        PROVE  Quiet(Master, job', load, rdb, rpol, rulog)
    <2>1. /\ ~overlap /\ kpropd.mylast = LastPos(rulog) /\ load.pc = "idle"
          /\ \A k \in Jobs : job[k].pc = "idle"
      BY <1>1, <1>8
    <2>2. Serial(Master, job, load, rdb, rpol, rulog, kpropd)
      BY <1>2, <2>1
    <2>3. Dead(Master, LastPos(rulog)) /\ Told(Master, rdb, rpol, LastPos(rulog))
      BY <1>1, <2>1, <2>2 DEF Serial, Polled
    <2>4. \A k \in Jobs : k # j => job'[k] = job[k]
      BY <1>1, <1>2
    <2>5. Single(job', load)
      BY <2>1, <2>4 DEF Single
    <2> QED
      BY <1>3, <2>1, <2>3, <2>5 DEF Quiet
  <1>9. ~overlap' => Quiet(Master, job', load, rdb', rpol, rulog')
    BY <1>1, <1>8
  <1>10. /\ rdb' \in Database /\ rulog' \in Contents /\ rulog'.num # 0
         /\ losses' \in 0 .. MaxLoss /\ deaths' \in 0 .. MaxDeath
         /\ frrequested' \in BOOLEAN
    BY <1>1, <1>2
  <1> QED
    BY <1>1, <1>5, <1>6, <1>7, <1>9, <1>10, PollMoves

(* A step of kpropd that changes the replica. *)
LEMMA ReplicaMoves ==
  ASSUME IInv, UNCHANGED master, UNCHANGED <<dumpfile, load, rpol>>, kpropd' = AtPoll,
         job' = job, overlap' = overlap, frrequested' \in BOOLEAN,
         losses' \in 0 .. MaxLoss, deaths' \in 0 .. MaxDeath,
         rdb' \in Database, rulog' \in Contents, rulog'.num # 0,
         ~overlap => \/ /\ rdb' = rdb
                        /\ LastPos(rulog') = LastPos(rulog) \/ LastPos(rulog').time = 0
                     \/ ~Busy(job, load) /\ Told(Master, rdb', rpol, LastPos(rulog'))
  PROVE  IInv'
  <1>1. /\ Master \in MasterState /\ Ring(Master.ulog, Master.now)
        /\ job \in [Jobs -> JobState] /\ overlap \in BOOLEAN
        /\ Dumped(Master, dumpfile, job, load)
    BY Parts
  <1>2. ASSUME ~overlap
        PROVE  Quiet(Master, job, load, rdb', rpol, rulog')
    <2>1. Quiet(Master, job, load, rdb, rpol, rulog)
      BY <1>2, QuietNow
    <2>2. CASE /\ rdb' = rdb
               /\ LastPos(rulog') = LastPos(rulog) \/ LastPos(rulog').time = 0
      <3>1. CASE LastPos(rulog') = LastPos(rulog)
        BY <2>1, <2>2, <3>1 DEF Quiet
      <3>2. CASE LastPos(rulog').time = 0
        <4>1. Dead(Master, LastPos(rulog')) /\ Told(Master, rdb', rpol, LastPos(rulog'))
          BY <1>1, <3>2, NotTold
        <4> QED
          BY <2>1, <2>2, <4>1 DEF Quiet
      <3> QED
        BY <2>2, <3>1, <3>2
    <2>3. CASE ~Busy(job, load) /\ Told(Master, rdb', rpol, LastPos(rulog'))
      <3>1. load.pc = "idle" /\ "idle" \notin {"reinit", "setlast"}
        <4>1. load.pc = "idle"
          BY <2>3 DEF Busy
        <4> QED
          BY <4>1, SMT
      <3> QED
        BY <2>1, <2>3, <3>1 DEF Quiet
    <2> QED
      BY <1>2, <2>2, <2>3
  <1>3. /\ job' \in [Jobs -> JobState] /\ Dumped(Master, dumpfile, job', load)
        /\ overlap' \in BOOLEAN
        /\ ~overlap' => Quiet(Master, job', load, rdb', rpol, rulog')
    BY <1>1, <1>2
  <1> QED
    BY <1>3, PollMoves

(* kpropd died and was started again.                                        *)
LEMMA KpropdDiesStep ==
  ASSUME IInv, KpropdDies
  PROVE  IInv'
  <1>1. /\ Dies /\ kpropd' = AtPoll /\ frrequested' = FALSE
        /\ rulog' = MapReplicaLog(rulog) /\ UNCHANGED master
        /\ UNCHANGED <<dumpfile, load, rpol>> /\ job' = job /\ overlap' = overlap
        /\ rdb' = rdb
    BY DEF KpropdDies, Restart, resync
  <1>2. /\ rdb \in Database /\ rulog \in Contents /\ rulog.num # 0
        /\ losses' \in 0 .. MaxLoss /\ deaths' \in 0 .. MaxDeath
    BY <1>1, Parts, DiesBounds
  <1>3. /\ rulog' \in Contents /\ rulog'.num # 0
        /\ LastPos(rulog') = LastPos(rulog) \/ LastPos(rulog').time = 0
    BY <1>1, <1>2, MapReplica
  <1>4. rdb' \in Database /\ frrequested' \in BOOLEAN
    BY <1>1, <1>2
  <1> QED
    BY <1>1, <1>2, <1>3, <1>4, ReplicaMoves

(* Where ulog_replay() is after n turns, and what it may say of itself. *)
LEMMA ReplayTold ==
  ASSUME IInv, kpropd.pc = "reply", kpropd.reply.ret = "OK",
         NEW n \in 0 .. Len(kpropd.reply.updates)
  PROVE  LET updates == kpropd.reply.updates
             r == Replayed(updates, n)
             pos == LastPos(rulog)
         IN /\ r \in Replica /\ r.ulog.num # 0
            /\ LastPos(r.ulog) = At(pos, updates, n)
            /\ ~overlap => /\ ~Busy(job, load)
                           /\ Told(Master, r.db, rpol, At(pos, updates, n))
                           /\ n # 0 => Told(Master, r.db, rpol, At(pos, updates, n - 1))
  <1> DEFINE updates == kpropd.reply.updates
             r == Replayed(updates, n)
             pos == LastPos(rulog)
  <1>1. /\ rdb \in Database /\ rulog \in Contents /\ rulog.num # 0 /\ AllUpdates(updates)
        /\ ~overlap => Serial(Master, job, load, rdb, rpol, rulog, kpropd)
    BY Parts
  <1>2. Reached(updates, n, r)
    BY <1>1, ReplayedIs
  <1>3. "OK" # "FULL_RESYNC"
    BY SMT
  <1>4. ~overlap => ~Busy(job, load) /\ Served(Master, rdb, rpol, pos, updates)
    BY <1>1, <1>3 DEF Serial, Polled
  <1> HIDE DEF r, updates, pos
  <1>5. /\ r \in Replica /\ r.ulog.num # 0
        /\ \A p \in Princ : Leaves(Sent(updates), 0, n, rdb[p], p, r.db[p])
    BY <1>2 DEF Reached
  <1>6. LastPos(r.ulog) = At(pos, updates, n)
    BY <1>2 DEF Reached, At, pos
  <1>7. r.db \in Database
    BY <1>5 DEF Replica
  <1>8. n \in 0 .. Len(updates)
    BY DEF updates
  <1>9. ~overlap => /\ Told(Master, r.db, rpol, At(pos, updates, n))
                    /\ n # 0 => Told(Master, r.db, rpol, At(pos, updates, n - 1))
    BY <1>4, <1>5, <1>7, <1>8 DEF Served
  <1> QED
    BY <1>4, <1>5, <1>6, <1>9 DEF r, updates, pos

(* ulog_replay() of a whole answer.                                          *)
LEMMA ReplayStep ==
  ASSUME IInv, Replay
  PROVE  IInv'
  <1> DEFINE updates == kpropd.reply.updates
  <1>1. /\ kpropd.pc = "reply" /\ kpropd.reply.ret = "OK" /\ kpropd' = AtPoll
        /\ UNCHANGED master /\ UNCHANGED <<dumpfile, load, rpol>>
        /\ job' = job /\ overlap' = overlap /\ frrequested' = FALSE
        /\ losses' = losses /\ deaths' = deaths
    BY DEF Replay, Replied, bounds
  <1>2. PICK n \in 0 .. Len(updates) :
           rdb' = Replayed(updates, n).db /\ rulog' = Replayed(updates, n).ulog
    BY DEF Replay
  <1> DEFINE r == Replayed(updates, n)
  <1>3. /\ r \in Replica /\ r.ulog.num # 0
        /\ ~overlap => ~Busy(job, load) /\ Told(Master, r.db, rpol, LastPos(r.ulog))
    BY <1>1, ReplayTold
  <1> HIDE DEF r
  <1>4. rdb' = r.db /\ rulog' = r.ulog
    BY <1>2 DEF r
  <1>5. /\ rdb' \in Database /\ rulog' \in Contents /\ rulog'.num # 0
        /\ ~overlap => ~Busy(job, load) /\ Told(Master, rdb', rpol, LastPos(rulog'))
    BY <1>3, <1>4 DEF Replica
  <1>6. /\ losses' \in 0 .. MaxLoss /\ deaths' \in 0 .. MaxDeath
        /\ frrequested' \in BOOLEAN
    BY <1>1, Parts
  <1> QED
    BY <1>1, <1>5, <1>6, ReplicaMoves

(* One turn of the loop starts where the one before ended. *)
LEMMA TurnParts ==
  ASSUME IInv, NEW k \in 1 .. Len(kpropd.reply.updates)
  PROVE  /\ k \in 0 .. Len(kpropd.reply.updates) /\ k # 0
         /\ k - 1 \in 0 .. Len(kpropd.reply.updates)
         /\ kpropd.reply.updates[k] \in Entry /\ kpropd.reply.updates[k].upd \in Update
         /\ \A pos : At(pos, kpropd.reply.updates, k) = PosOf(kpropd.reply.updates[k])
  <1>1. AllUpdates(kpropd.reply.updates)
    BY Parts
  <1>2. /\ kpropd.reply.updates[k] \in Entry /\ kpropd.reply.updates[k].upd \in Update
        /\ Len(kpropd.reply.updates) \in Nat
    BY <1>1 DEF AllUpdates
  <1>3. /\ k \in 0 .. Len(kpropd.reply.updates) /\ k # 0
        /\ k - 1 \in 0 .. Len(kpropd.reply.updates)
    BY <1>2, SMT
  <1> QED
    BY <1>2, <1>3 DEF At

(* ulog_replay() of the first updates of an answer.                          *)
LEMMA ReplayFailsStep ==
  ASSUME IInv, ReplayFails
  PROVE  IInv'
  <1> DEFINE updates == kpropd.reply.updates
  <1>1. /\ kpropd.pc = "reply" /\ kpropd.reply.ret = "OK" /\ kpropd' = AtPoll
        /\ UNCHANGED master /\ UNCHANGED <<dumpfile, load, rpol>>
        /\ job' = job /\ overlap' = overlap /\ frrequested' = FALSE /\ Dies
    BY DEF ReplayFails, Replied
  <1> DEFINE R(k) == Replayed(updates, k - 1)
             B(k) == BeforeStore(R(k).ulog, updates[k])
             U(k) == Writing(B(k), updates[k], [updates[k] EXCEPT !.commit = FALSE])
  <1>2. PICK k \in 1 .. Len(updates) :
           \/ rdb' = R(k).db /\ rulog' = Fresh(R(k).ulog, ReplicaTime)
           \/ /\ rdb' = Put(R(k).db, updates[k].upd)
              /\ rulog' = Fresh(U(k), ReplicaTime)
    BY DEF ReplayFails
  <1> DEFINE e == updates[k]
             r == R(k)
             b == B(k)
             u == U(k)
  <1>3. k - 1 \in 0 .. Len(updates) /\ e \in Entry /\ e.upd \in Update
    BY TurnParts
  <1>4. r \in Replica /\ r.ulog.num # 0 /\ (~overlap => ~Busy(job, load))
    BY <1>1, <1>3, ReplayTold
  <1>5. /\ b = BeforeStore(r.ulog, e)
        /\ u = Writing(b, e, [e EXCEPT !.commit = FALSE])
        /\ \/ rdb' = r.db /\ rulog' = Fresh(r.ulog, ReplicaTime)
           \/ rdb' = Put(r.db, e.upd) /\ rulog' = Fresh(u, ReplicaTime)
    BY <1>2
  <1> HIDE DEF e, r, b, u
  <1>6. r.db \in Database /\ r.ulog \in Contents
    BY <1>4 DEF Replica
  <1>7. Put(r.db, e.upd) \in Database
    BY <1>3, <1>6, PutType
  <1>8. u \in Contents
    <2>1. b \in Contents
      BY <1>3, <1>4, <1>5, <1>6, BeforeStoreIs
    <2>2. [e EXCEPT !.commit = FALSE] \in Entry
      BY <1>3 DEF Entry
    <2>3. Written(b, e, [e EXCEPT !.commit = FALSE], u)
      BY <1>3, <1>5, <2>1, <2>2, WritingIs
    <2> QED
      BY <2>3 DEF Written
  <1>9. rdb' \in Database
    BY <1>5, <1>6, <1>7
  <1>10. /\ rulog' \in Contents /\ rulog'.num # 0
         /\ Told(Master, rdb', rpol, LastPos(rulog'))
    BY <1>5, <1>6, <1>8, ResetDead
  <1>11. /\ losses' \in 0 .. MaxLoss /\ deaths' \in 0 .. MaxDeath
         /\ frrequested' \in BOOLEAN
    BY <1>1, Parts, DiesBounds
  <1> QED
    BY <1>1, <1>4, <1>9, <1>10, <1>11, ReplicaMoves

(* kpropd died within ulog_replay().                                         *)
LEMMA ReplayDiesStep ==
  ASSUME IInv, ReplayDies
  PROVE  IInv'
  <1> DEFINE updates == kpropd.reply.updates
             pos == LastPos(rulog)
  <1>1. /\ kpropd.pc = "reply" /\ kpropd.reply.ret = "OK" /\ kpropd' = AtPoll
        /\ UNCHANGED master /\ UNCHANGED <<dumpfile, load, rpol>>
        /\ job' = job /\ overlap' = overlap /\ frrequested' = FALSE /\ Dies
    BY DEF ReplayDies, Restart, resync
  <1>2. PICK k \in 1 .. Len(updates) :
           /\ rdb' = Replayed(updates, k).db
           /\ \E u \in StoreInterrupted(BeforeStore(Replayed(updates, k - 1).ulog, updates[k]),
                                        updates[k]) \cup {Replayed(updates, k).ulog} :
                rulog' = MapReplicaLog(u)
    BY DEF ReplayDies
  <1> DEFINE e == updates[k]
             q == Replayed(updates, k - 1)
             r == Replayed(updates, k)
             b == BeforeStore(q.ulog, e)
             T(x) == Told(Master, r.db, rpol, x)
  <1>3. /\ k \in 0 .. Len(updates) /\ k # 0 /\ k - 1 \in 0 .. Len(updates)
        /\ e \in Entry /\ At(pos, updates, k) = PosOf(e)
    BY TurnParts
  <1>4. q \in Replica /\ q.ulog.num # 0 /\ LastPos(q.ulog) = At(pos, updates, k - 1)
    BY <1>1, <1>3, ReplayTold
  <1>5. /\ r \in Replica /\ r.ulog.num # 0 /\ LastPos(r.ulog) = PosOf(e)
        /\ ~overlap => ~Busy(job, load) /\ T(PosOf(e)) /\ T(At(pos, updates, k - 1))
    BY <1>1, <1>3, ReplayTold
  <1>6. ~overlap => ~Busy(job, load) /\ T(PosOf(e)) /\ T(LastPos(q.ulog))
    BY <1>4, <1>5
  <1>7. PICK u \in StoreInterrupted(b, e) \cup {r.ulog} : rulog' = MapReplicaLog(u)
    BY <1>2
  <1>8. rdb' = r.db
    BY <1>2
  <1> HIDE DEF e, q, r, updates, pos
  <1>9. q.ulog \in Contents /\ r.ulog \in Contents /\ rdb' \in Database
    BY <1>4, <1>5, <1>8 DEF Replica
  <1>10. /\ b \in Contents /\ b.num # 0
         /\ LastPos(b) = LastPos(q.ulog) \/ LastPos(b).time = 0
    BY <1>3, <1>4, <1>9, BeforeStoreIs
  <1> HIDE DEF b
  <1>11. /\ rulog' \in Contents /\ rulog'.num # 0
         /\ \/ LastPos(rulog') \in {LastPos(q.ulog), PosOf(e)}
            \/ LastPos(rulog').time = 0
    <2>1. CASE u \in StoreInterrupted(b, e)
      <3>1. /\ rulog' \in Contents /\ rulog'.num # 0
            /\ LastPos(rulog') \in {LastPos(b), PosOf(e)} \/ LastPos(rulog').time = 0
        BY <1>3, <1>7, <1>10, <2>1, MapInterrupted
      <3> QED
        BY <1>10, <3>1
    <2>2. CASE u = r.ulog
      BY <1>5, <1>7, <1>9, <2>2, MapReplica
    <2> QED
      BY <1>7, <2>1, <2>2
  <1>12. LastPos(rulog').time = 0 => T(LastPos(rulog'))
    <2>1. Master \in MasterState /\ Ring(Master.ulog, Master.now)
      BY Parts
    <2> QED
      BY <1>11, <2>1, NotTold
  <1>13. ~overlap => ~Busy(job, load) /\ T(LastPos(rulog'))
    <2> HIDE DEF T
    <2> QED
      BY <1>6, <1>11, <1>12
  <1>14. ~overlap => ~Busy(job, load) /\ Told(Master, rdb', rpol, LastPos(rulog'))
    BY <1>8, <1>13
  <1>15. /\ losses' \in 0 .. MaxLoss /\ deaths' \in 0 .. MaxDeath
         /\ frrequested' \in BOOLEAN
    BY <1>1, Parts, DiesBounds
  <1> QED
    BY <1>1, <1>9, <1>11, <1>14, <1>15, ReplicaMoves

=============================================================================
