---------------------------- MODULE IpropProofs -----------------------------
(***************************************************************************)
(* Proofs about incremental propagation, for any number of principals,     *)
(* writers and resyncs, any size of the ring and any number of deaths.     *)
(*                                                                         *)
(* The invariant is about positions (Told, Dead and Forth, of              *)
(* IpropLogProofs).  The dumps (Dumped) are always told; the database of   *)
(* the replica is as long as no two resyncs overlapped (Serial), and every *)
(* prefix of an answer that kpropd has yet to replay (Served) leaves it    *)
(* so. IpropStepProofs has the steps that do not ask the master; here are  *)
(* the others, the initial states, and the theorems.                       *)
(***************************************************************************)
EXTENDS IpropStepProofs, TLAPS

(* The leaves are for Zenon, unless they name another prover or say ONLY. *)
USE Zenon

-----------------------------------------------------------------------------
(* What ulog_get_entries() sends.                                             *)

(* The entries after a known position are those of the serial numbers after   *)
(* it.                                                                        *)
Follow(u, t, a, updates) ==
    /\ AllUpdates(updates) /\ updates \in Seq(Entry)
    /\ u.last_sno = a + Len(updates)
    /\ \A k \in 1 .. Len(updates) :
         /\ updates[k].sno = a + k /\ updates[k].time <= t
         /\ Sent(updates)[k] = Story(u)[k + a]

(* ulog_get_entries() answers with the updates after the position.           *)
LEMMA UpdatesFollow ==
  ASSUME NEW u \in Contents, NEW t \in Nat, Ring(u, t), u.state = "STABLE",
         NEW pos \in Position, CanUpdate(u, pos)
  PROVE  Follow(u, t, pos.sno, Updates(u, pos.sno)) /\ pos.sno \in Nat
  <1> DEFINE a == pos.sno
             L == u.last_sno - a
             updates == Updates(u, a)
  <1>1. /\ u.ent \in [Slots -> Entry] /\ u.last_sno \in Nat /\ u.last_sno \in Sno
        /\ ulogentries \in Nat /\ u.first_sno \in Nat /\ ulogentries >= 1 /\ MaxSno \in Nat
    BY FieldTypes
  <1>2. a \in Nat /\ a \in Sno
    <2>1. a \in Sno
      BY DEF Position
    <2> QED
      BY <2>1, UlogAssumption, SMT DEF Sno
  <1>3. /\ u.num # 0 /\ u.first_sno <= a /\ a <= u.last_sno /\ u.ent[Slot(a)].sno = a
    BY DEF CanUpdate, CheckSno
  <1>4. /\ 1 <= u.first_sno /\ Window(u) /\ Stamped(u.ent, t)
    BY <1>3 DEF Ring
  <1>5. L \in Nat /\ u.last_sno = a + L
    BY ONLY <1>1, <1>2, <1>3
  <1>6. a \in u.first_sno .. u.last_sno
    BY ONLY <1>1, <1>2, <1>3
  <1>7. ~ (a <= u.last_sno - ulogentries)
    BY <1>3, <1>4, <1>6 DEF Window
  <1>8. Lag(u) = 0
    BY SMT DEF Lag
  <1>9. updates = [i \in 1 .. L |-> u.ent[(a + i - 1) % ulogentries]]
    BY DEF Updates
  <1> HIDE DEF L, updates
  <1>10. ASSUME NEW k \in 1 .. L
         PROVE  /\ updates[k] = u.ent[Slot(a + k)] /\ Slot(a + k) \in Slots
                /\ a + k \in 1 .. MaxSno /\ updates[k].sno = a + k
                /\ updates[k].upd \in Update
    <2>1. /\ a + k \in Sno /\ a + k # 0 /\ a + k \in 1 .. MaxSno
          /\ a + k \in u.first_sno .. u.last_sno /\ a + k > u.first_sno
          /\ a + k > u.last_sno - ulogentries + 0
      <3>1. u.last_sno <= MaxSno
        BY ONLY <1>1 DEF Sno
      <3>2. k \in Nat /\ 1 <= k /\ k <= L
        BY <1>5, SMT
      <3> QED
        BY ONLY <1>1, <1>2, <1>3, <1>5, <1>7, <3>1, <3>2 DEF Sno
    <2>2. Slot(a + k) = (a + k - 1) % ulogentries
      <3>1. Slot(a + k) = ((a + k) - 1) % ulogentries
        BY <2>1, SlotIs
      <3>2. (a + k) - 1 = a + k - 1
        BY <1>2, <1>5, SMT
      <3> QED
        BY <3>1, <3>2
    <2>3. updates[k] = u.ent[(a + k - 1) % ulogentries]
      BY <1>9
    <2>4. Holds(u, a + k)
      BY <1>4, <1>8, <2>1 DEF Window
    <2>5. Slot(a + k) \in Slots
      BY <2>1, SlotRange
    <2>6. updates[k] = u.ent[Slot(a + k)]
      BY <2>2, <2>3
    <2> QED
      BY <2>1, <2>4, <2>5, <2>6 DEF Holds
  <1>11. \A k \in 1 .. L : updates[k] \in Entry /\ updates[k].time <= t
    BY <1>1, <1>4, <1>10 DEF Stamped
  <1>12. updates \in Seq(Entry) /\ Len(updates) = L /\ DOMAIN updates = 1 .. L
    <2>1. DOMAIN updates = 1 .. L
      BY <1>9
    <2>2. updates \in [1 .. L -> Entry]
      <3>1. updates = [k \in 1 .. L |-> updates[k]]
        BY <1>9
      <3> QED
        BY ONLY <1>11, <3>1, Zenon
    <2> QED
      BY ONLY <1>5, <2>1, <2>2
  <1>13. AllUpdates(updates)
    BY <1>5, <1>10, <1>11, <1>12 DEF AllUpdates
  <1>14. ASSUME NEW k \in 1 .. L
         PROVE  Sent(updates)[k] = Story(u)[k + a]
    <2>1. Sent(updates)[k] = updates[k].upd
      BY <1>12 DEF Sent
    <2>2. k + a = a + k
      BY <1>2, <1>5, SMT
    <2>3. Story(u)[a + k] = u.ent[Slot(a + k)].upd
      BY <1>10 DEF Story
    <2> QED
      BY <1>10, <2>1, <2>2, <2>3
  <1>15. \A k \in 1 .. Len(updates) :
            /\ updates[k].sno = a + k /\ updates[k].time <= t
            /\ Sent(updates)[k] = Story(u)[k + a]
    BY <1>10, <1>11, <1>12, <1>14
  <1>16. Follow(u, t, a, updates)
    BY <1>5, <1>12, <1>13, <1>15 DEF Follow
  <1> QED
    BY <1>2, <1>16 DEF updates

(* A replica whose position the master knows is served. *)
LEMMA ServedNew ==
  ASSUME NEW m \in MasterState, Ring(m.ulog, m.now), m.ulog.state = "STABLE",
         NEW pos \in Position, CanUpdate(m.ulog, pos),
         NEW db, NEW pol, Told(m, db, pol, pos)
  PROVE  Served(m, db, pol, pos, Updates(m.ulog, pos.sno))
  <1> DEFINE u == m.ulog
             a == pos.sno
             updates == Updates(u, a)
             f == Story(u)
             g == Sent(updates)
             L == Len(updates)
  <1>1. u \in Contents /\ m.now \in Nat
    BY MasterTypes
  <1>2. Follow(u, m.now, a, updates) /\ a \in Nat
    BY <1>1, UpdatesFollow
  <1> HIDE DEF updates
  <1>3. /\ L \in Nat /\ u.last_sno = a + L /\ AllUpdates(updates)
        /\ \A k \in 1 .. L : updates[k] \in Entry /\ updates[k].sno = a + k
        /\ \A k \in 1 .. L : updates[k].time <= m.now /\ g[k] = f[k + a]
    BY <1>2 DEF Follow, AllUpdates
  <1>4. /\ pos.time <= m.now
        /\ ~m.lost => PolTold(m, pol) /\ \A p \in Princ : PrincTold(m, db, pos, p)
    <2>1. "STABLE" # "UNSTABLE"
      BY ONLY TRUE
    <2> QED
      BY <2>1 DEF Told, Known
  <1>5. ASSUME NEW k \in 0 .. L
        PROVE  /\ At(pos, updates, k).sno = a + k
               /\ At(pos, updates, k).time <= m.now
    <2>1. CASE k = 0
      <3>1. At(pos, updates, k) = pos
        BY <2>1 DEF At
      <3>2. a + k = a
        BY ONLY <1>2, <2>1
      <3> QED
        BY <1>4, <3>1, <3>2
    <2>2. CASE k # 0
      <3>1. k \in 1 .. L
        BY <1>3, <2>2, SMT
      <3> QED
        BY <1>3, <2>2, <3>1, PosOfType DEF At
    <2> QED
      BY <2>1, <2>2
  <1>6. SUFFICES ASSUME NEW k \in 0 .. L, NEW d \in Database,
                        \A p \in Princ : Leaves(g, 0, k, db[p], p, d[p])
                 PROVE  /\ Told(m, d, pol, At(pos, updates, k))
                        /\ k # 0 => Told(m, d, pol, At(pos, updates, k - 1))
    BY DEF Served, updates
  <1> DEFINE c == a + k
             n == u.last_sno
  <1>7. /\ k \in Nat /\ c \in Nat /\ n \in Nat /\ a <= c /\ c <= n
        /\ 0 \in Nat /\ a \in Int /\ -a \in Int /\ 0 = a + (-a) /\ k = c + (-a)
        /\ \A i \in a + 1 .. c : i + (-a) \in 1 .. L /\ (i + (-a)) + a = i
        /\ k # 0 => a < c /\ k - 1 \in 0 .. L /\ a + (k - 1) = c - 1
    <2>1. a \in Nat /\ L \in Nat /\ k \in 0 .. L /\ n = a + L /\ c = a + k
      BY <1>2, <1>3
    <2> HIDE DEF a, L, n, c
    <2>2. k \in Nat /\ c \in Nat /\ n \in Nat /\ a <= c /\ c <= n
      BY ONLY <2>1
    <2>3. 0 \in Nat /\ a \in Int /\ -a \in Int /\ 0 = a + (-a) /\ k = c + (-a)
      BY ONLY <2>1
    <2>4. \A i \in a + 1 .. c : i + (-a) \in 1 .. L /\ (i + (-a)) + a = i
      BY ONLY <2>1
    <2>5. k # 0 => a < c /\ k - 1 \in 0 .. L /\ a + (k - 1) = c - 1
      BY ONLY <2>1
    <2> QED
      BY <2>2, <2>3, <2>4, <2>5
  <1>8. \A i \in a + 1 .. c : f[i] = g[i + (-a)]
    BY <1>3, <1>7
  <1> HIDE DEF f, g, L, c, n, u, a
  <1>9. \A p \in Princ : Leaves(f, a, c, db[p], p, d[p])
    BY <1>2, <1>6, <1>7, <1>8, LeavesShift
  <1>10. ASSUME ~m.lost, NEW p \in Princ,
                NEW b, b = c \/ (k # 0 /\ b = c - 1)
         PROVE  \/ Leaves(f, b, n, d[p], p, m.db[p])
                \/ \E w \in Writers : m.writer[w] = AtLog([princ |-> p, val |-> m.db[p]])
    <2>1. CASE Leaves(f, a, n, db[p], p, m.db[p])
      <3>1. a \in Nat /\ n \in Nat /\ c \in Nat /\ a <= c /\ c <= n
        BY <1>2, <1>7
      <3>2. Leaves(f, a, c, db[p], p, d[p])
        BY <1>9
      <3>3. /\ Leaves(f, c, n, d[p], p, m.db[p])
            /\ a < c => Leaves(f, c - 1, n, d[p], p, m.db[p])
        BY ONLY <2>1, <3>1, <3>2, LeavesAfter, Zenon
      <3> QED
        BY <1>7, <1>10, <3>3
    <2> QED
      BY <1>4, <1>10, <2>1 DEF PrincTold, f, a, n, u
  <1>11. ASSUME NEW x, x.time <= m.now, x.sno = c \/ (k # 0 /\ x.sno = c - 1)
         PROVE  Told(m, d, pol, x)
    <2>1. ASSUME ~m.lost, NEW p \in Princ
          PROVE  PrincTold(m, d, x, p)
      <3>1. \/ Leaves(f, x.sno, n, d[p], p, m.db[p])
            \/ \E w \in Writers : m.writer[w] = AtLog([princ |-> p, val |-> m.db[p]])
        BY <1>10, <1>11, <2>1
      <3> QED
        BY <3>1 DEF PrincTold, f, n, u
    <2> QED
      BY <1>4, <1>11, <2>1 DEF Told, Known
  <1>12. Told(m, d, pol, At(pos, updates, k))
    BY <1>5, <1>11 DEF c
  <1>13. ASSUME k # 0
         PROVE  Told(m, d, pol, At(pos, updates, k - 1))
    <2>1. k - 1 \in 0 .. L /\ a + (k - 1) = c - 1
      BY <1>7, <1>13
    <2>2. /\ At(pos, updates, k - 1).sno = a + (k - 1)
          /\ At(pos, updates, k - 1).time <= m.now
      BY <1>5, <2>1
    <2> QED
      BY <1>11, <1>13, <2>1, <2>2
  <1> QED
    BY <1>12, <1>13

-----------------------------------------------------------------------------
(* The steps of do_iprop() that ask.                                          *)

(* kpropd read the position of its log.                                      *)
LEMMA GetLastStep ==
  ASSUME IInv, GetLast
  PROVE  IInv'
  <1> DEFINE pos == LastPos(rulog)
  <1>1. /\ kpropd' = [pc |-> "call", mylast |-> pos, reply |-> NoReply]
        /\ UNCHANGED master
        /\ UNCHANGED <<dumpfile, job, overlap, load, rdb, rpol, rulog, frrequested>>
        /\ losses' = losses /\ deaths' = deaths
    BY DEF GetLast, resync, replica, bounds
  <1>2. /\ dumpfile \in Dump /\ job \in [Jobs -> JobState] /\ load \in LoadState
        /\ rdb \in Database /\ rpol \in 0 .. MaxPol
        /\ rulog \in Contents /\ rulog.num # 0
        /\ frrequested \in BOOLEAN /\ overlap \in BOOLEAN
        /\ losses \in 0 .. MaxLoss /\ deaths \in 0 .. MaxDeath
        /\ Dumped(Master, dumpfile, job, load)
        /\ ~overlap => Serial(Master, job, load, rdb, rpol, rulog, kpropd)
    BY Parts
  <1>3. pos \in Position /\ NoReply \in Reply
    BY <1>2, LastPosType, Blanks
  <1> HIDE DEF pos
  <1>4. /\ kpropd' \in PollState /\ kpropd'.pc = "call" /\ kpropd'.pc # "reply"
        /\ kpropd'.mylast = pos /\ kpropd'.reply = NoReply
    <2>1. kpropd' = [pc |-> "call", mylast |-> pos, reply |-> NoReply]
      BY <1>1
    <2> QED
      BY ONLY <1>3, <2>1 DEF PollState
  <1>5. AllUpdates(kpropd'.reply.updates)
    BY <1>4, Blanks
  <1>6. ASSUME ~overlap
        PROVE  Serial(Master, job, load, rdb, rpol, rulog, kpropd')
    <2>1. Polled(Master, job, load, rulog, kpropd')
      BY <1>4 DEF Polled, pos
    <2> QED
      BY <1>2, <1>4, <1>6, <2>1 DEF Serial
  <1>7. /\ dumpfile' = dumpfile /\ job' = job /\ load' = load /\ overlap' = overlap
        /\ rdb' = rdb /\ rpol' = rpol /\ rulog' = rulog
    BY <1>1
  <1>8. /\ Dumped(Master, dumpfile', job', load')
        /\ ~overlap' => Serial(Master, job', load', rdb', rpol', rulog', kpropd')
    <2>1. Dumped(Master, dumpfile, job, load)
      BY <1>2
    <2> QED
      BY ONLY <1>6, <1>7, <2>1
  <1>9. /\ dumpfile' \in Dump /\ job' \in [Jobs -> JobState] /\ load' \in LoadState
        /\ rdb' \in Database /\ rpol' \in 0 .. MaxPol
        /\ rulog' \in Contents /\ rulog'.num # 0
        /\ frrequested' \in BOOLEAN /\ overlap' \in BOOLEAN
        /\ losses' \in 0 .. MaxLoss /\ deaths' \in 0 .. MaxDeath
    BY <1>1, <1>2, <1>7
  <1> QED
    BY <1>1, <1>4, <1>5, <1>8, <1>9, FarStep

(* kpropd gave up waiting for a full resync.                                 *)
LEMMA ResyncTimeoutStep ==
  ASSUME IInv, ResyncTimeout
  PROVE  IInv'
  <1>1. /\ frrequested' = FALSE /\ UNCHANGED master
        /\ UNCHANGED <<resync, load, replica, kpropd, bounds>>
    BY DEF ResyncTimeout
  <1>2. /\ dumpfile' = dumpfile /\ job' = job /\ load' = load /\ overlap' = overlap
        /\ rdb' = rdb /\ rpol' = rpol /\ rulog' = rulog /\ kpropd' = kpropd
        /\ losses' = losses /\ deaths' = deaths
    BY <1>1 DEF resync, replica, bounds
  <1>3. /\ dumpfile \in Dump /\ job \in [Jobs -> JobState] /\ load \in LoadState
        /\ rdb \in Database /\ rpol \in 0 .. MaxPol
        /\ rulog \in Contents /\ rulog.num # 0
        /\ kpropd \in PollState /\ AllUpdates(kpropd.reply.updates)
        /\ overlap \in BOOLEAN /\ losses \in 0 .. MaxLoss /\ deaths \in 0 .. MaxDeath
    BY Parts
  <1>4. /\ Dumped(Master, dumpfile', job', load')
        /\ ~overlap' => Serial(Master, job', load', rdb', rpol', rulog', kpropd')
    <2>1. /\ Dumped(Master, dumpfile, job, load)
          /\ ~overlap => Serial(Master, job, load, rdb, rpol, rulog, kpropd)
      BY Parts
    <2> QED
      BY ONLY <1>2, <2>1
  <1>5. /\ dumpfile' \in Dump /\ job' \in [Jobs -> JobState] /\ load' \in LoadState
        /\ rdb' \in Database /\ rpol' \in 0 .. MaxPol
        /\ rulog' \in Contents /\ rulog'.num # 0
        /\ kpropd' \in PollState /\ AllUpdates(kpropd'.reply.updates)
        /\ frrequested' \in BOOLEAN /\ overlap' \in BOOLEAN
        /\ losses' \in 0 .. MaxLoss /\ deaths' \in 0 .. MaxDeath
    BY <1>1, <1>2, <1>3
  <1> QED
    BY <1>1, <1>4, <1>5, FarStep

(* A log that is not half-written knows where it ends. *)
LEMMA EndKnown ==
  ASSUME NEW u \in Contents, NEW t, Ring(u, t), u.state = "STABLE"
  PROVE  CanUpdate(u, LastPos(u))
  <1>1. /\ u.num # 0 /\ CheckSno(u, u.last_sno, u.last_time)
        /\ u.first_sno <= u.last_sno
    BY DEF Ring
  <1>2. LastPos(u).sno = u.last_sno /\ LastPos(u).time = u.last_time
    BY SMT DEF LastPos
  <1>3. u.last_sno <= u.last_sno
    BY FieldTypes, SMT
  <1> QED
    BY <1>1, <1>2, <1>3 DEF CanUpdate

(* The three answers. *)
LEMMA AnswerIs ==
  ASSUME NEW u \in Contents, NEW t, Ring(u, t), u.state = "STABLE", NEW pos
  PROVE  /\ GetSnoStatus(u, pos) \in {"NIL", "OK", "FULL_RESYNC"}
         /\ GetSnoStatus(u, pos) = "FULL_RESYNC" => ~CanUpdate(u, pos)
         /\ GetSnoStatus(u, pos) # "FULL_RESYNC" => CanUpdate(u, pos)
         /\ GetSnoStatus(u, pos) = "NIL" => pos = LastPos(u)
  <1>1. "NIL" # "OK" /\ "NIL" # "FULL_RESYNC" /\ "OK" # "FULL_RESYNC"
    BY SMT
  <1>2. pos = LastPos(u) => CanUpdate(u, pos)
    BY EndKnown
  <1>3. CASE UpToDate(u, pos)
    BY <1>1, <1>2, <1>3 DEF GetSnoStatus, UpToDate
  <1>4. CASE ~UpToDate(u, pos) /\ CanUpdate(u, pos)
    BY <1>1, <1>4 DEF GetSnoStatus
  <1>5. CASE ~UpToDate(u, pos) /\ ~CanUpdate(u, pos)
    BY <1>1, <1>5 DEF GetSnoStatus
  <1> QED
    BY <1>3, <1>4, <1>5

(* kadmind answers a poll. *)
LEMMA AnswerSerial ==
  ASSUME NEW m \in MasterState, Ring(m.ulog, m.now), m.ulog.state = "STABLE",
         NEW jb, NEW ld, NEW db, NEW pol, NEW u \in Contents, NEW kp \in PollState,
         kp.pc = "call", Serial(m, jb, ld, db, pol, u, kp),
         NEW kq, kq.pc = "reply", kq.mylast = kp.mylast,
         kq.reply.ret = GetSnoStatus(m.ulog, kp.mylast),
         kq.reply.ret = "OK" => kq.reply.updates = Updates(m.ulog, kp.mylast.sno)
  PROVE  Serial(m, jb, ld, db, pol, u, kq)
  <1> DEFINE pos == kp.mylast
             ret == kq.reply.ret
  <1>1. m.ulog \in Contents /\ pos \in Position
    BY MasterTypes, PollTypes
  <1>2. /\ ret = "FULL_RESYNC" => ~CanUpdate(m.ulog, pos)
        /\ ret # "FULL_RESYNC" => CanUpdate(m.ulog, pos)
    BY <1>1, AnswerIs
  <1>3. /\ Single(jb, ld) /\ (Busy(jb, ld) => Dead(m, LastPos(u)))
        /\ pos = LastPos(u) \/ Dead(m, pos)
        /\ ld.pc \in {"reinit", "setlast"} => db = ld.dump.db /\ pol = ld.dump.pol
        /\ Told(m, db, pol, LastPos(u))
    BY DEF Serial, Polled
  <1>4. pos.time <= m.now
    BY <1>3 DEF Told, Dead
  <1>5. "call" # "reply" /\ "OK" # "FULL_RESYNC"
    BY ONLY TRUE
  <1>6. ret = "FULL_RESYNC" => Dead(m, pos)
    BY <1>2, <1>4 DEF Dead
  <1>7. ret # "FULL_RESYNC" => pos = LastPos(u) /\ ~Busy(jb, ld)
    BY <1>2, <1>3 DEF Dead
  <1>8. Polled(m, jb, ld, u, kq)
    BY <1>5, <1>6, <1>7 DEF Polled
  <1>9. ret = "OK" => Served(m, db, pol, pos, Updates(m.ulog, pos.sno))
    <2>1. ret = "OK" => CanUpdate(m.ulog, pos) /\ Told(m, db, pol, pos)
      BY <1>2, <1>3, <1>5, <1>7
    <2> QED
      BY <1>1, <2>1, ServedNew
  <1>10. ret = "OK" => Served(m, db, pol, kq.mylast, kq.reply.updates)
    BY <1>9
  <1> QED
    BY <1>3, <1>8, <1>10 DEF Serial

(* ulog_get_entries() may start over a half-written log before it answers. *)
LEMMA GetUpdatesMaster ==
  ASSUME IInv, GetUpdates
  PROVE  /\ Master' \in MasterState /\ Forth(Master, Master')
         /\ mulog' \in Contents /\ mulog'.state = "STABLE"
  <1>1. Master \in MasterState /\ Ring(mulog, now) /\ Ring(Master.ulog, Master.now)
    BY Parts DEF IInv
  <1>2. /\ mdb \in Database /\ mpol \in 0 .. MaxPol /\ mulog \in Contents
        /\ now \in Nat /\ writer \in [Writers -> Places] /\ lost \in BOOLEAN
    BY <1>1, MasterVars
  <1>3. mdb' = mdb /\ mpol' = mpol /\ writer' = writer
    BY DEF GetUpdates
  <1>4. CASE HalfWritten(mulog)
    <2>1. now' = now + 1 /\ mulog' = Fresh(mulog, now + 1) /\ lost' = FALSE
      <3>1. now' = now + 1 /\ mulog' = Fresh(mulog, now + 1)
        BY <1>4 DEF GetUpdates
      <3>2. lost' = (lost /\ ~HalfWritten(mulog))
        BY DEF GetUpdates
      <3> QED
        BY <1>4, <3>1, <3>2
    <2>2. now' \in Nat /\ now <= now'
      BY <1>2, <2>1, SMT
    <2>3. /\ mulog' \in Contents /\ Ring(mulog', now') /\ Blank(mulog', now)
          /\ mulog'.state = "STABLE"
      BY <1>1, <1>2, <2>1, FreshRing
    <2>4. Master' \in MasterState
      BY <1>2, <1>3, <2>1, <2>2, <2>3, MasterTyped
    <2>5. /\ Master.now <= Master'.now /\ Ring(Master'.ulog, Master'.now)
          /\ Blank(Master'.ulog, Master.now)
      BY <2>2, <2>3, MasterIs
    <2>6. Forgets(Master.ulog, Master'.ulog, Master.now)
      BY <2>5, BlankForgets
    <2>7. Forth(Master, Master')
      BY ONLY <1>1, <2>4, <2>5, <2>6, QuietForth, Zenon
    <2> QED
      BY <2>3, <2>4, <2>7
  <1>5. CASE ~HalfWritten(mulog)
    <2>1. now' = now /\ mulog' = mulog /\ lost' = lost
      <3>1. now' = now /\ mulog' = mulog
        BY <1>5 DEF GetUpdates
      <3>2. lost' = (lost /\ ~HalfWritten(mulog))
        BY DEF GetUpdates
      <3> QED
        BY <1>2, <1>5, <3>1, <3>2
    <2>2. Master' = Master
      BY <1>3, <2>1 DEF Master
    <2>3. Forth(Master, Master)
      BY <1>1, SameForth
    <2>4. mulog.state = "STABLE"
      BY <1>5 DEF HalfWritten
    <2> QED
      BY <1>1, <1>2, <2>1, <2>2, <2>3, <2>4
  <1> QED
    BY <1>4, <1>5

(* The answer. *)
LEMMA GetUpdatesAnswer ==
  ASSUME IInv, GetUpdates
  PROVE  /\ kpropd.pc = "call" /\ kpropd'.pc = "reply" /\ kpropd'.mylast = kpropd.mylast
         /\ kpropd'.reply.ret = GetSnoStatus(mulog', kpropd.mylast)
         /\ kpropd'.reply.ret = "OK" =>
              kpropd'.reply.updates = Updates(mulog', kpropd.mylast.sno)
         /\ kpropd' \in PollState /\ AllUpdates(kpropd'.reply.updates)
  <1> DEFINE pos == kpropd.mylast
             ret == GetSnoStatus(mulog', pos)
             updates == IF ret = "OK" THEN Updates(mulog', pos.sno) ELSE << >>
             reply == [ret |-> ret, updates |-> updates]
  <1>1. kpropd.pc = "call" /\ kpropd' = [kpropd EXCEPT !.pc = "reply", !.reply = reply]
    BY DEF GetUpdates
  <1>2. kpropd \in PollState /\ pos \in Position
    BY Parts, PollTypes
  <1>3. /\ mulog' \in Contents /\ mulog'.state = "STABLE" /\ Ring(mulog', now')
        /\ now' \in Nat
    <2>1. /\ Master' \in MasterState /\ Forth(Master, Master')
          /\ mulog' \in Contents /\ mulog'.state = "STABLE"
      BY GetUpdatesMaster
    <2>2. Ring(Master'.ulog, Master'.now) /\ Master'.now \in Nat
      BY <2>1, MasterTypes DEF Forth
    <2> QED
      BY <2>1, <2>2, MasterIs
  <1>4. /\ ret \in {"NIL", "OK", "FULL_RESYNC"}
        /\ ret = "OK" => CanUpdate(mulog', pos)
    <2>1. "OK" # "FULL_RESYNC"
      BY SMT
    <2> QED
      BY <1>3, <2>1, AnswerIs
  <1>5. updates \in Seq(Entry) /\ AllUpdates(updates)
    <2>1. CASE ret = "OK"
      <3>1. Follow(mulog', now', pos.sno, Updates(mulog', pos.sno))
        BY <1>2, <1>3, <1>4, <2>1, UpdatesFollow
      <3> QED
        BY <2>1, <3>1 DEF Follow
    <2>2. CASE ret # "OK"
      <3>1. updates = NoReply.updates
        <4>1. NoReply.updates = << >>
          BY ONLY TRUE DEF NoReply
        <4> QED
          BY <2>2, <4>1
      <3> QED
        BY <3>1, Blanks DEF Reply
    <2> QED
      BY <2>1, <2>2
  <1>6. ret = "OK" => updates = Updates(mulog', pos.sno)
    OBVIOUS
  <1> HIDE DEF ret, updates
  <1>7. reply \in Reply /\ reply.ret = ret /\ reply.updates = updates
    <2>1. ret \in {"NIL", "OK", "FULL_RESYNC"} /\ updates \in Seq(Entry)
      BY <1>4, <1>5
    <2> QED
      BY ONLY <2>1, Zenon DEF Reply
  <1> HIDE DEF reply
  <1>8. /\ kpropd' \in PollState /\ kpropd'.pc = "reply" /\ kpropd'.mylast = pos
        /\ kpropd'.reply = reply
    <2> DEFINE x == [kpropd EXCEPT !.pc = "reply"]
    <2>0. "reply" \in {"poll", "call", "reply"}
      BY SMT
    <2>1. x \in PollState /\ x.pc = "reply" /\ x.mylast = pos
      BY <1>2, <2>0 DEF PollState
    <2>2. kpropd' = [x EXCEPT !.reply = reply]
      BY <1>1
    <2> HIDE DEF x
    <2> QED
      BY <1>7, <2>1, <2>2 DEF PollState
  <1> QED
    BY <1>1, <1>5, <1>6, <1>7, <1>8 DEF ret

(* The master answered a call for updates.                                   *)
LEMMA GetUpdatesStep ==
  ASSUME IInv, GetUpdates
  PROVE  IInv'
  <1>1. /\ Master' \in MasterState /\ Forth(Master, Master')
        /\ mulog' \in Contents /\ mulog'.state = "STABLE"
    BY GetUpdatesMaster
  <1>2. UNCHANGED <<resync, load, replica, frrequested, bounds>>
    BY DEF GetUpdates
  <1>3. /\ dumpfile' = dumpfile /\ job' = job /\ overlap' = overlap /\ load' = load
        /\ rdb' = rdb /\ rpol' = rpol /\ rulog' = rulog
        /\ frrequested' = frrequested /\ losses' = losses /\ deaths' = deaths
    BY <1>2 DEF resync, replica, bounds
  <1>4. /\ Master \in MasterState
        /\ dumpfile \in Dump /\ job \in [Jobs -> JobState] /\ load \in LoadState
        /\ rdb \in Database /\ rpol \in 0 .. MaxPol
        /\ rulog \in Contents /\ rulog.num # 0
        /\ kpropd \in PollState /\ AllUpdates(kpropd.reply.updates)
        /\ frrequested \in BOOLEAN /\ overlap \in BOOLEAN
        /\ losses \in 0 .. MaxLoss /\ deaths \in 0 .. MaxDeath
        /\ Dumped(Master, dumpfile, job, load)
        /\ ~overlap => Serial(Master, job, load, rdb, rpol, rulog, kpropd)
    BY Parts
  <1>5. Ring(mulog', now') /\ Ring(Master'.ulog, Master'.now) /\ Master'.ulog = mulog'
    BY <1>1, MasterIs DEF Forth
  <1>6. Dumped(Master', dumpfile, job, load)
    BY <1>1, <1>4, DumpedForth
  <1>7. ASSUME ~overlap
        PROVE  Serial(Master', job, load, rdb, rpol, rulog, kpropd')
    <2>1. Serial(Master', job, load, rdb, rpol, rulog, kpropd)
      BY <1>1, <1>4, <1>7, SerialForth
    <2>2. /\ kpropd.pc = "call" /\ kpropd'.pc = "reply" /\ kpropd'.mylast = kpropd.mylast
          /\ kpropd'.reply.ret = GetSnoStatus(Master'.ulog, kpropd.mylast)
          /\ kpropd'.reply.ret = "OK" =>
               kpropd'.reply.updates = Updates(Master'.ulog, kpropd.mylast.sno)
          /\ Master'.ulog.state = "STABLE"
      BY <1>1, <1>5, GetUpdatesAnswer
    <2> QED
      BY ONLY <1>1, <1>4, <1>5, <2>1, <2>2, AnswerSerial, Zenon
  <1>8. kpropd' \in PollState /\ AllUpdates(kpropd'.reply.updates)
    BY GetUpdatesAnswer
  <1>9. /\ Dumped(Master', dumpfile', job', load')
        /\ ~overlap' => Serial(Master', job', load', rdb', rpol', rulog', kpropd')
    BY ONLY <1>3, <1>6, <1>7, Zenon
  <1>10. /\ dumpfile' \in Dump /\ job' \in [Jobs -> JobState] /\ load' \in LoadState
         /\ rdb' \in Database /\ rpol' \in 0 .. MaxPol
         /\ rulog' \in Contents /\ rulog'.num # 0
         /\ frrequested' \in BOOLEAN /\ overlap' \in BOOLEAN
         /\ losses' \in 0 .. MaxLoss /\ deaths' \in 0 .. MaxDeath
    BY <1>3, <1>4
  <1> QED
    BY <1>1, <1>5, <1>8, <1>9, <1>10 DEF IInv

-----------------------------------------------------------------------------
(* The invariant.                                                             *)

(* The two logs that the program starts with. *)
LEMMA FirstLogs ==
  /\ \A sno \in StartSno :
       /\ SetDummy(NewLog(1), sno, 1) \in Contents
       /\ Ring(SetDummy(NewLog(1), sno, 1), 1)
  /\ NewLog(ReplicaTime) \in Contents /\ NewLog(ReplicaTime).num # 0
  /\ LastPos(NewLog(ReplicaTime)).time = 0
  <1>1. EmptyFile \in Contents /\ EmptyFile.ent = [i \in Slots |-> ZeroEntry]
    <2>1. EmptyFile.ent = [i \in Slots |-> ZeroEntry]
      BY ONLY TRUE DEF EmptyFile
    <2> QED
      BY <2>1, EmptyFileFacts
  <1>2. ZeroEntry.time = 0 /\ ZeroEntry.sno = 0
    BY ONLY TRUE DEF ZeroEntry
  <1>3. Stamped(EmptyFile.ent, 1)
    <2>1. 0 <= 1
      BY SMT
    <2>2. \A i \in Slots : EmptyFile.ent[i] = ZeroEntry
      BY <1>1
    <2> QED
      BY <1>2, <2>1, <2>2 DEF Stamped
  <1>4. 1 \in Nat /\ 0 \in Nat /\ 1 <= 1 /\ 1 # 0
    BY SMT
  <1>5. 1 \in Sno
    BY UlogAssumption, SMT DEF Sno
  <1>6. EmptyFile.ent \in [Slots -> Entry]
    BY <1>1, FieldTypes
  <1>7. Started(NewLog(1), EmptyFile.ent, 1, 1, "STABLE")
    BY <1>1, <1>4, FreshStarts DEF NewLog
  <1>8. NewLog(1) \in Contents /\ Stamped(NewLog(1).ent, 1)
    <2>1. Ring(NewLog(1), 1)
      BY <1>3, <1>4, <1>5, <1>6, <1>7, StartedRing
    <2> QED
      BY <1>7, <2>1 DEF Started, Ring
  <1>9. ASSUME NEW sno \in StartSno
        PROVE  /\ SetDummy(NewLog(1), sno, 1) \in Contents
               /\ Ring(SetDummy(NewLog(1), sno, 1), 1)
    <2>1. sno \in Sno /\ sno # 0
      BY IpropAssumption
    <2>2. 1 <= sno
      BY ONLY <2>1, UlogAssumption DEF Sno
    <2>3. Started(SetDummy(NewLog(1), sno, 1), NewLog(1).ent, sno, 1, NewLog(1).state)
      BY <1>4, <1>8, <2>1, SetDummyStarts
    <2>4. NewLog(1).ent \in [Slots -> Entry]
      BY <1>8, FieldTypes
    <2>5. Ring(SetDummy(NewLog(1), sno, 1), 1)
      BY <1>4, <1>8, <2>1, <2>2, <2>3, <2>4, StartedRing
    <2> QED
      BY <2>3, <2>5 DEF Started
  <1>10. Started(NewLog(ReplicaTime), EmptyFile.ent, 1, 0, "STABLE")
    BY <1>1, <1>4, FreshStarts DEF NewLog, ReplicaTime
  <1>11. /\ NewLog(ReplicaTime) \in Contents /\ NewLog(ReplicaTime).num # 0
         /\ NewLog(ReplicaTime).last_time = 0
    BY <1>4, <1>10 DEF Started
  <1> QED
    BY <1>9, <1>11, LastPosType

(* The initial state. *)
LEMMA InitMaster ==
  ASSUME Init
  PROVE  Master \in MasterState /\ Ring(mulog, now)
  <1>1. mpol \in 0 .. MaxPol /\ now \in Nat
    <2>1. mpol = 0 /\ now = 1 /\ MaxPol \in Nat
      BY IpropAssumption DEF Init
    <2> QED
      BY ONLY <2>1
  <1>2. mdb \in Database
    <2>1. mdb \in [Princ -> Val]
      BY DEF Init
    <2> QED
      BY ONLY <2>1 DEF Database
  <1>3. mulog \in Contents /\ Ring(mulog, now)
    BY FirstLogs DEF Init
  <1>4. writer \in [Writers -> Places]
    <2>1. writer = [w \in Writers |-> Idle] /\ Idle \in Places
      BY DEF Init, Places
    <2> QED
      BY <2>1
  <1>5. lost \in BOOLEAN
    BY DEF Init
  <1>6. Master \in MasterState
    BY <1>1, <1>2, <1>3, <1>4, <1>5 DEF Master, MasterState
  <1> QED
    BY <1>3, <1>6

(* The invariant holds at the start.                                         *)
LEMMA InitInvariant ==
  ASSUME Init
  PROVE  IInv
  <1>1. Master \in MasterState /\ Ring(mulog, now) /\ Ring(Master.ulog, Master.now)
    BY InitMaster, MasterIs
  <1>2. /\ dumpfile = NoDump /\ load = NoLoad /\ kpropd = AtPoll
        /\ rulog = NewLog(ReplicaTime) /\ rpol = 0 /\ losses = 0 /\ deaths = 0
        /\ frrequested = FALSE /\ overlap = FALSE
        /\ rdb = [p \in Princ |-> Absent] /\ job = [j \in Jobs |-> JobAt("idle")]
    BY DEF Init
  <1>3. "idle" \in {"idle", "check", "dump", "princs", "pols", "send"}
        /\ "idle" # "princs" /\ "idle" # "pols" /\ "idle" \notin {"reinit", "setlast"}
    BY SMT
  <1>4. job \in [Jobs -> JobState] /\ \A j \in Jobs : job[j].pc = "idle"
    BY <1>2, <1>3, JobAtType
  <1>5. rdb \in Database
    BY <1>2 DEF Database
  <1>6. rpol \in 0 .. MaxPol /\ losses \in 0 .. MaxLoss /\ deaths \in 0 .. MaxDeath
    BY ONLY <1>2, IpropAssumption
  <1>7. rulog \in Contents /\ rulog.num # 0 /\ LastPos(rulog).time = 0
    BY <1>2, FirstLogs
  <1>8. /\ dumpfile \in Dump /\ load \in LoadState /\ load.pc = "idle" /\ load.dump = dumpfile
        /\ kpropd \in PollState /\ AllUpdates(kpropd.reply.updates) /\ kpropd.pc = "poll"
        /\ dumpfile.last \in Position /\ dumpfile.last.time = 0
    BY <1>2, Blanks
  <1>9. Dumped(Master, dumpfile, job, load)
    <2>1. \A db, pol : Told(Master, db, pol, dumpfile.last)
      BY <1>1, <1>8, ZeroDead, DeadTold
    <2> QED
      BY <1>3, <1>4, <1>8, <2>1 DEF Dumped
  <1>10. Serial(Master, job, load, rdb, rpol, rulog, kpropd)
    <2>1. ~Busy(job, load) /\ Single(job, load)
      BY <1>4, <1>8 DEF Busy, Single
    <2>2. Told(Master, rdb, rpol, LastPos(rulog))
      BY <1>1, <1>7, NotTold
    <2> QED
      BY <1>3, <1>8, <2>1, <2>2, PollSerial
  <1>11. frrequested \in BOOLEAN /\ overlap \in BOOLEAN
    BY <1>2
  <1> QED
    BY <1>1, <1>4, <1>5, <1>6, <1>7, <1>8, <1>9, <1>10, <1>11 DEF IInv

(* A step. *)
LEMMA NextInvariant ==
  ASSUME IInv, [Next]_vars
  PROVE  IInv'
  <1>1. CASE Write
    <2>1. PICK w \in Writers :
            \/ \E upd \in Update : PutPrincipal(w, upd)
            \/ LogUpdate(w) \/ PutPolicy(w) \/ ResetForPolicy(w)
            \/ DieUnlogged(w) \/ DieLogging(w)
      BY <1>1 DEF Write
    <2> QED
      BY <2>1, PutPrincipalStep, LogUpdateStep, PutPolicyStep, ResetForPolicyStep,
         DieUnloggedStep, DieLoggingStep
  <1>2. CASE Resync
    <2>1. PICK j \in Jobs :
            \/ CheckDump(j) \/ DumpHeader(j) \/ DumpPrincipals(j) \/ DumpPolicies(j)
            \/ Send(j) \/ JobDies(j)
      BY <1>2 DEF Resync
    <2> QED
      BY <2>1, CheckDumpStep, DumpHeaderStep, DumpPrincipalsStep, DumpPoliciesStep,
         SendStep, JobDiesStep
  <1>3. CASE Load
    BY <1>3, LoadInitStep, LoadPromoteStep, LoadReinitStep, LoadSetLastStep,
       LoadDiesStep DEF Load
  <1>4. CASE Poll
    BY <1>4, GetLastStep, GetUpdatesStep, CallFailsStep, StillWaitingStep,
       FullResyncStep, FullResyncFailsStep, InSyncStep, ReplayStep, ReplayFailsStep,
       KpropdDiesStep, ReplayDiesStep, ResyncTimeoutStep DEF Poll
  <1>5. CASE UNCHANGED vars
    <2>1. UNCHANGED <<master, resync, load, replica, poller, bounds>>
      BY <1>5 DEF vars
    <2>2. /\ mdb' = mdb /\ mpol' = mpol /\ mulog' = mulog /\ now' = now
          /\ writer' = writer /\ lost' = lost /\ load' = load
      BY <2>1 DEF master
    <2>3. /\ dumpfile' = dumpfile /\ job' = job /\ overlap' = overlap
          /\ rdb' = rdb /\ rpol' = rpol /\ rulog' = rulog
      BY <2>1 DEF resync, replica
    <2>4. /\ kpropd' = kpropd /\ frrequested' = frrequested
          /\ losses' = losses /\ deaths' = deaths
      BY <2>1 DEF poller, bounds
    <2>5. Master' = Master
      BY <2>2 DEF Master
    <2>6. /\ Dumped(Master', dumpfile', job', load')
          /\ ~overlap' => Serial(Master', job', load', rdb', rpol', rulog', kpropd')
      <3>1. /\ Dumped(Master, dumpfile, job, load)
            /\ ~overlap => Serial(Master, job, load, rdb, rpol, rulog, kpropd)
        BY DEF IInv
      <3> QED
        BY ONLY <2>2, <2>3, <2>4, <2>5, <3>1
    <2>7. Ring(mulog', now')
      BY <2>2 DEF IInv
    <2>8. /\ dumpfile' \in Dump /\ job' \in [Jobs -> JobState] /\ load' \in LoadState
          /\ rdb' \in Database /\ rpol' \in 0 .. MaxPol
          /\ rulog' \in Contents /\ rulog'.num # 0
          /\ kpropd' \in PollState /\ AllUpdates(kpropd'.reply.updates)
          /\ frrequested' \in BOOLEAN /\ overlap' \in BOOLEAN
          /\ losses' \in 0 .. MaxLoss /\ deaths' \in 0 .. MaxDeath
      BY <2>2, <2>3, <2>4 DEF IInv
    <2>9. Master' \in MasterState
      BY <2>5 DEF IInv
    <2> QED
      BY <2>6, <2>7, <2>8, <2>9 DEF IInv
  <1> QED
    BY <1>1, <1>2, <1>3, <1>4, <1>5 DEF Next

-----------------------------------------------------------------------------
(* What the invariant says.                                                   *)

(* The invariant gives every variable its type.                              *)
LEMMA InvariantTypes ==
  ASSUME IInv
  PROVE  TypeOK
  <1>1. Master \in MasterState
    BY Parts
  <1>2. /\ mdb \in Database /\ mpol \in 0 .. MaxPol /\ mulog \in Contents
        /\ now \in Nat /\ writer \in [Writers -> Places] /\ lost \in BOOLEAN
    BY <1>1, MasterVars
  <1>3. /\ dumpfile \in Dump /\ job \in [Jobs -> JobState] /\ load \in LoadState
        /\ rdb \in Database /\ rpol \in 0 .. MaxPol /\ rulog \in Contents
        /\ kpropd \in PollState /\ frrequested \in BOOLEAN /\ overlap \in BOOLEAN
        /\ losses \in 0 .. MaxLoss /\ deaths \in 0 .. MaxDeath
    BY Parts
  <1> QED
    BY <1>2, <1>3 DEF TypeOK, Places, JobState, LoadState, PollState, Reply

(* Updates that are those after a, counted from one. *)
LEMMA ShiftedBy ==
  ASSUME NEW f, NEW g, NEW a \in Nat, NEW b \in Nat, NEW n \in Nat, b = a + n,
         \A k \in 1 .. n : g[k] = f[k + a]
  PROVE  Shifted(f, a, b, g, 0, n, a)
  <1>1. a = 0 + a /\ b = n + a /\ 0 + 1 = 1 /\ 0 \in Nat /\ a \in Int
    BY SMT
  <1> QED
    BY <1>1 DEF Shifted

(* What a database at a known position lacks of the master's is what the      *)
(* master would send.                                                         *)
LEMMA UpdatesMake ==
  ASSUME NEW m \in MasterState, Ring(m.ulog, m.now), m.ulog.state = "STABLE",
         NEW db \in Database, NEW pos \in Position, CanUpdate(m.ulog, pos),
         \A p \in Princ : Leaves(Story(m.ulog), pos.sno, m.ulog.last_sno, db[p], p, m.db[p])
  PROVE  Updated(db, Updates(m.ulog, pos.sno)) = m.db
  <1> DEFINE updates == Updates(m.ulog, pos.sno)
             n == Len(updates)
             f == Story(m.ulog)
             g == Sent(updates)
             a == pos.sno
             b == m.ulog.last_sno
             x == Updated(db, updates)
  <1>1. m.ulog \in Contents /\ m.now \in Nat /\ m.db \in Database
    BY MasterTypes
  <1>2. Follow(m.ulog, m.now, a, updates) /\ a \in Nat
    BY <1>1, UpdatesFollow
  <1>3. AllUpdates(updates) /\ b = a + n /\ \A k \in 1 .. n : g[k] = f[k + a]
    BY <1>2 DEF Follow
  <1>4. n \in Nat
    BY <1>3 DEF AllUpdates
  <1>5. b \in Nat
    BY <1>1, FieldTypes
  <1>6. x \in Database /\ \A p \in Princ : Leaves(g, 0, n, db[p], p, x[p])
    BY <1>3, UpdatedIs
  <1>7. \A p \in Princ : Leaves(f, a, b, db[p], p, m.db[p])
    OBVIOUS
  <1> HIDE DEF updates, n, f, g, a, b, x
  <1>8. Shifted(f, a, b, g, 0, n, a)
    <2>1. /\ a \in Nat /\ b \in Nat /\ n \in Nat /\ b = a + n
          /\ \A k \in 1 .. n : g[k] = f[k + a]
      BY <1>2, <1>3, <1>4, <1>5
    <2> QED
      BY ONLY <2>1, ShiftedBy, Zenon
  <1>a. \A old, q, v : Leaves(f, a, b, old, q, v) => Leaves(g, 0, n, old, q, v)
    BY ONLY <1>8, ShiftedLeaves, Zenon
  <1>9. ASSUME NEW p \in Princ
        PROVE  x[p] = m.db[p]
    <2>1. Leaves(f, a, b, db[p], p, m.db[p])
      BY <1>7
    <2>2. Leaves(g, 0, n, db[p], p, m.db[p])
      BY ONLY <1>a, <2>1, Zenon
    <2>3. Leaves(g, 0, n, db[p], p, x[p])
      BY <1>6
    <2>4. 0 \in Nat
      BY SMT
    <2> QED
      BY ONLY <1>4, <2>2, <2>3, <2>4, LeavesUnique, Zenon
  <1>10. x = m.db
    <2> DEFINE y == m.db
    <2>1. x \in Database /\ y \in Database /\ \A p \in Princ : x[p] = y[p]
      BY <1>1, <1>6, <1>9
    <2> HIDE DEF y
    <2>2. x = y
      BY ONLY <2>1 DEF Database
    <2> QED
      BY <2>2 DEF y
  <1> QED
    BY <1>10 DEF x, updates, a

(* Where all is logged, what is told follows.                                *)
LEMMA FollowsFrom ==
  ASSUME IInv, AllLogged, NEW db \in Database, NEW pol, NEW pos \in Position,
         Told(Master, db, pol, pos)
  PROVE  Follows(db, pol, pos)
  <1>1. Master \in MasterState /\ Ring(Master.ulog, Master.now)
    BY Parts
  <1>2. ~lost /\ mulog.state = "STABLE" /\ \A w \in Writers : writer[w].pc = "idle"
    BY DEF AllLogged, Pending, HalfWritten
  <1>3. /\ mulog \in Contents /\ writer \in [Writers -> Places]
    BY <1>1, MasterVars
  <1>4. \A w \in Writers : writer[w] = Idle
    BY <1>2, <1>3, PlaceOf
  <1>5. mdb \in Database
    BY <1>1, MasterVars
  <1>6. \A w \in Writers : Master.writer[w] # AtPolicy
    BY <1>4, MasterIs, PlacesAre
  <1>7. ASSUME NEW p \in Princ
        PROVE  \A w \in Writers : Master.writer[w] # AtLog([princ |-> p, val |-> Master.db[p]])
    <2>1. [princ |-> p, val |-> mdb[p]] \in Update
      <3>1. mdb[p] \in Val \cup {Absent}
        BY <1>5 DEF Database
      <3> QED
        BY ONLY <3>1, IpropAssumption
    <2>2. AtLog([princ |-> p, val |-> mdb[p]]) # Idle
      BY <2>1, PlacesAre
    <2> QED
      BY <1>4, <2>2, MasterIs
  <1> SUFFICES ASSUME GetSnoStatus(mulog, pos) \in {"OK", "NIL"}
               PROVE  pol = mpol /\ Updated(db, Updates(mulog, pos.sno)) = mdb
    BY DEF Follows
  <1>8. CanUpdate(mulog, pos)
    <2>1. "OK" # "FULL_RESYNC" /\ "NIL" # "FULL_RESYNC"
      BY SMT
    <2>2. Ring(mulog, now)
      BY DEF IInv
    <2> QED
      BY <1>2, <1>3, <2>1, <2>2, AnswerIs
  <1>9. Known(Master, pos)
    <2>1. "STABLE" # "UNSTABLE"
      BY ONLY TRUE
    <2> QED
      BY <1>2, <1>8, <2>1, MasterIs DEF Known
  <1>10. PolTold(Master, pol) /\ \A p \in Princ : PrincTold(Master, db, pos, p)
    BY <1>9 DEF Told
  <1>11. pol = mpol
    BY <1>6, <1>10, MasterIs DEF PolTold
  <1>12. \A p \in Princ : Leaves(Story(Master.ulog), pos.sno, Master.ulog.last_sno,
                                 db[p], p, Master.db[p])
    BY <1>7, <1>10 DEF PrincTold
  <1>13. Updated(db, Updates(Master.ulog, pos.sno)) = Master.db
    <2>1. Master.ulog.state = "STABLE" /\ CanUpdate(Master.ulog, pos)
      BY <1>2, <1>8, MasterIs
    <2> QED
      BY ONLY <1>1, <1>12, <2>1, UpdatesMake, db \in Database, pos \in Position, Zenon
  <1> QED
    BY <1>11, <1>13, MasterIs

(* The invariant makes the shared dump usable.                               *)
LEMMA InvariantDump ==
  ASSUME IInv
  PROVE  DumpFollows
  <1>1. dumpfile \in Dump /\ Told(Master, dumpfile.db, dumpfile.pol, dumpfile.last)
    BY Parts DEF Dumped
  <1>2. dumpfile.last \in Position /\ dumpfile.db \in Database
    BY <1>1, DumpTypes
  <1> QED
    BY <1>1, <1>2, FollowsFrom DEF DumpFollows

(* The invariant makes the position of the replica true.                     *)
LEMMA InvariantReplica ==
  ASSUME IInv
  PROVE  ReplicaFollows
  <1>1. ~overlap => Told(Master, rdb, rpol, LastPos(rulog))
    BY Parts DEF Serial
  <1>2. LastPos(rulog) \in Position /\ rdb \in Database
    BY Parts, LastPosType
  <1> QED
    BY <1>1, <1>2, FollowsFrom DEF ReplicaFollows

-----------------------------------------------------------------------------
(* The theorems.                                                              *)

(* IInv holds in every state: the master's log is a ring of the last updates, *)
(* the dump and the load tell the truth about their position, and so does     *)
(* the replica while resyncs do not overlap.                                  *)
THEOREM Invariant == Spec => []IInv
  <1>1. Init => IInv
    BY InitInvariant
  <1>2. IInv /\ [Next]_vars => IInv'
    BY NextInvariant
  <1> QED
    BY <1>1, <1>2, PTL DEF Spec

(* The databases, the logs and every process's variables keep their types; in *)
(* particular last_sno never passes (kdb_sno_t)-1, since ulog_add_update()    *)
(* starts the log over there.                                                 *)
THEOREM TypeCorrect == Spec => []TypeOK
  <1>1. IInv => TypeOK
    BY InvariantTypes
  <1> QED
    BY <1>1, Invariant, PTL

(* A dump that current_dump_sno_in_ulog() takes for good enough makes, with   *)
(* the updates after its position, the master's database, although principals *)
(* and policies were changed while dump_db() wrote it.                        *)
THEOREM DumpCanBeShared == Spec => []DumpFollows
  <1>1. IInv => DumpFollows
    BY InvariantDump
  <1> QED
    BY <1>1, Invariant, PTL

(* A position that the replica reports and that ulog_get_entries() answers    *)
(* with updates or with UPDATE_NIL is never a lie, whichever of kpropd, kprop *)
(* and kdb5_util died in whatever step of ulog_replay() or load_db().         *)
THEOREM ReplicaTellsTheTruth == Spec => []ReplicaFollows
  <1>1. IInv => ReplicaFollows
    BY InvariantReplica
  <1> QED
    BY <1>1, Invariant, PTL

=============================================================================
