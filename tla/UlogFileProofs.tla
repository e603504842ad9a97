--------------------------- MODULE UlogFileProofs ---------------------------
(***************************************************************************)
(* Proofs about the update log file, for any size of the ring, any range   *)
(* of serial numbers and any block sizes.  The inductive invariant IInv is *)
(* TypeOK and Ring: the ring is the tail of the history, also when the     *)
(* header lags behind a store that a process did not finish.               *)
(***************************************************************************)
EXTENDS UlogFile, TLAPS

\* A remainder is less than its divisor.
LEMMA ModRange == ASSUME NEW a \in Nat, NEW n \in Nat \ {0} PROVE a % n \in 0 .. n - 1
  OBVIOUS

\* What \div and % are, in the form that arithmetic on slots needs.
LEMMA DivMod ==
  ASSUME NEW a \in Nat, NEW n \in Nat \ {0}
  PROVE  a \div n \in Nat /\ a % n \in 0 .. n-1 /\ a = n * (a \div n) + (a % n)
  OBVIOUS

\* Two numbers less than n apart have different remainders by n: entries that
\* are in the ring together are in different slots.
LEMMA ModDistinct ==
  ASSUME NEW a \in Nat, NEW b \in Nat, NEW n \in Nat \ {0}, a < b, b - a < n
  PROVE  a % n # b % n
<1> DEFINE p == a \div n
           q == b \div n
<1>1. p \in Nat /\ q \in Nat /\ a = n * p + (a % n) /\ b = n * q + (b % n)
  BY DivMod, Zenon
<1> SUFFICES ASSUME a % n = b % n PROVE FALSE
  BY Zenon
<1>2. b - a = n * q - n * p
  BY <1>1, DivMod
<1> HIDE DEF p, q
<1>3. n * q - n * p = n * (q - p)
  BY <1>1
<1>4. CASE q <= p
  BY <1>1, <1>2, <1>3, <1>4
<1>5. CASE q >= p + 1
  <2>1. n * (q - p) >= n BY <1>1, <1>5
  <2> QED BY <2>1, <1>2, <1>3
<1> QED BY <1>1, <1>4, <1>5

\* Numbers n apart have the same remainder by n: an entry takes the slot of the
\* one that is ulogentries before it.
LEMMA ModSame ==
  ASSUME NEW a \in Nat, NEW n \in Nat \ {0}
  PROVE  (a + n) % n = a % n
<1> DEFINE p == a \div n
           q == (a + n) \div n
           r == a % n
           t == (a + n) % n
<1>1. p \in Nat /\ r \in 0 .. n - 1 /\ a = n * p + r
  BY DivMod, Zenon
<1>2. q \in Nat /\ t \in 0 .. n - 1 /\ a + n = n * q + t
  <2>1. a + n \in Nat OBVIOUS
  <2> QED BY <2>1, DivMod, Zenon
<1> SUFFICES r = t
  BY Zenon
<1> HIDE DEF p, q, r, t
<1>3. n * (p + 1) = n * p + n
  BY <1>1
<1>4. CASE q = p + 1
  BY <1>1, <1>2, <1>3, <1>4
<1>5. CASE q >= p + 2
  <2>1. n * q >= n * (p + 2) /\ n * (p + 2) = n * p + n + n BY <1>1, <1>2, <1>5
  <2>2. n * p \in Nat /\ n * q \in Nat BY <1>1, <1>2
  <2> QED BY <2>1, <2>2, <1>1, <1>2
<1>6. CASE q <= p
  <2>1. n * q <= n * p BY <1>1, <1>2, <1>6
  <2>2. n * p \in Nat /\ n * q \in Nat BY <1>1, <1>2
  <2> QED BY <2>1, <2>2, <1>1, <1>2
<1> QED BY <1>1, <1>2, <1>4, <1>5, <1>6

-----------------------------------------------------------------------------
\* INDEX() of kdb_log.c never points outside of the ring.
LEMMA SlotRange == \A s \in Sno : Slot(s) \in Slots
<1> SUFFICES ASSUME NEW s \in Sno PROVE Slot(s) \in Slots
  BY Zenon
<1> DEFINE a == IF s = 0 THEN MaxSno ELSE s - 1
<1>1. a \in Nat /\ ulogentries \in Nat \ {0}
  BY UlogAssumption DEF Sno
<1>2. a % ulogentries \in 0 .. ulogentries - 1
  BY <1>1, DivMod, Zenon
<1> QED BY <1>2 DEF Slot, Slots

\* ModDistinct for the slots of serial numbers.
LEMMA SlotDistinct ==
  ASSUME NEW s \in Sno, NEW n \in Sno, 1 <= s, s < n, n - s < ulogentries
  PROVE  Slot(s) # Slot(n)
<1>1. s - 1 \in Nat /\ n - 1 \in Nat /\ s - 1 < n - 1 /\ (n - 1) - (s - 1) < ulogentries
  BY UlogAssumption DEF Sno
<1>2. (s - 1) % ulogentries # (n - 1) % ulogentries
  BY <1>1, ModDistinct, UlogAssumption, Zenon
<1> QED BY <1>2, UlogAssumption DEF Slot, Sno

\* ModSame for the slots of serial numbers.
LEMMA SlotSame ==
  ASSUME NEW s \in Sno, NEW n \in Sno, 1 <= s, n = s + ulogentries
  PROVE  Slot(s) = Slot(n)
<1>1. s - 1 \in Nat /\ n - 1 = (s - 1) + ulogentries
  BY UlogAssumption DEF Sno
<1>2. (n - 1) % ulogentries = (s - 1) % ulogentries
  BY <1>1, ModSame, UlogAssumption, Zenon
<1> QED BY <1>2, UlogAssumption DEF Slot, Sno

\* Zeroed memory is an entry header.
LEMMA ZeroEntryType == ZeroEntry \in Entry
  BY UlogAssumption DEF ZeroEntry, Entry, Sno

\* What set_dummy() writes is an entry.
LEMMA DummyType == \A s \in Sno, t \in Nat : Dummy(s, t) \in Entry
  BY Zenon DEF Dummy, Entry

\* What ulog_add_update() and ulog_replay() store is an entry.
LEMMA LoggedType ==
  \A s \in Sno, t \in Nat, x \in Update : Logged(s, t, x) \in Entry
  BY Zenon DEF Logged, Entry

\* Slots that were moved by a change of kdb_block still hold entries.
LEMMA RereadType ==
  ASSUME NEW u \in Contents, NEW b, NEW ent \in Reread(u, b)
  PROVE  ent \in [Slots -> Entry]
  BY ZeroEntryType DEF Reread, Contents

\* A file that extend_file_to() just made is a log without entries.
LEMMA EmptyFileFacts ==
  EmptyFile \in Contents /\ EmptyFile.num = 0 /\ EmptyFile.last_sno = 0
<1>1. [i \in Slots |-> ZeroEntry] \in [Slots -> Entry]
  BY ZeroEntryType, Zenon
<1>2. 0 \in Sno
  BY UlogAssumption DEF Sno
<1> QED BY <1>1, <1>2 DEF EmptyFile, Contents

\* A header that resize() or reset_ulog() has zeroed counts no entries.
LEMMA ZeroHeaderFacts ==
  ASSUME NEW b \in Nat, NEW st \in {"ZERO", "STABLE", "UNSTABLE"},
         NEW ent \in [Slots -> Entry]
  PROVE  /\ ZeroHeader(b, st, ent) \in Contents
         /\ ZeroHeader(b, st, ent).num = 0
         /\ ZeroHeader(b, st, ent).last_sno = 0
         /\ ZeroHeader(b, st, ent).state = st
  BY EmptyFileFacts, Zenon DEF ZeroHeader, Contents

\* After set_dummy() the dummy is both the first and the last entry.
LEMMA SetDummyFacts ==
  ASSUME NEW u \in Contents, NEW sno \in Sno, NEW t \in Nat
  PROVE  LET w == SetDummy(u, sno, t)
         IN /\ w \in Contents /\ w.num = 1 /\ w.state = u.state
            /\ w.first_sno = sno /\ w.last_sno = sno /\ w.last_time = t
            /\ w.ent[Slot(sno)] = Dummy(sno, t)
  BY SlotRange, DummyType, Zenon DEF SetDummy, Contents

\* After reset_ulog() the log is stable and holds a dummy numbered 1.
LEMMA ResetFacts ==
  ASSUME NEW u \in Contents, NEW t \in Nat, NEW w \in ResetUlog(u, t)
  PROVE  /\ w \in Contents /\ w.num = 1 /\ w.state = "STABLE"
         /\ w.first_sno = 1 /\ w.last_sno = 1 /\ w.last_time = t
         /\ w.ent[Slot(1)] = Dummy(1, t)
<1>1. PICK ent \in Reread(u, ULOG_BLOCK) :
        w = SetDummy(ZeroHeader(ULOG_BLOCK, "STABLE", ent), 1, t)
  BY Zenon DEF ResetUlog
<1>2. ZeroHeader(ULOG_BLOCK, "STABLE", ent) \in Contents
      /\ ZeroHeader(ULOG_BLOCK, "STABLE", ent).state = "STABLE"
  BY RereadType, ZeroHeaderFacts, UlogAssumption
<1>3. 1 \in Sno
  BY UlogAssumption DEF Sno
<1> QED BY <1>1, <1>2, <1>3, SetDummyFacts

\* resize() either does nothing or leaves a log without entries.
LEMMA ResizedFacts ==
  ASSUME NEW u \in Contents, NEW r \in RecSize, NEW v \in Resized(u, r)
  PROVE  v \in Contents /\ (v = u \/ v.num = 0)
<1>1. NewBlock(r) \in Nat
  <2>1. r \in Nat /\ ULOG_BLOCK \in Nat \ {0}
    BY UlogAssumption, Zenon
  <2>2. r \div ULOG_BLOCK \in Nat
    BY <2>1, DivMod, Zenon
  <2> QED BY <2>1, <2>2 DEF NewBlock
<1>2. CASE v \in Resize(u, NewBlock(r))
  BY <1>1, <1>2, RereadType, ZeroHeaderFacts DEF Resize
<1> QED BY <1>2 DEF Resized

\* A log that holds a single entry e is in order.
LEMMA StartedOver ==
  ASSUME NEW w \in Contents, NEW e \in Entry, 1 <= e.sno,
         w.num = 1, w.first_sno = e.sno, w.last_sno = e.sno,
         w.last_time = e.time, w.ent[Slot(e.sno)] = e
  PROVE  /\ RingOK(w, e.sno, [Blank EXCEPT ![e.sno] = e])
         /\ [Blank EXCEPT ![e.sno] = e] \in [Sno -> Entry]
<1> DEFINE h == [Blank EXCEPT ![e.sno] = e]
<1>1. e.sno \in Sno /\ e.sno \in Nat /\ ulogentries \in Nat /\ ulogentries >= 1
  BY UlogAssumption DEF Entry, Sno
<1>2. h \in [Sno -> Entry] /\ h[e.sno] = e
  BY <1>1, ZeroEntryType, Zenon DEF Blank
<1> HIDE DEF h
<1>3. RingOK(w, e.sno, h)
  <2>1. \A s \in e.sno .. w.last_sno : s = e.sno
    BY <1>1
  <2> QED BY <2>1, <1>1, <1>2 DEF RingOK
<1> QED BY <1>2, <1>3 DEF h

\* Entry e is in its slot and the header says it is the last; how far the
\* header got with the rest does not matter as long as it lags.
LEMMA Appended ==
  ASSUME NEW v \in Contents, NEW w \in Contents, NEW st \in Sno,
         NEW h \in [Sno -> Entry], NEW e \in Entry,
         RingOK(v, st, h), v.num # 0, e.sno = v.last_sno + 1, e.commit,
         w.ent = [v.ent EXCEPT ![Slot(e.sno)] = e], w.last_sno = e.sno,
         w.num # 0, w.num <= ulogentries, w.num <= v.num + 1,
         st <= w.first_sno, w.first_sno <= e.sno,
         ~HalfWritten(w) => w.last_time = e.time
  PROVE  RingOK(w, st, [h EXCEPT ![e.sno] = e])
<1> DEFINE g == [h EXCEPT ![e.sno] = e]
           n == e.sno
<1>0. /\ n \in Sno /\ n \in Nat /\ st \in Nat /\ v.last_sno \in Nat
      /\ ulogentries \in Nat /\ ulogentries >= 1
      /\ v.num \in Nat /\ w.num \in Nat /\ w.first_sno \in Nat
      /\ v.ent \in [Slots -> Entry] /\ v.last_sno \in Sno /\ MaxSno \in Nat
  BY UlogAssumption DEF Entry, Sno, Contents
<1>1. /\ 1 <= st /\ st <= v.last_sno /\ v.num <= v.last_sno - st + 1
      /\ \A s \in st .. v.last_sno :
           /\ h[s].sno = s
           /\ s > st => h[s].commit
           /\ InRing(v, s) => v.ent[Slot(s)] = h[s]
           /\ s <= v.last_sno - ulogentries => v.ent[Slot(s)].sno # s
  <2>1. v.first_sno \in Nat
    BY DEF Contents, Sno
  <2> QED BY <2>1, <1>0 DEF RingOK
<1>2. g[n] = e /\ \A s \in st .. v.last_sno : s \in Sno /\ g[s] = h[s]
  <2>1. g[n] = e
    BY <1>0, Zenon
  <2>2. ASSUME NEW s \in st .. v.last_sno
        PROVE  s \in Sno /\ s # n
    BY <1>0, <1>1 DEF Sno
  <2> QED BY <2>1, <2>2
<1>3. w.ent[Slot(n)] = e
  BY <1>0, SlotRange, Zenon
<1>4. ASSUME NEW s \in st .. v.last_sno, s > n - ulogentries
      PROVE  w.ent[Slot(s)] = h[s]
  <2>1. s \in Sno /\ 1 <= s /\ s < n /\ n - s < ulogentries
    BY <1>0, <1>1, <1>2, <1>4
  <2>2. Slot(s) # Slot(n)
    BY <2>1, <1>0, SlotDistinct, Zenon
  <2>3. w.ent[Slot(s)] = v.ent[Slot(s)]
    BY <2>1, <2>2, <1>0, SlotRange, Zenon
  <2>4. InRing(v, s)
    BY <1>0, <1>4 DEF InRing
  <2> QED BY <2>3, <2>4, <1>1
<1>5. ASSUME NEW s \in st .. v.last_sno, s <= n - ulogentries
      PROVE  w.ent[Slot(s)].sno # s
  <2>1. s \in Sno /\ 1 <= s /\ s < n /\ s \in Nat
    BY <1>0, <1>1, <1>2
  <2>2. CASE Slot(s) = Slot(n)
    BY <2>1, <2>2, <1>3, <1>0
  <2>3. CASE Slot(s) # Slot(n)
    <3>1. w.ent[Slot(s)] = v.ent[Slot(s)]
      BY <2>1, <2>3, <1>0, SlotRange, Zenon
    <3>2. s # n - ulogentries
      BY <2>1, <2>3, <1>0, SlotSame
    <3>3. s <= v.last_sno - ulogentries
      BY <3>2, <1>5, <1>0, <2>1
    <3> QED BY <3>1, <3>3, <1>1
  <2> QED BY <2>2, <2>3
<1> HIDE DEF g
<1>6. ASSUME NEW s \in st .. w.last_sno
      PROVE  /\ g[s].sno = s
             /\ s > st => g[s].commit
             /\ InRing(w, s) => w.ent[Slot(s)] = g[s]
             /\ s <= w.last_sno - ulogentries => w.ent[Slot(s)].sno # s
  <2>1. CASE s = n
    BY <2>1, <1>0, <1>2, <1>3
  <2>2. CASE s # n
    <3>1. s \in st .. v.last_sno
      BY <2>2, <1>0
    <3>2. g[s].sno = s /\ (s > st => g[s].commit)
      BY <3>1, <1>1, <1>2
    <3>3. InRing(w, s) => w.ent[Slot(s)] = g[s]
      BY <3>1, <1>2, <1>4, <1>0, Zenon DEF InRing
    <3>4. s <= w.last_sno - ulogentries => w.ent[Slot(s)].sno # s
      BY <3>1, <1>5, Zenon
    <3> QED BY <3>2, <3>3, <3>4
  <2> QED BY <2>1, <2>2
<1>7. ~HalfWritten(w) => g[w.last_sno].time = w.last_time
  BY <1>2, Zenon
<1>8. w.num <= w.last_sno - st + 1
  BY <1>0, <1>1
<1> QED BY <1>0, <1>1, <1>6, <1>7, <1>8 DEF RingOK, g

\* The slot after the last entry is being written and the header is not.
LEMMA Overwritten ==
  ASSUME NEW v \in Contents, NEW w \in Contents, NEW st \in Sno,
         NEW h \in [Sno -> Entry], NEW x \in Entry,
         RingOK(v, st, h), v.last_sno < MaxSno,
         x.sno = 0 \/ x.sno = v.last_sno + 1,
         HalfWritten(w),
         w.ent = [v.ent EXCEPT ![Slot(v.last_sno + 1)] = x],
         w.num = v.num, w.first_sno = v.first_sno, w.last_sno = v.last_sno
  PROVE  RingOK(w, st, h)
<1> DEFINE n == v.last_sno + 1
<1> SUFFICES ASSUME v.num # 0 PROVE RingOK(w, st, h)
  BY Zenon DEF RingOK
<1>0. /\ n \in Sno /\ n \in Nat /\ st \in Nat /\ v.last_sno \in Nat
      /\ ulogentries \in Nat /\ ulogentries >= 1 /\ v.first_sno \in Nat
      /\ v.ent \in [Slots -> Entry] /\ x.sno \in Nat /\ MaxSno \in Nat
  <2>1. v.last_sno \in Sno /\ v.first_sno \in Sno /\ x.sno \in Sno /\ v.ent \in [Slots -> Entry]
    BY Zenon DEF Entry, Contents
  <2> QED BY <2>1, UlogAssumption DEF Sno
<1>1. /\ 1 <= st /\ st <= v.first_sno /\ v.first_sno <= v.last_sno
      /\ v.num <= ulogentries /\ v.num <= v.last_sno - st + 1
      /\ \A s \in st .. v.last_sno :
           /\ h[s].sno = s
           /\ s > st => h[s].commit
           /\ InRing(v, s) => v.ent[Slot(s)] = h[s]
           /\ s <= v.last_sno - ulogentries => v.ent[Slot(s)].sno # s
  BY Zenon DEF RingOK
<1>2. ASSUME NEW s \in st .. v.last_sno
      PROVE  /\ InRing(w, s) => w.ent[Slot(s)] = h[s]
             /\ s <= w.last_sno - ulogentries => w.ent[Slot(s)].sno # s
  <2>1. s \in Sno /\ 1 <= s /\ s < n /\ s \in Nat
    BY <1>0, <1>1 DEF Sno
  <2>2. CASE Slot(s) = Slot(n)
    <3>1. w.ent[Slot(s)].sno # s
      BY <2>1, <2>2, <1>0, SlotRange
    <3>2. ~ InRing(w, s)
      BY <2>1, <2>2, <1>0, SlotDistinct DEF InRing
    <3> QED BY <3>1, <3>2
  <2>3. CASE Slot(s) # Slot(n)
    <3>1. w.ent[Slot(s)] = v.ent[Slot(s)]
      BY <2>1, <2>3, <1>0, SlotRange, Zenon
    <3>2. InRing(w, s) => InRing(v, s)
      BY Zenon DEF InRing
    <3> QED BY <3>1, <3>2, <1>1
  <2> QED BY <2>2, <2>3
<1> QED BY <1>0, <1>1, <1>2 DEF RingOK

\* While store_update() writes an entry, only its slot and kdb_state differ.
LEMMA WritingFacts ==
  ASSUME NEW v \in Contents, NEW e \in Entry, NEW x \in Entry
  PROVE  LET w == Writing(v, e, x)
         IN /\ w \in Contents /\ w.state = "UNSTABLE"
            /\ w.ent = [v.ent EXCEPT ![Slot(e.sno)] = x]
            /\ w.num = v.num /\ w.first_sno = v.first_sno
            /\ w.last_sno = v.last_sno
<1>1. e.sno \in Sno
  BY Zenon DEF Entry
<1> QED BY <1>1, SlotRange, Zenon DEF Writing, Contents

\* The same, said of the contents w that a write leaves.
Written(v, e, x, w) ==
    /\ w \in Contents /\ w.ent = [v.ent EXCEPT ![Slot(e.sno)] = x]
    /\ w.num = v.num /\ w.first_sno = v.first_sno /\ w.last_sno = v.last_sno

\* Writing an entry into its slot leaves the rest of the header alone.
LEMMA WritingIs ==
  ASSUME NEW v \in Contents, NEW e \in Entry, NEW x \in Entry
  PROVE  Written(v, e, x, Writing(v, e, x))
<1> DEFINE w == Writing(v, e, x)
<1>1. e.sno \in Sno
  BY Zenon DEF Entry
<1>2. w \in Contents /\ w.ent = [v.ent EXCEPT ![Slot(e.sno)] = x]
      /\ w.num = v.num /\ w.first_sno = v.first_sno /\ w.last_sno = v.last_sno
  BY <1>1, SlotRange, Zenon DEF Writing, Contents
<1> HIDE DEF w
<1>3. Written(v, e, x, w)
  BY <1>2, Zenon DEF Written
<1> QED BY <1>3, Zenon DEF w

\* The header fields that CountUpdate() sets.
LEMMA CountFacts ==
  ASSUME NEW u \in Contents, NEW e \in Entry
  PROVE  LET w    == CountUpdate(u, e)
             next == u.ent[e.sno % ulogentries]
         IN /\ w \in Contents /\ w.ent = u.ent /\ w.state = u.state
            /\ w.last_sno = e.sno /\ w.last_time = e.time
            /\ u.num = 0 => w.num = 1 /\ w.first_sno = e.sno
            /\ u.num # 0 /\ u.num < ulogentries =>
                 w.num = u.num + 1 /\ w.first_sno = u.first_sno
            /\ u.num # 0 /\ ~(u.num < ulogentries) =>
                 w.num = u.num /\ w.first_sno = next.sno
<1> DEFINE next == u.ent[e.sno % ulogentries]
<1>1. e.sno \in Sno /\ e.time \in Nat
  BY Zenon DEF Entry
<1>2. e.sno % ulogentries \in Slots
  <2>1. e.sno \in Nat /\ ulogentries \in Nat \ {0}
    BY <1>1, UlogAssumption DEF Sno
  <2>2. e.sno % ulogentries \in 0 .. ulogentries - 1
    BY <2>1, ModRange, Zenon
  <2> QED BY <2>2 DEF Slots
<1>3. next.sno \in Sno /\ next.time \in Nat
  BY <1>2, Zenon DEF Contents, Entry
<1> DEFINE m == u.num + 1
<1>7. m \in Nat /\ (u.num = 0 => m = 1)
  BY DEF Contents
<1> HIDE DEF next, m
<1>4. CASE u.num = 0
  <2>1. CountUpdate(u, e) =
          [u EXCEPT !.last_sno = e.sno, !.last_time = e.time, !.num = m,
                    !.first_sno = e.sno, !.first_time = e.time]
    BY <1>4, <1>7, Zenon DEF CountUpdate, Contents
  <2> QED BY <1>4, <2>1, <1>1, <1>7, Zenon DEF Contents
<1>5. CASE u.num # 0 /\ u.num < ulogentries
  <2>1. CountUpdate(u, e) =
          [u EXCEPT !.last_sno = e.sno, !.last_time = e.time,
                    !.num = m]
    BY <1>5, Zenon DEF CountUpdate, Contents, m
  <2>2. /\ CountUpdate(u, e) \in Contents /\ CountUpdate(u, e).num = m
        /\ CountUpdate(u, e).first_sno = u.first_sno
        /\ CountUpdate(u, e).last_sno = e.sno
        /\ CountUpdate(u, e).last_time = e.time
        /\ CountUpdate(u, e).ent = u.ent /\ CountUpdate(u, e).state = u.state
    BY <2>1, <1>1, <1>7, Zenon DEF Contents
  <2> QED BY <1>5, <2>2 DEF m
<1>6. CASE u.num # 0 /\ ~(u.num < ulogentries)
  <2>1. CountUpdate(u, e) =
          [u EXCEPT !.last_sno = e.sno, !.last_time = e.time,
                    !.first_sno = next.sno, !.first_time = next.time]
    BY <1>6, Zenon DEF CountUpdate, next, Contents
  <2> QED BY <1>6, <2>1, <1>1, <1>3, Zenon DEF Contents, next
<1> QED BY <1>4, <1>5, <1>6 DEF next

\* The state that Extend() gives the history variables.
StartAfter(v, e, st) == IF v.num = 0 THEN e.sno ELSE st
HistAfter(v, e, h) ==
  IF v.num = 0 THEN [Blank EXCEPT ![e.sno] = e] ELSE [h EXCEPT ![e.sno] = e]

\* The hypotheses under which store_update() is called.
CanStore(v, st, h, e) ==
  /\ v \in Contents /\ st \in Sno /\ h \in [Sno -> Entry] /\ RingOK(v, st, h)
  /\ e \in Entry /\ e.commit /\ 1 <= e.sno
  /\ v.num # 0 => e.sno = v.last_sno + 1

\* The new first entry is one of those the ring holds.
LEMMA FirstInRing ==
  ASSUME NEW v, NEW st, NEW h, NEW e, CanStore(v, st, h, e),
         v.num # 0, ~(v.num < ulogentries)
  PROVE  LET first == Writing(v, e, e).ent[e.sno % ulogentries].sno
         IN st <= first /\ first <= e.sno /\ first = e.sno + 1 - ulogentries
<1> DEFINE n == e.sno
           s == n + 1 - ulogentries
           w == Writing(v, e, e)
<1>0. /\ v \in Contents /\ e \in Entry /\ n \in Sno /\ n \in Nat /\ v.last_sno \in Nat
      /\ st \in Nat /\ ulogentries \in Nat /\ ulogentries >= 1 /\ v.num \in Nat
      /\ v.ent \in [Slots -> Entry] /\ n = v.last_sno + 1 /\ MaxSno \in Nat
  <2>1. v \in Contents /\ e \in Entry /\ st \in Sno /\ n = v.last_sno + 1
    BY Zenon DEF CanStore
  <2>2. n \in Sno /\ v.last_sno \in Sno /\ v.num \in Nat /\ v.ent \in [Slots -> Entry]
    BY <2>1, Zenon DEF Contents, Entry
  <2> QED BY <2>1, <2>2, UlogAssumption DEF Sno
<1>1. /\ 1 <= st /\ v.num <= ulogentries /\ v.num <= v.last_sno - st + 1
      /\ \A k \in st .. v.last_sno :
           h[k].sno = k /\ (InRing(v, k) => v.ent[Slot(k)] = h[k])
  BY Zenon DEF CanStore, RingOK
<1>2. w.ent = [v.ent EXCEPT ![Slot(n)] = e]
  BY <1>0, WritingFacts, Zenon
<1>3. n % ulogentries = (s - 1) % ulogentries /\ s \in Nat /\ st <= s /\ s <= n /\ s \in Sno
  <2>1. s \in Nat /\ st <= s /\ s <= n /\ s - 1 \in Nat /\ n = (s - 1) + ulogentries
    BY <1>0, <1>1
  <2>2. n % ulogentries = (s - 1) % ulogentries
    <3> DEFINE a == s - 1
    <3>1. a \in Nat /\ n = a + ulogentries /\ ulogentries \in Nat \ {0}
      BY <2>1, <1>0
    <3> HIDE DEF a
    <3>2. (a + ulogentries) % ulogentries = a % ulogentries
      BY <3>1, ModSame, Zenon
    <3> QED BY <3>1, <3>2 DEF a
  <2>3. s \in Sno
    BY <2>1, <1>0 DEF Sno
  <2> QED BY <2>1, <2>2, <2>3
<1>4. n % ulogentries = Slot(s)
  BY <1>3, <1>1, <1>0 DEF Slot
<1>5. CASE s = n
  BY <1>5, <1>4, <1>2, <1>0, <1>3, SlotRange, Zenon
<1>6. CASE s # n
  <2>1. Slot(s) # Slot(n)
    BY <1>6, <1>3, <1>1, <1>0, SlotDistinct
  <2>2. w.ent[Slot(s)] = v.ent[Slot(s)]
    BY <2>1, <1>2, <1>3, <1>0, SlotRange, Zenon
  <2>3. InRing(v, s) /\ s \in st .. v.last_sno
    BY <1>6, <1>3, <1>0 DEF InRing
  <2> QED BY <2>2, <2>3, <1>1, <1>3, <1>4, <1>0
<1> QED BY <1>5, <1>6

\* The history after a store has its type.
LEMMA AfterTypes ==
  ASSUME NEW v, NEW st, NEW h, NEW e, CanStore(v, st, h, e)
  PROVE  /\ StartAfter(v, e, st) \in Sno
         /\ HistAfter(v, e, h) \in [Sno -> Entry]
<1>1. e \in Entry /\ e.sno \in Sno /\ st \in Sno /\ h \in [Sno -> Entry]
  BY Zenon DEF CanStore, Entry
<1> QED BY <1>1, ZeroEntryType DEF StartAfter, HistAfter, Blank

\* The header counts e, completely or not.
LEMMA CountedRing ==
  ASSUME NEW v, NEW st, NEW h, NEW e, CanStore(v, st, h, e),
         NEW w \in Contents,
         w.ent = [v.ent EXCEPT ![Slot(e.sno)] = e], w.last_sno = e.sno,
         ~HalfWritten(w) => w.last_time = e.time,
         \/ /\ w.num = CountUpdate(Writing(v, e, e), e).num
            /\ w.first_sno = CountUpdate(Writing(v, e, e), e).first_sno
            /\ w.last_time = e.time
         \/ w.num = v.num /\ w.first_sno = v.first_sno /\ v.num # 0
  PROVE  w.num # 0 /\ RingOK(w, StartAfter(v, e, st), HistAfter(v, e, h))
<1> DEFINE u == Writing(v, e, e)
           c == CountUpdate(u, e)
<1>1. v \in Contents /\ e \in Entry /\ e.sno \in Sno /\ st \in Sno
      /\ h \in [Sno -> Entry] /\ v.ent \in [Slots -> Entry] /\ v.num \in Nat
  BY Zenon DEF CanStore, Entry, Contents
<1>2. u \in Contents /\ u.num = v.num /\ u.first_sno = v.first_sno
      /\ u.last_sno = v.last_sno
  <2>1. Written(v, e, e, u)
    BY <1>1, WritingIs, Zenon
  <2> HIDE DEF u
  <2> QED BY <2>1, Zenon DEF Written
<1>3. /\ u.num = 0 => c.num = 1 /\ c.first_sno = e.sno
      /\ u.num # 0 /\ u.num < ulogentries =>
           c.num = u.num + 1 /\ c.first_sno = u.first_sno
      /\ u.num # 0 /\ ~(u.num < ulogentries) =>
           c.num = u.num /\ c.first_sno = u.ent[e.sno % ulogentries].sno
  BY <1>1, <1>2, CountFacts, Zenon
<1>4. CASE v.num = 0
  <2>1. w.num = 1 /\ w.first_sno = e.sno /\ w.last_time = e.time
    BY <1>2, <1>3, <1>4, Zenon
  <2>2. w.ent[Slot(e.sno)] = e
    BY <1>1, SlotRange, Zenon
  <2>3. 1 <= e.sno
    BY Zenon DEF CanStore
  <2>4. RingOK(w, e.sno, [Blank EXCEPT ![e.sno] = e])
    BY <2>1, <2>2, <2>3, <1>1, StartedOver, Zenon
  <2> QED BY <2>1, <2>4, <1>4 DEF StartAfter, HistAfter
<1>5. CASE v.num # 0
  <2>1. /\ 1 <= st /\ st <= v.first_sno /\ v.first_sno <= v.last_sno
        /\ v.num <= ulogentries /\ RingOK(v, st, h)
        /\ e.sno = v.last_sno + 1 /\ e.commit
    BY <1>5, Zenon DEF CanStore, RingOK
  <2>2. st \in Nat /\ v.first_sno \in Nat /\ v.last_sno \in Nat
        /\ ulogentries \in Nat /\ e.sno \in Nat
    BY <1>1, UlogAssumption DEF Contents, Sno
  <2>3. /\ w.num # 0 /\ w.num <= ulogentries /\ w.num <= v.num + 1
        /\ st <= w.first_sno /\ w.first_sno <= e.sno
    <3>1. CASE w.num = v.num /\ w.first_sno = v.first_sno
      BY <3>1, <2>1, <2>2, <1>1, <1>5
    <3>2. CASE w.num = c.num /\ w.first_sno = c.first_sno /\ v.num < ulogentries
      <4>1. w.num = v.num + 1 /\ w.first_sno = v.first_sno
        BY <3>2, <1>2, <1>3, <1>5, Zenon
      <4> QED BY <4>1, <3>2, <2>1, <2>2, <1>1
    <3>3. CASE w.num = c.num /\ w.first_sno = c.first_sno /\ ~(v.num < ulogentries)
      <4>1. w.num = v.num /\ w.first_sno = u.ent[e.sno % ulogentries].sno
        BY <3>3, <1>2, <1>3, <1>5, Zenon
      <4>2. st <= u.ent[e.sno % ulogentries].sno
            /\ u.ent[e.sno % ulogentries].sno <= e.sno
        BY ONLY <3>3, <1>5, CanStore(v, st, h, e), FirstInRing, Zenon
      <4> QED BY <4>1, <4>2, <2>1, <2>2, <1>1, <1>5
    <3> QED BY <3>1, <3>2, <3>3
  <2>4. RingOK(w, st, [h EXCEPT ![e.sno] = e])
    BY <2>1, <2>3, <1>1, <1>5, Appended, Zenon
  <2> QED BY <2>3, <2>4, <1>5 DEF StartAfter, HistAfter
<1> QED BY <1>4, <1>5

\* store_update() leaves the ring the tail of what was logged, the new entry
\* included.
LEMMA StoreKeepsRing ==
  ASSUME NEW v, NEW st, NEW h, NEW e, CanStore(v, st, h, e)
  PROVE  /\ StoreUpdate(v, e) \in Contents
         /\ RingOK(StoreUpdate(v, e), StartAfter(v, e, st), HistAfter(v, e, h))
<1> DEFINE u == Writing(v, e, e)
           c == CountUpdate(u, e)
           w == StoreUpdate(v, e)
<1>1. v \in Contents /\ e \in Entry
  BY Zenon DEF CanStore
<1>2. u \in Contents /\ u.ent = [v.ent EXCEPT ![Slot(e.sno)] = e]
  BY <1>1, WritingFacts, Zenon
<1>3. c \in Contents /\ c.ent = u.ent /\ c.last_sno = e.sno /\ c.last_time = e.time
  BY <1>1, <1>2, CountFacts, Zenon
<1> HIDE DEF c
<1>4. w = [c EXCEPT !.state = "STABLE"]
  BY Zenon DEF StoreUpdate, c
<1> HIDE DEF w
<1>5. /\ w \in Contents /\ w.ent = c.ent /\ w.last_sno = c.last_sno
      /\ w.last_time = c.last_time /\ w.num = c.num /\ w.first_sno = c.first_sno
  BY <1>3, <1>4, Zenon DEF Contents
<1>6. RingOK(w, StartAfter(v, e, st), HistAfter(v, e, h))
  BY <1>2, <1>3, <1>5, CountedRing, Zenon DEF c
<1> QED BY <1>5, <1>6 DEF w

\* What Extend() or its alternative leaves in the history variables when the
\* store ended with the file holding w.
Counted(w, e) == w.num # 0 /\ w.last_sno = e.sno

\* So does a store_update() that ends after any of its writes: with the new
\* entry if the header names it the last, and without it otherwise.
LEMMA DieKeepsRing ==
  ASSUME NEW v, NEW st, NEW h, NEW e, CanStore(v, st, h, e),
         NEW w \in StoreInterrupted(v, e)
  PROVE  /\ w \in Contents
         /\ Counted(w, e) =>
              RingOK(w, StartAfter(v, e, st), HistAfter(v, e, h))
         /\ ~Counted(w, e) => RingOK(w, st, h)
<1> DEFINE u == Writing(v, e, e)
<1>1. /\ v \in Contents /\ e \in Entry /\ e.sno \in Sno /\ e.time \in Nat
      /\ e.sno \in Nat /\ 1 <= e.sno /\ st \in Sno /\ h \in [Sno -> Entry]
      /\ RingOK(v, st, h) /\ (v.num # 0 => e.sno = v.last_sno + 1)
      /\ v.last_sno \in Nat /\ MaxSno \in Nat
  <2>1. /\ v \in Contents /\ e \in Entry /\ 1 <= e.sno /\ st \in Sno
        /\ h \in [Sno -> Entry] /\ RingOK(v, st, h)
        /\ (v.num # 0 => e.sno = v.last_sno + 1)
    BY Zenon DEF CanStore
  <2>2. e.sno \in Sno /\ e.time \in Nat /\ v.last_sno \in Sno
    BY <2>1, Zenon DEF Entry, Contents
  <2> QED BY <2>1, <2>2, UlogAssumption DEF Sno
<1>2. u \in Contents /\ u.ent = [v.ent EXCEPT ![Slot(e.sno)] = e]
      /\ u.num = v.num /\ u.first_sno = v.first_sno
      /\ u.state = "UNSTABLE" /\ u.last_sno = v.last_sno
  BY <1>1, WritingFacts, Zenon
\* The slot is written, or about to be, and the header still names the old last.
<1>3. ASSUME NEW x \in Entry, x.sno = 0 \/ x.sno = e.sno, w = Writing(v, e, x)
      PROVE  w \in Contents /\ ~Counted(w, e) /\ RingOK(w, st, h)
  <2>1. /\ w \in Contents /\ w.state = "UNSTABLE"
        /\ w.ent = [v.ent EXCEPT ![Slot(e.sno)] = x]
        /\ w.num = v.num /\ w.first_sno = v.first_sno /\ w.last_sno = v.last_sno
    BY <1>1, <1>3, WritingFacts
  <2>2. CASE v.num = 0
    BY <2>1, <2>2, Zenon DEF RingOK, Counted
  <2>3. CASE v.num # 0
    <3>1. v.last_sno < MaxSno /\ e.sno = v.last_sno + 1
      BY <1>1, <2>3 DEF Sno
    <3>2. HalfWritten(w)
      BY <2>1, Zenon DEF HalfWritten
    <3>3. RingOK(w, st, h)
      BY <3>1, <3>2, <2>1, <1>1, <1>3, Overwritten, Zenon
    <3> QED BY <3>1, <3>3, <2>1, <1>1 DEF Counted
  <2> QED BY <2>2, <2>3
<1>4. CASE w = v
  <2>1. ~Counted(v, e)
    BY <1>1 DEF Counted
  <2> QED BY <2>1, <1>1, <1>4
<1>5. CASE w = [v EXCEPT !.state = "UNSTABLE"]
  <2>1. /\ w \in Contents /\ w.state = "UNSTABLE" /\ w.ent = v.ent
        /\ w.num = v.num /\ w.first_sno = v.first_sno /\ w.last_sno = v.last_sno
    BY <1>1, <1>5, Zenon DEF Contents
  <2>2. ~Counted(w, e)
    BY <2>1, <1>1 DEF Counted
  <2>3. RingOK(w, st, h)
    BY <2>1, <1>1 DEF RingOK, InRing, HalfWritten
  <2> QED BY <2>1, <2>2, <2>3
<1>6. CASE w = Writing(v, e, ZeroEntry)
  <2>1. ZeroEntry.sno = 0
    BY Zenon DEF ZeroEntry
  <2> QED BY <2>1, <1>3, <1>6, ZeroEntryType
<1>7. CASE w = Writing(v, e, [e EXCEPT !.commit = FALSE])
  <2>1. [e EXCEPT !.commit = FALSE] \in Entry /\ [e EXCEPT !.commit = FALSE].sno = e.sno
    BY <1>1, Zenon DEF Entry
  <2> QED BY <2>1, <1>3, <1>7, Zenon
<1>8. CASE w = u
  BY <1>1, <1>3, <1>8, Zenon
\* The header names e the last entry.
<1>9. ASSUME w \in Contents, w.ent = u.ent, w.last_sno = e.sno, HalfWritten(w),
             w.num = v.num, w.first_sno = v.first_sno
      PROVE  /\ Counted(w, e) =>
                  RingOK(w, StartAfter(v, e, st), HistAfter(v, e, h))
             /\ ~Counted(w, e) => RingOK(w, st, h)
  <2>1. CASE v.num = 0
    BY <2>1, <1>9, Zenon DEF Counted, RingOK
  <2>2. CASE v.num # 0
    BY <2>2, <1>9, <1>2, CountedRing, Zenon DEF Counted
  <2> QED BY <2>1, <2>2
<1>10. CASE w = [u EXCEPT !.last_sno = e.sno]
  BY <1>10, <1>1, <1>2, <1>9, Zenon DEF HalfWritten, Contents
<1>11. CASE w = [u EXCEPT !.last_sno = e.sno, !.last_time = e.time]
  BY <1>11, <1>1, <1>2, <1>9, Zenon DEF HalfWritten, Contents
<1>12. CASE w = CountUpdate(u, e)
  <2>1. /\ w \in Contents /\ w.ent = u.ent /\ w.last_sno = e.sno
        /\ w.last_time = e.time
    BY <1>12, <1>1, <1>2, CountFacts, Zenon
  <2>2. w.num # 0 /\ RingOK(w, StartAfter(v, e, st), HistAfter(v, e, h))
    BY <2>1, <1>2, <1>12, CountedRing
  <2> QED BY <2>1, <2>2 DEF Counted
<1> QED BY <1>4, <1>5, <1>6, <1>7, <1>8, <1>10, <1>11, <1>12 DEF StoreInterrupted

-----------------------------------------------------------------------------
\* reset_ulog() was interrupted before or after it stored the dummy entry.
LEMMA ResetInterruptedFacts ==
  ASSUME NEW u \in Contents, NEW t \in Nat, NEW w \in ResetInterrupted(u, t)
  PROVE  /\ w \in Contents
         /\ w.num = 0 \/ w.num = 1
         /\ w.num = 1 => /\ w.first_sno = 1 /\ w.last_sno = 1 /\ w.last_time = t
                         /\ w.ent[Slot(1)] = Dummy(1, t)
<1>1. PICK ent \in Reread(u, ULOG_BLOCK) :
        \/ w = [EmptyFile EXCEPT !.ent = ent]
        \/ w = ZeroHeader(ULOG_BLOCK, "ZERO", ent)
        \/ w = SetDummy(ZeroHeader(ULOG_BLOCK, "ZERO", ent), 1, t)
  BY Zenon DEF ResetInterrupted
<1>2. ent \in [Slots -> Entry]
  BY RereadType, Zenon
<1>3. CASE w = [EmptyFile EXCEPT !.ent = ent]
  BY <1>2, <1>3, EmptyFileFacts DEF Contents
<1>4. ZeroHeader(ULOG_BLOCK, "ZERO", ent) \in Contents
      /\ ZeroHeader(ULOG_BLOCK, "ZERO", ent).num = 0
  BY <1>2, ZeroHeaderFacts, UlogAssumption, Zenon
<1>5. CASE w = SetDummy(ZeroHeader(ULOG_BLOCK, "ZERO", ent), 1, t)
  <2>1. 1 \in Sno
    BY UlogAssumption DEF Sno
  <2> QED BY <2>1, <1>4, <1>5, SetDummyFacts
<1> QED BY <1>1, <1>3, <1>4, <1>5

\* The operations that reset the log leave it holding the dummy entry only.
LEMMA ResetStep ==
  ASSUME TypeOK, now' \in Nat, Reset
  PROVE  TypeOK' /\ Ring'
<1> DEFINE d == Dummy(1, now')
<1>1. 1 \in Sno /\ d \in Entry /\ d.sno = 1 /\ d.time = now' /\ ulog \in Contents
  BY UlogAssumption, DummyType DEF Sno, Dummy, TypeOK
<1>2. /\ ulog' \in Contents /\ ulog'.num = 1 /\ ulog'.first_sno = 1
      /\ ulog'.last_sno = 1 /\ ulog'.last_time = now' /\ ulog'.ent[Slot(1)] = d
  BY <1>1, ResetFacts, Zenon DEF Reset
<1>3. start' = d.sno /\ hist' = [Blank EXCEPT ![d.sno] = d]
  BY Zenon DEF Reset, StartOver
<1> HIDE DEF d
<1>4. RingOK(ulog', d.sno, [Blank EXCEPT ![d.sno] = d])
      /\ [Blank EXCEPT ![d.sno] = d] \in [Sno -> Entry]
  BY <1>1, <1>2, StartedOver
<1> QED BY <1>1, <1>2, <1>3, <1>4 DEF TypeOK, Ring

\* A file that store_update() has resized, or not, is one it can store in.
LEMMA ResizedCanStore ==
  ASSUME NEW u, NEW st \in Sno, NEW h \in [Sno -> Entry], NEW e \in Entry,
         u \in Contents, RingOK(u, st, h), e.commit, 1 <= e.sno,
         u.num # 0 => e.sno = u.last_sno + 1, NEW r \in RecSize, NEW v \in Resized(u, r)
  PROVE  CanStore(v, st, h, e)
<1>1. v \in Contents /\ (v = u \/ v.num = 0)
  BY ResizedFacts, Zenon
<1>2. RingOK(v, st, h)
  BY <1>1, Zenon DEF RingOK
<1> QED BY <1>1, <1>2 DEF CanStore

\* Storing the next entry, to the end or not.
LEMMA StoreStep ==
  ASSUME TypeOK, Ring, now' \in Nat, NEW e \in Entry, e.commit, 1 <= e.sno,
         ulog.num # 0 => e.sno = ulog.last_sno + 1, Store(e) \/ StoreAndDie(e)
  PROVE  TypeOK' /\ Ring'
<1>1. ulog \in Contents /\ start \in Sno /\ hist \in [Sno -> Entry]
      /\ RingOK(ulog, start, hist)
  BY Zenon DEF TypeOK, Ring
<1>2. ASSUME NEW v, Extend(v, e)
      PROVE  start' = StartAfter(v, e, start) /\ hist' = HistAfter(v, e, hist)
  BY <1>2, Zenon DEF Extend, StartOver, StartAfter, HistAfter
<1>3. CASE Store(e)
  <2>1. PICK r \in RecSize : \E v \in Resized(ulog, r) :
          ulog' = StoreUpdate(v, e) /\ Extend(v, e)
    BY <1>3, Zenon DEF Store, Fitting
  <2>2. PICK v \in Resized(ulog, r) : ulog' = StoreUpdate(v, e) /\ Extend(v, e)
    BY <2>1, Zenon
  <2>3. CanStore(v, start, hist, e)
    BY <1>1, ResizedCanStore, Zenon
  <2> QED BY <2>2, <2>3, <1>2, StoreKeepsRing, AfterTypes DEF TypeOK, Ring
<1>4. CASE StoreAndDie(e)
  <2>1. PICK r \in RecSize : \E v \in Resized(ulog, r) :
          /\ ulog' \in StoreInterrupted(v, e)
          /\ IF Counted(ulog', e) THEN Extend(v, e) ELSE UNCHANGED <<start, hist>>
    BY <1>4, Zenon DEF StoreAndDie, Fitting, Counted
  <2>2. PICK v \in Resized(ulog, r) :
          /\ ulog' \in StoreInterrupted(v, e)
          /\ IF Counted(ulog', e) THEN Extend(v, e) ELSE UNCHANGED <<start, hist>>
    BY <2>1, Zenon
  <2>3. CanStore(v, start, hist, e)
    BY <1>1, ResizedCanStore, Zenon
  <2>4. CASE Counted(ulog', e)
    BY <2>2, <2>3, <2>4, <1>2, DieKeepsRing, AfterTypes DEF TypeOK, Ring
  <2>5. CASE ~Counted(ulog', e)
    BY <2>2, <2>3, <2>5, <1>1, DieKeepsRing, Zenon DEF TypeOK, Ring
  <2> QED BY <2>4, <2>5
<1> QED BY <1>3, <1>4

-----------------------------------------------------------------------------
\* The inductive invariant.
IInv == TypeOK /\ Ring

\* The log that kdb5_util create leaves satisfies the invariant.
LEMMA IInvInit == Init => IInv
<1> SUFFICES ASSUME Init PROVE IInv
  BY Zenon
<1> DEFINE d == Dummy(1, 1)
<1>1. 1 \in Sno /\ d \in Entry /\ d.sno = 1 /\ d.time = 1
  BY UlogAssumption, DummyType DEF Sno, Dummy
<1>2. ulog \in ResetUlog(EmptyFile, 1) /\ EmptyFile \in Contents
  BY EmptyFileFacts, Zenon DEF Init
<1>3. /\ ulog \in Contents /\ ulog.num = 1 /\ ulog.first_sno = 1
      /\ ulog.last_sno = 1 /\ ulog.last_time = 1 /\ ulog.ent[Slot(1)] = d
  BY <1>2, ResetFacts
<1>4. start = d.sno /\ hist = [Blank EXCEPT ![d.sno] = d] /\ now = 1
  BY <1>1, Zenon DEF Init
<1> HIDE DEF d
<1>5. RingOK(ulog, d.sno, [Blank EXCEPT ![d.sno] = d])
      /\ [Blank EXCEPT ![d.sno] = d] \in [Sno -> Entry]
  BY <1>1, <1>3, StartedOver
<1> QED BY <1>1, <1>3, <1>4, <1>5 DEF IInv, TypeOK, Ring

\* Every operation on the log file keeps the invariant.
LEMMA IInvNext == IInv /\ [Next]_vars => IInv'
<1> SUFFICES ASSUME IInv, [Next]_vars PROVE IInv'
  BY Zenon
<1>1. /\ TypeOK /\ Ring /\ ulog \in Contents /\ now \in Nat /\ start \in Sno
      /\ hist \in [Sno -> Entry] /\ ulog.last_sno \in Sno
  BY Zenon DEF IInv, TypeOK, Contents
<1>2. Tick => now' \in Nat
  BY <1>1 DEF Tick
<1>3. CASE InitHeader \/ Map \/ GetEntries
  BY <1>1, <1>2, <1>3, ResetStep, Zenon DEF InitHeader, Map, GetEntries, IInv
<1>4. CASE DieInReset
  <2>1. ulog' \in ResetInterrupted(ulog, now') /\ now' \in Nat
    BY <1>2, <1>4, Zenon DEF DieInReset
  <2>2. ulog' \in Contents /\ (ulog'.num = 0 \/ ulog'.num = 1)
    BY <2>1, <1>1, ResetInterruptedFacts, Zenon
  <2>3. CASE ulog'.num = 0
    <3>1. start' = start /\ hist' = hist
      BY <2>3, <1>4 DEF DieInReset
    <3> QED BY <3>1, <2>1, <2>2, <2>3, <1>1 DEF IInv, TypeOK, Ring, RingOK
  <2>4. CASE ulog'.num = 1
    <3> DEFINE d == Dummy(1, now')
    <3>1. d \in Entry /\ d.sno = 1 /\ d.time = now' /\ 1 \in Sno
      BY <2>1, DummyType, UlogAssumption DEF Dummy, Sno
    <3>2. /\ ulog'.first_sno = 1 /\ ulog'.last_sno = 1 /\ ulog'.last_time = now'
          /\ ulog'.ent[Slot(1)] = d
      BY <2>1, <2>4, <1>1, ResetInterruptedFacts, Zenon
    <3>3. start' = d.sno /\ hist' = [Blank EXCEPT ![d.sno] = d]
      BY <2>4, <1>4, Zenon DEF DieInReset, StartOver
    <3> HIDE DEF d
    <3>4. RingOK(ulog', d.sno, [Blank EXCEPT ![d.sno] = d])
          /\ [Blank EXCEPT ![d.sno] = d] \in [Sno -> Entry]
      BY <3>1, <3>2, <2>2, <2>4, StartedOver
    <3> QED BY <3>1, <3>3, <3>4, <2>1, <2>2 DEF IInv, TypeOK, Ring
  <2> QED BY <2>2, <2>3, <2>4
<1>5. ASSUME NEW x \in Update, NEW t \in Nat, now' \in Nat, NEW n \in Sno \ {0},
             ulog.num # 0 => n = ulog.last_sno + 1,
             Store(Logged(n, t, x)) \/ StoreAndDie(Logged(n, t, x))
      PROVE  IInv'
  <2> DEFINE e == Logged(n, t, x)
  <2>1. 1 <= n
    BY UlogAssumption DEF Sno
  <2>2. e \in Entry /\ e.commit /\ e.sno = n
    BY LoggedType, Zenon DEF Logged
  <2> HIDE DEF e
  <2>3. Store(e) \/ StoreAndDie(e)
    BY <1>5, Zenon DEF e
  <2> QED BY <2>1, <2>2, <2>3, <1>1, <1>5, StoreStep DEF IInv
<1>6. CASE \E x \in Update : AddUpdate(x) \/ AddUpdateDies(x)
  <2>1. ulog.last_sno < MaxSno => ulog.last_sno + 1 \in Sno \ {0}
    BY <1>1, UlogAssumption DEF Sno
  <2> QED BY <2>1, <1>2, <1>5, <1>6 DEF AddUpdate, AddUpdateDies, NewEntry
<1>7. CASE \E n \in Sno \ {0}, x \in Update, t \in 1 .. now :
             Replay(n, x, t) \/ ReplayDies(n, x, t)
  BY <1>1, <1>5, <1>7 DEF Replay, ReplayDies, Follows
<1>8. CASE \E x \in Update : AddUpdateWrap(x)
  <2>1. PICK x \in Update : AddUpdateWrap(x)
    BY <1>8, Zenon
  <2>2. now + 1 \in Nat /\ now' \in Nat /\ 1 \in Sno /\ 2 \in Sno
    BY <2>1, <1>1, UlogAssumption DEF AddUpdateWrap, Sno
  <2>3. PICK u \in ResetUlog(ulog, now + 1), r \in RecSize : \E v \in Resized(u, r) :
          LET e == NewEntry(u, now', x)
          IN /\ ulog' = StoreUpdate(v, e)
             /\ start' = IF v.num = 0 THEN e.sno ELSE 1
             /\ hist' = IF v.num = 0 THEN [Blank EXCEPT ![e.sno] = e]
                        ELSE [Blank EXCEPT ![1] = Dummy(1, now + 1), ![e.sno] = e]
    BY <2>1, Zenon DEF AddUpdateWrap
  <2> DEFINE e == NewEntry(u, now', x)
             d == Dummy(1, now + 1)
             h == [Blank EXCEPT ![1] = d]
  <2>4. PICK v \in Resized(u, r) :
          /\ ulog' = StoreUpdate(v, e)
          /\ start' = IF v.num = 0 THEN e.sno ELSE 1
          /\ hist' = IF v.num = 0 THEN [Blank EXCEPT ![e.sno] = e]
                     ELSE [h EXCEPT ![e.sno] = e]
    BY <2>3, Zenon
  <2>5. d \in Entry /\ d.sno = 1 /\ d.time = now + 1
    BY <2>2, DummyType, Zenon DEF Dummy
  <2>6. /\ u \in Contents /\ u.num = 1 /\ u.first_sno = 1 /\ u.last_sno = 1
        /\ u.last_time = now + 1 /\ u.ent[Slot(1)] = d
    BY <2>2, <1>1, ResetFacts
  <2>7. e \in Entry /\ e.commit /\ e.sno = u.last_sno + 1
    BY <2>2, <2>6, LoggedType DEF NewEntry, Logged
  <2> HIDE DEF e, d
  <2>8. RingOK(u, 1, h) /\ h \in [Sno -> Entry]
    BY <2>5, <2>6, StartedOver
  <2> HIDE DEF h
  <2>9. CanStore(v, 1, h, e)
    BY <2>2, <2>6, <2>7, <2>8, ResizedCanStore
  <2>10. start' = StartAfter(v, e, 1) /\ hist' = HistAfter(v, e, h)
    BY <2>4, Zenon DEF StartAfter, HistAfter
  <2>11. ulog' \in Contents /\ RingOK(ulog', start', hist')
    BY <2>4, <2>9, <2>10, StoreKeepsRing
  <2>12. start' \in Sno /\ hist' \in [Sno -> Entry]
    BY <2>9, <2>10, AfterTypes, Zenon
  <2> QED BY <2>2, <2>11, <2>12 DEF IInv, TypeOK, Ring
<1>9. CASE \E sno \in Sno \ {0}, t \in 1 .. now : SetLast(sno, t)
  <2>1. PICK sno \in Sno \ {0}, t \in 1 .. now : SetLast(sno, t)
    BY <1>9, Zenon
  <2> DEFINE d == Dummy(sno, t)
  <2>2. t \in Nat /\ 1 <= sno /\ now' \in Nat
    BY <2>1, <1>1 DEF SetLast, Sno
  <2>3. d \in Entry /\ d.sno = sno /\ d.time = t
    BY <2>2, DummyType, Zenon DEF Dummy
  <2>4. /\ ulog' \in Contents /\ ulog'.num = 1 /\ ulog'.first_sno = sno
        /\ ulog'.last_sno = sno /\ ulog'.last_time = t
        /\ ulog'.ent[Slot(sno)] = Dummy(sno, t)
    <3>1. ulog' = SetDummy(ulog, sno, t) /\ sno \in Sno /\ t \in Nat /\ ulog \in Contents
      BY <2>1, <2>2, <1>1, Zenon DEF SetLast
    <3> DEFINE w == SetDummy(ulog, sno, t)
    <3>2. /\ w \in Contents /\ w.num = 1 /\ w.first_sno = sno
          /\ w.last_sno = sno /\ w.last_time = t /\ w.ent[Slot(sno)] = Dummy(sno, t)
      BY <3>1, SetDummyFacts
    <3> QED BY <3>1, <3>2
  <2>5. start' = d.sno /\ hist' = [Blank EXCEPT ![d.sno] = d]
    BY <2>1, Zenon DEF SetLast, StartOver
  <2>7. ulog'.ent[Slot(d.sno)] = d
    BY <2>3, <2>4, Zenon
  <2> HIDE DEF d
  <2>6. RingOK(ulog', d.sno, [Blank EXCEPT ![d.sno] = d])
        /\ [Blank EXCEPT ![d.sno] = d] \in [Sno -> Entry]
    BY <2>2, <2>3, <2>4, <2>7, StartedOver, Zenon
  <2> QED BY <2>2, <2>3, <2>4, <2>5, <2>6 DEF IInv, TypeOK, Ring
<1>10. CASE UNCHANGED vars
  BY <1>10, Zenon DEF vars, IInv, TypeOK, Ring
<1> QED BY <1>3, <1>4, <1>6, <1>7, <1>8, <1>9, <1>10 DEF Next

-----------------------------------------------------------------------------
\* If the ring is the tail of what was logged, then get_sno_status() accepts
\* only positions whose later entries ulog_get_entries() finds in their slots.
LEMMA RingReplies == IInv => ReplyExact
<1> SUFFICES ASSUME IInv, ulog.state = "STABLE", NEW s \in Sno, NEW t \in 0 .. now,
                    GetSnoStatus(ulog, [sno |-> s, time |-> t]) = "OK"
             PROVE  /\ start <= s /\ s < ulog.last_sno
                    /\ hist[s].time = t
                    /\ \A i \in 1 .. (ulog.last_sno - s) :
                         /\ Updates(ulog, s)[i] = hist[s + i]
                         /\ Updates(ulog, s)[i].commit
  BY Zenon DEF ReplyExact
<1>1. /\ ulog \in Contents /\ start \in Nat /\ ulog.last_sno \in Nat
      /\ ulog.first_sno \in Nat /\ s \in Nat
      /\ ulogentries \in Nat /\ ulogentries >= 1 /\ MaxSno \in Nat
  <2>1. ulog \in Contents /\ start \in Sno
    BY Zenon DEF IInv, TypeOK
  <2>2. ulog.last_sno \in Sno /\ ulog.first_sno \in Sno
    BY <2>1, Zenon DEF Contents
  <2> QED BY <2>1, <2>2, UlogAssumption DEF Sno
<1>2. /\ ulog.num # 0 /\ ulog.first_sno <= s /\ s <= ulog.last_sno
      /\ ulog.ent[Slot(s)].sno = s /\ ulog.ent[Slot(s)].time = t
      /\ ~(s = ulog.last_sno /\ t = ulog.last_time)
  BY Zenon DEF GetSnoStatus, CanUpdate, UpToDate, CheckSno, LastPos
<1>3. ~HalfWritten(ulog)
  BY Zenon DEF HalfWritten
<1>4. /\ 1 <= start /\ start <= ulog.first_sno
      /\ hist[ulog.last_sno].time = ulog.last_time
      /\ \A k \in start .. ulog.last_sno :
           /\ k > start => hist[k].commit
           /\ InRing(ulog, k) => ulog.ent[Slot(k)] = hist[k]
           /\ k <= ulog.last_sno - ulogentries => ulog.ent[Slot(k)].sno # k
  BY <1>2, <1>3, Zenon DEF IInv, Ring, RingOK
<1>5. start <= s /\ s \in start .. ulog.last_sno /\ s > ulog.last_sno - ulogentries
  BY <1>1, <1>2, <1>4
<1>6. \A k \in s .. ulog.last_sno : InRing(ulog, k) /\ k \in start .. ulog.last_sno
  BY <1>1, <1>3, <1>5 DEF InRing
<1>7. hist[s].time = t
  BY <1>1, <1>2, <1>4, <1>5, <1>6
<1>8. s < ulog.last_sno
  BY <1>1, <1>2, <1>4, <1>7
<1>9. ASSUME NEW i \in 1 .. (ulog.last_sno - s)
      PROVE  Updates(ulog, s)[i] = hist[s + i] /\ Updates(ulog, s)[i].commit
  <2>1. s + i \in s .. ulog.last_sno /\ s + i > start /\ s + i # 0
    BY <1>1, <1>4, <1>5
  <2>2. Slot(s + i) = (s + i - 1) % ulogentries
    <3>1. Slot(s + i) = (IF s + i = 0 THEN MaxSno ELSE (s + i) - 1) % ulogentries
      BY Zenon DEF Slot
    <3> QED BY <3>1, <2>1, <1>1
  <2>3. Updates(ulog, s)[i] = ulog.ent[Slot(s + i)]
    BY <2>2, Zenon DEF Updates
  <2> QED BY <2>1, <2>3, <1>4, <1>6
<1> QED BY <1>5, <1>7, <1>8, <1>9

\* The invariant that the theorems rest on holds in every state.
LEMMA Inductive == Spec => []IInv
  BY IInvInit, IInvNext, PTL DEF Spec

(***************************************************************************)
(* The log file always has the layout that kdb_hlog_t and                  *)
(* kdb_ent_header_t describe, for any number of slots and serial numbers,  *)
(* whatever sequence of operations and deaths it goes through.             *)
(***************************************************************************)
THEOREM TypeCorrect == Spec => []TypeOK
<1>1. IInv => TypeOK
  BY Zenon DEF IInv
<1> QED BY <1>1, Inductive, PTL

(***************************************************************************)
(* store_update() and reset_ulog() keep the ring the tail of what was      *)
(* logged since the log was last started over, even when a process dies    *)
(* within them.                                                            *)
(***************************************************************************)
THEOREM RingIsTail == Spec => []Ring
<1>1. IInv => Ring
  BY Zenon DEF IInv
<1> QED BY <1>1, Inductive, PTL

(***************************************************************************)
(* ulog_get_entries() sends a replica exactly the updates logged after the *)
(* replica's position, for any size of the ring and any range of serial    *)
(* numbers.                                                                *)
(***************************************************************************)
THEOREM RepliesAreExact == Spec => []ReplyExact
  BY RingReplies, Inductive, PTL

-----------------------------------------------------------------------------
(***************************************************************************)
(* The update log file implements UpdateLog.                               *)
(*                                                                         *)
(* Ring says what the slots hold.  What it does not say is how far back    *)
(* the header may reach: Behind does, and with it the first number that is *)
(* served never moves back while the log goes on.                          *)
(***************************************************************************)

Dom(u) == {s \in u.first_sno .. u.last_sno : u.num # 0 /\ u.ent[Slot(s)].sno = s}

Behind(u) == u.num # 0 => u.first_sno <= u.last_sno - u.num + 1

\* What u and w both serve is the same, and is the end of what u serves.
Kept(u, w, S) ==
  /\ \A s \in S : s \in Dom(u) /\ w.ent[Slot(s)] = u.ent[Slot(s)]
  /\ \A s \in S, r \in Dom(u) : s <= r => r \in S

\* w serves one entry, or none.
Alone(w) ==
  \/ Dom(w) = {}
  \/ \E s \in Dom(w) : Dom(w) = {s} /\ w.ent[Slot(s)].sno = s

\* w serves the entry e after the last that u serves.
Grown(u, w, e) ==
  /\ e.sno \in Dom(w) /\ e.sno - 1 \in Dom(u) /\ e.sno \notin Dom(u)
  /\ w.ent[Slot(e.sno)] = e /\ e.commit
  /\ Kept(u, w, Dom(w) \ {e.sno})

\* Served is a function on Dom.
LEMMA ServedFacts ==
  ASSUME NEW u
  PROVE  DOMAIN Served(u) = Dom(u) /\ \A s \in Dom(u) : Served(u)[s] = u.ent[Slot(s)]
  BY Zenon DEF Served, Dom

\* The numbers that a ring serves are in it, and the last one is served
\* unless it was overwritten.
LEMMA ServedInRing ==
  ASSUME NEW v \in Contents, NEW st \in Sno, NEW h \in [Sno -> Entry],
         RingOK(v, st, h)
  PROVE  /\ \A s \in Dom(v) : /\ s \in Sno /\ 1 <= s /\ s <= v.last_sno
                               /\ v.last_sno - ulogentries < s
         /\ v.num # 0 /\ ulogentries # 1 => v.last_sno \in Dom(v)
<1>1. /\ st \in Nat /\ v.last_sno \in Nat /\ v.first_sno \in Nat /\ MaxSno \in Nat
      /\ v.last_sno <= MaxSno /\ ulogentries \in Nat /\ ulogentries >= 1
  BY UlogAssumption DEF Contents, Sno
<1>2. ASSUME v.num # 0
      PROVE  /\ 1 <= st /\ st <= v.first_sno /\ v.first_sno <= v.last_sno
             /\ \A s \in st .. v.last_sno :
                  /\ h[s].sno = s
                  /\ InRing(v, s) => v.ent[Slot(s)] = h[s]
                  /\ s <= v.last_sno - ulogentries => v.ent[Slot(s)].sno # s
  BY <1>2, Zenon DEF RingOK
<1>3. ASSUME NEW s \in Dom(v)
      PROVE  s \in Sno /\ 1 <= s /\ s <= v.last_sno /\ v.last_sno - ulogentries < s
  <2>1. v.num # 0 /\ s \in v.first_sno .. v.last_sno /\ v.ent[Slot(s)].sno = s
    BY Zenon DEF Dom
  <2>2. s \in st .. v.last_sno /\ s \in Nat /\ 1 <= s
    BY <2>1, <1>1, <1>2
  <2> QED BY <2>1, <2>2, <1>1, <1>2 DEF Sno
<1>4. ASSUME v.num # 0, ulogentries # 1
      PROVE  v.last_sno \in Dom(v)
  <2>1. v.last_sno \in st .. v.last_sno /\ v.last_sno \in v.first_sno .. v.last_sno
    BY <1>1, <1>2, <1>4
  <2>2. InRing(v, v.last_sno)
    BY <1>1, <1>4 DEF InRing
  <2> QED BY <2>1, <2>2, <1>2, <1>4 DEF Dom
<1> QED BY <1>3, <1>4

\* Of the numbers that v serves, only the one ulogentries before the entry
\* that is stored next has the same slot.
LEMMA SlotTaken ==
  ASSUME NEW v, NEW st, NEW h, NEW e, CanStore(v, st, h, e), v.num # 0
  PROVE  \A r \in Dom(v) : /\ r < e.sno /\ r # 0 /\ r \in Sno
                           /\ \/ Slot(r) # Slot(e.sno)
                              \/ \A s \in Dom(v) : r <= s
<1>1. /\ v \in Contents /\ st \in Sno /\ h \in [Sno -> Entry] /\ RingOK(v, st, h)
      /\ e \in Entry /\ e.sno = v.last_sno + 1
  BY Zenon DEF CanStore
<1>2. /\ e.sno \in Sno /\ e.sno \in Nat /\ v.last_sno \in Nat /\ ulogentries \in Nat
      /\ ulogentries >= 1
  BY <1>1, UlogAssumption DEF Contents, Entry, Sno
<1>3. \A r \in Dom(v) : /\ r \in Sno /\ 1 <= r /\ r <= v.last_sno
                        /\ v.last_sno - ulogentries < r
  BY <1>1, ServedInRing, Zenon
<1>4. Sno \subseteq Nat
  BY UlogAssumption DEF Sno
<1>5. ASSUME NEW r \in Dom(v)
      PROVE  r \in Sno /\ r \in Nat /\ r < e.sno /\ r # 0
  <2>1. r \in Sno /\ 1 <= r /\ r <= v.last_sno
    BY <1>3, Zenon
  <2>2. r \in Nat
    BY <2>1, <1>4, Zenon
  <2> QED BY <2>1, <2>2, <1>1, <1>2
<1>6. ASSUME NEW r \in Dom(v), Slot(r) = Slot(e.sno), NEW s \in Dom(v)
      PROVE  r <= s
  <2>1. /\ r \in Nat /\ s \in Nat /\ r < e.sno /\ r \in Sno
        /\ v.last_sno - ulogentries < s /\ 1 <= r
    BY <1>3, <1>5, Zenon
  <2>2. ~(e.sno - r < ulogentries)
    BY <2>1, <1>2, <1>6, SlotDistinct, Zenon
  <2> QED BY <2>1, <2>2, <1>1, <1>2
<1> QED BY <1>5, <1>6

\* A slot is overwritten and the header is as it was: at most the oldest
\* number is not served any more.
LEMMA OverwrittenForgets ==
  ASSUME NEW v, NEW st, NEW h, NEW e, CanStore(v, st, h, e),
         NEW w \in Contents, NEW x \in Entry, x.sno = 0 \/ x.sno = e.sno,
         w.ent = [v.ent EXCEPT ![Slot(e.sno)] = x],
         w.num = v.num, w.first_sno = v.first_sno, w.last_sno = v.last_sno
  PROVE  Kept(v, w, Dom(w))
<1>1. CASE v.num = 0
  BY <1>1, Zenon DEF Dom, Kept
<1>2. CASE v.num # 0
  <2>1. v.ent \in [Slots -> Entry] /\ e.sno \in Sno /\ Slot(e.sno) \in Slots
    BY SlotRange, Zenon DEF CanStore, Contents, Entry
  <2>2. v.first_sno \in Nat /\ v.last_sno \in Nat /\ 1 <= v.first_sno
        /\ e.sno = v.last_sno + 1 /\ v.last_sno <= MaxSno /\ MaxSno \in Nat
    <3>1. v \in Contents /\ st \in Sno /\ 1 <= st /\ st <= v.first_sno
      BY <1>2, Zenon DEF CanStore, RingOK
    <3>2. v.first_sno \in Nat /\ v.last_sno \in Nat /\ st \in Nat
          /\ v.last_sno <= MaxSno /\ MaxSno \in Nat
      BY <3>1, UlogAssumption DEF Contents, Sno
    <3> QED BY <3>1, <3>2, <1>2 DEF CanStore
  <2>3. \A s \in v.first_sno .. v.last_sno : s \in Sno /\ s # 0 /\ s # e.sno
    BY <2>2 DEF Sno
  <2>4. ASSUME NEW s \in Dom(w)
        PROVE  /\ Slot(s) # Slot(e.sno) /\ s \in Dom(v)
               /\ w.ent[Slot(s)] = v.ent[Slot(s)]
    <3>1. s \in v.first_sno .. v.last_sno /\ w.ent[Slot(s)].sno = s
      BY Zenon DEF Dom
    <3>2. Slot(s) # Slot(e.sno)
      BY <3>1, <2>1, <2>3, Zenon
    <3>3. Slot(s) \in Slots
      BY <3>1, <2>3, SlotRange, Zenon
    <3>4. w.ent[Slot(s)] = v.ent[Slot(s)]
      BY <3>2, <3>3, <2>1, Zenon
    <3> QED BY <3>1, <3>2, <3>4, <1>2 DEF Dom
  <2>5. ASSUME NEW s \in Dom(w), NEW r \in Dom(v), s <= r
        PROVE  r \in Dom(w)
    <3>1. CASE Slot(r) = Slot(e.sno)
      <4>1. r <= s /\ r \in Sno /\ s \in Sno
        BY <3>1, <2>4, <1>2, SlotTaken
      <4>2. r = s
        BY <4>1, <2>5, UlogAssumption DEF Sno
      <4> QED BY <4>2
    <3>2. CASE Slot(r) # Slot(e.sno)
      <4>1. Slot(r) \in Slots
        BY <1>2, SlotTaken, SlotRange, Zenon
      <4>2. w.ent[Slot(r)] = v.ent[Slot(r)]
        BY <4>1, <3>2, <2>1, Zenon
      <4> QED BY <4>2, <1>2 DEF Dom
    <3> QED BY <3>1, <3>2
  <2> QED BY <2>4, <2>5 DEF Kept
<1> QED BY <1>1, <1>2

\* The entry is in its slot and the header names it the last: it is served
\* after what is left of the others.
LEMMA CountedGrows ==
  ASSUME NEW v, NEW st, NEW h, NEW e, CanStore(v, st, h, e), v.num # 0,
         NEW w \in Contents, w.ent = [v.ent EXCEPT ![Slot(e.sno)] = e],
         w.num # 0, w.last_sno = e.sno,
         v.first_sno <= w.first_sno, w.first_sno <= e.sno
  PROVE  Grown(v, w, e) \/ Alone(w)
<1>1. /\ v \in Contents /\ st \in Sno /\ h \in [Sno -> Entry] /\ RingOK(v, st, h)
      /\ e \in Entry /\ e.sno = v.last_sno + 1 /\ e.commit
  BY Zenon DEF CanStore
<1>2. /\ e.sno \in Sno /\ e.sno \in Nat /\ v.last_sno \in Nat /\ v.first_sno \in Nat
      /\ w.first_sno \in Nat /\ MaxSno \in Nat /\ e.sno <= MaxSno
      /\ ulogentries \in Nat /\ v.ent \in [Slots -> Entry] /\ Slot(e.sno) \in Slots
  <2>1. e.sno \in Sno /\ v.last_sno \in Sno /\ v.first_sno \in Sno
        /\ w.first_sno \in Sno /\ v.ent \in [Slots -> Entry]
    BY <1>1, Zenon DEF Contents, Entry
  <2>2. Slot(e.sno) \in Slots
    BY <2>1, SlotRange, Zenon
  <2> QED BY <2>1, <2>2, UlogAssumption DEF Sno
<1>3. w.ent[Slot(e.sno)] = e
  BY <1>2, Zenon
<1>4. e.sno \in Dom(w)
  BY <1>2, <1>3 DEF Dom
<1>5. ASSUME NEW s \in Dom(w) \ {e.sno}
      PROVE  /\ Slot(s) # Slot(e.sno) /\ s \in Dom(v)
             /\ w.ent[Slot(s)] = v.ent[Slot(s)]
  <2>1. s \in w.first_sno .. e.sno /\ w.ent[Slot(s)].sno = s /\ s # e.sno
    BY Zenon DEF Dom
  <2>2. Slot(s) # Slot(e.sno)
    BY <2>1, <1>3, Zenon
  <2>3. s \in Sno /\ s \in v.first_sno .. v.last_sno
    <3>1. /\ e.sno = v.last_sno + 1 /\ e.sno \in Nat /\ v.last_sno \in Nat
          /\ v.first_sno \in Nat /\ w.first_sno \in Nat /\ MaxSno \in Nat
          /\ e.sno <= MaxSno /\ v.first_sno <= w.first_sno
      BY <1>1, <1>2, Zenon
    <3> QED BY ONLY <2>1, <3>1 DEF Sno
  <2>4. w.ent[Slot(s)] = v.ent[Slot(s)]
    BY <2>2, <2>3, <1>2, SlotRange, Zenon
  <2> QED BY <2>1, <2>2, <2>3, <2>4 DEF Dom
<1>6. ASSUME NEW s \in Dom(w) \ {e.sno}, NEW r \in Dom(v), s <= r
      PROVE  r \in Dom(w) \ {e.sno}
  <2>1. r \in Sno /\ s \in Sno /\ r < e.sno
    BY <1>5, SlotTaken, Zenon
  <2>2. CASE Slot(r) = Slot(e.sno)
    <3>1. r <= s
      BY <2>2, <1>5, SlotTaken
    <3>2. r = s
      BY <3>1, <2>1, <1>6, UlogAssumption DEF Sno
    <3> QED BY <3>2, <1>6
  <2>3. CASE Slot(r) # Slot(e.sno)
    <3>1. w.ent[Slot(r)] = v.ent[Slot(r)]
      BY <2>1, <2>3, <1>2, SlotRange, Zenon
    <3>2. s \in w.first_sno .. e.sno /\ v.ent[Slot(r)].sno = r
      BY Zenon DEF Dom
    <3>3. r \in w.first_sno .. e.sno /\ r # e.sno
      BY <3>2, <2>1, <1>2, <1>6 DEF Sno
    <3> QED BY <3>1, <3>2, <3>3 DEF Dom
  <2> QED BY <2>2, <2>3
<1>7. e.sno \notin Dom(v)
  BY SlotTaken, <1>2
<1>8. CASE ulogentries # 1
  <2>1. e.sno - 1 \in Dom(v)
    BY <1>1, <1>2, <1>8, ServedInRing
  <2> QED BY <2>1, <1>1, <1>3, <1>4, <1>5, <1>6, <1>7 DEF Grown, Kept
<1>9. CASE ulogentries = 1
  <2>1. \A s \in Sno : Slot(s) = 0
    BY <1>9, SlotRange DEF Slots
  <2>2. \A s \in Dom(w) : s = e.sno
    BY <2>1, <1>2, <1>5, SlotTaken
  <2> QED BY <2>2, <1>3, <1>4 DEF Alone
<1> QED BY <1>8, <1>9

\* What a store makes of the numbers that v serves.
Simulated(v, w, e) ==
  /\ Behind(w)
  /\ v.num = 0 => Alone(w)
  /\ v.num # 0 => Kept(v, w, Dom(w)) \/ Grown(v, w, e) \/ Alone(w)

\* The header names e the last entry, and the rest of it was updated or not.
LEMMA CountSimulated ==
  ASSUME NEW v, NEW st, NEW h, NEW e, CanStore(v, st, h, e), Behind(v),
         NEW w \in Contents, w.ent = [v.ent EXCEPT ![Slot(e.sno)] = e],
         w.last_sno = e.sno,
         \/ /\ w.num = CountUpdate(Writing(v, e, e), e).num
            /\ w.first_sno = CountUpdate(Writing(v, e, e), e).first_sno
         \/ w.num = v.num /\ w.first_sno = v.first_sno
  PROVE  Simulated(v, w, e)
<1> DEFINE u == Writing(v, e, e)
           c == CountUpdate(u, e)
<1>1. /\ v \in Contents /\ e \in Entry /\ 1 <= e.sno /\ st \in Sno /\ RingOK(v, st, h)
      /\ v.num # 0 => e.sno = v.last_sno + 1
  BY Zenon DEF CanStore
<1>2. /\ e.sno \in Nat /\ e.sno \in Sno /\ v.num \in Nat /\ v.first_sno \in Nat
      /\ v.last_sno \in Nat /\ ulogentries \in Nat /\ ulogentries >= 1
      /\ v.ent \in [Slots -> Entry]
  <2>1. /\ e.sno \in Sno /\ v.first_sno \in Sno /\ v.last_sno \in Sno /\ v.num \in Nat
        /\ v.ent \in [Slots -> Entry]
    BY <1>1, Zenon DEF Contents, Entry
  <2> QED BY <2>1, UlogAssumption DEF Sno
<1>3. u \in Contents /\ u.num = v.num /\ u.first_sno = v.first_sno
  <2>1. Written(v, e, e, u)
    BY <1>1, WritingIs, Zenon
  <2> HIDE DEF u
  <2> QED BY <2>1, Zenon DEF Written
<1>4. /\ u.num = 0 => c.num = 1 /\ c.first_sno = e.sno
      /\ u.num # 0 /\ u.num < ulogentries =>
           c.num = u.num + 1 /\ c.first_sno = u.first_sno
      /\ u.num # 0 /\ ~(u.num < ulogentries) =>
           c.num = u.num /\ c.first_sno = u.ent[e.sno % ulogentries].sno
  BY <1>1, <1>3, CountFacts, Zenon
<1>5. CASE v.num = 0
  <2>1. CASE w.num = 0
    <3>1. Dom(w) = {}
      BY <2>1, Zenon DEF Dom
    <3> QED BY <3>1, <2>1, <1>5 DEF Simulated, Behind, Alone
  <2>2. CASE w.num = 1 /\ w.first_sno = e.sno
    <3>1. w.ent[Slot(e.sno)] = e
      BY <1>2, SlotRange, Zenon
    <3>2. Dom(w) = {e.sno}
      BY <3>1, <2>2, <1>2 DEF Dom
    <3>3. Behind(w)
      BY <2>2, <1>2 DEF Behind
    <3> QED BY <3>1, <3>2, <3>3, <1>5 DEF Simulated, Alone
  <2> QED BY <2>1, <2>2, <1>3, <1>4, <1>5, Zenon
<1>6. CASE v.num # 0
  <2>1. /\ e.sno = v.last_sno + 1 /\ v.first_sno <= v.last_sno
        /\ v.num <= ulogentries /\ v.first_sno <= v.last_sno - v.num + 1
    BY <1>1, <1>6, Zenon DEF RingOK, Behind
  <2>2. ASSUME w.num = v.num, w.first_sno = v.first_sno
        PROVE  /\ v.first_sno <= w.first_sno /\ w.first_sno <= e.sno /\ w.num # 0
               /\ Behind(w)
    BY <2>1, <2>2, <1>2, <1>6 DEF Behind
  <2>3. ASSUME w.num = v.num + 1, w.first_sno = v.first_sno
        PROVE  /\ v.first_sno <= w.first_sno /\ w.first_sno <= e.sno /\ w.num # 0
               /\ Behind(w)
    BY <2>1, <2>3, <1>2, <1>6 DEF Behind
  <2>4. ASSUME ~(v.num < ulogentries), w.num = v.num,
               w.first_sno = u.ent[e.sno % ulogentries].sno
        PROVE  /\ v.first_sno <= w.first_sno /\ w.first_sno <= e.sno /\ w.num # 0
               /\ Behind(w)
    <3>0. u.ent[e.sno % ulogentries].sno = e.sno + 1 - ulogentries
      BY ONLY ~(v.num < ulogentries), <2>4, <1>6, CanStore(v, st, h, e), FirstInRing
    <3>1. w.first_sno = e.sno + 1 - ulogentries
      BY <2>4, <3>0, Zenon
    <3>2. v.num = ulogentries
      <4>1. v.num <= ulogentries /\ v.num \in Nat /\ ulogentries \in Nat
        BY <2>1, <1>2, Zenon
      <4> QED BY ONLY <4>1, <2>4
    <3>3. /\ v.first_sno <= w.first_sno /\ w.first_sno <= e.sno
          /\ w.num # 0 /\ w.first_sno <= e.sno - w.num + 1
      <4>1. /\ w.num = ulogentries /\ ulogentries \in Nat /\ ulogentries >= 1
            /\ v.last_sno \in Nat /\ v.first_sno \in Nat
            /\ e.sno = v.last_sno + 1
            /\ v.first_sno <= v.last_sno - ulogentries + 1
        BY <3>2, <2>1, <2>4, <1>2, Zenon
      <4> QED BY ONLY <3>1, <4>1
    <3>4. Behind(w)
      BY <3>3, <1>2 DEF Behind
    <3> QED BY <3>3, <3>4, Zenon
  <2>5. /\ v.first_sno <= w.first_sno /\ w.first_sno <= e.sno /\ w.num # 0
        /\ Behind(w)
    BY <2>2, <2>3, <2>4, <1>3, <1>4, <1>6, Zenon
  <2>6. Grown(v, w, e) \/ Alone(w)
    BY <2>5, <1>6, CountedGrows, Zenon
  <2> QED BY <2>5, <2>6, <1>6, Zenon DEF Simulated
<1> QED BY <1>5, <1>6

\* store_update(), to its end or to any of its writes.
LEMMA StoreSimulated ==
  ASSUME NEW v, NEW st, NEW h, NEW e, CanStore(v, st, h, e), Behind(v), NEW w,
         w = StoreUpdate(v, e) \/ w \in StoreInterrupted(v, e)
  PROVE  Simulated(v, w, e)
<1> DEFINE u == Writing(v, e, e)
           c == CountUpdate(u, e)
<1>1. v \in Contents /\ e \in Entry /\ e.sno \in Sno /\ e.time \in Nat
  BY Zenon DEF CanStore, Entry
<1>2. /\ u \in Contents /\ u.ent = [v.ent EXCEPT ![Slot(e.sno)] = e]
      /\ u.num = v.num /\ u.first_sno = v.first_sno
  <2>1. Written(v, e, e, u)
    BY <1>1, WritingIs, Zenon
  <2> HIDE DEF u
  <2> QED BY <2>1, Zenon DEF Written
<1>3. c \in Contents /\ c.ent = u.ent /\ c.last_sno = e.sno
  BY <1>1, <1>2, CountFacts, Zenon
\* Nothing but the state was written.
<1>4. ASSUME w.ent = v.ent, w.num = v.num, w.first_sno = v.first_sno,
             w.last_sno = v.last_sno
      PROVE  Simulated(v, w, e)
  <2>1. Dom(w) = Dom(v)
    BY <1>4, Zenon DEF Dom
  <2>2. Kept(v, w, Dom(w))
    BY <2>1, <1>4, Zenon DEF Kept
  <2>3. v.num = 0 => Dom(w) = {}
    BY <2>1, Zenon DEF Dom
  <2> QED BY <2>2, <2>3, <1>4 DEF Simulated, Behind, Alone
\* The slot was written.
<1>5. ASSUME NEW x \in Entry, x.sno = 0 \/ x.sno = e.sno, w = Writing(v, e, x)
      PROVE  Simulated(v, w, e)
  <2>1. /\ w \in Contents /\ w.ent = [v.ent EXCEPT ![Slot(e.sno)] = x]
        /\ w.num = v.num /\ w.first_sno = v.first_sno /\ w.last_sno = v.last_sno
    <3>1. Written(v, e, x, w)
      BY <1>1, <1>5, WritingIs, Zenon
    <3> QED BY <3>1, Zenon DEF Written
  <2>2. Kept(v, w, Dom(w))
    BY <2>1, <1>5, OverwrittenForgets, Zenon
  <2>3. v.num = 0 => Dom(w) = {}
    BY <2>1, Zenon DEF Dom
  <2> QED BY <2>1, <2>2, <2>3 DEF Simulated, Behind, Alone
<1>6. CASE w = v \/ w = [v EXCEPT !.state = "UNSTABLE"]
  BY <1>1, <1>4, <1>6, Zenon DEF Contents
<1>7. CASE w = Writing(v, e, ZeroEntry)
  <2>1. ZeroEntry.sno = 0
    BY Zenon DEF ZeroEntry
  <2> QED BY <2>1, <1>5, <1>7, ZeroEntryType
<1>8. CASE w = Writing(v, e, [e EXCEPT !.commit = FALSE])
  <2>1. [e EXCEPT !.commit = FALSE] \in Entry /\ [e EXCEPT !.commit = FALSE].sno = e.sno
    BY <1>1, Zenon DEF Entry
  <2> QED BY <2>1, <1>5, <1>8, Zenon
<1>9. CASE w = u
  BY <1>1, <1>5, <1>9, Zenon
<1>10. CASE \/ w = [u EXCEPT !.last_sno = e.sno]
            \/ w = [u EXCEPT !.last_sno = e.sno, !.last_time = e.time]
  <2>1. /\ w \in Contents /\ w.ent = u.ent /\ w.last_sno = e.sno
        /\ w.num = u.num /\ w.first_sno = u.first_sno
    BY <1>1, <1>2, <1>10, Zenon DEF Contents
  <2> QED BY <2>1, <1>2, CountSimulated, Zenon
<1>11. CASE w = c
  BY <1>2, <1>3, <1>11, CountSimulated, Zenon
<1>12. CASE w = StoreUpdate(v, e)
  <2> HIDE DEF c
  <2>1. w = [c EXCEPT !.state = "STABLE"]
    BY <1>12, Zenon DEF StoreUpdate, c
  <2>2. /\ w \in Contents /\ w.ent = c.ent /\ w.last_sno = c.last_sno
        /\ w.num = c.num /\ w.first_sno = c.first_sno
    BY <2>1, <1>3, Zenon DEF Contents
  <2> QED BY <2>2, <1>2, <1>3, CountSimulated, Zenon DEF c
<1> QED BY <1>6, <1>7, <1>8, <1>9, <1>10, <1>11, <1>12 DEF StoreInterrupted

-----------------------------------------------------------------------------
\* A file that serves one entry, or none, has started over.
LEMMA IsStartOver == Alone(ulog') => Abstract!StartOver
<1>1. /\ DOMAIN Served(ulog') = Dom(ulog')
      /\ \A s \in Dom(ulog') : Served(ulog')[s] = ulog'.ent[Slot(s)]
  BY ServedFacts, Zenon
<1> QED BY <1>1 DEF Abstract!StartOver, Alone

\* A file that lost some of the oldest has forgotten them.
LEMMA IsForget == Kept(ulog, ulog', Dom(ulog')) => Abstract!Forget
<1>1. /\ DOMAIN Served(ulog') = Dom(ulog')
      /\ \A s \in Dom(ulog') : Served(ulog')[s] = ulog'.ent[Slot(s)]
  BY ServedFacts, Zenon
<1>2. /\ DOMAIN Served(ulog) = Dom(ulog)
      /\ \A s \in Dom(ulog) : Served(ulog)[s] = ulog.ent[Slot(s)]
  BY ServedFacts, Zenon
<1> QED BY <1>1, <1>2 DEF Abstract!Forget, Abstract!Suffix, Kept

\* A file that gained the next one has appended it.
LEMMA IsAppend == ASSUME NEW e, Grown(ulog, ulog', e) PROVE Abstract!Append
<1>1. /\ DOMAIN Served(ulog') = Dom(ulog')
      /\ \A s \in Dom(ulog') : Served(ulog')[s] = ulog'.ent[Slot(s)]
  BY ServedFacts, Zenon
<1>2. /\ DOMAIN Served(ulog) = Dom(ulog)
      /\ \A s \in Dom(ulog) : Served(ulog)[s] = ulog.ent[Slot(s)]
  BY ServedFacts, Zenon
<1>3. Abstract!Suffix(Dom(ulog') \ {e.sno})
  BY <1>1, <1>2, Zenon DEF Abstract!Suffix, Grown, Kept
<1> QED BY <1>1, <1>2, <1>3, Zenon DEF Abstract!Append, Grown

\* A log that holds one entry serves it alone.
LEMMA OneServed ==
  ASSUME NEW w \in Contents, NEW e \in Entry, w.num = 1,
         w.first_sno = e.sno, w.last_sno = e.sno, w.ent[Slot(e.sno)] = e
  PROVE  Dom(w) = {e.sno} /\ Alone(w) /\ Behind(w)
<1>1. e.sno \in Nat
  BY UlogAssumption DEF Entry, Sno
<1>2. Dom(w) = {e.sno}
  BY <1>1 DEF Dom
<1> QED BY <1>1, <1>2 DEF Alone, Behind

\* A store is a step of the abstract log, whatever resize() did before it.
LEMMA StoreRefines ==
  ASSUME TypeOK, Ring, Behind(ulog), NEW e \in Entry, e.commit, 1 <= e.sno,
         ulog.num # 0 => e.sno = ulog.last_sno + 1, Store(e) \/ StoreAndDie(e)
  PROVE  Behind(ulog') /\ Abstract!Next
<1>1. PICK r \in RecSize : \E v \in Resized(ulog, r) :
        ulog' = StoreUpdate(v, e) \/ ulog' \in StoreInterrupted(v, e)
  BY Zenon DEF Store, StoreAndDie, Fitting
<1>2. PICK v \in Resized(ulog, r) :
        ulog' = StoreUpdate(v, e) \/ ulog' \in StoreInterrupted(v, e)
  BY <1>1, Zenon
<1>3. ulog \in Contents /\ start \in Sno /\ hist \in [Sno -> Entry]
      /\ RingOK(ulog, start, hist)
  BY Zenon DEF TypeOK, Ring
<1>4. v = ulog \/ v.num = 0
  BY <1>3, ResizedFacts, Zenon
<1>5. CanStore(v, start, hist, e)
  BY <1>3, ResizedCanStore, Zenon
<1>6. Behind(v)
  BY <1>4, Zenon DEF Behind
<1>7. Simulated(v, ulog', e)
  BY <1>2, <1>5, <1>6, StoreSimulated, Zenon
<1>8. Alone(ulog') \/ Kept(ulog, ulog', Dom(ulog')) \/ Grown(ulog, ulog', e)
  BY <1>4, <1>7, Zenon DEF Simulated
<1>9. Behind(ulog')
  BY <1>7, Zenon DEF Simulated
<1> QED BY <1>8, <1>9, IsStartOver, IsForget, IsAppend DEF Abstract!Next

\* The update that finds no number left starts over and is number 2.
LEMMA WrapRefines ==
  ASSUME TypeOK, Ring, NEW x \in Update, AddUpdateWrap(x)
  PROVE  Behind(ulog') /\ Abstract!Next
<1>1. /\ ulog \in Contents /\ start \in Sno /\ hist \in [Sno -> Entry]
      /\ RingOK(ulog, start, hist) /\ ulog.last_sno = MaxSno
      /\ now + 1 \in Nat /\ now' \in Nat /\ 1 \in Sno /\ 2 \in Sno
  BY UlogAssumption DEF TypeOK, Ring, AddUpdateWrap, Sno
<1>2. PICK u \in ResetUlog(ulog, now + 1), r \in RecSize : \E v \in Resized(u, r) :
        ulog' = StoreUpdate(v, NewEntry(u, now', x))
  BY Zenon DEF AddUpdateWrap
<1> DEFINE e == NewEntry(u, now', x)
           d == Dummy(1, now + 1)
           h == [Blank EXCEPT ![1] = d]
<1>3. PICK v \in Resized(u, r) : ulog' = StoreUpdate(v, e)
  BY <1>2, Zenon
<1>4. d \in Entry /\ d.sno = 1 /\ d.time = now + 1 /\ ~d.commit
  BY <1>1, DummyType, Zenon DEF Dummy
<1>5. /\ u \in Contents /\ u.num = 1 /\ u.first_sno = 1 /\ u.last_sno = 1
      /\ u.last_time = now + 1 /\ u.ent[Slot(1)] = d
  BY <1>1, ResetFacts
<1>6. e \in Entry /\ e.commit /\ e.sno = 2
  BY <1>1, <1>5, LoggedType DEF NewEntry, Logged
<1> HIDE DEF e, d
<1>7. RingOK(u, 1, h) /\ h \in [Sno -> Entry]
  BY <1>4, <1>5, StartedOver
<1> HIDE DEF h
<1>8. CanStore(v, 1, h, e)
  <2>1. 1 \in Sno /\ 1 <= e.sno /\ e.sno = u.last_sno + 1
    BY <1>1, <1>5, <1>6
  <2> QED BY <1>5, <1>6, <1>7, <2>1, ResizedCanStore, Zenon
<1>9. v = u \/ v.num = 0
  BY <1>5, ResizedFacts, Zenon
<1>10. Dom(u) = {1} /\ Behind(u)
  BY <1>4, <1>5, OneServed, Zenon
<1>11. Simulated(v, ulog', e)
  BY <1>3, <1>8, <1>9, <1>10, StoreSimulated, Zenon DEF Behind
<1>12. CASE Alone(ulog')
  BY <1>11, <1>12, IsStartOver, Zenon DEF Abstract!Next, Simulated
<1>13. CASE v = u /\ Kept(u, ulog', Dom(ulog'))
  <2>1. Dom(ulog') = {} \/ Dom(ulog') = {1}
    BY <1>10, <1>13, Zenon DEF Kept
  <2>2. \A s \in Dom(ulog') : ulog'.ent[Slot(s)].sno = s
    BY Zenon DEF Dom
  <2>3. Alone(ulog')
    BY <2>1, <2>2, Zenon DEF Alone
  <2> QED BY <2>3, <1>12
<1>14. CASE v = u /\ Grown(u, ulog', e)
  <2>1. Dom(ulog') \subseteq {1, 2} /\ 2 \in Dom(ulog') /\ ulog'.ent[Slot(2)] = e
        /\ (1 \in Dom(ulog') => ulog'.ent[Slot(1)] = d)
    BY <1>5, <1>6, <1>10, <1>14, Zenon DEF Grown, Kept
  <2>2. CASE 1 \notin Dom(ulog')
    <3>1. Dom(ulog') = {2} /\ ulog'.ent[Slot(2)].sno = 2
      BY <2>1, <2>2, <1>6, Zenon
    <3> QED BY <3>1, <1>12 DEF Alone
  <2>3. CASE 1 \in Dom(ulog')
    <3>1. Dom(ulog') = {1, 2}
      BY <2>1, <2>3, Zenon
    <3>2. ulogentries # 1
      <4>1. ulog'.ent[Slot(1)].sno = 1 /\ ulog'.ent[Slot(2)].sno = 2
        BY <3>1, Zenon DEF Dom
      <4>2. Slot(1) # Slot(2)
        BY <4>1
      <4>3. Slot(1) \in Slots /\ Slot(2) \in Slots
        BY <1>1, SlotRange, Zenon
      <4> QED BY <4>2, <4>3 DEF Slots
    <3>3. Dom(ulog) = {} \/ MaxSno \in Dom(ulog)
      <4>1. CASE ulog.num = 0
        BY <4>1, Zenon DEF Dom
      <4>2. CASE ulog.num # 0
        BY <4>2, <3>2, <1>1, ServedInRing, Zenon
      <4> QED BY <4>1, <4>2
    <3>4. /\ DOMAIN Served(ulog) = Dom(ulog)
          /\ DOMAIN Served(ulog') = Dom(ulog')
          /\ Served(ulog')[1] = d /\ Served(ulog')[2] = e
      BY <2>1, <2>3, ServedFacts, Zenon
    <3>5. Abstract!StartOver
      BY <3>1, <3>3, <3>4, <1>4, <1>6, Zenon DEF Abstract!StartOver
    <3> QED BY <3>5, <1>11 DEF Abstract!Next, Simulated
  <2> QED BY <2>2, <2>3
<1> QED BY <1>9, <1>11, <1>12, <1>13, <1>14 DEF Simulated

-----------------------------------------------------------------------------
RInv == IInv /\ Behind(ulog)

\* Every operation on the file is a step of the abstract log, or leaves what is
\* served as it was.
LEMMA StepRefines == RInv /\ [Next]_vars => RInv' /\ [Abstract!Next]_(Served(ulog))
<1> SUFFICES ASSUME RInv, [Next]_vars
             PROVE  RInv' /\ [Abstract!Next]_(Served(ulog))
  BY Zenon
<1>0. IInv'
  BY IInvNext, Zenon DEF RInv
<1> SUFFICES Behind(ulog') /\ [Abstract!Next]_(Served(ulog))
  BY <1>0, Zenon DEF RInv
<1>1. /\ TypeOK /\ Ring /\ Behind(ulog) /\ ulog \in Contents /\ now \in Nat
      /\ ulog.last_sno \in Sno
  BY Zenon DEF RInv, IInv, TypeOK, Contents
<1>2. ASSUME NEW sno \in Sno, NEW t \in Nat, ulog' \in Contents, ulog'.num = 1,
             ulog'.first_sno = sno, ulog'.last_sno = sno,
             ulog'.ent[Slot(sno)] = Dummy(sno, t)
      PROVE  Behind(ulog') /\ Abstract!Next
  <2> DEFINE d == Dummy(sno, t)
  <2>1. d \in Entry /\ d.sno = sno
    BY DummyType, Zenon DEF Dummy
  <2>2. ulog'.ent[Slot(d.sno)] = d /\ ulog'.first_sno = d.sno /\ ulog'.last_sno = d.sno
    BY <2>1, <1>2, Zenon
  <2> HIDE DEF d
  <2>3. Alone(ulog') /\ Behind(ulog')
    BY <2>1, <2>2, <1>2, OneServed, Zenon
  <2> QED BY <2>3, IsStartOver DEF Abstract!Next
<1>3. CASE InitHeader \/ Map \/ GetEntries
  <2>1. now' \in Nat /\ ulog' \in ResetUlog(ulog, now') /\ 1 \in Sno
    BY <1>1, <1>3, UlogAssumption DEF InitHeader, Map, GetEntries, Tick, Reset, Sno
  <2>2. /\ ulog' \in Contents /\ ulog'.num = 1 /\ ulog'.first_sno = 1
        /\ ulog'.last_sno = 1 /\ ulog'.ent[Slot(1)] = Dummy(1, now')
    BY <2>1, <1>1, ResetFacts
  <2> QED BY <2>1, <2>2, <1>2
<1>4. CASE DieInReset
  <2>1. now' \in Nat /\ ulog' \in ResetInterrupted(ulog, now') /\ 1 \in Sno
    BY <1>1, <1>4, UlogAssumption DEF DieInReset, Tick, Sno
  <2>2. /\ ulog' \in Contents /\ (ulog'.num = 0 \/ ulog'.num = 1)
        /\ ulog'.num = 1 => /\ ulog'.first_sno = 1 /\ ulog'.last_sno = 1
                            /\ ulog'.ent[Slot(1)] = Dummy(1, now')
    BY <2>1, <1>1, ResetInterruptedFacts
  <2>3. CASE ulog'.num = 0
    <3>1. Alone(ulog') /\ Behind(ulog')
      BY <2>3, Zenon DEF Alone, Dom, Behind
    <3> QED BY <3>1, IsStartOver DEF Abstract!Next
  <2> QED BY <2>1, <2>2, <2>3, <1>2
<1>5. ASSUME NEW x \in Update, NEW t \in Nat, NEW n \in Sno \ {0},
             ulog.num # 0 => n = ulog.last_sno + 1,
             Store(Logged(n, t, x)) \/ StoreAndDie(Logged(n, t, x))
      PROVE  Behind(ulog') /\ Abstract!Next
  <2> DEFINE e == Logged(n, t, x)
  <2>1. 1 <= n
    BY UlogAssumption DEF Sno
  <2>2. e \in Entry /\ e.commit /\ e.sno = n
    BY LoggedType, Zenon DEF Logged
  <2> HIDE DEF e
  <2>3. Store(e) \/ StoreAndDie(e)
    BY <1>5, Zenon DEF e
  <2> QED BY <2>1, <2>2, <2>3, <1>1, <1>5, StoreRefines
<1>6. CASE \E x \in Update : AddUpdate(x) \/ AddUpdateDies(x)
  <2>1. ulog.last_sno < MaxSno => ulog.last_sno + 1 \in Sno \ {0}
    BY <1>1, UlogAssumption DEF Sno
  <2>2. now + 1 \in Nat
    BY <1>1
  <2> QED BY <2>1, <2>2, <1>5, <1>6 DEF AddUpdate, AddUpdateDies, NewEntry, Tick
<1>7. CASE \E n \in Sno \ {0}, x \in Update, t \in 1 .. now :
             Replay(n, x, t) \/ ReplayDies(n, x, t)
  BY <1>1, <1>5, <1>7 DEF Replay, ReplayDies, Follows
<1>8. CASE \E x \in Update : AddUpdateWrap(x)
  BY <1>1, <1>8, WrapRefines, Zenon
<1>9. CASE \E sno \in Sno \ {0}, t \in 1 .. now : SetLast(sno, t)
  <2>1. PICK sno \in Sno \ {0}, t \in 1 .. now : SetLast(sno, t)
    BY <1>9, Zenon
  <2>2. /\ t \in Nat /\ sno \in Sno /\ ulog \in Contents
        /\ ulog' = SetDummy(ulog, sno, t)
    BY <2>1, <1>1 DEF SetLast
  <2> DEFINE w == SetDummy(ulog, sno, t)
  <2>3. /\ w \in Contents /\ w.num = 1 /\ w.first_sno = sno
        /\ w.last_sno = sno /\ w.ent[Slot(sno)] = Dummy(sno, t)
    BY <2>2, SetDummyFacts
  <2> QED BY <2>2, <2>3, <1>2
<1>10. CASE UNCHANGED vars
  BY <1>1, <1>10, Zenon DEF vars
<1> QED BY <1>3, <1>4, <1>6, <1>7, <1>8, <1>9, <1>10 DEF Next

(***************************************************************************)
(* The file implements UpdateLog: through every operation, and wherever    *)
(* processes die in store_update() and reset_ulog(), what                  *)
(* ulog_get_entries() can serve only grows at its end, is forgotten from   *)
(* its beginning, or starts over.                                          *)
(***************************************************************************)
THEOREM FileImplementsUpdateLog == Spec => ImplementsUpdateLog
<1>1. Init => RInv /\ Abstract!Init
  <2> SUFFICES ASSUME Init PROVE RInv /\ Abstract!Init
    BY Zenon
  <2> DEFINE d == Dummy(1, 1)
  <2>1. 1 \in Sno /\ d \in Entry /\ d.sno = 1
    BY UlogAssumption, DummyType DEF Sno, Dummy
  <2>2. ulog \in ResetUlog(EmptyFile, 1) /\ EmptyFile \in Contents
    BY EmptyFileFacts, Zenon DEF Init
  <2>3. /\ ulog \in Contents /\ ulog.num = 1 /\ ulog.first_sno = 1
        /\ ulog.last_sno = 1 /\ ulog.ent[Slot(1)] = d
    BY <2>2, ResetFacts
  <2> HIDE DEF d
  <2>4. Dom(ulog) = {1} /\ Behind(ulog)
    BY <2>1, <2>3, OneServed, Zenon
  <2>5. DOMAIN Served(ulog) = {1} /\ Served(ulog)[1].sno = 1
    BY <2>1, <2>3, <2>4, ServedFacts, Zenon
  <2>6. IInv
    BY IInvInit, Zenon
  <2> QED BY <2>4, <2>5, <2>6 DEF RInv, Abstract!Init
<1>2. RInv /\ [Next]_vars => RInv' /\ [Abstract!Next]_(Served(ulog))
  BY StepRefines, Zenon
<1> QED BY <1>1, <1>2, PTL DEF Spec, ImplementsUpdateLog, Abstract!Spec
=============================================================================
