------------------------------ MODULE UlogFile ------------------------------
(***************************************************************************)
(* One update log file, and everything that is done to it: each operation  *)
(* of kdb_log.c holds the lock on the file throughout, so it is one step;  *)
(* but the process may die within it, or return early with an error, and   *)
(* the next process finds the file as it was left.                         *)
(*                                                                         *)
(* start and hist are history variables.  hist[s] is the entry that was    *)
(* given the serial number s since the log was last started over, which    *)
(* was with number start.  The code keeps no such record: it has only the  *)
(* ring, and hist is what the ring is meant to be the tail of.             *)
(***************************************************************************)
EXTENDS Ulog

CONSTANT MaxTime   \* how far the clock runs before the last operation

ASSUME MaxTimeAssumption == MaxTime \in Nat

VARIABLES
  ulog,    \* the contents of the file
  now,     \* the last time that time_current() returned
  start,
  hist

vars == <<ulog, now, start, hist>>

Blank == [s \in Sno |-> ZeroEntry]

\* Every variable has its type: the fields of the header and of the slots stay
\* in their ranges, serial numbers among them where they wrap.
TypeOK ==
  /\ ulog \in Contents
  /\ now \in Nat
  /\ start \in Sno
  /\ hist \in [Sno -> Entry]

\* gettimeofday() never returns the same microsecond twice, nor an earlier one.
Tick == now < MaxTime /\ now' = now + 1

StartOver(e) == start' = e.sno /\ hist' = [Blank EXCEPT ![e.sno] = e]

\* e follows what the header of u describes, which is nothing if it counts no
\* entries.
Extend(u, e) ==
  IF u.num = 0 THEN StartOver(e)
  ELSE start' = start /\ hist' = [hist EXCEPT ![e.sno] = e]

Init ==
  /\ now = 1
  /\ ulog \in ResetUlog(EmptyFile, 1)
  /\ start = 1
  /\ hist = [Blank EXCEPT ![1] = Dummy(1, 1)]

-----------------------------------------------------------------------------
Reset ==
  /\ ulog' \in ResetUlog(ulog, now')
  /\ StartOver(Dummy(1, now'))

\* ulog_init_header()
InitHeader == Tick /\ Reset

\* A process dies in reset_ulog(), whoever called it.  A header that already
\* holds the dummy entry describes a log that was started over.
DieInReset ==
  /\ Tick
  /\ ulog' \in ResetInterrupted(ulog, now')
  /\ IF ulog'.num = 1
     THEN StartOver(Dummy(1, now'))
     ELSE UNCHANGED <<start, hist>>

\* The contents that an entry is stored in, which may have any size.
Fitting == UNION {Resized(ulog, r) : r \in RecSize}

\* Store entry e, whose serial number is one past the last.
Store(e) ==
  \E v \in Fitting :
    /\ ulog' = StoreUpdate(v, e)
    /\ Extend(v, e)

\* store_update() dies or fails.  If the header got as far as naming e the
\* last entry, the next update will follow it.
StoreAndDie(e) ==
  \E v \in Fitting :
    /\ ulog' \in StoreInterrupted(v, e)
    /\ IF ulog'.num # 0 /\ ulog'.last_sno = e.sno
       THEN Extend(v, e)
       ELSE UNCHANGED <<start, hist>>

\* Mutant: the serial numbers do not end.
AddUpdatePastEnd(upd) == Tick /\ Store(NewEntry(ulog, now', upd))

\* ulog_add_update(), by a process on the master.
AddUpdate(upd) ==
  /\ Tick
  /\ ulog.last_sno < MaxSno
  /\ Store(NewEntry(ulog, now', upd))

\* The same when the serial numbers are used up: the log is started over, so
\* the new entry is number 2.
AddUpdateWrap(upd) ==
  /\ now < MaxTime /\ now' = now + 2
  /\ ulog.last_sno = MaxSno
  /\ \E u \in ResetUlog(ulog, now + 1), r \in RecSize :
       \E v \in Resized(u, r) :
         LET e == NewEntry(u, now', upd)
         IN /\ ulog' = StoreUpdate(v, e)
            /\ start' = IF v.num = 0 THEN e.sno ELSE 1
            /\ hist' = IF v.num = 0 THEN [Blank EXCEPT ![e.sno] = e]
                       ELSE [Blank EXCEPT ![1] = Dummy(1, now + 1), ![e.sno] = e]

AddUpdateDies(upd) ==
  /\ Tick
  /\ ulog.last_sno < MaxSno
  /\ StoreAndDie(NewEntry(ulog, now', upd))

\* One turn of the loop of ulog_replay(), for an update that follows the last
\* one (Iprop has the others): it keeps the serial number and the time the master gave it.
Follows(sno) == ulog.num # 0 => sno = ulog.last_sno + 1

Replay(sno, upd, t) ==
  /\ Follows(sno)
  /\ Store(Logged(sno, t, upd))
  /\ UNCHANGED now

ReplayDies(sno, upd, t) ==
  /\ Follows(sno)
  /\ StoreAndDie(Logged(sno, t, upd))
  /\ UNCHANGED now

\* ulog_set_last(): the log starts over from the position a dump was made at.
SetLast(sno, t) ==
  /\ ulog' = SetDummy(ulog, sno, t)
  /\ StartOver(Dummy(sno, t))
  /\ UNCHANGED now

\* ulog_map(), by any process that starts.
Map == Tick /\ Unusable(ulog) /\ Reset

\* ulog_get_entries(), the only other operation that may start the log over.
GetEntries == Tick /\ HalfWritten(ulog) /\ Reset

Next ==
  \/ InitHeader
  \/ DieInReset
  \/ \E upd \in Update : AddUpdate(upd)
  \/ \E upd \in Update : AddUpdateWrap(upd)
  \/ \E upd \in Update : AddUpdateDies(upd)
  \/ \E sno \in Sno \ {0}, upd \in Update, t \in 1 .. now : Replay(sno, upd, t)
  \/ \E sno \in Sno \ {0}, upd \in Update, t \in 1 .. now : ReplayDies(sno, upd, t)
  \/ \E sno \in Sno \ {0}, t \in 1 .. now : SetLast(sno, t)
  \/ Map
  \/ GetEntries

Spec == Init /\ [][Next]_vars

-----------------------------------------------------------------------------
\* A half-written log may already have lost the entry whose slot is next.
InRing(u, s) ==
  /\ s > u.last_sno - ulogentries
  /\ HalfWritten(u) => s # u.last_sno - ulogentries + 1

RingOK(u, st, h) ==
  u.num # 0 =>
    /\ 1 <= st /\ st <= u.first_sno /\ u.first_sno <= u.last_sno
    /\ u.num <= ulogentries /\ u.num <= u.last_sno - st + 1
    /\ ~HalfWritten(u) => h[u.last_sno].time = u.last_time
    /\ \A s \in st .. u.last_sno :
         /\ h[s].sno = s
         /\ s > st => h[s].commit
         /\ InRing(u, s) => u.ent[Slot(s)] = h[s]
         /\ s <= u.last_sno - ulogentries => u.ent[Slot(s)].sno # s

(***************************************************************************)
(* The ring is the tail of what was logged: the last ulogentries entries   *)
(* are each in the slot that their serial number points to, no slot still  *)
(* holds an earlier one, and the header never reaches back before the      *)
(* point where the log was started over, wherever a process died in        *)
(* store_update() or reset_ulog().  (The inductive form of ReplyExact.)    *)
(***************************************************************************)
Ring == RingOK(ulog, start, hist)

(***************************************************************************)
(* What a replica is sent is exactly what was logged after its position:   *)
(* whenever ulog_get_entries() answers UPDATE_OK for a position, that      *)
(* position is one of the current log, and the slots it reads hold every   *)
(* later entry, once, in order and committed.  The header is a cache of    *)
(* what the ring holds, and lags behind it after a crash; get_sno_status() *)
(* must refuse whatever was overwritten, discarded or half-written.        *)
(***************************************************************************)
ReplyExact ==
  ulog.state = "STABLE" =>
    \A s \in Sno, t \in 0 .. now :
      GetSnoStatus(ulog, [sno |-> s, time |-> t]) = "OK" =>
        /\ start <= s /\ s < ulog.last_sno
        /\ hist[s].time = t
        /\ \A i \in 1 .. (ulog.last_sno - s) :
             /\ Updates(ulog, s)[i] = hist[s + i]
             /\ Updates(ulog, s)[i].commit

-----------------------------------------------------------------------------
\* The positions that get_sno_status() can answer with updates, and what the
\* slots hold for them.
Served(u) ==
  [s \in {s \in u.first_sno .. u.last_sno : u.num # 0 /\ u.ent[Slot(s)].sno = s}
     |-> u.ent[Slot(s)]]

Abstract == INSTANCE UpdateLog WITH log <- Served(ulog)

(***************************************************************************)
(* The file implements UpdateLog: from one operation to the next, and      *)
(* wherever a process dies in one, the positions that it serves lose their *)
(* oldest, gain one at the end, or start over.  No store, resize, reset or *)
(* recovery changes an entry that stays, brings back one that was          *)
(* overwritten, or leaves a hole.                                          *)
(***************************************************************************)
ImplementsUpdateLog == Abstract!Spec
=============================================================================
