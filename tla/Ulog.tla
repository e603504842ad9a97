-------------------------------- MODULE Ulog --------------------------------
(***************************************************************************)
(* The update log ("ulog") of lib/kdb/kdb_log.c: a header and a ring of    *)
(* ulogentries slots in a file that several processes map and lock.        *)
(*                                                                         *)
(* The operators below are the functions of kdb_log.c, as relations on the *)
(* contents of the file.  An operator that may leave one of several        *)
(* contents is the set of them: changing kdb_block moves every slot to     *)
(* another offset of the file, so what the slots then hold is whatever     *)
(* bytes lie there.  Sizes are in bytes, and a timestamp is a natural      *)
(* number, 0 being the time of zeroed memory.                              *)
(***************************************************************************)
EXTENDS Integers

CONSTANTS
  ulogentries,   \* slots in the ring (iprop_ulogsize)
  MaxSno,        \* the largest kdb_sno_t, (kdb_sno_t)-1
  ULOG_BLOCK,    \* the default block, and the unit a block grows by
  MAXLOGLEN,     \* the largest file, its header not counted
  RecSize,       \* sizes of encoded updates, their entry header included
  Update,        \* what an update does to the database
  NoUpdate       \* the contents of a dummy or zeroed entry

ASSUME UlogAssumption ==
  /\ ulogentries \in Nat \ {0}
  /\ MaxSno \in Nat \ {0, 1}
  /\ ULOG_BLOCK \in Nat \ {0}
  /\ MAXLOGLEN \in Nat
  /\ RecSize \subseteq Nat
  /\ NoUpdate \notin Update

\* kdb_block has 16 bits.  A record whose block needs more is outside of this
\* model: the header would then hold another size than the slots have.
ASSUME RecordsFit == \A r \in RecSize : (r \div ULOG_BLOCK + 1) * ULOG_BLOCK < 2^16

Sno   == 0 .. MaxSno
Slots == 0 .. ulogentries - 1

\* kdb_ent_header_t and the update encoded after it.
Entry ==
  [sno : Sno, time : Nat, commit : BOOLEAN, upd : Update \cup {NoUpdate}]

ZeroEntry  == [sno |-> 0, time |-> 0, commit |-> FALSE, upd |-> NoUpdate]
Dummy(sno, time) ==
  [sno |-> sno, time |-> time, commit |-> FALSE, upd |-> NoUpdate]
Logged(sno, time, upd) ==
  [sno |-> sno, time |-> time, commit |-> TRUE, upd |-> upd]

\* kdb_hlog_t, and the slots that follow it.  magic is false in a file that
\* was just created and holds only zeros.
Contents ==
  [magic : BOOLEAN, num : Nat, first_sno : Sno, first_time : Nat,
   last_sno : Sno, last_time : Nat, state : {"ZERO", "STABLE", "UNSTABLE"},
   block : Nat, ent : [Slots -> Entry]]

EmptyFile ==
  [magic |-> FALSE, num |-> 0, first_sno |-> 0, first_time |-> 0,
   last_sno |-> 0, last_time |-> 0, state |-> "ZERO",
   block |-> 0, ent |-> [i \in Slots |-> ZeroEntry]]

\* A position in the log, as a replica records and sends it (kdb_last_t).
LastPos(u) == [sno |-> u.last_sno, time |-> u.last_time]

\* sno - 1 is computed in 32 bits; only sno 0 wraps.
Slot(sno) == (IF sno = 0 THEN MaxSno ELSE sno - 1) % ulogentries

\* Mutant: the time of the entry is not compared.
CheckSnoOnly(u, sno, time) == u.ent[Slot(sno)].sno = sno

CheckSno(u, sno, time) ==
  u.ent[Slot(sno)].sno = sno /\ u.ent[Slot(sno)].time = time

UpToDate(u, last) == last = LastPos(u)

CanUpdate(u, last) ==
  /\ u.num # 0
  /\ u.first_sno <= last.sno /\ last.sno <= u.last_sno
  /\ CheckSno(u, last.sno, last.time)

GetSnoStatus(u, last) ==
  IF UpToDate(u, last) THEN "NIL"
  ELSE IF CanUpdate(u, last) THEN "OK" ELSE "FULL_RESYNC"

-----------------------------------------------------------------------------
\* What the slots may hold once the header says blocks are b bytes long.
Reread(u, b) ==
  IF b = u.block THEN {u.ent}
  ELSE [Slots -> {u.ent[i] : i \in Slots} \cup {ZeroEntry}]

\* A header of zeros but for the magic number and the block size.
ZeroHeader(b, state, ent) ==
  [EmptyFile EXCEPT !.magic = TRUE, !.state = state, !.block = b, !.ent = ent]

SetDummy(u, sno, time) ==
  [u EXCEPT !.ent[Slot(sno)] = Dummy(sno, time), !.num = 1,
            !.first_sno = sno, !.last_sno = sno,
            !.first_time = time, !.last_time = time]

ResetUlog(u, now) ==
  {SetDummy(ZeroHeader(ULOG_BLOCK, "STABLE", ent), 1, now) :
     ent \in Reread(u, ULOG_BLOCK)}

\* What a process that dies in reset_ulog() leaves behind.
ResetInterrupted(u, now) ==
  UNION {
    {[EmptyFile EXCEPT !.ent = ent],
     ZeroHeader(ULOG_BLOCK, "ZERO", ent),
     SetDummy(ZeroHeader(ULOG_BLOCK, "ZERO", ent), 1, now)} :
    ent \in Reread(u, ULOG_BLOCK)}

NewBlock(recsize) == (recsize \div ULOG_BLOCK + 1) * ULOG_BLOCK

Resize(u, b) == {ZeroHeader(b, "STABLE", ent) : ent \in Reread(u, b)}

\* The contents store_update works on: the file itself, or the file just
\* resized when the record does not fit in a block.  None when resize()
\* refuses.
Resized(u, recsize) ==
  IF recsize <= u.block THEN {u}
  ELSE IF ulogentries * NewBlock(recsize) <= MAXLOGLEN
  THEN Resize(u, NewBlock(recsize))
  ELSE {}

\* Mutant: one entry too many is counted before the ring is full.
CountPastEnd(u, e) ==
  LET v == [u EXCEPT !.last_sno = e.sno, !.last_time = e.time]
  IN IF u.num = 0
     THEN [v EXCEPT !.num = 1, !.first_sno = e.sno, !.first_time = e.time]
     ELSE IF u.num <= ulogentries THEN [v EXCEPT !.num = u.num + 1]
     ELSE LET next == u.ent[e.sno % ulogentries]
          IN [v EXCEPT !.first_sno = next.sno, !.first_time = next.time]

\* The header once entry e, already in its slot, is the last one.
CountUpdate(u, e) ==
  LET v == [u EXCEPT !.last_sno = e.sno, !.last_time = e.time]
  IN IF u.num = 0
     THEN [v EXCEPT !.num = 1, !.first_sno = e.sno, !.first_time = e.time]
     ELSE IF u.num < ulogentries THEN [v EXCEPT !.num = u.num + 1]
     ELSE LET next == u.ent[e.sno % ulogentries]
          IN [v EXCEPT !.first_sno = next.sno, !.first_time = next.time]

\* store_update() while the slot of e holds inslot.
Writing(u, e, inslot) ==
  [u EXCEPT !.state = "UNSTABLE", !.ent[Slot(e.sno)] = inslot]

\* store_update(), on contents that were resized if need be.
StoreUpdate(u, e) ==
  [CountUpdate(Writing(u, e, e), e) EXCEPT !.state = "STABLE"]

\* Mutant: the slot is not zeroed first, and gets its serial number last.
StoreNumberLast(u, e) ==
  {u, Writing(u, e, [e EXCEPT !.sno = u.ent[Slot(e.sno)].sno, !.commit = FALSE]),
   Writing(u, e, e), CountUpdate(Writing(u, e, e), e)}

\* What store_update() leaves behind when its process dies in it, or when it
\* returns an error: the file after each of its writes, in their order.
StoreInterrupted(u, e) ==
  {u,
   [u EXCEPT !.state = "UNSTABLE"],
   Writing(u, e, ZeroEntry),
   Writing(u, e, [e EXCEPT !.commit = FALSE]),
   Writing(u, e, e),
   [Writing(u, e, e) EXCEPT !.last_sno = e.sno],
   [Writing(u, e, e) EXCEPT !.last_sno = e.sno, !.last_time = e.time],
   CountUpdate(Writing(u, e, e), e)}

-----------------------------------------------------------------------------
\* The entry that ulog_add_update() adds.
NewEntry(u, now, upd) == Logged(u.last_sno + 1, now, upd)

\* ulog_map() starts over a file that was just created, or in which the slot
\* of the first or of the last entry holds another one.
Unusable(u) ==
  \/ ~u.magic
  \/ /\ u.num # 0
     /\ \/ u.num > ulogentries
        \/ ~CheckSno(u, u.first_sno, u.first_time)
        \/ ~CheckSno(u, u.last_sno, u.last_time)

\* ulog_get_entries() starts over a log that a process left half-written.
HalfWritten(u) == u.state # "STABLE"

\* The entries it then sends to a replica that is at sno from: each is read from
\* the slot its serial number points to, whatever that slot holds.
Updates(u, from) ==
  [i \in 1 .. (u.last_sno - from) |-> u.ent[(from + i - 1) % ulogentries]]
=============================================================================
