------------------------------ MODULE SeqState ------------------------------
(***************************************************************************)
(* The sequence number state of a GSS-API security context, which detects  *)
(* repeated, lost and reordered tokens: lib/gssapi/generic/util_seqstate.c. *)
(*                                                                         *)
(* recvmap, a word of Window bits in the code (64), is the set of the i    *)
(* whose bit 1 << (i-1) is set.  Sequence numbers have Modulus values (2^32 *)
(* or 2^64: seqmask + 1), and arithmetic is done in words of Word values   *)
(* (2^64).                                                                  *)
(***************************************************************************)
EXTENDS Integers

CONSTANTS Window, Word, Moduli

ASSUME SeqStateAssumption ==
  /\ Window \in Nat \ {0} /\ Word \in Nat \ {0}
  /\ Moduli \subseteq 1 .. Word

VARIABLES
  do_replay, do_sequence,  \* what is checked
  modulus,                 \* seqmask + 1
  base, next, recvmap,     \* as in the code
  status,                  \* the status of the last token
  seen,                    \* history: the numbers received in this cycle of the
                           \* sequence numbers, relative to base
  overshot                 \* history: recvmap was shifted by its width or more

seqvars == <<do_replay, do_sequence, modulus, base, next, recvmap, status, seen,
             overshot>>

Status == {"COMPLETE", "GAP_TOKEN", "DUPLICATE_TOKEN", "OLD_TOKEN", "UNSEQ_TOKEN"}

\* g_seqstate_init, with 32-bit or 64-bit numbers.
SeqInit ==
  /\ do_replay \in BOOLEAN /\ do_sequence \in BOOLEAN
  /\ modulus \in Moduli
  /\ base \in 0 .. modulus - 1
  /\ next = 0 /\ recvmap = {}
  /\ status = "COMPLETE" /\ seen = {} /\ overshot = FALSE

-----------------------------------------------------------------------------
\* A fault: the bitmap is shifted by one bit too many.
ShiftedFar(map, k) == {j \in 1 .. Window : j - k - 1 \in map}

\* The bitmap shifted to the left by k bits.
Shifted(map, k) == {j \in 1 .. Window : j - k \in map}

\* What map << k may give.  A shift by the width of the word or more is undefined
\* in C: the build may produce zero, or use the low bits of the count, which is
\* what the shift instructions of common processors do.
Shift(map, k) ==
  IF k < Window THEN {Shifted(map, k)}
  ELSE {{}, Shifted(map, k % Window)}

\* The number of a token relative to base.
rel_seqnum(seqnum) == (seqnum - base) % modulus

\* offset + 1 in a word.
Successor(offset) == IF offset + 1 = Word THEN 0 ELSE offset + 1

\* The number after rel, which is 0 after the last one.
NextNumber(rel) == IF rel + 1 = modulus THEN 0 ELSE rel + 1

\* A fault: one missing token is not a gap.
StatusLenient(offset) ==
  IF offset > 1 /\ do_sequence THEN "GAP_TOKEN" ELSE "COMPLETE"

\* The status of a token that is offset numbers ahead of the expected one.
AheadStatus(offset) ==
  IF offset > 0 /\ do_sequence THEN "GAP_TOKEN" ELSE "COMPLETE"

\* Neither replays nor the sequence are checked.
Unchecked ==
  /\ ~do_replay /\ ~do_sequence
  /\ status' = "COMPLETE"
  /\ UNCHANGED <<do_replay, do_sequence, modulus, base, next, recvmap, seen,
                 overshot>>

\* The token is the expected one or one in the future.  The next number wraps
\* around to 0 after the last one, and another cycle begins.
Ahead(seqnum) ==
  LET rel == rel_seqnum(seqnum)
      offset == rel - next
  IN  /\ do_replay \/ do_sequence
      /\ rel >= next
      /\ \E map \in Shift(recvmap, Successor(offset)) : recvmap' = map \cup {1}
      /\ next' = NextNumber(rel)
      /\ status' = AheadStatus(offset)
      /\ seen' = IF rel + 1 = modulus THEN {} ELSE seen \cup {rel}
      /\ overshot' = (overshot \/ Successor(offset) >= Window)
      /\ UNCHANGED <<do_replay, do_sequence, modulus, base>>

\* A fault: the last bit of the bitmap is not used.
TooOldEarly(offset) == offset >= Window

\* The bitmap does not reach back to the number.
TooOld(offset) == offset > Window

\* A fault: any bit counts (&& instead of &).
IsReplayAny(offset) == do_replay /\ recvmap # {}

\* The bit of the number is set, and this matters.
IsReplay(offset) == do_replay /\ offset \in recvmap

\* The token is in the past, and too old to tell whether it is a replay.
Old(seqnum) ==
  /\ do_replay \/ do_sequence
  /\ TooOld(next - rel_seqnum(seqnum))
  /\ status' = IF do_sequence THEN "UNSEQ_TOKEN" ELSE "OLD_TOKEN"
  /\ UNCHANGED <<do_replay, do_sequence, modulus, base, next, recvmap, seen,
                 overshot>>

\* The token is in the past: a replay, or one that is late.
Recent(seqnum) ==
  LET rel == rel_seqnum(seqnum)
      offset == next - rel
  IN  /\ do_replay \/ do_sequence
      /\ offset > 0 /\ ~TooOld(offset)
      /\ IF IsReplay(offset)
         THEN status' = "DUPLICATE_TOKEN" /\ UNCHANGED <<recvmap, seen>>
         ELSE /\ recvmap' = recvmap \cup {offset}
              /\ seen' = seen \cup {rel}
              /\ status' = IF do_sequence THEN "UNSEQ_TOKEN" ELSE "COMPLETE"
      /\ UNCHANGED <<do_replay, do_sequence, modulus, base, next, overshot>>

\* g_seqstate_check.
g_seqstate_check(seqnum) ==
  Unchecked \/ Ahead(seqnum) \/ Old(seqnum) \/ Recent(seqnum)

SeqNext == \E seqnum \in 0 .. modulus - 1 : g_seqstate_check(seqnum)

SeqSpec == SeqInit /\ [][SeqNext]_seqvars

-----------------------------------------------------------------------------
\* Every variable has its type; the next number has as many values as the
\* sequence numbers, whatever their width.
SeqTypeOK ==
  /\ do_replay \in BOOLEAN /\ do_sequence \in BOOLEAN
  /\ modulus \in Moduli
  /\ base \in 0 .. modulus - 1 /\ next \in 0 .. modulus - 1
  /\ recvmap \in SUBSET (1 .. Window)
  /\ status \in Status
  /\ seen \in SUBSET (0 .. modulus - 1)
  /\ overshot \in BOOLEAN

\* How a token that was received before in this cycle is reported.
ReplayStep(seqnum) ==
  LET rel == rel_seqnum(seqnum)
  IN  do_replay /\ rel \in seen /\ g_seqstate_check(seqnum) =>
        IF next - rel <= Window THEN status' = "DUPLICATE_TOKEN"
        ELSE status' \in {"OLD_TOKEN", "UNSEQ_TOKEN"}

\* A token that was received before in this cycle is reported as a duplicate, or,
\* more than a window behind, as old or out of sequence: with replay detection on it
\* is never reported like a new one, whatever order the tokens came in and whatever an
\* overlong shift left in the bitmap.
NoReplay == [][\A seqnum \in 0 .. modulus - 1 : ReplayStep(seqnum)]_seqvars

\* How a token that was not received before is not reported.
FreshStep(seqnum) ==
  /\ g_seqstate_check(seqnum)
  /\ rel_seqnum(seqnum) \notin seen /\ ~overshot
  => status' # "DUPLICATE_TOKEN"

\* A token that was not received before is never reported as a duplicate, as long
\* as no token was a window or more ahead of the expected one (the shift of the
\* bitmap is undefined then).
NoFalseReplay == [][\A seqnum \in 0 .. modulus - 1 : FreshStep(seqnum)]_seqvars

\* How a token is reported by its place after the ones received.
SequenceStep(seqnum) ==
  LET rel == rel_seqnum(seqnum)
      above == \A n \in seen : n < rel
      follows == IF rel = 0 THEN seen = {} ELSE rel - 1 \in seen
  IN  do_sequence /\ g_seqstate_check(seqnum) =>
        /\ status' = "COMPLETE" <=> above /\ follows
        /\ status' = "GAP_TOKEN" <=> above /\ ~follows

\* With sequencing on, a token is reported as complete exactly when it is the
\* successor of the highest one received in this cycle (the first one when none
\* was), and a gap exactly when it is beyond that.
InSequence == [][\A seqnum \in 0 .. modulus - 1 : SequenceStep(seqnum)]_seqvars

\* The comment on recvmap: among the numbers of this cycle, a bit is set for every
\* number received that is at most a window behind, and, unless a shift was too
\* long, for no other; every number received is below next, and next - 1 is one of
\* them.
Bitmap ==
  /\ \A n \in seen : n < next
  /\ next > 0 => next - 1 \in seen
  /\ \A n \in seen : next - n <= Window => next - n \in recvmap
  /\ ~overshot => \A j \in recvmap : j <= next => next - j \in seen
=============================================================================
