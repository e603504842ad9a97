--------------------------- MODULE MessageProofs ---------------------------
(***************************************************************************)
(* Two components that keep account of messages that may be lost, repeated *)
(* or reordered, for every value of the constants: the sequence numbers of *)
(* GSS-API tokens (SeqState), and the requests of the RADIUS client and of *)
(* the OTP module (Krad).  The two share no state.                         *)
(***************************************************************************)
EXTENDS SeqState, Krad, TLAPS

(* The leaves are for Zenon, unless they name another prover or say ONLY. *)
USE Zenon

----------------------------------------------------------------------------
(***************************************************************************)
(* The sequence number state reports repeated, lost and reordered tokens   *)
(* as SeqState says, for every width of the numbers and of the bitmap.     *)
(*                                                                         *)
(* The inductive invariant is SeqTypeOK and Bitmap: the bitmap and the     *)
(* numbers received determine each other within the window.  A shift by    *)
(* the width of the bitmap or more may leave any bits, but then every      *)
(* number received before is out of the window, so that only the last      *)
(* conjunct of Bitmap, which excludes that case, is lost.                  *)
(***************************************************************************)

SeqInv == SeqTypeOK /\ Bitmap

\* A relative number is one of the numbers: the subtraction is masked.
LEMMA RelType ==
  ASSUME SeqTypeOK, NEW seqnum \in 0 .. modulus - 1
  PROVE  rel_seqnum(seqnum) \in 0 .. modulus - 1
<1>1. modulus \in Nat \ {0} /\ base \in Int /\ seqnum \in Int
  BY SeqStateAssumption, SMT DEF SeqTypeOK
<1>2. (seqnum - base) % modulus \in 0 .. modulus - 1
  BY <1>1, SMT
<1> QED BY <1>2, SMT DEF rel_seqnum

\* g_seqstate_init establishes the invariant.
LEMMA SeqInitInv == SeqInit => SeqInv
<1> SUFFICES ASSUME SeqInit PROVE SeqInv
  OBVIOUS
<1>1. modulus \in Moduli /\ modulus \in Nat \ {0}
  BY SeqStateAssumption, SMT DEF SeqInit
<1>2. 0 \in 0 .. modulus - 1
  BY <1>1, SMT
<1>3. SeqTypeOK
  BY <1>1, <1>2 DEF SeqInit, SeqTypeOK, Status
<1>4. Bitmap
  BY SMT DEF SeqInit, Bitmap
<1> QED BY <1>3, <1>4, SMT DEF SeqInv

\* Whatever a shift gives is a bitmap.
LEMMA ShiftType ==
  ASSUME NEW map, NEW k, NEW m \in Shift(map, k)
  PROVE  m \in SUBSET (1 .. Window)
BY DEF Shift, Shifted

\* The expected token, or one in the future, keeps the invariant.
LEMMA AheadInv ==
  ASSUME SeqInv, NEW seqnum \in 0 .. modulus - 1, Ahead(seqnum)
  PROVE  SeqInv'
<1> DEFINE rel == rel_seqnum(seqnum)
           k == Successor(rel - next)
<1>1. rel \in 0 .. modulus - 1
  BY RelType DEF SeqInv
<1>2. PICK map \in Shift(recvmap, k) : recvmap' = map \cup {1}
  BY DEF Ahead
<1>3. map \in SUBSET (1 .. Window)
  BY <1>2, ShiftType
<1>4. /\ rel >= next
      /\ next' = NextNumber(rel) /\ status' = AheadStatus(rel - next)
      /\ seen' = IF rel + 1 = modulus THEN {} ELSE seen \cup {rel}
      /\ overshot' = (overshot \/ k >= Window)
      /\ UNCHANGED <<do_replay, do_sequence, modulus, base>>
  BY DEF Ahead
<1>5. /\ modulus \in Moduli /\ modulus \in 1 .. Word /\ next \in 0 .. modulus - 1
      /\ seen \in SUBSET (0 .. modulus - 1) /\ overshot \in BOOLEAN
      /\ recvmap \in SUBSET (1 .. Window)
      /\ Window \in Nat \ {0} /\ Word \in Nat \ {0}
  BY SeqStateAssumption DEF SeqInv, SeqTypeOK
<1> HIDE DEF rel, k
<1>6. SeqTypeOK'
  <2>1. recvmap' \in SUBSET (1 .. Window)
    BY <1>2, <1>3, <1>5, SMT
  <2>2. next' \in 0 .. modulus - 1
    BY <1>1, <1>4, <1>5, SMT DEF NextNumber
  <2>3. seen' \in SUBSET (0 .. modulus - 1)
    BY <1>1, <1>4, <1>5
  <2>4. status' \in Status /\ overshot' \in BOOLEAN
    BY <1>4, <1>5 DEF AheadStatus, Status
  <2> QED BY <1>4, <2>1, <2>2, <2>3, <2>4, SMT DEF SeqInv, SeqTypeOK
<1>7. Bitmap'
  <2>1. CASE rel + 1 = modulus
    <3>1. next' = 0 /\ seen' = {}
      BY <1>4, <2>1 DEF NextNumber
    <3>2. \A j \in recvmap' : ~(j <= 0)
      BY <1>2, <1>3, <1>5, SMT
    <3> QED BY <3>1, <3>2, SMT DEF Bitmap
  <2>2. CASE rel + 1 # modulus
    <3>1. next' = rel + 1 /\ seen' = seen \cup {rel}
      BY <1>4, <2>2 DEF NextNumber
    <3>2. k = rel - next + 1 /\ k \in Nat
      BY <1>1, <1>4, <1>5, <2>2, SMT DEF k, Successor
    <3>3. \A n \in seen : n < next /\ (next - n <= Window => next - n \in recvmap)
      BY DEF SeqInv, Bitmap
    <3>4. k < Window => map = Shifted(recvmap, k)
      BY <1>2 DEF Shift
    <3>5. \A n \in seen' : n < next'
      BY <1>1, <1>4, <1>5, <3>1, <3>3, SMT
    <3>6. next' - 1 \in seen'
      BY <1>1, <3>1, SMT
    <3>7. ASSUME NEW n \in seen', next' - n <= Window
          PROVE  next' - n \in recvmap'
      <4>1. CASE n = rel
        BY <1>1, <1>2, <3>1, <4>1, SMT
      <4>2. CASE n # rel
        <5>1. n \in seen /\ n \in Int /\ next - n <= Window - k /\ next - n >= 1
          BY <1>1, <1>5, <3>1, <3>2, <3>3, <3>7, <4>2, SMT
        <5>2. k < Window /\ next - n \in recvmap /\ next' - n = next - n + k
          BY <1>1, <1>5, <3>1, <3>2, <3>3, <5>1, SMT
        <5>3. next' - n \in 1 .. Window /\ (next' - n) - k = next - n
          BY <1>1, <1>5, <3>1, <3>2, <3>7, <5>1, <5>2, SMT
        <5> QED BY <1>2, <3>4, <5>2, <5>3, SMT DEF Shifted
      <4> QED BY <4>1, <4>2, SMT
    <3>8. ASSUME ~overshot', NEW j \in recvmap', j <= next'
          PROVE  next' - j \in seen'
      <4>1. ~overshot /\ k < Window
        <5>1. ~overshot /\ ~(k >= Window)
          BY <1>4, <3>8
        <5> QED BY <1>5, <3>2, <5>1, SMT
      <4>2. CASE j = 1
        BY <3>6, <4>2
      <4>3. CASE j # 1
        <5>1. j \in 1 .. Window /\ j - k \in recvmap
          BY <1>2, <3>4, <4>1, <4>3 DEF Shifted
        <5>2. j - k <= next /\ next - (j - k) = next' - j
          BY <1>1, <1>5, <3>1, <3>2, <3>8, <5>1, SMT
        <5>3. next - (j - k) \in seen
          BY <4>1, <5>1, <5>2 DEF SeqInv, Bitmap
        <5> QED BY <3>1, <5>2, <5>3, SMT
      <4> QED BY <4>2, <4>3, SMT
    <3> QED BY <3>5, <3>6, <3>7, <3>8, SMT DEF Bitmap
  <2> QED BY <2>1, <2>2, SMT
<1> QED BY <1>6, <1>7, SMT DEF SeqInv

\* A late token keeps the invariant.
LEMMA RecentInv ==
  ASSUME SeqInv, NEW seqnum \in 0 .. modulus - 1, Recent(seqnum)
  PROVE  SeqInv'
<1> DEFINE rel == rel_seqnum(seqnum)
<1>1. rel \in 0 .. modulus - 1
  BY RelType DEF SeqInv
<1>2. /\ next - rel > 0 /\ ~(next - rel > Window)
      /\ \/ status' = "DUPLICATE_TOKEN" /\ UNCHANGED <<recvmap, seen>>
         \/ /\ recvmap' = recvmap \cup {next - rel} /\ seen' = seen \cup {rel}
            /\ status' \in {"UNSEQ_TOKEN", "COMPLETE"}
      /\ UNCHANGED <<do_replay, do_sequence, modulus, base, next, overshot>>
  BY DEF Recent, TooOld, IsReplay
<1>3. modulus \in Nat /\ next \in 0 .. modulus - 1 /\ Window \in Nat
  BY SeqStateAssumption, SMT DEF SeqInv, SeqTypeOK
<1> HIDE DEF rel
<1>4. SeqTypeOK'
  <2>1. next - rel \in 1 .. Window
    BY <1>1, <1>2, <1>3, SMT
  <2> QED BY <1>1, <1>2, <2>1 DEF SeqInv, SeqTypeOK, Status
<1>5. Bitmap'
  <2>1. CASE UNCHANGED <<recvmap, seen>>
    BY <1>2, <2>1 DEF SeqInv, Bitmap
  <2>2. CASE recvmap' = recvmap \cup {next - rel} /\ seen' = seen \cup {rel}
    <3>1. rel < next /\ next - (next - rel) = rel
      BY <1>1, <1>2, <1>3, SMT
    <3> QED BY <1>2, <2>2, <3>1, SMT DEF SeqInv, Bitmap
  <2> QED BY <1>2, <2>1, <2>2, SMT
<1> QED BY <1>4, <1>5, SMT DEF SeqInv

\* A step keeps the invariant.
LEMMA SeqNextInv == SeqInv /\ [SeqNext]_seqvars => SeqInv'
<1> SUFFICES ASSUME SeqInv, [SeqNext]_seqvars PROVE SeqInv'
  OBVIOUS
<1>1. ASSUME NEW seqnum \in 0 .. modulus - 1, g_seqstate_check(seqnum)
      PROVE  SeqInv'
  <2>1. CASE Unchecked
    BY <2>1 DEF Unchecked, SeqInv, SeqTypeOK, Bitmap, Status
  <2>2. CASE Ahead(seqnum)
    BY <2>2, AheadInv
  <2>3. CASE Old(seqnum)
    BY <2>3 DEF Old, SeqInv, SeqTypeOK, Bitmap, Status
  <2>4. CASE Recent(seqnum)
    BY <2>4, RecentInv
  <2> QED BY <1>1, <2>1, <2>2, <2>3, <2>4, SMT DEF g_seqstate_check
<1>2. CASE UNCHANGED seqvars
  BY <1>2 DEF seqvars, SeqInv, SeqTypeOK, Bitmap
<1> QED BY <1>1, <1>2, SMT DEF SeqNext

\* The bitmap of util_seqstate.c is what the comment on it says: it holds the
\* numbers received within the window, and no other until a shift is too long.
THEOREM BitmapCorrect == SeqSpec => [](SeqTypeOK /\ Bitmap)
<1>1. SeqInv => SeqTypeOK /\ Bitmap
  BY DEF SeqInv
<1> QED BY <1>1, SeqInitInv, SeqNextInv, PTL DEF SeqSpec

\* With replay detection g_seqstate_check never reports a token received before in
\* this cycle like a new one.
THEOREM ReplaysReported == SeqSpec => NoReplay
<1>1. ASSUME SeqInv, NEW seqnum \in 0 .. modulus - 1 PROVE ReplayStep(seqnum)
  <2> DEFINE rel == rel_seqnum(seqnum)
  <2> SUFFICES ASSUME do_replay, rel \in seen, g_seqstate_check(seqnum)
               PROVE  IF next - rel <= Window THEN status' = "DUPLICATE_TOKEN"
                      ELSE status' \in {"OLD_TOKEN", "UNSEQ_TOKEN"}
    BY DEF ReplayStep
  <2>1. /\ rel \in 0 .. modulus - 1 /\ modulus \in Nat
        /\ next \in 0 .. modulus - 1 /\ Window \in Nat
    BY <1>1, RelType, SeqStateAssumption, SMT DEF SeqInv, SeqTypeOK
  <2>2. rel < next /\ (next - rel <= Window => next - rel \in recvmap)
    BY <1>1 DEF SeqInv, Bitmap
  <2>3. ~Unchecked /\ ~Ahead(seqnum)
    <3>1. Ahead(seqnum) => rel >= next
      BY DEF Ahead
    <3>2. ~Unchecked
      BY DEF Unchecked
    <3> HIDE DEF rel
    <3> QED BY <2>1, <2>2, <3>1, <3>2, SMT
  <2>4. CASE Old(seqnum)
    BY <2>1, <2>4, SMT DEF Old, TooOld
  <2>5. CASE Recent(seqnum)
    BY <2>1, <2>2, <2>5, SMT DEF Recent, TooOld, IsReplay
  <2> QED BY <2>3, <2>4, <2>5, SMT DEF g_seqstate_check
<1>2. SeqInv => \A seqnum \in 0 .. modulus - 1 : ReplayStep(seqnum)
  BY <1>1
<1> QED BY <1>2, SeqInitInv, SeqNextInv, PTL DEF SeqSpec, NoReplay

\* Until a token is a window or more ahead, g_seqstate_check reports no token as a
\* duplicate that was not received before.
THEOREM DuplicatesWereSeen == SeqSpec => NoFalseReplay
<1>1. ASSUME SeqInv, NEW seqnum \in 0 .. modulus - 1 PROVE FreshStep(seqnum)
  <2> DEFINE rel == rel_seqnum(seqnum)
  <2> SUFFICES ASSUME g_seqstate_check(seqnum), rel \notin seen, ~overshot
               PROVE  status' # "DUPLICATE_TOKEN"
    BY DEF FreshStep
  <2>1. /\ rel \in 0 .. modulus - 1 /\ modulus \in Nat
        /\ next \in 0 .. modulus - 1 /\ Window \in Nat
    BY <1>1, RelType, SeqStateAssumption, SMT DEF SeqInv, SeqTypeOK
  <2>2. next - rel <= next /\ next - (next - rel) = rel
    BY <2>1, SMT
  <2>3. next - rel \notin recvmap
    BY <1>1, <2>2 DEF SeqInv, Bitmap
  <2> HIDE DEF rel
  <2>4. CASE Recent(seqnum)
    BY <2>3, <2>4 DEF Recent, IsReplay, rel
  <2>5. CASE Unchecked \/ Ahead(seqnum) \/ Old(seqnum)
    BY <2>5 DEF Unchecked, Ahead, AheadStatus, Old
  <2> QED BY <2>4, <2>5, SMT DEF g_seqstate_check
<1>2. SeqInv => \A seqnum \in 0 .. modulus - 1 : FreshStep(seqnum)
  BY <1>1
<1> QED BY <1>2, SeqInitInv, SeqNextInv, PTL DEF SeqSpec, NoFalseReplay

\* With sequencing g_seqstate_check reports a token as complete exactly when it
\* follows the highest one received in this cycle, and a gap exactly when it is
\* beyond that one's successor.
THEOREM SequenceReported == SeqSpec => InSequence
<1>1. ASSUME SeqInv, NEW seqnum \in 0 .. modulus - 1 PROVE SequenceStep(seqnum)
  <2> DEFINE rel == rel_seqnum(seqnum)
             above == \A n \in seen : n < rel
             follows == IF rel = 0 THEN seen = {} ELSE rel - 1 \in seen
  <2> SUFFICES ASSUME do_sequence, g_seqstate_check(seqnum)
               PROVE  /\ status' = "COMPLETE" <=> above /\ follows
                      /\ status' = "GAP_TOKEN" <=> above /\ ~follows
    BY DEF SequenceStep
  <2>1. /\ rel \in 0 .. modulus - 1 /\ modulus \in Nat
        /\ next \in 0 .. modulus - 1 /\ Window \in Nat
        /\ seen \in SUBSET (0 .. modulus - 1)
    BY <1>1, RelType, SeqStateAssumption, SMT DEF SeqInv, SeqTypeOK
  <2>2. (\A n \in seen : n < next) /\ (next > 0 => next - 1 \in seen)
    BY <1>1 DEF SeqInv, Bitmap
  <2>3. CASE Ahead(seqnum)
    <3>1. rel >= next /\ status' = AheadStatus(rel - next)
      BY <2>3 DEF Ahead
    <3> HIDE DEF rel
    <3>2. above
      BY <2>1, <2>2, <3>1, SMT
    <3>3. follows <=> rel = next
      BY <2>1, <2>2, <3>1, SMT
    <3>4. status' = IF rel = next THEN "COMPLETE" ELSE "GAP_TOKEN"
      BY <2>1, <3>1, SMT DEF AheadStatus
    <3> QED BY <3>2, <3>3, <3>4, SMT
  <2>4. CASE Old(seqnum) \/ Recent(seqnum)
    <3>1. rel < next /\ status' \notin {"COMPLETE", "GAP_TOKEN"}
      <4>1. /\ next - rel > Window \/ next - rel > 0
            /\ status' \in {"UNSEQ_TOKEN", "DUPLICATE_TOKEN"}
        BY <2>4 DEF Old, Recent, TooOld, IsReplay
      <4> HIDE DEF rel
      <4> QED BY <2>1, <4>1, SMT
    <3> HIDE DEF rel
    <3>2. ~above
      BY <2>1, <2>2, <3>1, SMT
    <3> QED BY <3>1, <3>2, SMT
  <2> QED BY <2>3, <2>4, SMT DEF g_seqstate_check, Unchecked
<1>2. SeqInv => \A seqnum \in 0 .. modulus - 1 : SequenceStep(seqnum)
  BY <1>1
<1> QED BY <1>2, SeqInitInv, SeqNextInv, PTL DEF SeqSpec, InSequence

----------------------------------------------------------------------------
(***************************************************************************)
(* Whatever servers, timers and sockets do, a request of the OTP module    *)
(* always has something that will move it on, is transmitted no more often *)
(* than its retries allow, and leaves nothing behind when it is complete;  *)
(* for any number of verifications, tokens, addresses, identifiers and     *)
(* retries.                                                                *)
(*                                                                         *)
(* An event sets off a chain of callbacks, each of which runs before the   *)
(* function that called it has finished.  The invariant is therefore a     *)
(* predicate of the states such a chain goes through (Good), with a lemma  *)
(* for each function; while a request is between two states, GoodBut says  *)
(* what holds of the others and Half what holds of it.  A request is open, *)
(* listed where it was last sent to and on the move (Running), or listed   *)
(* nowhere (Absent).  Of each packet, what was transmitted and what is due *)
(* together stay within the retries and one (Frugal).                      *)
(***************************************************************************)

----------------------------------------------------------------------------
(* Queues and servers *)

(* What KradAssumption says of the addresses a server is found at. *)
LEMMA ServerFacts ==
  ASSUME NEW ads \in Servers
  PROVE  /\ ads \in Seq(Remote) /\ IsInjective(ads)
         /\ Len(ads) \in Nat \ {0} /\ DOMAIN ads = 1 .. Len(ads)
         /\ Head(ads) = ads[1]
         /\ \A k \in DOMAIN ads : ads[k] \in Remote
         /\ Range(ads) \subseteq Remote
  <1>1. /\ ads \in Seq(Remote) \ {<<>>} /\ IsInjective(ads)
    BY KradAssumption DEF Servers
  <1>2. Len(ads) \in Nat \ {0} /\ DOMAIN ads = 1 .. Len(ads)
    BY <1>1, SMT
  <1>3. Head(ads) = ads[1]
    BY <1>1, <1>2, SMT
  <1>4. \A k \in DOMAIN ads : ads[k] \in Remote
    BY <1>1, <1>2, SMT
  <1> QED
    BY <1>1, <1>2, <1>3, <1>4 DEF Range

(* Taking out the place n closes the gap: the places after it move up. *)
RemoveAt(l, n) == SubSeq(l, 1, n - 1) \o SubSeq(l, n + 1, Len(l))

LEMMA RemoveAtFacts ==
  ASSUME NEW S, NEW l \in Seq(S), NEW n \in 1 .. Len(l)
  PROVE  /\ RemoveAt(l, n) \in Seq(S) /\ Len(RemoveAt(l, n)) = Len(l) - 1
         /\ DOMAIN RemoveAt(l, n) = 1 .. Len(l) - 1
         /\ \A i \in 1 .. Len(l) - 1 :
               RemoveAt(l, n)[i] = l[IF i < n THEN i ELSE i + 1]
  <1> DEFINE a == SubSeq(l, 1, n - 1)
             b == SubSeq(l, n + 1, Len(l))
             t == a \o b
  <1>1. Len(l) \in Nat /\ n \in Int
    BY SMT
  <1>2. a \in Seq(S) /\ Len(a) = n - 1 /\ \A i \in 1 .. n - 1 : a[i] = l[i]
    BY <1>1, SMT
  <1>3. /\ b \in Seq(S) /\ Len(b) = Len(l) - n
        /\ \A i \in 1 .. Len(l) - n : b[i] = l[i + n]
    BY <1>1, SMT
  <1> HIDE DEF a, b
  <1>4. /\ t \in Seq(S) /\ Len(t) = Len(l) - 1
        /\ \A i \in 1 .. Len(l) - 1 :
              t[i] = IF i <= n - 1 THEN a[i] ELSE b[i - (n - 1)]
    <2>1. /\ t \in Seq(S) /\ Len(t) = Len(a) + Len(b)
          /\ \A i \in 1 .. Len(a) + Len(b) :
                t[i] = IF i <= Len(a) THEN a[i] ELSE b[i - Len(a)]
      <3>1. a \in Seq(S) /\ b \in Seq(S)
        BY <1>2, <1>3
      <3>2. Len(a) \in Nat /\ Len(b) \in Nat
        BY <3>1, SMT
      <3>3. t \in Seq(S) /\ Len(t) = Len(a) + Len(b)
        BY <3>1, SMT
      <3>4. ASSUME NEW i \in 1 .. Len(a) + Len(b)
            PROVE  t[i] = IF i <= Len(a) THEN a[i] ELSE b[i - Len(a)]
        BY <3>1, <3>2, SMT
      <3> QED
        BY <3>3, <3>4
    <2>2. Len(a) = n - 1 /\ Len(a) + Len(b) = Len(l) - 1
      BY <1>1, <1>2, <1>3, SMT
    <2> QED
      BY <2>1, <2>2
  <1>5. RemoveAt(l, n) = t
    BY DEF RemoveAt, a, b
  <1> HIDE DEF t
  <1>6. DOMAIN t = 1 .. Len(l) - 1
    BY <1>4, SMT
  <1>7. ASSUME NEW i \in 1 .. Len(l) - 1
        PROVE  t[i] = l[IF i < n THEN i ELSE i + 1]
    <2>1. CASE i < n
      BY <1>1, <1>2, <1>4, <2>1, SMT
    <2>2. CASE i >= n
      <3>1. i - (n - 1) \in 1 .. Len(l) - n /\ i - (n - 1) + n = i + 1
        BY <1>1, <2>2, SMT
      <3>2. t[i] = b[i - (n - 1)]
        BY <1>1, <1>4, <2>2, SMT
      <3>3. b[i - (n - 1)] = l[i - (n - 1) + n]
        BY <1>3, <3>1
      <3> QED
        BY <1>1, <2>2, <3>1, <3>2, <3>3, SMT
    <2> QED
      BY <1>1, <2>1, <2>2, SMT
  <1> QED
    BY <1>4, <1>5, <1>6, <1>7

(* K5_TAILQ_REMOVE takes the packet off the queue and leaves the others. *)
LEMMA RemoveFacts ==
  ASSUME NEW l \in Seq(Request), IsInjective(l), NEW q
  PROVE  /\ remove(l, q) \in Seq(Request) /\ IsInjective(remove(l, q))
         /\ Len(remove(l, q)) \in Nat /\ Len(remove(l, q)) <= Len(l)
         /\ Range(remove(l, q)) = Range(l) \ {q}
  <1>1. CASE q \notin Range(l)
    BY <1>1, SMT DEF remove
  <1>2. CASE q \in Range(l)
    <2> DEFINE n == CHOOSE n \in DOMAIN l : l[n] = q
               t == RemoveAt(l, n)
               at(k) == IF k < n THEN k ELSE k + 1
    <2>1. n \in DOMAIN l /\ l[n] = q
      BY <1>2 DEF Range
    <2>2. remove(l, q) = t
      BY <1>2 DEF remove, RemoveAt
    <2> HIDE DEF n
    <2>3. n \in 1 .. Len(l) /\ Len(l) \in Nat /\ DOMAIN l = 1 .. Len(l)
      BY <2>1, SMT
    <2>4. /\ t \in Seq(Request) /\ Len(t) = Len(l) - 1
          /\ DOMAIN t = 1 .. Len(l) - 1
          /\ \A k \in 1 .. Len(l) - 1 : t[k] = l[at(k)]
      BY <2>3, RemoveAtFacts
    <2>5. \A k \in 1 .. Len(l) - 1 : at(k) \in 1 .. Len(l) /\ at(k) # n
      BY <2>3, SMT
    <2>6. \A j, k \in 1 .. Len(l) - 1 : at(j) = at(k) => j = k
      BY <2>3, SMT
    <2>7. \A k \in 1 .. Len(l) : k # n =>
             \E j \in 1 .. Len(l) - 1 : at(j) = k
      <3>1. ASSUME NEW k \in 1 .. Len(l), k # n
            PROVE  \E j \in 1 .. Len(l) - 1 : at(j) = k
        <4>1. CASE k < n
          <5>1. k \in 1 .. Len(l) - 1 /\ at(k) = k
            BY <2>3, <4>1, SMT
          <5> QED
            BY <5>1
        <4>2. CASE k > n
          <5>1. k - 1 \in 1 .. Len(l) - 1 /\ at(k - 1) = k
            BY <2>3, <4>2, SMT
          <5> QED
            BY <5>1
        <4> QED
          BY <2>3, <3>1, <4>1, <4>2, SMT
      <3> QED
        BY <3>1
    <2> HIDE DEF t, at
    <2>8. \A k \in 1 .. Len(l) : l[k] = q <=> k = n
      BY <2>1, <2>3 DEF IsInjective
    <2>9. IsInjective(t)
      <3>1. ASSUME NEW j \in DOMAIN t, NEW k \in DOMAIN t, t[j] = t[k]
            PROVE  j = k
        <4>1. /\ j \in 1 .. Len(l) - 1 /\ k \in 1 .. Len(l) - 1 /\ l[at(j)] = l[at(k)]
              /\ at(j) \in DOMAIN l /\ at(k) \in DOMAIN l
          BY <2>3, <2>4, <2>5, <3>1
        <4>2. at(j) = at(k)
          BY <4>1 DEF IsInjective
        <4> QED
          BY <2>6, <4>1, <4>2
      <3> QED
        BY <3>1 DEF IsInjective
    <2>10. Range(t) = Range(l) \ {q}
      <3>1. ASSUME NEW k \in DOMAIN t PROVE t[k] \in Range(l) \ {q}
        BY <2>3, <2>4, <2>5, <2>8 DEF Range
      <3>2. ASSUME NEW k \in DOMAIN l, l[k] # q PROVE l[k] \in Range(t)
        <4>1. PICK j \in 1 .. Len(l) - 1 : at(j) = k
          BY <2>3, <2>7, <2>8, <3>2
        <4> QED
          BY <2>4, <4>1 DEF Range
      <3> QED
        BY <3>1, <3>2 DEF Range
    <2> QED
      BY <2>2, <2>3, <2>4, <2>9, <2>10, SMT
  <1> QED
    BY <1>1, <1>2

(* K5_TAILQ_INSERT_TAIL of a packet that is not queued. *)
LEMMA AppendFacts ==
  ASSUME NEW l \in Seq(Request), IsInjective(l),
         NEW q \in Request, q \notin Range(l)
  PROVE  /\ Append(l, q) \in Seq(Request) /\ IsInjective(Append(l, q))
         /\ Len(Append(l, q)) = Len(l) + 1
         /\ Range(Append(l, q)) = Range(l) \cup {q}
  <1> DEFINE t == Append(l, q)
  <1>1. /\ t \in Seq(Request) /\ Len(l) \in Nat /\ Len(t) = Len(l) + 1
        /\ DOMAIN t = 1 .. Len(l) + 1 /\ DOMAIN l = 1 .. Len(l)
        /\ t[Len(l) + 1] = q /\ \A k \in 1 .. Len(l) : t[k] = l[k]
    BY SMT
  <1> HIDE DEF t
  <1>2. \A k \in 1 .. Len(l) : l[k] # q
    BY <1>1 DEF Range
  <1>3. IsInjective(t)
    BY <1>1, <1>2, SMT DEF IsInjective
  <1>4. Range(t) = Range(l) \cup {q}
    <2>1. ASSUME NEW k \in DOMAIN t PROVE t[k] \in Range(l) \cup {q}
      BY <1>1, SMT DEF Range
    <2>2. q \in Range(t) /\ \A k \in DOMAIN l : l[k] \in Range(t)
      BY <1>1, SMT DEF Range
    <2> QED
      BY <2>1, <2>2 DEF Range
  <1> QED
    BY <1>1, <1>3, <1>4 DEF t

----------------------------------------------------------------------------
(* The inductive invariant, of the states an event goes through *)

State ==
    [list : [Remote -> Seq(Request)],
     pkt : [Remote -> [Request -> Packet]],
     fd : [Remote -> BOOLEAN],
     io : [Remote -> SUBSET {"R", "W"}],
     addrs : [Request -> Servers \cup {<<>>}],
     current : [Request -> Nat],
     open : SUBSET Request,
     index : [Verification -> 0..NTokens + 1],
     answers : [Verification -> 0..2]]

(* What is left to be transmitted of a packet: its resends, and the        *)
(* transmission it waits for.                                              *)
Due(p) == (IF p.retries > 0 THEN p.retries ELSE 0)
            + (IF p.sent \in {"no", "part"} THEN 1 ELSE 0)

Frugal(p) ==
    ~p.revived => /\ p.tries + Due(p) <= MaxRetries + 1
                  /\ p.retries = Wrapped => ~p.timer

(* What holds of the remotes. *)
Base(s) ==
    /\ s \in State
    /\ \A r \in Remote :
          /\ IsInjective(s.list[r]) /\ Len(s.list[r]) <= MaxId
          /\ s.io[r] # {} => s.fd[r]
          /\ \A q \in Request : Frugal(s.pkt[r][q])

(* A request is listed only by remotes it was sent to. *)
Held(s, q) ==
    \A r \in Remote : q \in Range(s.list[r]) =>
        \E k \in DOMAIN s.addrs[q] : k <= s.current[q] /\ s.addrs[q][k] = r

Moving(s, r, q) ==
    \/ s.pkt[r][q].timer
    \/ s.pkt[r][q].sent \in {"no", "part", "tail"} /\ s.fd[r] /\ "W" \in s.io[r]

Running(s, q) ==
    /\ s.current[q] \in DOMAIN s.addrs[q] /\ Held(s, q)
    /\ q \in Range(s.list[s.addrs[q][s.current[q]]])
    /\ Moving(s, s.addrs[q][s.current[q]], q)
    /\ q[2] = s.index[q[1]]

Absent(s, q) ==
    /\ \A r \in Remote : q \notin Range(s.list[r])
    /\ s.addrs[q] = <<>> /\ s.current[q] = 0

Fine(s, q) == IF q \in s.open THEN Running(s, q) ELSE Absent(s, q)

GoodBut(s, q) == Base(s) /\ \A p \in Request \ {q} : Fine(s, p)

Good(s) == Base(s) /\ \A p \in Request : Fine(s, p)

IInv == Good(Now)

(* What a step of other requests leaves to q. *)
Same(s, t, q) ==
    /\ q \in t.open <=> q \in s.open
    /\ t.addrs[q] = s.addrs[q] /\ t.current[q] = s.current[q]
    /\ q \in s.open => t.index[q[1]] = s.index[q[1]]
    /\ \A r \in Remote : q \in Range(t.list[r]) <=> q \in Range(s.list[r])
    /\ q \in s.open /\ Moving(s, s.addrs[q][s.current[q]], q) =>
           Moving(t, s.addrs[q][s.current[q]], q)

(* What a request holds depends on its servers and on where it is listed. *)
LEMMA HeldStill ==
  ASSUME NEW s, NEW t, NEW q, Held(s, q),
         t.addrs[q] = s.addrs[q] /\ t.current[q] = s.current[q],
         \A x \in Remote : q \in Range(t.list[x]) => q \in Range(s.list[x])
  PROVE  Held(t, q)
  <1>1. ASSUME NEW x \in Remote, q \in Range(t.list[x])
        PROVE  \E k \in DOMAIN t.addrs[q] : k <= t.current[q] /\ t.addrs[q][k] = x
    <2>1. \E k \in DOMAIN s.addrs[q] : k <= s.current[q] /\ s.addrs[q][k] = x
      BY <1>1 DEF Held
    <2> QED
      BY <2>1
  <1> QED
    BY <1>1 DEF Held

(* A request that is left alone stays as it should be. *)
LEMMA SameFine ==
  ASSUME NEW s, NEW t, NEW q \in Request, Fine(s, q), Same(s, t, q),
         q \in s.open => s.addrs[q][s.current[q]] \in Remote
  PROVE  Fine(t, q)
  <1>1. CASE q \notin s.open
    BY <1>1 DEF Fine, Same, Absent
  <1>2. CASE q \in s.open
    <2>1. /\ Running(s, q) /\ q \in t.open
          /\ t.addrs[q] = s.addrs[q] /\ t.current[q] = s.current[q]
          /\ t.index[q[1]] = s.index[q[1]]
          /\ \A r \in Remote : q \in Range(t.list[r]) <=> q \in Range(s.list[r])
          /\ Moving(s, s.addrs[q][s.current[q]], q) =>
                Moving(t, s.addrs[q][s.current[q]], q)
      BY <1>2 DEF Fine, Same
    <2>2. Held(t, q)
      BY <2>1 DEF Running, Held
    <2> QED
      BY <1>2, <2>1, <2>2 DEF Fine, Running
  <1> QED
    BY <1>1, <1>2

(* The remote a request of a state is sent to. *)
LEMMA CurrentRemote ==
  ASSUME NEW s \in State, NEW q \in Request,
         s.current[q] \in DOMAIN s.addrs[q]
  PROVE  /\ s.addrs[q] \in Servers /\ s.addrs[q] # <<>>
         /\ s.addrs[q][s.current[q]] \in Remote
         /\ s.addrs[q][s.current[q]] \in Range(s.addrs[q])
  <1>1. s.addrs[q] \in Servers \cup {<<>>}
    BY DEF State
  <1>2. s.addrs[q] # <<>>
    BY SMT
  <1> QED
    BY <1>1, <1>2, ServerFacts DEF Range

(* Queues and packets of a state with the right types. *)
LEMMA StateTypes ==
  ASSUME NEW s \in State
  PROVE  /\ s.list \in [Remote -> Seq(Request)]
         /\ s.pkt \in [Remote -> [Request -> Packet]]
         /\ s.fd \in [Remote -> BOOLEAN]
         /\ s.io \in [Remote -> SUBSET {"R", "W"}]
         /\ s.addrs \in [Request -> Servers \cup {<<>>}]
         /\ s.current \in [Request -> Nat]
         /\ s.open \in SUBSET Request
         /\ s.index \in [Verification -> 0..NTokens + 1]
         /\ s.answers \in [Verification -> 0..2]
  BY DEF State

(* The packet records the model makes. *)
LEMMA PacketFacts ==
  /\ NoPacket \in Packet /\ Frugal(NoPacket)
  /\ \A n \in 0..MaxRetries :
        /\ [NoPacket EXCEPT !.retries = n] \in Packet
        /\ Frugal([NoPacket EXCEPT !.retries = n])
        /\ [NoPacket EXCEPT !.retries = n].sent = "no"
  <1> DEFINE k(n) == [NoPacket EXCEPT !.retries = n]
  <1>1. /\ NoPacket.sent = "no" /\ NoPacket.timer = FALSE
        /\ NoPacket.retries = 0 /\ NoPacket.tries = 0
        /\ NoPacket.revived = FALSE
    BY DEF NoPacket
  <1>2. NoPacket \in Packet
    BY KradAssumption, SMT DEF NoPacket, Packet
  <1>3. ASSUME NEW n \in 0 .. MaxRetries
        PROVE  /\ k(n).sent = "no" /\ k(n).timer = FALSE /\ k(n).retries = n
               /\ k(n).tries = 0 /\ k(n).revived = FALSE
    BY DEF NoPacket
  <1>4. ASSUME NEW n \in 0 .. MaxRetries PROVE k(n) \in Packet
    BY <1>2 DEF Packet
  <1>5. ASSUME NEW n \in 0 .. MaxRetries PROVE Frugal(k(n))
    <2> DEFINE m == k(n)
    <2>1. m.sent = "no" /\ m.retries = n /\ m.tries = 0 /\ m.timer = FALSE
      BY <1>3
    <2> HIDE DEF m
    <2>2. Due(m) = n + 1
      BY <2>1, KradAssumption, SMT DEF Due
    <2>3. Frugal(m)
      BY <2>1, <2>2, KradAssumption, SMT DEF Frugal
    <2> QED
      BY <2>3 DEF m
  <1>6. Frugal(NoPacket)
    BY <1>1, KradAssumption, SMT DEF Frugal, Due, Wrapped
  <1> QED
    BY <1>2, <1>3, <1>4, <1>5, <1>6

----------------------------------------------------------------------------
(* The steps of remote.c, field by field *)

(* request_finish changes the queue and the packet. *)
LEMMA UnlistFields ==
  ASSUME NEW s \in State, NEW r \in Remote, NEW q \in Request,
         IsInjective(s.list[r])
  PROVE  LET t == unlist(s, r, q) IN
         /\ t \in State
         /\ t.list = [s.list EXCEPT ![r] = remove(s.list[r], q)]
         /\ t.pkt = [s.pkt EXCEPT ![r] = [s.pkt[r] EXCEPT ![q] = NoPacket]]
         /\ t.fd = s.fd /\ t.io = s.io /\ t.addrs = s.addrs
         /\ t.current = s.current /\ t.open = s.open
         /\ t.index = s.index /\ t.answers = s.answers
  <1> DEFINE l == [s.list EXCEPT ![r] = remove(s.list[r], q)]
             p == [s.pkt EXCEPT ![r] = [s.pkt[r] EXCEPT ![q] = NoPacket]]
             t == [s EXCEPT !.list = l, !.pkt = p]
  <1>1. unlist(s, r, q) = t
    BY DEF unlist
  <1>2. l \in [Remote -> Seq(Request)]
    BY StateTypes, RemoveFacts
  <1>3. p \in [Remote -> [Request -> Packet]]
    BY StateTypes, PacketFacts
  <1> HIDE DEF l, p
  <1>4. t \in State
    BY <1>2, <1>3 DEF State
  <1>5. /\ t.list = l /\ t.pkt = p
        /\ t.fd = s.fd /\ t.io = s.io /\ t.addrs = s.addrs
        /\ t.current = s.current /\ t.open = s.open
        /\ t.index = s.index /\ t.answers = s.answers
    BY DEF State
  <1> QED
    BY <1>1, <1>4, <1>5 DEF l, p

(* kr_remote_send queues a new packet and asks for the socket to write. *)
Sends(s, t, r, q, k) ==
    /\ t \in State
    /\ t.list = [s.list EXCEPT ![r] = Append(s.list[r], q)]
    /\ t.pkt = [s.pkt EXCEPT ![r] = [s.pkt[r] EXCEPT ![q] = k]]
    /\ t.fd = [s.fd EXCEPT ![r] = TRUE]
    /\ t.io = [s.io EXCEPT ![r] = s.io[r] \cup {"W"}]
    /\ t.addrs = s.addrs /\ t.current = s.current /\ t.open = s.open
    /\ t.index = s.index /\ t.answers = s.answers

LEMMA SendFields ==
  ASSUME NEW s \in State, NEW r \in Remote, NEW q \in Request
  PROVE  Sends(s, kr_remote_send(s, r, q), r, q,
               [NoPacket EXCEPT !.retries =
                   IF r \in Stream THEN 0 ELSE MaxRetries])
  <1> DEFINE n == IF r \in Stream THEN 0 ELSE MaxRetries
             k == [NoPacket EXCEPT !.retries = n]
             l == [s.list EXCEPT ![r] = Append(s.list[r], q)]
             p == [s.pkt EXCEPT ![r] = [s.pkt[r] EXCEPT ![q] = k]]
             f == [s.fd EXCEPT ![r] = TRUE]
             i == [s.io EXCEPT ![r] = s.io[r] \cup {"W"}]
             u == [s EXCEPT !.fd = f, !.io = i]
             t == [u EXCEPT !.list = l, !.pkt = p]
  <1>1. n \in 0 .. MaxRetries
    BY KradAssumption, SMT
  <1>2. k \in Packet
    BY <1>1, PacketFacts
  <1>3. l \in [Remote -> Seq(Request)]
    BY StateTypes, SMT
  <1>4. p \in [Remote -> [Request -> Packet]]
    BY <1>2, StateTypes
  <1>5. f \in [Remote -> BOOLEAN] /\ i \in [Remote -> SUBSET {"R", "W"}]
    BY StateTypes
  <1>6. u.list = s.list /\ u.pkt = s.pkt
    BY DEF State
  <1>7. kr_remote_send(s, r, q) = t
    BY <1>6 DEF kr_remote_send, remote_add_flags
  <1> HIDE DEF n, k, l, p, f, i
  <1>8. u \in State
    BY <1>5 DEF State
  <1>9. t \in State
    BY <1>3, <1>4, <1>8 DEF State
  <1>10. /\ t.list = l /\ t.pkt = p /\ t.fd = f /\ t.io = i
         /\ t.addrs = s.addrs
         /\ t.current = s.current /\ t.open = s.open
         /\ t.index = s.index /\ t.answers = s.answers
    BY DEF State
  <1> HIDE DEF t
  <1>11. Sends(s, t, r, q, k)
    BY <1>9, <1>10 DEF Sends, l, p, f, i
  <1> QED
    BY <1>7, <1>11 DEF k, n

(* A request with a packet that is still to be finished: what request      *)
(* callbacks (on_response) find.                                           *)
Half(s, q) ==
    /\ q \in s.open /\ s.current[q] \in DOMAIN s.addrs[q]
    /\ Held(s, q) /\ q[2] = s.index[q[1]]

(* Requests that are left alone stay as they should be. *)
LEMMA SameGood ==
  ASSUME NEW s, NEW t, NEW q, GoodBut(s, q), Base(t),
         \A p \in Request \ {q} : Same(s, t, p)
  PROVE  GoodBut(t, q)
  <1>1. ASSUME NEW p \in Request \ {q}
        PROVE  Fine(t, p)
    <2>1. Fine(s, p) /\ Same(s, t, p) /\ s \in State
      BY DEF GoodBut, Base
    <2>2. p \in s.open => s.addrs[p][s.current[p]] \in Remote
      BY <2>1, CurrentRemote DEF Fine, Running
    <2> QED
      BY <2>1, <2>2, SameFine
  <1> QED
    BY <1>1 DEF GoodBut

(* A good state is good but for any request, and its open requests are     *)
(* half way.                                                               *)
LEMMA GoodHalf ==
  ASSUME NEW s, Good(s), NEW r \in Remote, NEW q \in Range(s.list[r])
  PROVE  GoodBut(s, q) /\ Half(s, q) /\ q \in Request /\ Running(s, q)
  <1>1. s \in State /\ q \in Request
    BY StateTypes, SMT DEF Good, Base, Range
  <1>2. Fine(s, q)
    BY <1>1 DEF Good
  <1>3. q \in s.open /\ Running(s, q)
    BY <1>2 DEF Fine, Absent
  <1>4. Half(s, q)
    BY <1>3 DEF Half, Running
  <1> QED
    BY <1>1, <1>3, <1>4 DEF Good, GoodBut

(* A request that is as it should be completes a state. *)
LEMMA GoodWhole ==
  ASSUME NEW s, NEW q \in Request, GoodBut(s, q), Fine(s, q)
  PROVE  Good(s)
  BY DEF GoodBut, Good

(* request_finish of a packet: the others are left alone. *)
LEMMA UnlistGood ==
  ASSUME NEW s, NEW r \in Remote, NEW q \in Request, GoodBut(s, q), Half(s, q)
  PROVE  GoodBut(unlist(s, r, q), q) /\ Half(unlist(s, r, q), q)
  <1> DEFINE t == unlist(s, r, q)
  <1>1. s \in State /\ IsInjective(s.list[r])
    BY DEF GoodBut, Base
  <1>2. /\ t \in State
        /\ t.list = [s.list EXCEPT ![r] = remove(s.list[r], q)]
        /\ t.pkt = [s.pkt EXCEPT ![r] = [s.pkt[r] EXCEPT ![q] = NoPacket]]
        /\ t.fd = s.fd /\ t.io = s.io /\ t.addrs = s.addrs
        /\ t.current = s.current /\ t.open = s.open
        /\ t.index = s.index
    BY <1>1, UnlistFields, SMT
  <1> HIDE DEF t
  <1>3. ASSUME NEW x \in Remote
        PROVE  /\ IsInjective(t.list[x]) /\ Len(t.list[x]) <= MaxId
               /\ Range(t.list[x]) \subseteq Range(s.list[x])
               /\ Range(s.list[x]) \subseteq Range(t.list[x]) \cup {q}
    <2>1. /\ s.list[x] \in Seq(Request) /\ IsInjective(s.list[x])
          /\ Len(s.list[x]) <= MaxId
      BY <1>1, StateTypes DEF GoodBut, Base
    <2>2. /\ remove(s.list[x], q) \in Seq(Request)
          /\ IsInjective(remove(s.list[x], q))
          /\ Len(remove(s.list[x], q)) \in Nat
          /\ Len(remove(s.list[x], q)) <= Len(s.list[x])
          /\ Range(remove(s.list[x], q)) = Range(s.list[x]) \ {q}
      BY <2>1, RemoveFacts
    <2>3. t.list[x] = s.list[x] \/ t.list[x] = remove(s.list[x], q)
      BY <1>1, <1>2, StateTypes, SMT
    <2>4. Len(s.list[x]) \in Nat /\ MaxId \in Nat
      BY <2>1, KradAssumption, SMT
    <2>5. CASE t.list[x] = s.list[x]
      BY <2>1, <2>5
    <2>6. CASE t.list[x] = remove(s.list[x], q)
      BY <2>1, <2>2, <2>4, <2>6, SMT
    <2> QED
      BY <2>3, <2>5, <2>6
  <1>4. ASSUME NEW x \in Remote, NEW p \in Request
        PROVE  /\ t.pkt[x][p] \in {s.pkt[x][p], NoPacket}
               /\ p # q => t.pkt[x][p] = s.pkt[x][p]
    <2>1. s.pkt \in [Remote -> [Request -> Packet]]
      BY <1>1, StateTypes
    <2>2. t.pkt[x] = IF x = r THEN [s.pkt[r] EXCEPT ![q] = NoPacket]
                     ELSE s.pkt[x]
      BY <1>2, <2>1
    <2> QED
      BY <2>1, <2>2
  <1>5. Base(t)
    <2>1. ASSUME NEW x \in Remote
          PROVE  /\ t.io[x] # {} => t.fd[x]
                 /\ \A p \in Request : Frugal(t.pkt[x][p])
      <3>1. \A p \in Request : Frugal(s.pkt[x][p])
        BY DEF GoodBut, Base
      <3>2. Frugal(NoPacket)
        BY PacketFacts
      <3>3. s.io[x] # {} => s.fd[x]
        BY DEF GoodBut, Base
      <3>4. \A p \in Request : Frugal(t.pkt[x][p])
        BY <1>4, <3>1, <3>2
      <3> QED
        BY <1>2, <3>3, <3>4
    <2> QED
      BY <1>2, <1>3, <2>1 DEF Base
  <1>6. ASSUME NEW p \in Request \ {q}
        PROVE  Same(s, t, p)
    <2>1. \A x \in Remote : p \in Range(t.list[x]) <=> p \in Range(s.list[x])
      BY <1>3
    <2>2. p \in s.open => s.addrs[p][s.current[p]] \in Remote
      BY <1>1, CurrentRemote DEF GoodBut, Fine, Running
    <2>3. p \in s.open /\ Moving(s, s.addrs[p][s.current[p]], p) =>
              Moving(t, s.addrs[p][s.current[p]], p)
      BY <1>2, <1>4, <2>2 DEF Moving
    <2> QED
      BY <1>2, <2>1, <2>3 DEF Same
  <1>7. GoodBut(t, q)
    BY <1>5, <1>6, SameGood
  <1>8. Half(t, q)
    <2>1. Half(s, q)
      BY SMT
    <2>2. \A x \in Remote : q \in Range(t.list[x]) => q \in Range(s.list[x])
      BY <1>3
    <2>3. /\ q \in s.open /\ s.current[q] \in DOMAIN s.addrs[q]
          /\ q[2] = s.index[q[1]] /\ Held(s, q)
      BY <2>1 DEF Half
    <2>4. /\ q \in t.open /\ t.current[q] \in DOMAIN t.addrs[q]
          /\ q[2] = t.index[q[1]]
      BY <1>2, <2>3
    <2>5. t.addrs[q] = s.addrs[q] /\ t.current[q] = s.current[q]
      BY <1>2
    <2>6. Held(t, q)
      BY <2>2, <2>3, <2>5, HeldStill
    <2> QED
      BY <2>4, <2>6 DEF Half
  <1> QED
    BY <1>7, <1>8 DEF t

(* kr_remote_send to a remote that does not list the packet: the packet is *)
(* listed there and waits to be written; the other packets move as before. *)
LEMMA SendKeeps ==
  ASSUME NEW s, NEW r \in Remote, NEW q \in Request, Base(s),
         q \notin Range(s.list[r]), Len(s.list[r]) < MaxId
  PROVE  LET t == kr_remote_send(s, r, q) IN
         /\ Base(t) /\ q \in Range(t.list[r]) /\ Moving(t, r, q)
         /\ \A x \in Remote : \A p \in Request :
               /\ p \in Range(t.list[x]) <=>
                     p \in Range(s.list[x]) \/ (p = q /\ x = r)
               /\ p # q /\ Moving(s, x, p) => Moving(t, x, p)
         /\ t.addrs = s.addrs /\ t.current = s.current /\ t.open = s.open
         /\ t.index = s.index /\ t.answers = s.answers
  <1> DEFINE t == kr_remote_send(s, r, q)
             n == IF r \in Stream THEN 0 ELSE MaxRetries
             k == [NoPacket EXCEPT !.retries = n]
  <1>1. s \in State
    BY DEF Base
  <1>2. /\ t \in State
        /\ t.list = [s.list EXCEPT ![r] = Append(s.list[r], q)]
        /\ t.pkt = [s.pkt EXCEPT ![r] = [s.pkt[r] EXCEPT ![q] = k]]
        /\ t.fd = [s.fd EXCEPT ![r] = TRUE]
        /\ t.io = [s.io EXCEPT ![r] = s.io[r] \cup {"W"}]
        /\ t.addrs = s.addrs /\ t.current = s.current /\ t.open = s.open
        /\ t.index = s.index /\ t.answers = s.answers
    <2>1. Sends(s, t, r, q, k)
      BY <1>1, SendFields
    <2> HIDE DEF t, k
    <2> QED
      BY <2>1 DEF Sends
  <1>3. n \in 0 .. MaxRetries
    BY KradAssumption, SMT
  <1>4. k \in Packet /\ Frugal(k) /\ k.sent = "no"
    BY <1>3, PacketFacts
  <1> HIDE DEF t, k
  <1>5. ASSUME NEW x \in Remote
        PROVE  /\ IsInjective(t.list[x]) /\ Len(t.list[x]) <= MaxId
               /\ Range(t.list[x]) =
                     Range(s.list[x]) \cup (IF x = r THEN {q} ELSE {})
    <2>1. /\ s.list[x] \in Seq(Request) /\ IsInjective(s.list[x])
          /\ Len(s.list[x]) <= MaxId
          /\ t.list[x] = IF x = r THEN Append(s.list[r], q) ELSE s.list[x]
      <3>1. s.list \in [Remote -> Seq(Request)]
        BY <1>1, StateTypes
      <3>2. IsInjective(s.list[x]) /\ Len(s.list[x]) <= MaxId
        BY DEF Base
      <3> QED
        BY <1>2, <3>1, <3>2
    <2>2. CASE x = r
      <3>1. /\ IsInjective(Append(s.list[r], q))
            /\ Len(Append(s.list[r], q)) = Len(s.list[r]) + 1
            /\ Range(Append(s.list[r], q)) = Range(s.list[r]) \cup {q}
        BY <2>1, <2>2, AppendFacts
      <3>2. Len(s.list[r]) \in Nat /\ MaxId \in Nat
        BY <2>1, <2>2, KradAssumption, SMT
      <3> QED
        BY <2>1, <2>2, <3>1, <3>2, SMT
    <2>3. CASE x # r
      BY <2>1, <2>3
    <2> QED
      BY <2>2, <2>3
  <1>6. ASSUME NEW x \in Remote, NEW p \in Request
        PROVE  t.pkt[x][p] = IF x = r /\ p = q THEN k ELSE s.pkt[x][p]
    <2>1. s.pkt \in [Remote -> [Request -> Packet]]
      BY <1>1, StateTypes
    <2>2. t.pkt[x] = IF x = r THEN [s.pkt[r] EXCEPT ![q] = k]
                     ELSE s.pkt[x]
      BY <1>2, <2>1
    <2> QED
      BY <2>1, <2>2
  <1>7. ASSUME NEW x \in Remote
        PROVE  /\ s.fd[x] => t.fd[x] /\ s.io[x] \subseteq t.io[x]
               /\ t.io[x] # {} => t.fd[x]
    <2>1. s.io[x] # {} => s.fd[x]
      BY DEF Base
    <2>2. s.fd \in [Remote -> BOOLEAN] /\ s.io \in [Remote -> SUBSET {"R", "W"}]
      BY <1>1, StateTypes
    <2>3. CASE x = r
      <3>1. t.fd[x] /\ t.io[x] = s.io[x] \cup {"W"}
        BY <1>2, <2>2, <2>3
      <3> QED
        BY <3>1
    <2>4. CASE x # r
      <3>1. t.fd[x] = s.fd[x] /\ t.io[x] = s.io[x]
        BY <1>2, <2>2, <2>4
      <3> QED
        BY <2>1, <3>1
    <2> QED
      BY <2>3, <2>4
  <1>8. t.fd[r] /\ "W" \in t.io[r]
    <2>1. s.fd \in [Remote -> BOOLEAN] /\ s.io \in [Remote -> SUBSET {"R", "W"}]
      BY <1>1, StateTypes
    <2>2. t.fd[r] /\ t.io[r] = s.io[r] \cup {"W"}
      BY <1>2, <2>1
    <2> QED
      BY <2>2
  <1>9. Base(t)
    <2>1. ASSUME NEW x \in Remote, NEW p \in Request
          PROVE  Frugal(t.pkt[x][p])
      BY <1>4, <1>6 DEF Base
    <2> QED
      BY <1>2, <1>5, <1>7, <2>1 DEF Base
  <1>10. q \in Range(t.list[r]) /\ Moving(t, r, q)
    <2>1. t.pkt[r][q].sent = "no"
      BY <1>4, <1>6
    <2> QED
      BY <1>5, <1>8, <2>1 DEF Moving
  <1>11. ASSUME NEW x \in Remote, NEW p \in Request
         PROVE  /\ p \in Range(t.list[x]) <=>
                      p \in Range(s.list[x]) \/ (p = q /\ x = r)
                /\ p # q /\ Moving(s, x, p) => Moving(t, x, p)
    <2>1. p \in Range(t.list[x]) <=>
                      p \in Range(s.list[x]) \/ (p = q /\ x = r)
      BY <1>5
    <2>2. ASSUME p # q, Moving(s, x, p)
          PROVE  Moving(t, x, p)
      <3>1. t.pkt[x][p] = s.pkt[x][p]
        BY <1>6, <2>2
      <3> QED
        BY <1>7, <2>2, <3>1 DEF Moving
    <2> QED
      BY <2>1, <2>2
  <1> QED
    BY <1>2, <1>9, <1>10, <1>11 DEF t

(* What krad_client_send sets for the new request. *)
Opened(u, t, q, ads) ==
    /\ t \in State
    /\ t.list = u.list /\ t.pkt = u.pkt /\ t.fd = u.fd /\ t.io = u.io
    /\ t.addrs = [u.addrs EXCEPT ![q] = ads]
    /\ t.current = [u.current EXCEPT ![q] = 1]
    /\ t.open = u.open \cup {q}
    /\ t.index = u.index /\ t.answers = u.answers

(* krad_client_send opens the request on top of the remote's send. *)
LEMMA ClientFields ==
  ASSUME NEW s, NEW q \in Request, NEW ads \in Servers,
         kr_remote_send(s, ads[1], q) \in State
  PROVE  Opened(kr_remote_send(s, ads[1], q), krad_client_send(s, q, ads), q, ads)
  <1> DEFINE u == kr_remote_send(s, ads[1], q)
             a == [u.addrs EXCEPT ![q] = ads]
             c == [u.current EXCEPT ![q] = 1]
             o == u.open \cup {q}
             t == [u EXCEPT !.addrs = a, !.current = c, !.open = o]
  <1>1. krad_client_send(s, q, ads) = t
    BY DEF krad_client_send
  <1> HIDE DEF u
  <1>2. u \in State
    BY DEF u
  <1>3. /\ a \in [Request -> Servers \cup {<<>>}] /\ c \in [Request -> Nat]
        /\ o \in SUBSET Request
    BY <1>2, StateTypes
  <1> HIDE DEF a, c, o
  <1>4. t \in State
    BY <1>2, <1>3 DEF State
  <1>5. /\ t.list = u.list /\ t.pkt = u.pkt /\ t.fd = u.fd /\ t.io = u.io
        /\ t.addrs = a /\ t.current = c /\ t.open = o
        /\ t.index = u.index /\ t.answers = u.answers
    BY <1>2 DEF State
  <1> QED
    BY <1>1, <1>4, <1>5 DEF u, a, c, o, Opened

(* krad_client_send of a request that is not there yet. *)
LEMMA ClientSend ==
  ASSUME NEW s, NEW q \in Request, NEW ads \in Servers, Base(s),
         q \notin s.open, Absent(s, q), q[2] = s.index[q[1]],
         Len(s.list[ads[1]]) < MaxId
  PROVE  LET t == krad_client_send(s, q, ads) IN
         /\ Base(t) /\ Fine(t, q) /\ t.open = s.open \cup {q}
         /\ \A p \in Request \ {q} :
               /\ (p \in s.open => s.addrs[p][s.current[p]] \in Remote) =>
                     Same(s, t, p)
               /\ Held(s, p) => Held(t, p)
               /\ t.addrs[p] = s.addrs[p] /\ t.current[p] = s.current[p]
         /\ t.index = s.index /\ t.answers = s.answers
  <1> DEFINE r == ads[1]
             u == kr_remote_send(s, r, q)
             t == krad_client_send(s, q, ads)
  <1>1. s \in State /\ r \in Remote /\ 1 \in DOMAIN ads
    BY ServerFacts, SMT DEF Base
  <1>2. q \notin Range(s.list[r])
    BY <1>1 DEF Absent
  <1>3. /\ Base(u) /\ q \in Range(u.list[r]) /\ Moving(u, r, q)
        /\ \A x \in Remote : \A p \in Request :
              /\ p \in Range(u.list[x]) <=>
                    p \in Range(s.list[x]) \/ (p = q /\ x = r)
              /\ p # q /\ Moving(s, x, p) => Moving(u, x, p)
        /\ u.addrs = s.addrs /\ u.current = s.current /\ u.open = s.open
        /\ u.index = s.index /\ u.answers = s.answers
    BY <1>1, <1>2, SendKeeps, SMT
  <1>4. u \in State
    BY <1>3 DEF Base
  <1>5. /\ t \in State
        /\ t.list = u.list /\ t.pkt = u.pkt /\ t.fd = u.fd /\ t.io = u.io
        /\ t.addrs = [u.addrs EXCEPT ![q] = ads]
        /\ t.current = [u.current EXCEPT ![q] = 1]
        /\ t.open = u.open \cup {q}
        /\ t.index = u.index /\ t.answers = u.answers
    <2>1. Opened(u, t, q, ads)
      BY <1>4, ClientFields
    <2> HIDE DEF u, t
    <2> QED
      BY <2>1 DEF Opened
  <1> HIDE DEF u, t
  <1>6. Base(t)
    BY <1>3, <1>5 DEF Base
  <1>7. /\ t.addrs[q] = ads /\ t.current[q] = 1 /\ q \in t.open
        /\ \A p \in Request \ {q} :
              t.addrs[p] = s.addrs[p] /\ t.current[p] = s.current[p]
    <2>1. /\ s.addrs \in [Request -> Servers \cup {<<>>}]
          /\ s.current \in [Request -> Nat]
      BY <1>1, StateTypes
    <2>2. /\ t.addrs = [s.addrs EXCEPT ![q] = ads]
          /\ t.current = [s.current EXCEPT ![q] = 1] /\ q \in t.open
      BY <1>3, <1>5
    <2> QED
      BY <2>1, <2>2
  <1>8. \A x \in Remote : \A p \in Request : Moving(u, x, p) => Moving(t, x, p)
    BY <1>5 DEF Moving
  <1>9. Fine(t, q)
    <2>1. Held(t, q)
      <3>1. ASSUME NEW x \in Remote, q \in Range(t.list[x])
            PROVE  x = r
        BY <1>3, <1>5, <3>1 DEF Absent
      <3>2. 1 <= t.current[q]
        BY <1>7, SMT
      <3> QED
        BY <1>1, <1>7, <3>1, <3>2 DEF Held
    <2>2. q \in Range(t.list[r]) /\ Moving(t, r, q) /\ q[2] = t.index[q[1]]
      BY <1>1, <1>3, <1>5, <1>8
    <2>3. t.addrs[q][t.current[q]] = r /\ t.current[q] \in DOMAIN t.addrs[q]
      BY <1>1, <1>7
    <2> QED
      BY <1>7, <2>1, <2>2, <2>3 DEF Fine, Running
  <1>10. ASSUME NEW p \in Request \ {q}
         PROVE  \A x \in Remote : p \in Range(t.list[x]) <=> p \in Range(s.list[x])
    BY <1>3, <1>5
  <1>11. ASSUME NEW p \in Request \ {q},
                p \in s.open => s.addrs[p][s.current[p]] \in Remote
         PROVE  Same(s, t, p)
    <2>1. p \in t.open <=> p \in s.open
      BY <1>3, <1>5
    <2>2. /\ t.addrs[p] = s.addrs[p] /\ t.current[p] = s.current[p]
          /\ t.index[p[1]] = s.index[p[1]]
      BY <1>3, <1>5, <1>7
    <2>3. p \in s.open /\ Moving(s, s.addrs[p][s.current[p]], p) =>
              Moving(t, s.addrs[p][s.current[p]], p)
      BY <1>3, <1>8, <1>11
    <2> QED
      BY <1>10, <2>1, <2>2, <2>3 DEF Same
  <1>12. ASSUME NEW p \in Request \ {q}, Held(s, p)
         PROVE  Held(t, p)
    <2>1. t.addrs[p] = s.addrs[p] /\ t.current[p] = s.current[p]
      BY <1>7
    <2>2. \A x \in Remote : p \in Range(t.list[x]) => p \in Range(s.list[x])
      BY <1>10
    <2> QED
      BY <1>12, <2>1, <2>2, HeldStill
  <1>13. t.open = s.open \cup {q} /\ t.index = s.index /\ t.answers = s.answers
    BY <1>3, <1>5
  <1> QED
    BY <1>6, <1>7, <1>9, <1>11, <1>12, <1>13 DEF t

(* Only the answers count what answer() does. *)
LEMMA AnswerFields ==
  ASSUME NEW s \in State, NEW v \in Verification
  PROVE  LET t == answer(s, v) IN
         /\ t \in State
         /\ t.list = s.list /\ t.pkt = s.pkt /\ t.fd = s.fd /\ t.io = s.io
         /\ t.addrs = s.addrs /\ t.current = s.current /\ t.open = s.open
         /\ t.index = s.index
         /\ t.answers = [s.answers EXCEPT ![v] =
                           IF s.answers[v] < 2 THEN s.answers[v] + 1
                           ELSE s.answers[v]]
  <1> DEFINE a == [s.answers EXCEPT ![v] =
                     IF s.answers[v] < 2 THEN s.answers[v] + 1
                     ELSE s.answers[v]]
             t == [s EXCEPT !.answers = a]
  <1>1. answer(s, v) = t
    BY DEF answer
  <1>2. a \in [Verification -> 0..2]
    BY StateTypes, SMT
  <1> HIDE DEF a
  <1>3. t \in State
    BY <1>2 DEF State
  <1>4. /\ t.list = s.list /\ t.pkt = s.pkt /\ t.fd = s.fd /\ t.io = s.io
        /\ t.addrs = s.addrs /\ t.current = s.current /\ t.open = s.open
        /\ t.index = s.index /\ t.answers = a
    BY DEF State
  <1> QED
    BY <1>1, <1>3, <1>4 DEF a

(* States that differ in the index and the answers only. *)
Alike(s, t) ==
    /\ t.list = s.list /\ t.pkt = s.pkt /\ t.fd = s.fd /\ t.io = s.io
    /\ t.addrs = s.addrs /\ t.current = s.current /\ t.open = s.open

LEMMA AlikeKeeps ==
  ASSUME NEW s, NEW t \in State, Alike(s, t), Base(s)
  PROVE  /\ Base(t)
         /\ \A p \in Request : /\ Held(s, p) => Held(t, p)
                               /\ Absent(s, p) => Absent(t, p)
         /\ \A p \in Request :
               (p \in s.open => t.index[p[1]] = s.index[p[1]]) => Same(s, t, p)
  <1>1. Base(t)
    BY DEF Alike, Base
  <1>2. \A p \in Request : /\ Held(s, p) => Held(t, p)
                           /\ Absent(s, p) => Absent(t, p)
    BY DEF Alike, Held, Absent
  <1>3. \A p \in Request : \A x : Moving(s, x, p) => Moving(t, x, p)
    BY DEF Alike, Moving
  <1> QED
    BY <1>1, <1>2, <1>3 DEF Alike, Same

(* A state with the next token of a verification. *)
LEMMA IndexFields ==
  ASSUME NEW s \in State, NEW v \in Verification, NEW i \in 0 .. NTokens + 1
  PROVE  LET t == [s EXCEPT !.index[v] = i] IN
         /\ t \in State /\ Alike(s, t) /\ t.answers = s.answers
         /\ t.index = [s.index EXCEPT ![v] = i]
  <1> DEFINE n == [s.index EXCEPT ![v] = i]
             t == [s EXCEPT !.index = n]
  <1>1. n \in [Verification -> 0 .. NTokens + 1]
    BY StateTypes
  <1> HIDE DEF n
  <1>2. t \in State
    BY <1>1 DEF State
  <1>3. Alike(s, t) /\ t.answers = s.answers /\ t.index = n
    BY DEF State, Alike
  <1> QED
    BY <1>2, <1>3 DEF n

(* request_send of the OTP module, for a token that was not tried yet. *)
Requested(s, t, n) ==
    /\ Base(t) /\ Fine(t, n) /\ t.index = s.index
    /\ \A p \in Request \ {n} :
          /\ (p \in s.open => s.addrs[p][s.current[p]] \in Remote) =>
                Same(s, t, p)
          /\ Held(s, p) => Held(t, p)
          /\ p \in t.open <=> p \in s.open
          /\ t.addrs[p] = s.addrs[p] /\ t.current[p] = s.current[p]

(* request_send sends the next request of a verification, or answers. *)
LEMMA RequestSend ==
  ASSUME NEW s, NEW v \in Verification, NEW e, Base(s),
         e.ads \in Servers \cup {<<>>}, s.index[v] \in 1 .. NTokens,
         <<v, s.index[v]>> \notin s.open, Absent(s, <<v, s.index[v]>>)
  PROVE  Requested(s, request_send(s, v, e), <<v, s.index[v]>>)
  <1> DEFINE t == request_send(s, v, e)
             n == <<v, s.index[v]>>
             sends == e.ads # <<>> /\ can_send(s, Head(e.ads), e.up)
  <1>1. n \in Request /\ n[2] = s.index[n[1]] /\ s \in State
    BY DEF Request, Base
  <1>2. CASE sends
    <2>1. /\ e.ads \in Servers /\ Head(e.ads) = e.ads[1]
          /\ Len(s.list[e.ads[1]]) < MaxId
      BY <1>2, ServerFacts DEF can_send
    <2>2. t = krad_client_send(s, n, e.ads)
      BY <1>2 DEF request_send
    <2> HIDE DEF t, n
    <2>3. /\ Base(t) /\ Fine(t, n) /\ t.open = s.open \cup {n}
          /\ \A p \in Request \ {n} :
                /\ (p \in s.open => s.addrs[p][s.current[p]] \in Remote) =>
                      Same(s, t, p)
                /\ Held(s, p) => Held(t, p)
                /\ t.addrs[p] = s.addrs[p] /\ t.current[p] = s.current[p]
          /\ t.index = s.index
      <3>1. n \notin s.open /\ Absent(s, n)
        BY DEF n
      <3> QED
        BY ONLY <1>1, <2>1, <2>2, <3>1, Base(s), ClientSend
    <2>4. \A p \in Request \ {n} : p \in t.open <=> p \in s.open
      BY <2>3
    <2> QED
      BY <2>3, <2>4 DEF t, n, Requested
  <1>3. CASE ~sends
    <2>1. t = answer(s, v)
      BY <1>3 DEF request_send
    <2> HIDE DEF t, n
    <2>2. t \in State /\ Alike(s, t) /\ t.index = s.index
      BY <1>1, <2>1, AnswerFields DEF Alike
    <2>3. /\ Base(t) /\ Absent(t, n)
          /\ \A p \in Request : /\ Held(s, p) => Held(t, p)
                                /\ Same(s, t, p)
      <3>1. Absent(s, n)
        BY DEF n
      <3> QED
        BY <1>1, <2>2, <3>1, AlikeKeeps
    <2>4. n \notin s.open
      BY DEF n
    <2>5. Fine(t, n)
      BY <2>2, <2>3, <2>4 DEF Fine, Alike
    <2> QED
      <3>1. /\ t.index = s.index
            /\ \A p \in Request : /\ p \in t.open <=> p \in s.open
                                  /\ t.addrs[p] = s.addrs[p]
                                  /\ t.current[p] = s.current[p]
        BY <2>2 DEF Alike
      <3> QED
        BY <2>3, <2>5, <3>1 DEF t, n, Requested
  <1> QED
    BY <1>2, <1>3

(* The OTP module's callback, called when q is no longer open: it leaves   *)
(* what remotes hold of q and all requests but its own.                    *)
LEMMA CallbackKeeps ==
  ASSUME NEW s, NEW q \in Request, NEW ret, NEW e, GoodBut(s, q),
         q \notin s.open, Held(s, q), q[2] = s.index[q[1]],
         e.ads \in Servers \cup {<<>>}
  PROVE  LET t == callback(s, q[1], ret, e) IN
         /\ GoodBut(t, q) /\ q \notin t.open /\ Held(t, q)
         /\ t.addrs[q] = s.addrs[q]
  <1> DEFINE v == q[1]
             i == s.index[v] + 1
             a == [s EXCEPT !.index[v] = i]
             b == request_send(a, v, e)
             t == callback(s, v, ret, e)
             tries == ret = "reject" /\ i <= NTokens
  <1>1. /\ s \in State /\ Base(s) /\ v \in Verification /\ NTokens \in Nat
        /\ s.index[v] \in 1 .. NTokens /\ i \in 0 .. NTokens + 1
    BY KradAssumption, SMT DEF GoodBut, Base, Request
  <1>2. /\ a \in State /\ Alike(s, a) /\ a.index = [s.index EXCEPT ![v] = i]
    BY <1>1, IndexFields, SMT
  <1>3. a.index[v] = i /\ \A w \in Verification : w # v => a.index[w] = s.index[w]
    BY <1>1, <1>2, StateTypes, SMT
  <1>4. t = IF tries THEN answer(b, v) ELSE answer(a, v)
    BY <1>3 DEF callback
  <1> HIDE DEF a
  <1>5. ASSUME NEW p \in Request, p \in s.open
        PROVE  p # q /\ a.index[p[1]] = s.index[p[1]]
    <2>1. p # q
      BY <1>5
    <2>2. p[2] = s.index[p[1]]
      BY <1>5, <2>1 DEF GoodBut, Fine, Running
    <2>3. p[1] # v /\ p[1] \in Verification
      BY <2>1, <2>2, SMT DEF Request
    <2> QED
      BY <1>3, <2>1, <2>3
  <1>6. /\ Base(a) /\ Held(a, q)
        /\ \A p \in Request : Same(s, a, p)
        /\ a.addrs[q] = s.addrs[q] /\ q \notin a.open
    <2>1. a.addrs[q] = s.addrs[q] /\ q \notin a.open
      BY <1>2 DEF Alike
    <2> QED
      BY <1>1, <1>2, <1>5, <2>1, AlikeKeeps
  <1>7. GoodBut(a, q)
    BY <1>6, SameGood
  <1>8. ASSUME NEW c \in State, GoodBut(c, q), Held(c, q), q \notin c.open,
               c.addrs[q] = s.addrs[q]
        PROVE  /\ GoodBut(answer(c, v), q) /\ Held(answer(c, v), q)
               /\ q \notin answer(c, v).open
               /\ answer(c, v).addrs[q] = s.addrs[q]
    <2> DEFINE d == answer(c, v)
    <2>1. d \in State /\ Alike(c, d) /\ d.index = c.index
      BY <1>1, <1>8, AnswerFields DEF Alike
    <2> HIDE DEF d
    <2>2. Base(c)
      BY <1>8 DEF GoodBut
    <2>3. /\ Base(d) /\ Held(d, q) /\ \A p \in Request : Same(c, d, p)
      BY <1>8, <2>1, <2>2, AlikeKeeps
    <2>4. GoodBut(d, q)
      BY <1>8, <2>3, SameGood
    <2>5. q \notin d.open /\ d.addrs[q] = s.addrs[q]
      BY <1>8, <2>1 DEF Alike
    <2> QED
      BY <2>3, <2>4, <2>5 DEF d
  <1>9. CASE tries
    <2> DEFINE n == <<v, a.index[v]>>
    <2>1. /\ n \in Request \ {q} /\ a.index[v] \in 1 .. NTokens
      BY <1>1, <1>3, <1>9, SMT DEF Request
    <2>2. n \notin a.open /\ Absent(a, n)
      <3>1. n[1] = v /\ n[2] = i
        BY <1>3
      <3>2. n \notin s.open
        <4>1. ASSUME n \in s.open
              PROVE  FALSE
          <5>1. n[2] = s.index[n[1]]
            BY <2>1, <4>1 DEF GoodBut, Fine, Running
          <5>2. i = s.index[v]
            BY <3>1, <5>1
          <5> QED
            BY <1>1, <5>2, SMT
        <4> QED
          BY <4>1
      <3>3. n \notin a.open
        BY <1>2, <3>2 DEF Alike
      <3> QED
        BY <1>7, <2>1, <3>3 DEF GoodBut, Fine
    <2>3. /\ Base(b) /\ Fine(b, n)
          /\ \A p \in Request \ {n} :
                /\ (p \in a.open => a.addrs[p][a.current[p]] \in Remote) =>
                      Same(a, b, p)
                /\ Held(a, p) => Held(b, p)
                /\ p \in b.open <=> p \in a.open
                /\ b.addrs[p] = a.addrs[p]
      <3>1. Requested(a, b, n)
        BY <1>1, <1>6, <2>1, <2>2, RequestSend
      <3> HIDE DEF b, n
      <3> QED
        BY <3>1 DEF Requested
    <2> HIDE DEF b, n
    <2>4. ASSUME NEW p \in Request \ {q}
          PROVE  Fine(b, p)
      <3>1. CASE p = n
        BY <2>3, <3>1
      <3>2. CASE p # n
        <4>1. Fine(a, p) /\ a \in State
          BY <1>2, <1>7 DEF GoodBut
        <4>2. p \in a.open => a.addrs[p][a.current[p]] \in Remote
          BY <4>1, CurrentRemote DEF Fine, Running
        <4>3. Same(a, b, p)
          BY <2>3, <3>2, <4>2
        <4> QED
          BY <4>1, <4>2, <4>3, SameFine
      <3> QED
        BY <3>1, <3>2
    <2>5. /\ GoodBut(b, q) /\ Held(b, q) /\ q \notin b.open
          /\ b.addrs[q] = s.addrs[q] /\ b \in State
      <3>1. /\ Held(b, q) /\ q \notin b.open /\ b.addrs[q] = s.addrs[q]
        BY <1>6, <2>1, <2>3
      <3> QED
        BY <2>3, <2>4, <3>1 DEF GoodBut, Base
    <2> QED
      BY <1>4, <1>8, <1>9, <2>5
  <1>10. CASE ~tries
    BY <1>2, <1>4, <1>6, <1>7, <1>8, <1>10
  <1> QED
    BY <1>9, <1>10

(* kr_remote_cancel takes q off the lists of its remotes. *)
LEMMA CancelFields ==
  ASSUME NEW s, NEW q \in Request, Base(s)
  PROVE  LET t == kr_remote_cancel(s, q) IN
         /\ t \in State
         /\ t.list = [r \in Remote |-> IF r \in Range(s.addrs[q])
                                       THEN remove(s.list[r], q) ELSE s.list[r]]
         /\ t.pkt = [r \in Remote |-> IF r \in Range(s.addrs[q])
                                      THEN [s.pkt[r] EXCEPT ![q] = NoPacket]
                                      ELSE s.pkt[r]]
         /\ t.fd = s.fd /\ t.io = s.io /\ t.addrs = s.addrs
         /\ t.current = s.current /\ t.open = s.open
         /\ t.index = s.index /\ t.answers = s.answers
  <1> DEFINE l == [r \in Remote |-> IF r \in Range(s.addrs[q])
                                    THEN remove(s.list[r], q) ELSE s.list[r]]
             p == [r \in Remote |-> IF r \in Range(s.addrs[q])
                                    THEN [s.pkt[r] EXCEPT ![q] = NoPacket]
                                    ELSE s.pkt[r]]
             t == [s EXCEPT !.list = l, !.pkt = p]
  <1>1. kr_remote_cancel(s, q) = t
    BY DEF kr_remote_cancel
  <1>2. s \in State /\ \A r \in Remote : IsInjective(s.list[r])
    BY DEF Base
  <1>3. l \in [Remote -> Seq(Request)]
    <2>1. ASSUME NEW r \in Remote
          PROVE  s.list[r] \in Seq(Request) /\ remove(s.list[r], q) \in Seq(Request)
      BY <1>2, StateTypes, RemoveFacts
    <2> QED
      BY <2>1
  <1>4. p \in [Remote -> [Request -> Packet]]
    BY <1>2, StateTypes, PacketFacts
  <1> HIDE DEF l, p
  <1>5. t \in State
    BY <1>2, <1>3, <1>4 DEF State
  <1>6. /\ t.list = l /\ t.pkt = p
        /\ t.fd = s.fd /\ t.io = s.io /\ t.addrs = s.addrs
        /\ t.current = s.current /\ t.open = s.open
        /\ t.index = s.index /\ t.answers = s.answers
    BY <1>2 DEF State
  <1> QED
    BY <1>1, <1>5, <1>6 DEF l, p

(* After it no remote holds a packet of q. *)
LEMMA CancelKeeps ==
  ASSUME NEW s, NEW q \in Request, GoodBut(s, q), Held(s, q)
  PROVE  LET t == kr_remote_cancel(s, q) IN
         /\ GoodBut(t, q) /\ \A r \in Remote : q \notin Range(t.list[r])
         /\ t.addrs = s.addrs /\ t.open = s.open
  <1> DEFINE t == kr_remote_cancel(s, q)
             hit(r) == r \in Range(s.addrs[q])
  <1>1. Base(s) /\ s \in State
    BY DEF GoodBut, Base
  <1>2. /\ t \in State
        /\ t.list = [r \in Remote |-> IF hit(r) THEN remove(s.list[r], q)
                                      ELSE s.list[r]]
        /\ t.pkt = [r \in Remote |-> IF hit(r)
                                     THEN [s.pkt[r] EXCEPT ![q] = NoPacket]
                                     ELSE s.pkt[r]]
        /\ t.fd = s.fd /\ t.io = s.io /\ t.addrs = s.addrs
        /\ t.current = s.current /\ t.open = s.open /\ t.index = s.index
    BY <1>1, CancelFields, SMT
  <1>3. ASSUME NEW r \in Remote, q \in Range(s.list[r]) PROVE hit(r)
    BY <1>3 DEF Held, Range
  <1> HIDE DEF t, hit
  <1>4. ASSUME NEW x \in Remote
        PROVE  /\ IsInjective(t.list[x]) /\ Len(t.list[x]) <= MaxId
               /\ Range(t.list[x]) = Range(s.list[x]) \ {q}
    <2>1. /\ s.list[x] \in Seq(Request) /\ IsInjective(s.list[x])
          /\ Len(s.list[x]) <= MaxId
      BY <1>1, StateTypes DEF Base
    <2>2. /\ IsInjective(remove(s.list[x], q))
          /\ Len(remove(s.list[x], q)) \in Nat
          /\ Len(remove(s.list[x], q)) <= Len(s.list[x])
          /\ Range(remove(s.list[x], q)) = Range(s.list[x]) \ {q}
      BY <2>1, RemoveFacts
    <2>3. t.list[x] = IF hit(x) THEN remove(s.list[x], q) ELSE s.list[x]
      BY <1>2
    <2>4. Len(s.list[x]) \in Nat /\ MaxId \in Nat
      BY <2>1, KradAssumption, SMT
    <2>5. CASE hit(x)
      BY <2>1, <2>2, <2>3, <2>4, <2>5, SMT
    <2>6. CASE ~hit(x)
      BY <1>3, <2>1, <2>3, <2>6
    <2> QED
      BY <2>5, <2>6
  <1>5. ASSUME NEW x \in Remote, NEW p \in Request
        PROVE  /\ t.pkt[x][p] \in {s.pkt[x][p], NoPacket}
               /\ p # q => t.pkt[x][p] = s.pkt[x][p]
    <2>1. s.pkt[x] \in [Request -> Packet]
      BY <1>1, StateTypes
    <2>2. t.pkt[x] = IF hit(x) THEN [s.pkt[x] EXCEPT ![q] = NoPacket]
                     ELSE s.pkt[x]
      BY <1>2
    <2> QED
      BY <2>1, <2>2
  <1>6. Base(t)
    <2>1. ASSUME NEW x \in Remote
          PROVE  /\ t.io[x] # {} => t.fd[x]
                 /\ \A p \in Request : Frugal(t.pkt[x][p])
      <3>1. /\ \A p \in Request : Frugal(s.pkt[x][p])
            /\ s.io[x] # {} => s.fd[x]
        BY <1>1 DEF Base
      <3> QED
        BY <1>2, <1>5, <3>1, PacketFacts
    <2> QED
      BY <1>2, <1>4, <2>1 DEF Base
  <1>7. ASSUME NEW p \in Request \ {q}
        PROVE  Same(s, t, p)
    <2>1. \A x \in Remote : p \in Range(t.list[x]) <=> p \in Range(s.list[x])
      BY <1>4
    <2>2. p \in s.open => s.addrs[p][s.current[p]] \in Remote
      BY <1>1, CurrentRemote DEF GoodBut, Fine, Running
    <2>3. p \in s.open /\ Moving(s, s.addrs[p][s.current[p]], p) =>
              Moving(t, s.addrs[p][s.current[p]], p)
      BY <1>2, <1>5, <2>2 DEF Moving
    <2> QED
      BY <1>2, <2>1, <2>3 DEF Same
  <1>8. GoodBut(t, q)
    BY <1>6, <1>7, SameGood
  <1>9. \A r \in Remote : q \notin Range(t.list[r])
    BY <1>4
  <1> QED
    BY <1>2, <1>8, <1>9 DEF t

(* age() closes remotes that no open request uses. *)
LEMMA AgeKeeps ==
  ASSUME NEW s, NEW q \in Request, GoodBut(s, q), NEW old,
         old \cap in_use(s) = {}, q \notin s.open
  PROVE  LET t == age(s, old) IN
         /\ GoodBut(t, q) /\ t.list = s.list
         /\ t.addrs = s.addrs /\ t.open = s.open
  <1> DEFINE f == [r \in Remote |-> s.fd[r] /\ r \notin old]
             i == [r \in Remote |-> IF r \in old THEN {} ELSE s.io[r]]
             t == [s EXCEPT !.fd = f, !.io = i]
  <1>1. age(s, old) = t
    BY DEF age
  <1>2. Base(s) /\ s \in State
    BY DEF GoodBut, Base
  <1>3. f \in [Remote -> BOOLEAN] /\ i \in [Remote -> SUBSET {"R", "W"}]
    BY <1>2, StateTypes
  <1>4. \A r \in Remote : /\ f[r] = (s.fd[r] /\ r \notin old)
                          /\ i[r] = IF r \in old THEN {} ELSE s.io[r]
    OBVIOUS
  <1> HIDE DEF f, i
  <1>5. t \in State
    BY <1>2, <1>3 DEF State
  <1>6. /\ t.list = s.list /\ t.pkt = s.pkt /\ t.fd = f /\ t.io = i
        /\ t.addrs = s.addrs /\ t.current = s.current /\ t.open = s.open
        /\ t.index = s.index
    BY <1>2 DEF State
  <1> HIDE DEF t
  <1>7. Base(t)
    <2>1. ASSUME NEW r \in Remote PROVE t.io[r] # {} => t.fd[r]
      BY <1>2, <1>4, <1>6 DEF Base
    <2> QED
      BY <1>2, <1>5, <1>6, <2>1 DEF Base
  <1>8. ASSUME NEW p \in Request \ {q}
        PROVE  Same(s, t, p)
    <2>1. ASSUME p \in s.open
          PROVE  /\ s.addrs[p][s.current[p]] \in Remote
                 /\ s.addrs[p][s.current[p]] \notin old
      <3>1. /\ s.addrs[p][s.current[p]] \in Remote
            /\ s.addrs[p][s.current[p]] \in Range(s.addrs[p])
        BY <1>2, <2>1, CurrentRemote DEF GoodBut, Fine, Running
      <3>2. s.addrs[p][s.current[p]] \in in_use(s)
        BY <2>1, <3>1 DEF in_use
      <3> QED
        BY <3>1, <3>2
    <2>2. p \in s.open /\ Moving(s, s.addrs[p][s.current[p]], p) =>
                            Moving(t, s.addrs[p][s.current[p]], p)
      BY <1>4, <1>6, <2>1 DEF Moving
    <2> QED
      BY <1>6, <2>2 DEF Same
  <1>9. GoodBut(t, q)
    BY <1>7, <1>8, SameGood
  <1> QED
    BY <1>1, <1>6, <1>9 DEF t

(* complete() with its request open: the request is gone from every        *)
(* remote, and all the others, the one callback() may have made included,  *)
(* are as they should be.                                                  *)
LEMMA CompleteGood ==
  ASSUME NEW s, NEW q \in Request, NEW ret, NEW e, GoodBut(s, q),
         q \in s.open, Held(s, q), q[2] = s.index[q[1]],
         e.ads \in Servers \cup {<<>>}
  PROVE  Good(complete(s, q, ret, e))
  <1> DEFINE a == [s EXCEPT !.open = s.open \ {q}]
             b == callback(a, q[1], ret, e)
             c == kr_remote_cancel(b, q)
             old == e.old \ (in_use(s) \cup in_use(b))
             d == age(c, old)
             t == [d EXCEPT !.addrs = [d.addrs EXCEPT ![q] = <<>>],
                            !.current = [d.current EXCEPT ![q] = 0]]
  <1>1. complete(s, q, ret, e) = t
    BY DEF complete
  <1>2. Base(s) /\ s \in State
    BY DEF GoodBut, Base
  <1>3. a \in State
    BY <1>2 DEF State
  <1>4. /\ a.list = s.list /\ a.pkt = s.pkt /\ a.fd = s.fd /\ a.io = s.io
        /\ a.addrs = s.addrs /\ a.current = s.current
        /\ a.open = s.open \ {q} /\ a.index = s.index
    BY <1>2 DEF State
  <1> HIDE DEF a
  <1>5. Base(a) /\ Held(a, q)
    <2>1. Base(a)
      BY <1>2, <1>3, <1>4 DEF Base
    <2>2. Held(a, q)
      <3>1. /\ a.addrs[q] = s.addrs[q] /\ a.current[q] = s.current[q] /\ Held(s, q)
            /\ \A x \in Remote : q \in Range(a.list[x]) => q \in Range(s.list[x])
        BY <1>4
      <3> QED
        BY <3>1, HeldStill
    <2> QED
      BY <2>1, <2>2
  <1>6. ASSUME NEW p \in Request \ {q}
        PROVE  Same(s, a, p)
    <2>1. Moving(s, s.addrs[p][s.current[p]], p) =>
            Moving(a, s.addrs[p][s.current[p]], p)
      BY <1>4 DEF Moving
    <2>2. p \in a.open <=> p \in s.open
      BY <1>4
    <2> QED
      BY <1>4, <2>1, <2>2 DEF Same
  <1>7. GoodBut(a, q) /\ q \notin a.open /\ q[2] = a.index[q[1]]
    BY <1>4, <1>5, <1>6, SameGood
  <1>8. GoodBut(b, q) /\ q \notin b.open /\ Held(b, q)
    BY <1>5, <1>7, CallbackKeeps
  <1> HIDE DEF b
  <1>9. /\ GoodBut(c, q) /\ \A r \in Remote : q \notin Range(c.list[r])
        /\ c.addrs = b.addrs /\ c.open = b.open
    BY <1>8, CancelKeeps
  <1> HIDE DEF c
  <1>10. in_use(c) = in_use(b)
    BY <1>9 DEF in_use
  <1>11. old \cap in_use(c) = {} /\ q \notin c.open
    BY <1>8, <1>9, <1>10
  <1> HIDE DEF old
  <1>12. GoodBut(d, q) /\ d.list = c.list /\ d.open = c.open
    BY <1>9, <1>11, AgeKeeps, SMT
  <1> HIDE DEF d
  <1>13. d \in State /\ Base(d) /\ q \notin d.open
         /\ \A r \in Remote : q \notin Range(d.list[r])
    BY <1>8, <1>9, <1>12 DEF GoodBut, Base
  <1>14. /\ [d.addrs EXCEPT ![q] = <<>>] \in [Request -> Servers \cup {<<>>}]
         /\ [d.current EXCEPT ![q] = 0] \in [Request -> Nat]
    BY <1>13, StateTypes
  <1>15. t \in State
    BY <1>13, <1>14 DEF State
  <1>16. /\ t.list = d.list /\ t.pkt = d.pkt /\ t.fd = d.fd /\ t.io = d.io
         /\ t.addrs = [d.addrs EXCEPT ![q] = <<>>]
         /\ t.current = [d.current EXCEPT ![q] = 0]
         /\ t.open = d.open /\ t.index = d.index
    BY <1>13 DEF State
  <1> HIDE DEF t
  <1>17. /\ t.addrs[q] = <<>> /\ t.current[q] = 0
         /\ \A p \in Request \ {q} :
               t.addrs[p] = d.addrs[p] /\ t.current[p] = d.current[p]
    BY <1>13, <1>16, StateTypes, SMT
  <1>18. Base(t)
    BY <1>13, <1>15, <1>16 DEF Base
  <1>19. ASSUME NEW p \in Request \ {q}
         PROVE  Same(d, t, p)
    <2>1. Moving(d, d.addrs[p][d.current[p]], p) =>
            Moving(t, d.addrs[p][d.current[p]], p)
      BY <1>16 DEF Moving
    <2> QED
      BY <1>16, <1>17, <2>1 DEF Same
  <1>20. GoodBut(t, q)
    BY <1>12, <1>18, <1>19, SameGood
  <1>21. Fine(t, q)
    BY <1>13, <1>16, <1>17 DEF Fine, Absent
  <1> QED
    BY <1>1, <1>20, <1>21, GoodWhole

(* on_response, called for a request with a packet that was finished or    *)
(* has timed out for good.                                                 *)
LEMMA ResponseGood ==
  ASSUME NEW s, NEW q \in Request, NEW ret, NEW e, GoodBut(s, q), Half(s, q),
         e.ads \in Servers \cup {<<>>}
  PROVE  Good(on_response(s, q, ret, e))
  <1> DEFINE i == s.current[q] + 1
             n == [s EXCEPT !.current = [s.current EXCEPT ![q] = i]]
             x == s.addrs[q][i]
             t == on_response(s, q, ret, e)
  <1>1. /\ Base(s) /\ s \in State /\ q \in s.open /\ Held(s, q)
        /\ q[2] = s.index[q[1]] /\ s.current[q] \in DOMAIN s.addrs[q]
    BY DEF GoodBut, Base, Half
  <1>2. /\ s.addrs[q] \in Servers /\ s.current[q] \in Nat
        /\ DOMAIN s.addrs[q] = 1 .. Len(s.addrs[q]) /\ Len(s.addrs[q]) \in Nat
        /\ IsInjective(s.addrs[q])
        /\ \A k \in DOMAIN s.addrs[q] : s.addrs[q][k] \in Remote
    BY <1>1, CurrentRemote, ServerFacts, StateTypes
  <1>3. n \in State
    <2>1. [s.current EXCEPT ![q] = i] \in [Request -> Nat]
      BY <1>1, <1>2, StateTypes, SMT
    <2> QED
      BY <1>1, <2>1 DEF State
  <1>4. /\ n.list = s.list /\ n.pkt = s.pkt /\ n.fd = s.fd /\ n.io = s.io
        /\ n.addrs = s.addrs /\ n.open = s.open /\ n.index = s.index
        /\ n.current = [s.current EXCEPT ![q] = i]
    BY <1>1 DEF State
  <1>5. n.current[q] = i /\ \A p \in Request \ {q} : n.current[p] = s.current[p]
    BY <1>1, <1>4, StateTypes, SMT
  <1>6. t = IF ret # "timeout" THEN complete(s, q, ret, e)
            ELSE IF i <= Len(s.addrs[q]) /\ can_send(s, x, e.up)
            THEN kr_remote_send(n, x, q) ELSE complete(n, q, "error", e)
    BY <1>1, <1>5, SMT DEF on_response
  <1> HIDE DEF n, t
  <1>7. Base(n) /\ Held(n, q)
    <2>1. Base(n)
      BY <1>1, <1>3, <1>4 DEF Base
    <2>2. ASSUME NEW r \in Remote, q \in Range(s.list[r])
          PROVE  \E k \in DOMAIN s.addrs[q] : k <= i /\ s.addrs[q][k] = r
      <3>1. PICK k \in DOMAIN s.addrs[q] :
                   k <= s.current[q] /\ s.addrs[q][k] = r
        BY <1>1, <2>2 DEF Held
      <3>2. k <= i
        BY <1>2, <3>1, SMT
      <3> QED
        BY <3>1, <3>2
    <2>3. Held(n, q)
      <3>1. n.list = s.list /\ n.addrs = s.addrs /\ n.current[q] = i
        BY <1>4, <1>5
      <3> HIDE DEF i
      <3> QED
        BY ONLY <2>2, <3>1, Zenon DEF Held
    <2> QED
      BY <2>1, <2>3
  <1>8. ASSUME NEW p \in Request \ {q}
        PROVE  Same(s, n, p)
    <2>1. Moving(s, s.addrs[p][s.current[p]], p) =>
            Moving(n, s.addrs[p][s.current[p]], p)
      BY <1>4 DEF Moving
    <2> QED
      BY <1>4, <1>5, <2>1 DEF Same
  <1>9. GoodBut(n, q)
    BY <1>7, <1>8, SameGood
  <1>10. CASE ret # "timeout"
    <2>1. t = complete(s, q, ret, e)
      BY <1>6, <1>10
    <2>2. Good(complete(s, q, ret, e))
      BY <1>1, CompleteGood
    <2> QED
      BY <2>1, <2>2 DEF t
  <1>11. CASE ret = "timeout" /\ ~(i <= Len(s.addrs[q]) /\ can_send(s, x, e.up))
    <2>1. t = complete(n, q, "error", e)
      BY <1>6, <1>11
    <2>2. q \in n.open /\ q[2] = n.index[q[1]]
      BY <1>1, <1>4
    <2>3. Good(complete(n, q, "error", e))
      BY <1>7, <1>9, <2>2, CompleteGood
    <2> QED
      BY <2>1, <2>3 DEF t
  <1>12. CASE ret = "timeout" /\ i <= Len(s.addrs[q]) /\ can_send(s, x, e.up)
    <2>1. i \in DOMAIN s.addrs[q] /\ x \in Remote
      <3>1. i <= Len(s.addrs[q])
        BY <1>12
      <3> QED
        BY ONLY <1>2, <3>1
    <2>2. q \notin Range(n.list[x]) /\ Len(n.list[x]) < MaxId
      <3>1. ASSUME q \in Range(s.list[x]) PROVE FALSE
        <4>1. PICK k \in DOMAIN s.addrs[q] :
                     k <= s.current[q] /\ s.addrs[q][k] = x
          BY <1>1, <2>1, <3>1 DEF Held
        <4>2. k = i
          BY <1>2, <2>1, <4>1 DEF IsInjective
        <4> QED
          BY <1>2, <4>1, <4>2, SMT
      <3>2. Len(s.list[x]) < MaxId
        BY <1>12 DEF can_send
      <3> QED
        BY <1>4, <3>1, <3>2
    <2>3. t = kr_remote_send(n, x, q)
      BY <1>6, <1>12
    <2>4. x = n.addrs[q][n.current[q]] /\ n.current[q] \in DOMAIN n.addrs[q]
      BY <1>4, <1>5, <2>1
    <2>5. q \in n.open /\ q[2] = n.index[q[1]]
      BY <1>1, <1>4
    <2> HIDE DEF x, i
    <2>6. /\ Base(t) /\ q \in Range(t.list[x]) /\ Moving(t, x, q)
          /\ \A y \in Remote : \A p \in Request :
                /\ p \in Range(t.list[y]) <=>
                      p \in Range(n.list[y]) \/ (p = q /\ y = x)
                /\ p # q /\ Moving(n, y, p) => Moving(t, y, p)
          /\ t.addrs = n.addrs /\ t.current = n.current /\ t.open = n.open
          /\ t.index = n.index
      BY <1>7, <2>1, <2>2, <2>3, SendKeeps, SMT
    <2>7. ASSUME NEW p \in Request \ {q}
          PROVE  Same(n, t, p)
      <3>1. p \in n.open => n.addrs[p][n.current[p]] \in Remote
        BY <1>3, <1>9, CurrentRemote DEF GoodBut, Fine, Running
      <3> QED
        BY <2>6, <3>1 DEF Same
    <2>8. GoodBut(t, q)
      BY <1>9, <2>6, <2>7, SameGood
    <2>9. Held(t, q)
      <3>1. ASSUME NEW y \in Remote, q \in Range(t.list[y])
            PROVE  \E k \in DOMAIN n.addrs[q] :
                      k <= n.current[q] /\ n.addrs[q][k] = y
        <4>1. CASE y = x
          <5>1. n.current[q] <= n.current[q]
            BY <1>3, StateTypes, SMT
          <5> QED
            BY <2>4, <4>1, <5>1
        <4>2. CASE y # x
          BY <1>7, <2>6, <3>1, <4>2 DEF Held
        <4> QED
          BY <4>1, <4>2
      <3> QED
        BY <2>6, <3>1 DEF Held
    <2>10. Fine(t, q)
      BY <2>4, <2>5, <2>6, <2>9 DEF Fine, Running
    <2> QED
      BY <2>8, <2>10, GoodWhole DEF t
  <1> QED
    BY <1>10, <1>11, <1>12 DEF t

----------------------------------------------------------------------------
(* What the events do to a packet *)

LEMMA PacketTypes ==
  ASSUME NEW p \in Packet
  PROVE  /\ p.sent \in {"no", "part", "tail", "all", "gone"}
         /\ p.timer \in BOOLEAN /\ p.retries \in {Wrapped} \cup 0 .. MaxRetries
         /\ p.tries \in 0 .. MaxRetries + 2 /\ p.revived \in BOOLEAN
  BY DEF Packet

(* on_timeout prepares a packet to be sent again: req->retries-- > 0 pays  *)
(* for it, unless the count has wrapped.                                   *)
LEMMA ResendFrugal ==
  ASSUME NEW p \in Packet, Frugal(p), p.timer, resends(p)
  PROVE  LET k == [p EXCEPT !.timer = FALSE, !.sent = "no",
                            !.retries = countdown(p.retries)] IN
         k \in Packet /\ Frugal(k) /\ k.sent = "no"
  <1> DEFINE k == [p EXCEPT !.timer = FALSE, !.sent = "no",
                            !.retries = countdown(p.retries)]
  <1>1. /\ k.sent = "no" /\ k.timer = FALSE /\ k.tries = p.tries
        /\ k.retries = countdown(p.retries) /\ k.revived = p.revived
    BY DEF Packet
  <1>2. countdown(p.retries) \in {Wrapped} \cup 0 .. MaxRetries
    <2>1. p.retries \in {Wrapped} \cup 0 .. MaxRetries /\ MaxRetries \in Nat
      BY PacketTypes, KradAssumption
    <2> QED
      BY <2>1, SMT DEF countdown, Wrapped
  <1>3. k \in Packet
    BY <1>2 DEF Packet
  <1> HIDE DEF k
  <1>4. Frugal(k)
    <2>1. CASE p.revived
      BY <1>1, <2>1 DEF Frugal
    <2>2. CASE ~p.revived
      <3>1. /\ p.retries \in 1 .. MaxRetries
            /\ p.tries + Due(p) <= MaxRetries + 1
        BY <2>2, PacketTypes, SMT DEF Frugal, resends
      <3>2. Due(k) = p.retries /\ Due(p) \in {p.retries, p.retries + 1}
        BY <1>1, <3>1, KradAssumption, SMT DEF Due, countdown
      <3>3. k.retries # Wrapped /\ p.tries \in Nat /\ MaxRetries \in Nat
        BY <1>1, <3>1, PacketTypes, KradAssumption, SMT DEF countdown, Wrapped
      <3>4. k.tries + Due(k) <= MaxRetries + 1
        BY <1>1, <3>1, <3>2, <3>3, SMT
      <3> QED
        BY <3>3, <3>4 DEF Frugal
    <2> QED
      BY <2>1, <2>2
  <1> QED
    BY <1>1, <1>3, <1>4 DEF k

(* A packet that has timed out for good keeps what it has. *)
LEMMA SpentFrugal ==
  ASSUME NEW p \in Packet, Frugal(p), ~resends(p)
  PROVE  LET k == [p EXCEPT !.timer = FALSE,
                            !.retries = countdown(p.retries)] IN
         k \in Packet /\ Frugal(k)
  <1> DEFINE k == [p EXCEPT !.timer = FALSE,
                            !.retries = countdown(p.retries)]
  <1>1. p.retries = 0 /\ countdown(p.retries) = Wrapped
    BY SMT DEF resends, countdown
  <1>2. /\ k.sent = p.sent /\ k.timer = FALSE /\ k.tries = p.tries
        /\ k.retries = Wrapped /\ k.revived = p.revived
    BY <1>1 DEF Packet
  <1>3. k \in Packet
    BY <1>1 DEF Packet
  <1> HIDE DEF k
  <1>4. Due(k) = Due(p)
    BY <1>1, <1>2, SMT DEF Due, Wrapped
  <1> QED
    BY <1>2, <1>3, <1>4 DEF Frugal, k

(* on_io_write has written the rest of a packet. *)
LEMMA WrittenFrugal ==
  ASSUME NEW p \in Packet, Frugal(p), p.sent \in {"no", "part", "tail"}
  PROVE  LET k == [request_start_timer(p) EXCEPT
                     !.sent = IF @ = "tail" THEN "gone" ELSE "all",
                     !.tries = IF p.sent # "tail" /\ @ < MaxRetries + 2
                               THEN @ + 1 ELSE @] IN
         k \in Packet /\ Frugal(k) /\ k.timer
  <1> DEFINE u == request_start_timer(p)
             n == IF p.sent # "tail" /\ p.tries < MaxRetries + 2
                  THEN p.tries + 1 ELSE p.tries
             w == IF p.sent = "tail" THEN "gone" ELSE "all"
             k == [u EXCEPT !.sent = IF u.sent = "tail" THEN "gone" ELSE "all",
                            !.tries = IF p.sent # "tail" /\ u.tries < MaxRetries + 2
                                      THEN u.tries + 1 ELSE u.tries]
             j == [u EXCEPT !.sent = w, !.tries = n]
  <1>1. /\ u.sent = p.sent /\ u.timer = TRUE /\ u.tries = p.tries
        /\ u.retries = p.retries
        /\ u.revived = (p.revived \/ p.retries = Wrapped)
    BY DEF Packet, request_start_timer
  <1>2. u \in Packet
    <2>1. (p.revived \/ p.retries = Wrapped) \in BOOLEAN
      OBVIOUS
    <2> QED
      BY <2>1 DEF Packet, request_start_timer
  <1>3. k = j
    BY <1>1
  <1>4. w \in {"no", "part", "tail", "all", "gone"} /\ n \in 0 .. MaxRetries + 2
    BY PacketTypes, KradAssumption, SMT
  <1> HIDE DEF u, w, n
  <1>5. j \in Packet
    BY <1>2, <1>4 DEF Packet
  <1>6. /\ j.sent = w /\ j.timer = TRUE /\ j.tries = n
        /\ j.retries = p.retries
        /\ j.revived = (p.revived \/ p.retries = Wrapped)
    BY <1>1, <1>2 DEF Packet
  <1> HIDE DEF j
  <1>7. Frugal(j)
    <2>1. CASE p.revived \/ p.retries = Wrapped
      BY <1>6, <2>1 DEF Frugal
    <2>2. CASE ~p.revived /\ p.retries # Wrapped
      <3>1. /\ p.tries + Due(p) <= MaxRetries + 1 /\ p.retries \in 0 .. MaxRetries
            /\ p.tries \in Nat /\ MaxRetries \in Nat
        BY <2>2, PacketTypes, KradAssumption, SMT DEF Frugal
      <3>2. Due(j) = p.retries
        BY <1>6, <3>1, SMT DEF Due, w
      <3>3. Due(p) = p.retries + (IF p.sent = "tail" THEN 0 ELSE 1)
        BY <3>1, SMT DEF Due
      <3>4. n + p.retries <= MaxRetries + 1
        BY <3>1, <3>3, SMT DEF n
      <3> QED
        BY <1>6, <2>2, <3>2, <3>4 DEF Frugal
    <2> QED
      BY <2>1, <2>2
  <1>8. j \in Packet /\ Frugal(j) /\ j.timer
    BY <1>5, <1>6, <1>7
  <1> QED
    BY <1>3, <1>8 DEF u

(* on_io_write has written a part of a packet. *)
LEMMA PartFrugal ==
  ASSUME NEW p \in Packet, Frugal(p), p.sent = "no"
  PROVE  LET k == [p EXCEPT !.sent = "part"] IN
         k \in Packet /\ Frugal(k) /\ k.timer = p.timer /\ k.sent = "part"
  <1> DEFINE k == [p EXCEPT !.sent = "part"]
  <1>1. /\ k.sent = "part" /\ k.timer = p.timer /\ k.tries = p.tries
        /\ k.retries = p.retries /\ k.revived = p.revived
    BY DEF Packet
  <1>2. k \in Packet
    BY DEF Packet
  <1> HIDE DEF k
  <1>3. Due(k) = Due(p)
    BY <1>1 DEF Due
  <1> QED
    BY <1>1, <1>2, <1>3 DEF Frugal, k

(* remote_disconnect, and the timer remote_shutdown starts after it. *)
LEMMA ShutFrugal ==
  ASSUME NEW p \in Packet, Frugal(p)
  PROVE  LET d == cut_off(p) IN
         /\ d \in Packet /\ Frugal(d) /\ d.timer = p.timer
         /\ request_start_timer(d) \in Packet /\ Frugal(request_start_timer(d))
         /\ request_start_timer(d).timer
  <1> DEFINE w == IF p.sent = "part" THEN "tail"
                  ELSE IF p.sent = "all" THEN "gone" ELSE p.sent
             d == [p EXCEPT !.sent = w]
             t == request_start_timer(d)
  <1>0. cut_off(p) = d
    BY DEF cut_off
  <1>1. w \in {"no", "part", "tail", "all", "gone"}
        /\ (w \in {"no", "part"} => p.sent \in {"no", "part"})
    BY PacketTypes
  <1> HIDE DEF w
  <1>2. d \in Packet
    BY <1>1 DEF Packet
  <1>3. /\ d.sent = w /\ d.timer = p.timer /\ d.tries = p.tries
        /\ d.retries = p.retries /\ d.revived = p.revived
    BY DEF Packet
  <1> HIDE DEF d
  <1>4. /\ t.sent = w /\ t.timer = TRUE /\ t.tries = p.tries
        /\ t.retries = p.retries
        /\ t.revived = (p.revived \/ p.retries = Wrapped)
    BY <1>2, <1>3 DEF Packet, request_start_timer
  <1>5. t \in Packet
    <2>1. (d.revived \/ d.retries = Wrapped) \in BOOLEAN
      OBVIOUS
    <2> QED
      BY <1>2, <2>1 DEF Packet, request_start_timer
  <1> HIDE DEF t
  <1>6. /\ p.tries \in Nat /\ MaxRetries \in Nat
        /\ Due(p) \in Int /\ Due(d) \in Int /\ Due(t) \in Int
        /\ Due(d) <= Due(p) /\ Due(t) <= Due(p)
    <2>1. p.retries \in Int /\ p.tries \in Nat /\ MaxRetries \in Nat
      BY PacketTypes, KradAssumption, SMT DEF Wrapped
    <2> QED
      BY <1>1, <1>3, <1>4, <2>1, SMT DEF Due
  <1>7. Frugal(d)
    BY <1>3, <1>6, SMT DEF Frugal
  <1>8. Frugal(t)
    <2>1. CASE p.revived \/ p.retries = Wrapped
      BY <1>4, <2>1 DEF Frugal
    <2>2. CASE ~p.revived /\ p.retries # Wrapped
      <3>1. t.tries + Due(t) <= MaxRetries + 1 /\ t.retries # Wrapped
        BY <1>4, <1>6, <2>2, SMT DEF Frugal
      <3> QED
        BY <3>1 DEF Frugal
    <2> QED
      BY <2>1, <2>2
  <1> QED
    BY <1>0, <1>2, <1>3, <1>4, <1>5, <1>7, <1>8 DEF t

----------------------------------------------------------------------------
(* The events *)

(* The variables become the fields of a state. *)
LEMMA BecomesNow ==
  ASSUME NEW s, s \in State, Becomes(s)
  PROVE  Now' = s
  <1>1. s = [list |-> s.list, pkt |-> s.pkt, fd |-> s.fd, io |-> s.io,
             addrs |-> s.addrs, current |-> s.current, open |-> s.open,
             index |-> s.index, answers |-> s.answers]
    BY DEF State
  <1>2. /\ list' = s.list /\ pkt' = s.pkt /\ fd' = s.fd /\ io' = s.io
        /\ addrs' = s.addrs /\ current' = s.current /\ open' = s.open
        /\ index' = s.index /\ answers' = s.answers
    BY DEF Becomes
  <1> QED
    BY <1>1, <1>2 DEF Now

LEMMA BecomesGood ==
  ASSUME NEW s, Good(s), Becomes(s)
  PROVE  IInv'
  <1>1. s \in State
    BY DEF Good, Base
  <1>2. Now' = s
    BY <1>1, BecomesNow
  <1> QED
    BY <1>2 DEF IInv

LEMMA NowFields ==
  /\ Now.list = list /\ Now.pkt = pkt /\ Now.fd = fd /\ Now.io = io
  /\ Now.addrs = addrs /\ Now.current = current /\ Now.open = open
  /\ Now.index = index /\ Now.answers = answers
  BY DEF Now

(* A step that leaves every request alone. *)
LEMMA SameWhole ==
  ASSUME NEW s, NEW t, Good(s), Base(t), \A p \in Request : Same(s, t, p)
  PROVE  Good(t)
  <1>1. ASSUME NEW p \in Request
        PROVE  Fine(t, p)
    <2>1. Fine(s, p) /\ Same(s, t, p) /\ s \in State
      BY DEF Good, Base
    <2>2. p \in s.open => s.addrs[p][s.current[p]] \in Remote
      BY <2>1, CurrentRemote DEF Fine, Running
    <2> QED
      BY <2>1, <2>2, SameFine
  <1> QED
    BY <1>1 DEF Good

(* otp_state_verify: the verification has no open request yet. *)
LEMMA VerifyGood ==
  ASSUME IInv, NEW v \in Verification, Verify(v)
  PROVE  IInv'
  <1> DEFINE s == Now
             a == [Now EXCEPT !.index[v] = 1]
  <1>1. Good(s) /\ Base(s) /\ s \in State
    BY DEF IInv, Good, Base
  <1>2. PICK e \in [up : BOOLEAN, ads : Addresses[v] \cup {<<>>}, old : {{}}] :
               otp_state_verify(v, e)
    BY DEF Verify
  <1>3. /\ e.ads \in Servers \cup {<<>>} /\ s.index[v] = 0
        /\ Becomes(request_send(a, v, e)) \/ Becomes(answer(a, v))
    BY <1>2, NowFields DEF otp_state_verify, Servers
  <1>4. 1 \in 0 .. NTokens + 1 /\ 1 \in 1 .. NTokens /\ NTokens \in Nat
    BY KradAssumption, SMT
  <1>5. a \in State /\ Alike(s, a) /\ a.index = [s.index EXCEPT ![v] = 1]
    BY ONLY v \in Verification, <1>1, <1>4, IndexFields
  <1>6. a.index[v] = 1 /\ \A w \in Verification : w # v => a.index[w] = s.index[w]
    BY <1>1, <1>5, StateTypes, SMT
  <1> HIDE DEF s, a
  <1>7. ASSUME NEW p \in Request, p \in s.open
        PROVE  p[1] # v /\ a.index[p[1]] = s.index[p[1]]
    <2>1. p[2] = s.index[p[1]] /\ p[2] \in 1 .. NTokens /\ p[1] \in Verification
      BY <1>1, <1>7 DEF Good, Fine, Running, Request
    <2>2. p[1] # v
      BY <1>3, <1>4, <2>1, SMT
    <2> QED
      BY <1>6, <2>1, <2>2
  <1>8. /\ Base(a) /\ \A p \in Request : Same(s, a, p)
        /\ \A p \in Request : Absent(s, p) => Absent(a, p)
    BY <1>1, <1>5, <1>7, AlikeKeeps
  <1>9. Good(a)
    BY <1>1, <1>8, SameWhole
  <1>10. CASE Becomes(answer(a, v))
    <2> DEFINE t == answer(a, v)
    <2>1. t \in State /\ Alike(a, t) /\ t.index = a.index
      BY <1>5, AnswerFields DEF Alike
    <2> HIDE DEF t
    <2>2. Base(t) /\ \A p \in Request : Same(a, t, p)
      BY <1>8, <2>1, AlikeKeeps
    <2>3. Good(t)
      BY <1>9, <2>2, SameWhole
    <2> QED
      BY <1>10, <2>3, BecomesGood DEF t
  <1>11. CASE Becomes(request_send(a, v, e))
    <2> DEFINE t == request_send(a, v, e)
               n == <<v, a.index[v]>>
    <2>1. n \in Request /\ n[1] = v /\ a.index[v] \in 1 .. NTokens
      BY <1>4, <1>6 DEF Request
    <2>2. n \notin a.open /\ Absent(a, n)
      <3>1. n \notin s.open
        BY <1>7, <2>1
      <3>2. n \notin a.open
        BY <1>5, <3>1 DEF Alike
      <3> QED
        BY <1>9, <2>1, <3>2 DEF Good, Fine
    <2>3. /\ Base(t) /\ Fine(t, n)
          /\ \A p \in Request \ {n} :
                (p \in a.open => a.addrs[p][a.current[p]] \in Remote) =>
                    Same(a, t, p)
      <3>1. Requested(a, t, n)
        BY <1>3, <1>8, <2>1, <2>2, RequestSend
      <3> HIDE DEF t, n
      <3> QED
        BY <3>1 DEF Requested
    <2> HIDE DEF t, n
    <2>4. ASSUME NEW p \in Request \ {n}
          PROVE  Same(a, t, p)
      BY <1>5, <1>9, <2>3, CurrentRemote DEF Good, Fine, Running
    <2>5. GoodBut(t, n)
      <3>1. GoodBut(a, n)
        BY <1>9 DEF Good, GoodBut
      <3> QED
        BY <2>3, <2>4, <3>1, SameGood
    <2>6. Good(t)
      BY <2>1, <2>3, <2>5, GoodWhole
    <2> QED
      BY <1>11, <2>6, BecomesGood DEF t
  <1> QED
    BY <1>3, <1>10, <1>11

(* States that differ in one packet and in the sockets, which only open    *)
(* and ask for more.                                                       *)
Updated(s, t, r, q, k) ==
    /\ t \in State /\ t.list = s.list
    /\ t.pkt = [s.pkt EXCEPT ![r] = [s.pkt[r] EXCEPT ![q] = k]]
    /\ \A x \in Remote : /\ s.fd[x] => t.fd[x] /\ s.io[x] \subseteq t.io[x]
                         /\ t.io[x] # {} => t.fd[x]
    /\ t.addrs = s.addrs /\ t.current = s.current /\ t.open = s.open
    /\ t.index = s.index

LEMMA UpdateKeeps ==
  ASSUME NEW s, NEW t, NEW r \in Remote, NEW q \in Request, NEW k,
         Base(s), Updated(s, t, r, q, k), Frugal(k)
  PROVE  /\ Base(t) /\ t.pkt[r][q] = k
         /\ \A x \in Remote : \A p \in Request :
               (x # r \/ p # q) /\ Moving(s, x, p) => Moving(t, x, p)
  <1>1. s \in State /\ t \in State
    BY DEF Base, Updated
  <1>2. ASSUME NEW x \in Remote, NEW p \in Request
        PROVE  t.pkt[x][p] = IF x = r /\ p = q THEN k ELSE s.pkt[x][p]
    <2>1. s.pkt \in [Remote -> [Request -> Packet]]
      BY <1>1, StateTypes
    <2>2. t.pkt[x] = IF x = r THEN [s.pkt[r] EXCEPT ![q] = k]
                     ELSE s.pkt[x]
      BY <2>1 DEF Updated
    <2> QED
      BY <2>1, <2>2
  <1>3. Base(t)
    <2>1. ASSUME NEW x \in Remote, NEW p \in Request
          PROVE  Frugal(t.pkt[x][p])
      BY <1>2 DEF Base
    <2> QED
      BY <1>1, <2>1 DEF Base, Updated
  <1>4. ASSUME NEW x \in Remote, NEW p \in Request,
               x # r \/ p # q, Moving(s, x, p)
        PROVE  Moving(t, x, p)
    <2>1. t.pkt[x][p] = s.pkt[x][p]
      BY <1>2, <1>4
    <2> QED
      BY <1>4, <2>1 DEF Moving, Updated
  <1> QED
    BY <1>2, <1>3, <1>4

(* A packet that still moves. *)
LEMMA UpdateGood ==
  ASSUME NEW s, NEW t, NEW r \in Remote, NEW q \in Request, NEW k,
         Good(s), Updated(s, t, r, q, k), Frugal(k),
         Moving(s, r, q) => Moving(t, r, q)
  PROVE  Good(t)
  <1>1. Base(s) /\ s \in State
    BY DEF Good, Base
  <1>2. /\ Base(t)
        /\ \A x \in Remote : \A p \in Request :
              (x # r \/ p # q) /\ Moving(s, x, p) => Moving(t, x, p)
    BY <1>1, UpdateKeeps
  <1>3. ASSUME NEW p \in Request
        PROVE  Same(s, t, p)
    <2>1. p \in s.open => s.addrs[p][s.current[p]] \in Remote
      BY <1>1, CurrentRemote DEF Good, Fine, Running
    <2>2. p \in s.open /\ Moving(s, s.addrs[p][s.current[p]], p) =>
              Moving(t, s.addrs[p][s.current[p]], p)
      BY <1>2, <2>1
    <2> QED
      BY <2>2 DEF Same, Updated
  <1> QED
    BY <1>2, <1>3, SameWhole

(* A packet that has timed out for good. *)
LEMMA UpdateHalf ==
  ASSUME NEW s, NEW t, NEW r \in Remote, NEW q \in Request, NEW k,
         GoodBut(s, q), Half(s, q), Updated(s, t, r, q, k), Frugal(k)
  PROVE  GoodBut(t, q) /\ Half(t, q)
  <1>1. Base(s) /\ s \in State
    BY DEF GoodBut, Base
  <1>2. /\ Base(t)
        /\ \A x \in Remote : \A p \in Request :
              (x # r \/ p # q) /\ Moving(s, x, p) => Moving(t, x, p)
    BY <1>1, UpdateKeeps
  <1>3. ASSUME NEW p \in Request \ {q}
        PROVE  Same(s, t, p)
    <2>1. p \in s.open => s.addrs[p][s.current[p]] \in Remote
      BY <1>1, CurrentRemote DEF GoodBut, Fine, Running
    <2>2. p \in s.open /\ Moving(s, s.addrs[p][s.current[p]], p) =>
              Moving(t, s.addrs[p][s.current[p]], p)
      BY <1>2, <2>1
    <2> QED
      BY <2>2 DEF Same, Updated
  <1>4. GoodBut(t, q)
    BY <1>2, <1>3, SameGood
  <1>5. Half(t, q)
    BY DEF Half, Held, Updated
  <1> QED
    BY <1>4, <1>5

(* A packet of a state is replaced. *)
LEMMA PacketSet ==
  ASSUME NEW s, Base(s), NEW r \in Remote, NEW q \in Request, NEW k \in Packet
  PROVE  Updated(s, [s EXCEPT !.pkt[r][q] = k], r, q, k)
  <1> DEFINE p == [s.pkt EXCEPT ![r] = [s.pkt[r] EXCEPT ![q] = k]]
             t == [s EXCEPT !.pkt = p]
  <1>1. s \in State
    BY DEF Base
  <1>2. p \in [Remote -> [Request -> Packet]]
    BY <1>1, StateTypes
  <1> HIDE DEF p
  <1>3. t \in State
    BY <1>1, <1>2 DEF State
  <1>4. /\ t.list = s.list /\ t.pkt = p /\ t.fd = s.fd /\ t.io = s.io
        /\ t.addrs = s.addrs /\ t.current = s.current /\ t.open = s.open
        /\ t.index = s.index
    BY <1>1 DEF State
  <1> HIDE DEF t
  <1>5. Updated(s, t, r, q, k)
    BY <1>3, <1>4 DEF Updated, Base, p
  <1> QED
    BY <1>5 DEF t, p

(* remote_add_flags after it. *)
LEMMA FlagsSet ==
  ASSUME NEW s, NEW t, NEW r \in Remote, NEW q \in Request, NEW k,
         Updated(s, t, r, q, k), Base(s), NEW flags \in SUBSET {"R", "W"}
  PROVE  LET u == remote_add_flags(t, r, flags) IN
         /\ Updated(s, u, r, q, k) /\ u.fd[r] /\ flags \subseteq u.io[r]
         /\ u.pkt = t.pkt
  <1> DEFINE f == [t.fd EXCEPT ![r] = TRUE]
             i == [t.io EXCEPT ![r] = t.io[r] \cup flags]
             u == [t EXCEPT !.fd = f, !.io = i]
  <1>1. remote_add_flags(t, r, flags) = u
    BY DEF remote_add_flags
  <1>2. t \in State /\ s \in State
    BY DEF Updated, Base
  <1>3. f \in [Remote -> BOOLEAN] /\ i \in [Remote -> SUBSET {"R", "W"}]
    <2>1. t.fd \in [Remote -> BOOLEAN] /\ t.io \in [Remote -> SUBSET {"R", "W"}]
      BY <1>2, StateTypes
    <2>2. t.io[r] \cup flags \in SUBSET {"R", "W"}
      BY <2>1
    <2> HIDE DEF f
    <2>3. i \in [Remote -> SUBSET {"R", "W"}]
      BY <2>1, <2>2
    <2>4. f \in [Remote -> BOOLEAN]
      BY <2>1 DEF f
    <2> QED
      BY <2>3, <2>4
  <1>4. /\ f[r] /\ flags \subseteq i[r]
        /\ \A x \in Remote : /\ s.fd[x] => f[x] /\ s.io[x] \subseteq i[x]
                             /\ i[x] # {} => f[x]
    <2>1. \A x \in Remote : /\ s.fd[x] => t.fd[x] /\ s.io[x] \subseteq t.io[x]
                            /\ t.io[x] # {} => t.fd[x]
      BY DEF Updated
    <2>2. t.fd \in [Remote -> BOOLEAN] /\ t.io \in [Remote -> SUBSET {"R", "W"}]
      BY <1>2, StateTypes
    <2> QED
      BY <2>1, <2>2
  <1> HIDE DEF f, i
  <1>5. u \in State
    BY <1>2, <1>3 DEF State
  <1>6. /\ u.list = t.list /\ u.pkt = t.pkt /\ u.fd = f /\ u.io = i
        /\ u.addrs = t.addrs /\ u.current = t.current /\ u.open = t.open
        /\ u.index = t.index
    BY <1>2 DEF State
  <1> HIDE DEF u
  <1>7. Updated(s, u, r, q, k)
    BY <1>4, <1>5, <1>6 DEF Updated
  <1>8. u.fd[r] /\ flags \subseteq u.io[r] /\ u.pkt = t.pkt
    BY <1>4, <1>6
  <1> QED
    BY <1>1, <1>7, <1>8

(* on_timeout *)
LEMMA TimeoutGood ==
  ASSUME IInv, NEW r \in Remote, NEW q \in Request, Timeout(r, q)
  PROVE  IInv'
  <1> DEFINE s == Now
             p == s.pkt[r][q]
             resend == [p EXCEPT !.timer = FALSE, !.sent = "no",
                            !.retries = countdown(p.retries)]
             spent == [p EXCEPT !.timer = FALSE, !.retries = countdown(p.retries)]
  <1>1. Good(s) /\ Base(s) /\ s \in State
    BY DEF IInv, Good, Base
  <1>2. PICK up \in BOOLEAN, old \in idle :
               on_timeout(r, q, [up |-> up, ads |-> <<>>, old |-> old])
    BY DEF Timeout
  <1> DEFINE e == [up |-> up, ads |-> <<>>, old |-> old]
  <1>3. e.ads \in Servers \cup {<<>>}
    OBVIOUS
  <1>4. p = pkt[r][q] /\ list = s.list
    BY NowFields
  <1>5. /\ q \in Range(s.list[r]) /\ p.timer
        /\ \/ /\ resends(p)
              /\ Becomes(remote_add_flags(
                     [s EXCEPT !.pkt[r][q] = resend], r, {"W"}))
           \/ Becomes(on_response(unlist(s, r, q), q, "error", e))
           \/ /\ ~resends(p)
              /\ Becomes(on_response([s EXCEPT !.pkt[r][q] = spent], q,
                                     "timeout", e))
    BY <1>2, <1>4 DEF on_timeout
  <1>6. p \in Packet /\ Frugal(p)
    BY <1>1, StateTypes, SMT DEF Base
  <1>7. GoodBut(s, q) /\ Half(s, q)
    BY <1>1, <1>5, GoodHalf
  <1> HIDE DEF s, e, p
  <1>8. CASE /\ resends(p)
             /\ Becomes(remote_add_flags(
                    [s EXCEPT !.pkt[r][q] = resend], r, {"W"}))
    <2> DEFINE t == [s EXCEPT !.pkt[r][q] = resend]
               u == remote_add_flags(t, r, {"W"})
    <2>1. resend \in Packet /\ Frugal(resend) /\ resend.sent = "no"
      BY <1>5, <1>6, <1>8, ResendFrugal
    <2> HIDE DEF resend
    <2>2. Updated(s, t, r, q, resend)
      BY <1>1, <2>1, PacketSet
    <2> HIDE DEF t
    <2>3. Updated(s, u, r, q, resend) /\ u.fd[r] /\ "W" \in u.io[r]
      BY <1>1, <2>2, FlagsSet
    <2> HIDE DEF u
    <2>4. u.pkt[r][q] = resend
      BY <1>1, <2>1, <2>3, UpdateKeeps
    <2>5. Moving(u, r, q)
      BY <2>1, <2>3, <2>4 DEF Moving
    <2>6. Good(u)
      BY <1>1, <2>1, <2>3, <2>5, UpdateGood
    <2> QED
      BY <1>8, <2>6, BecomesGood DEF u, t
  <1>9. CASE Becomes(on_response(unlist(s, r, q), q, "error", e))
    <2>1. GoodBut(unlist(s, r, q), q) /\ Half(unlist(s, r, q), q)
      BY <1>7, UnlistGood
    <2>2. Good(on_response(unlist(s, r, q), q, "error", e))
      BY <1>3, <2>1, ResponseGood
    <2> QED
      BY <1>9, <2>2, BecomesGood
  <1>10. CASE /\ ~resends(p)
              /\ Becomes(on_response([s EXCEPT !.pkt[r][q] = spent], q,
                                     "timeout", e))
    <2> DEFINE t == [s EXCEPT !.pkt[r][q] = spent]
    <2>1. spent \in Packet /\ Frugal(spent)
      BY <1>6, <1>10, SpentFrugal
    <2> HIDE DEF spent
    <2>2. Updated(s, t, r, q, spent)
      BY <1>1, <2>1, PacketSet
    <2> HIDE DEF t
    <2>3. GoodBut(t, q) /\ Half(t, q)
      BY <1>7, <2>1, <2>2, UpdateHalf
    <2>4. Good(on_response(t, q, "timeout", e))
      BY <1>3, <2>3, ResponseGood
    <2> QED
      BY <1>10, <2>4, BecomesGood DEF t
  <1> QED
    BY <1>5, <1>8, <1>9, <1>10

(* remote_shutdown: the packets that are queued get a timer, so that the   *)
(* closed socket stops nobody.                                             *)
LEMMA ShutdownGood ==
  ASSUME NEW s, Good(s), NEW r \in Remote
  PROVE  Good(remote_shutdown(s, r))
  <1> DEFINE cut(q) == cut_off(s.pkt[r][q])
             untimed(q) == q \in Range(s.list[r]) /\ ~s.pkt[r][q].timer
             new(q) == IF untimed(q) THEN request_start_timer(cut(q)) ELSE cut(q)
             c == [q \in Request |-> cut(q)]
             n == [q \in Request |-> new(q)]
             f == [s.fd EXCEPT ![r] = FALSE]
             i == [s.io EXCEPT ![r] = {}]
             d == [s EXCEPT !.fd = f, !.io = i, !.pkt = [s.pkt EXCEPT ![r] = c]]
             k == [s.pkt EXCEPT ![r] = n]
             t == [d EXCEPT !.pkt = k]
  <1>1. s \in State /\ Base(s)
    BY DEF Good, Base
  <1>2. /\ s.pkt \in [Remote -> [Request -> Packet]]
        /\ s.fd \in [Remote -> BOOLEAN] /\ s.io \in [Remote -> SUBSET {"R", "W"}]
    BY <1>1, StateTypes
  <1>3. ASSUME NEW q \in Request
        PROVE  /\ cut(q) \in Packet /\ Frugal(cut(q))
               /\ cut(q).timer = s.pkt[r][q].timer
               /\ request_start_timer(cut(q)) \in Packet
               /\ Frugal(request_start_timer(cut(q)))
               /\ request_start_timer(cut(q)).timer
    <2>1. s.pkt[r][q] \in Packet /\ Frugal(s.pkt[r][q])
      BY <1>1, <1>2 DEF Base
    <2> QED
      BY <2>1, ShutFrugal
  <1>4. remote_disconnect(s, r) = d
    BY DEF remote_disconnect
  <1> HIDE DEF cut
  <1>5. ASSUME NEW q \in Request
        PROVE  /\ new(q) \in Packet /\ Frugal(new(q))
               /\ q \in Range(s.list[r]) => new(q).timer
    <2>1. CASE untimed(q)
      BY <1>3, <2>1
    <2>2. CASE ~untimed(q)
      BY <1>3, <2>2
    <2> QED
      BY <2>1, <2>2
  <1>6. c \in [Request -> Packet] /\ n \in [Request -> Packet]
    BY <1>3, <1>5
  <1>7. remote_shutdown(s, r) = t
    <2>1. d.pkt = [s.pkt EXCEPT ![r] = c]
      BY <1>1 DEF State
    <2>2. d.pkt[r] = c
      BY <1>2, <2>1
    <2>3. [q \in Request |-> IF untimed(q) THEN request_start_timer(d.pkt[r][q])
                             ELSE d.pkt[r][q]] = n
      BY <2>2, SMT
    <2>4. [d.pkt EXCEPT ![r] = n] = k
      BY <1>2, <2>1
    <2> HIDE DEF d, n, k
    <2> QED
      BY <1>4, <2>3, <2>4 DEF remote_shutdown
  <1> HIDE DEF c, n, new
  <1>8. f \in [Remote -> BOOLEAN] /\ i \in [Remote -> SUBSET {"R", "W"}]
    BY <1>2
  <1>9. /\ k \in [Remote -> [Request -> Packet]]
        /\ [s.pkt EXCEPT ![r] = c] \in [Remote -> [Request -> Packet]]
        /\ k[r] = n /\ \A x \in Remote : x # r => k[x] = s.pkt[x]
    BY <1>2, <1>6
  <1>10. /\ ~f[r] /\ i[r] = {}
         /\ \A x \in Remote : x # r => f[x] = s.fd[x] /\ i[x] = s.io[x]
    BY <1>2
  <1> DEFINE j == [s.pkt EXCEPT ![r] = c]
  <1> HIDE DEF f, i, k, j
  <1>11. t \in State
    <2>1. d = [s EXCEPT !.fd = f, !.io = i, !.pkt = j]
      BY DEF j
    <2>2. [s EXCEPT !.fd = f, !.io = i, !.pkt = j] \in State
      BY <1>1, <1>8, <1>9 DEF State, j
    <2>3. d \in State
      BY <2>1, <2>2
    <2> HIDE DEF d
    <2> QED
      BY <2>3, <1>9 DEF State
  <1>12. /\ t.list = s.list /\ t.pkt = k /\ t.fd = f /\ t.io = i
         /\ t.addrs = s.addrs /\ t.current = s.current /\ t.open = s.open
         /\ t.index = s.index
    BY <1>1 DEF State
  <1> HIDE DEF t
  <1>13. Base(t)
    <2>1. ASSUME NEW x \in Remote, NEW q \in Request
          PROVE  Frugal(t.pkt[x][q])
      <3>1. CASE x = r
        <4>1. t.pkt[x] = n
          BY <1>9, <1>12, <3>1
        <4> QED
          BY <1>5, <4>1 DEF n
      <3>2. CASE x # r
        BY <1>1, <1>9, <1>12, <3>2 DEF Base
      <3> QED
        BY <3>1, <3>2
    <2>2. ASSUME NEW x \in Remote
          PROVE  t.io[x] # {} => t.fd[x]
      BY <1>1, <1>10, <1>12 DEF Base
    <2> QED
      BY <1>1, <1>11, <1>12, <2>1, <2>2 DEF Base
  <1>14. ASSUME NEW p \in Request
         PROVE  Same(s, t, p)
    <2>1. ASSUME p \in s.open, Moving(s, s.addrs[p][s.current[p]], p)
          PROVE  Moving(t, s.addrs[p][s.current[p]], p)
      <3> DEFINE x == s.addrs[p][s.current[p]]
      <3>1. p \in Range(s.list[x]) /\ x \in Remote
        BY <1>1, <2>1, CurrentRemote DEF Good, Fine, Running
      <3>2. CASE x = r
        <4>1. t.pkt[x][p].timer
          BY <1>5, <1>9, <1>12, <3>1, <3>2 DEF n
        <4> QED
          BY <4>1 DEF Moving
      <3>3. CASE x # r
        BY <1>9, <1>10, <1>12, <2>1, <3>1, <3>3 DEF Moving
      <3> QED
        BY <3>2, <3>3
    <2> QED
      BY <1>12, <2>1 DEF Same
  <1> QED
    BY <1>7, <1>13, <1>14, SameWhole

(* remote_del_flags when no packet waits to be written, or when nothing is *)
(* read.                                                                   *)
LEMMA DelFlagsGood ==
  ASSUME NEW s, Good(s), NEW r \in Remote, NEW flags,
         "W" \in flags =>
            \A q \in Range(s.list[r]) :
               s.pkt[r][q].sent \notin {"no", "part", "tail"}
  PROVE  Good(remote_del_flags(s, r, flags))
  <1> DEFINE i == [s.io EXCEPT ![r] = s.io[r] \ flags]
             t == [s EXCEPT !.io = i]
  <1>1. s \in State /\ Base(s)
    BY DEF Good, Base
  <1>2. remote_del_flags(s, r, flags) = t
    BY DEF remote_del_flags
  <1>3. s.io \in [Remote -> SUBSET {"R", "W"}]
    BY <1>1, StateTypes
  <1>4. /\ i[r] = s.io[r] \ flags
        /\ \A x \in Remote : x # r => i[x] = s.io[x]
    BY <1>3
  <1>5. i \in [Remote -> SUBSET {"R", "W"}]
    BY <1>3
  <1> HIDE DEF i
  <1>6. t \in State
    BY <1>1, <1>5 DEF State
  <1>7. /\ t.list = s.list /\ t.pkt = s.pkt /\ t.fd = s.fd /\ t.io = i
        /\ t.addrs = s.addrs /\ t.current = s.current /\ t.open = s.open
        /\ t.index = s.index
    BY <1>1 DEF State
  <1> HIDE DEF t
  <1>8. Base(t)
    <2>1. ASSUME NEW x \in Remote
          PROVE  t.io[x] # {} => t.fd[x]
      <3>1. s.io[x] # {} => s.fd[x]
        BY <1>1 DEF Base
      <3>2. i[x] \subseteq s.io[x]
        BY <1>4
      <3> QED
        BY <1>7, <3>1, <3>2
    <2> QED
      BY <1>1, <1>6, <1>7, <2>1 DEF Base
  <1>9. ASSUME NEW p \in Request
        PROVE  Same(s, t, p)
    <2>1. ASSUME p \in s.open, Moving(s, s.addrs[p][s.current[p]], p)
          PROVE  Moving(t, s.addrs[p][s.current[p]], p)
      <3> DEFINE x == s.addrs[p][s.current[p]]
      <3>1. p \in Range(s.list[x]) /\ x \in Remote
        BY <1>1, <2>1, CurrentRemote DEF Good, Fine, Running
      <3>2. CASE x # r
        BY <1>4, <1>7, <2>1, <3>1, <3>2 DEF Moving
      <3>3. CASE x = r /\ "W" \in flags
        BY <1>7, <2>1, <3>1, <3>3 DEF Moving
      <3>4. CASE x = r /\ "W" \notin flags
        <4>1. "W" \in s.io[r] => "W" \in t.io[r]
          BY <1>4, <1>7, <3>4
        <4> QED
          BY <1>7, <2>1, <3>4, <4>1 DEF Moving
      <3> QED
        BY <3>2, <3>3, <3>4
    <2> QED
      BY <1>7, <2>1 DEF Same
  <1> QED
    BY <1>2, <1>8, <1>9, SameWhole

(* on_io_write *)
LEMMA WriteGood ==
  ASSUME IInv, NEW r \in Remote, Write(r)
  PROVE  IInv'
  <1> DEFINE s == Now
  <1>1. Good(s) /\ Base(s) /\ s \in State
    BY DEF IInv, Good, Base
  <1>2. s.list = list /\ s.pkt = pkt /\ s.io = io
    BY NowFields
  <1>3. s.list[r] \in Seq(Request) /\ "W" \in s.io[r]
    BY <1>1, <1>2, StateTypes DEF Write, on_io_write
  <1>4. CASE unsent(r) = {} /\ Becomes(remote_del_flags(s, r, {"W"}))
    <2>1. \A q \in Range(s.list[r]) :
             s.pkt[r][q].sent \notin {"no", "part", "tail"}
      BY <1>2, <1>4 DEF unsent, Range
    <2> HIDE DEF s
    <2>2. Good(remote_del_flags(s, r, {"W"}))
      BY <1>1, <2>1, DelFlagsGood
    <2> QED
      BY <1>4, <2>2, BecomesGood
  <1>5. CASE Becomes(remote_shutdown(s, r))
    <2> HIDE DEF s
    <2> QED
      BY <1>1, <1>5, ShutdownGood, BecomesGood
  <1>6. ASSUME NEW m \in unsent(r)
        PROVE  /\ list[r][m] \in Request
               /\ s.pkt[r][list[r][m]].sent \in {"no", "part", "tail"}
    BY <1>2, <1>3, SMT DEF unsent
  <1>7. ASSUME NEW m \in unsent(r), Becomes(written(r, list[r][m]))
        PROVE  IInv'
    <2> DEFINE q == list[r][m]
               p == s.pkt[r][q]
               k == [request_start_timer(p) EXCEPT
                       !.sent = IF @ = "tail" THEN "gone" ELSE "all",
                       !.tries = IF p.sent # "tail" /\ @ < MaxRetries + 2
                                 THEN @ + 1 ELSE @]
               u == remote_add_flags(s, r, {"R"})
               t == [u EXCEPT !.pkt[r][q] = k]
    <2>1. q \in Request /\ p.sent \in {"no", "part", "tail"}
      BY <1>6, <1>7
    <2>2. written(r, q) = t
      BY <1>2 DEF written
    <2> HIDE DEF s, q
    <2>3. p \in Packet /\ Frugal(p)
      BY <1>1, <2>1, StateTypes, SMT DEF Base
    <2>4. k \in Packet /\ Frugal(k) /\ k.timer
      BY <2>1, <2>3, WrittenFrugal
    <2> HIDE DEF p, k
    <2>5. Updated(s, s, r, q, p)
      <3>1. s.pkt = [s.pkt EXCEPT ![r] = [s.pkt[r] EXCEPT ![q] = p]]
        BY <1>1, <2>1, StateTypes DEF p
      <3> QED
        BY <1>1, <3>1 DEF Updated, Base
    <2>6. Updated(s, u, r, q, p)
      BY <1>1, <2>1, <2>5, FlagsSet
    <2> HIDE DEF u
    <2>7. Good(u)
      <3>1. Moving(s, r, q) => Moving(u, r, q)
        <4>1. u.pkt[r][q] = p
          BY <1>1, <2>1, <2>3, <2>6, UpdateKeeps
        <4> QED
          BY <2>6, <4>1 DEF Moving, Updated, p
      <3> QED
        BY <1>1, <2>1, <2>3, <2>6, <3>1, UpdateGood
    <2>8. Base(u)
      BY <2>7 DEF Good
    <2>9. Updated(u, t, r, q, k)
      BY <2>1, <2>4, <2>8, PacketSet
    <2> HIDE DEF t
    <2>10. t.pkt[r][q] = k
      BY <2>1, <2>4, <2>8, <2>9, UpdateKeeps
    <2>11. Good(t)
      <3>1. Moving(t, r, q)
        BY <2>4, <2>10 DEF Moving
      <3> QED
        BY <2>1, <2>4, <2>7, <2>9, <3>1, UpdateGood
    <2> QED
      BY <1>7, <2>2, <2>11, BecomesGood DEF q
  <1>8. ASSUME NEW m \in unsent(r), pkt[r][list[r][m]].sent = "no",
               Becomes([Now EXCEPT !.pkt[r][list[r][m]].sent = "part"])
        PROVE  IInv'
    <2> DEFINE q == list[r][m]
               p == s.pkt[r][q]
               k == [p EXCEPT !.sent = "part"]
               t == [s EXCEPT !.pkt[r][q] = k]
    <2>1. q \in Request /\ p.sent = "no"
      BY <1>2, <1>6, <1>8
    <2>2. [Now EXCEPT !.pkt[r][q].sent = "part"] = t
      BY <1>2
    <2> HIDE DEF s, q
    <2>3. p \in Packet /\ Frugal(p)
      BY <1>1, <2>1, StateTypes, SMT DEF Base
    <2>4. k \in Packet /\ Frugal(k) /\ k.sent = "part"
      BY <2>1, <2>3, PartFrugal
    <2> HIDE DEF k
    <2>5. Updated(s, t, r, q, k)
      BY <1>1, <2>1, <2>4, PacketSet
    <2> HIDE DEF t
    <2>6. t.pkt[r][q] = k
      BY <1>1, <2>1, <2>4, <2>5, UpdateKeeps
    <2>7. Good(t)
      <3>1. s.fd[r] /\ t.fd[r] /\ "W" \in t.io[r]
        BY <1>1, <1>3, <2>5 DEF Base, Updated
      <3>2. Moving(t, r, q)
        BY <2>4, <2>6, <3>1 DEF Moving
      <3> QED
        BY <1>1, <2>1, <2>4, <2>5, <3>2, UpdateGood
    <2> QED
      BY <1>8, <2>2, <2>7, BecomesGood DEF q
  <1> QED
    BY <1>4, <1>5, <1>7, <1>8 DEF Write, on_io_write

(* on_io_read *)
LEMMA ReadGood ==
  ASSUME IInv, NEW r \in Remote, Read(r)
  PROVE  IInv'
  <1> DEFINE s == Now
  <1>1. Good(s)
    BY DEF IInv
  <1>2. s.list = list
    BY NowFields
  <1>3. PICK up \in BOOLEAN, old \in idle, ads \in Servers \cup {<<>>} :
               on_io_read(r, [up |-> up, ads |-> ads, old |-> old])
    BY DEF Read
  <1> DEFINE e == [up |-> up, ads |-> ads, old |-> old]
  <1>4. e.ads \in Servers \cup {<<>>}
    OBVIOUS
  <1>5. \/ Becomes(remote_shutdown(s, r))
        \/ Becomes(remote_del_flags(s, r, {"R"}))
        \/ \E q \in Range(s.list[r]), ret \in {"accept", "reject"} :
              Becomes(on_response(unlist(s, r, q), q, ret, e))
    BY <1>2, <1>3 DEF on_io_read
  <1> HIDE DEF s, e
  <1>6. CASE Becomes(remote_shutdown(s, r))
    BY <1>1, <1>6, ShutdownGood, BecomesGood
  <1>7. CASE Becomes(remote_del_flags(s, r, {"R"}))
    <2>1. Good(remote_del_flags(s, r, {"R"}))
      BY <1>1, DelFlagsGood
    <2> QED
      BY <1>7, <2>1, BecomesGood
  <1>8. ASSUME NEW q \in Range(s.list[r]), NEW ret,
               Becomes(on_response(unlist(s, r, q), q, ret, e))
        PROVE  IInv'
    <2>1. GoodBut(s, q) /\ Half(s, q) /\ q \in Request
      BY <1>1, GoodHalf
    <2>2. GoodBut(unlist(s, r, q), q) /\ Half(unlist(s, r, q), q)
      BY <2>1, UnlistGood
    <2>3. Good(on_response(unlist(s, r, q), q, ret, e))
      BY <1>4, <2>1, <2>2, ResponseGood
    <2> QED
      BY <1>8, <2>3, BecomesGood
  <1> QED
    BY <1>5, <1>6, <1>7, <1>8

(* Nothing is queued at the start. *)
LEMMA InitGood ==
  ASSUME Init
  PROVE  IInv
  <1>1. Now \in State
    <2>1. list \in [Remote -> Seq(Request)]
      BY SMT DEF Init
    <2>2. pkt \in [Remote -> [Request -> Packet]]
      BY PacketFacts DEF Init
    <2>3. fd \in [Remote -> BOOLEAN] /\ io \in [Remote -> SUBSET {"R", "W"}]
      BY DEF Init
    <2>4. addrs \in [Request -> Servers \cup {<<>>}] /\ open \in SUBSET Request
      BY DEF Init
    <2>5. /\ current \in [Request -> Nat]
          /\ index \in [Verification -> 0 .. NTokens + 1]
          /\ answers \in [Verification -> 0 .. 2]
      BY KradAssumption, SMT DEF Init
    <2> QED
      BY <2>1, <2>2, <2>3, <2>4, <2>5 DEF Now, State
  <1>2. Base(Now)
    <2>1. ASSUME NEW r \in Remote
          PROVE  /\ IsInjective(list[r]) /\ Len(list[r]) <= MaxId
                 /\ io[r] # {} => fd[r]
                 /\ \A q \in Request : Frugal(pkt[r][q])
      <3>1. list[r] = <<>> /\ io[r] = {}
        BY DEF Init
      <3>2. \A q \in Request : pkt[r][q] = NoPacket
        BY DEF Init
      <3> QED
        BY <3>1, <3>2, PacketFacts, KradAssumption, SMT DEF IsInjective
    <2> QED
      BY <1>1, <2>1, NowFields DEF Base
  <1>3. ASSUME NEW q \in Request
        PROVE  Fine(Now, q)
    <2>1. q \notin open /\ addrs[q] = <<>> /\ current[q] = 0
      BY DEF Init
    <2>2. \A r \in Remote : q \notin Range(list[r])
      BY SMT DEF Init, Range
    <2> QED
      BY <2>1, <2>2, NowFields DEF Fine, Absent
  <1> QED
    BY <1>2, <1>3 DEF IInv, Good

(* Every event keeps the invariant. *)
LEMMA Invariant == Spec => []IInv
  <1>1. ASSUME IInv, [Next]_vars
        PROVE  IInv'
    <2>1. CASE UNCHANGED vars
      BY <1>1, <2>1 DEF vars, IInv, Now
    <2>2. CASE Next
      BY <1>1, <2>2, VerifyGood, TimeoutGood, WriteGood, ReadGood DEF Next
    <2> QED
      BY <1>1, <2>1, <2>2
  <1> QED
    BY <1>1, InitGood, PTL DEF Spec

----------------------------------------------------------------------------
(* The theorems *)

(* Whatever sockets, servers and timers do, queues hold no packet twice    *)
(* and no more than there are ids, and a remote without a connection has   *)
(* no event.                                                               *)
THEOREM TypeCorrect == Spec => []TypeOK
  <1>1. IInv => TypeOK
    <2> SUFFICES ASSUME IInv PROVE TypeOK
      OBVIOUS
    <2>1. Now \in State /\ Base(Now)
      BY DEF IInv, Good, Base
    <2>2. /\ list \in [Remote -> Seq(Request)]
          /\ pkt \in [Remote -> [Request -> Packet]]
          /\ fd \in [Remote -> BOOLEAN] /\ io \in [Remote -> SUBSET {"R", "W"}]
          /\ addrs \in [Request -> Servers \cup {<<>>}]
          /\ current \in [Request -> Nat] /\ open \in SUBSET Request
          /\ index \in [Verification -> 0 .. NTokens + 1]
          /\ answers \in [Verification -> 0 .. 2]
      BY <2>1, StateTypes, NowFields
    <2>3. \A r \in Remote : /\ IsInjective(list[r]) /\ Len(list[r]) <= MaxId
                            /\ io[r] # {} => fd[r]
      BY <2>1, NowFields DEF Base
    <2>4. ASSUME NEW q \in Request
          PROVE  current[q] \in 0 .. Len(addrs[q]) + 1
      <3>1. CASE q \in open
        <4>1. current[q] \in DOMAIN addrs[q]
          BY <3>1, NowFields DEF IInv, Good, Fine, Running
        <4>2. addrs[q] \in Servers
          BY <2>2, <4>1, SMT
        <4>3. Len(addrs[q]) \in Nat /\ DOMAIN addrs[q] = 1 .. Len(addrs[q])
          BY <4>2, ServerFacts
        <4> QED
          BY <4>1, <4>3, SMT
      <3>2. CASE q \notin open
        <4>1. current[q] = 0 /\ addrs[q] = <<>>
          BY <3>2, NowFields DEF IInv, Good, Fine, Absent
        <4> QED
          BY <4>1, SMT
      <3> QED
        BY <3>1, <3>2
    <2> QED
      BY <2>2, <2>3, <2>4 DEF TypeOK
  <1> QED
    BY <1>1, Invariant, PTL

(* No remote holds a packet of a complete request, whatever the number of  *)
(* verifications, tokens and addresses.                                    *)
THEOREM NoPacketIsLeft == Spec => []NothingLeft
  <1>1. IInv => NothingLeft
    <2> SUFFICES ASSUME IInv, NEW r \in Remote, NEW q \in Range(list[r])
                 PROVE  q \in open
      BY DEF NothingLeft
    <2> QED
      BY NowFields, GoodHalf DEF IInv, Half
  <1> QED
    BY <1>1, Invariant, PTL

(* A request always has a timer or a connection that asks to write, at the *)
(* remote it was last sent to.                                             *)
THEOREM RequestsAreNeverStuck == Spec => []NeverStuck
  <1>1. IInv => NeverStuck
    <2> SUFFICES ASSUME IInv, NEW q \in open
                 PROVE  LET r == addrs[q][current[q]] IN
                        /\ q \in Range(list[r])
                        /\ \/ pkt[r][q].timer
                           \/ /\ pkt[r][q].sent \in {"no", "part", "tail"}
                              /\ fd[r] /\ "W" \in io[r]
      BY DEF NeverStuck
    <2>1. Now \in State /\ q \in Now.open
      BY NowFields DEF IInv, Good, Base
    <2>2. q \in Request
      BY <2>1, StateTypes
    <2>3. Running(Now, q)
      BY <2>1, <2>2 DEF IInv, Good, Fine
    <2> QED
      BY <2>3, NowFields DEF Running, Moving
  <1> QED
    BY <1>1, Invariant, PTL

(* A packet is transmitted no more than once and "retries" times again,    *)
(* unless a timer is started for it after it timed out for good.           *)
THEOREM TriesAreBounded == Spec => []TriesBounded
  <1>1. IInv => TriesBounded
    <2> SUFFICES ASSUME IInv, NEW r \in Remote, NEW q \in Request,
                        ~pkt[r][q].revived
                 PROVE  pkt[r][q].tries <= MaxRetries + 1
      BY DEF TriesBounded
    <2> DEFINE p == pkt[r][q]
    <2>1. p \in Packet /\ Frugal(p)
      BY StateTypes, NowFields, SMT DEF IInv, Good, Base
    <2> HIDE DEF p
    <2>2. p.tries + Due(p) <= MaxRetries + 1 /\ p.tries \in Nat /\ Due(p) \in Nat
      <3>1. /\ p.retries \in Int /\ p.tries \in Nat /\ MaxRetries \in Nat
        BY <2>1, PacketTypes, KradAssumption, SMT DEF Wrapped
      <3>2. Due(p) \in Nat
        BY <3>1, SMT DEF Due
      <3>3. p.tries + Due(p) <= MaxRetries + 1
        BY <2>1 DEF Frugal, p
      <3> QED
        BY <3>1, <3>2, <3>3
    <2> QED
      BY <2>2, KradAssumption, SMT DEF p
  <1> QED
    BY <1>1, Invariant, PTL

----------------------------------------------------------------------------
(* One token: a verification is answered once *)

Fields(s) == DOMAIN s = {"list", "pkt", "fd", "io", "addrs", "current", "open",
                         "index", "answers"}

(* What leaves the OTP module alone. *)
Kept(s, t) ==
    /\ Fields(t)
    /\ t.open = s.open /\ t.index = s.index /\ t.answers = s.answers

(* The request q is complete, and its verification has been answered. *)
Ended(s, t, q) ==
    /\ t.open = s.open \ {q} /\ t.index = [s.index EXCEPT ![q[1]] = 2]
    /\ t.answers = [s.answers EXCEPT ![q[1]] =
                      IF s.answers[q[1]] < 2 THEN s.answers[q[1]] + 1
                      ELSE s.answers[q[1]]]

LEMMA RemotesKeep ==
  ASSUME NEW s, Fields(s), NEW r, NEW q, NEW k, NEW flags, NEW old
  PROVE  /\ Kept(s, [s EXCEPT !.pkt[r][q] = k])
         /\ Kept(s, remote_add_flags(s, r, flags))
         /\ Kept(s, remote_del_flags(s, r, flags))
         /\ Kept(s, remote_shutdown(s, r))
         /\ Kept(s, kr_remote_send(s, r, q))
         /\ Kept(s, unlist(s, r, q))
         /\ Kept(s, kr_remote_cancel(s, q))
         /\ Kept(s, age(s, old))
  <1>1. ASSUME NEW u, Fields(u), NEW a, NEW b, NEW c, NEW d
        PROVE  /\ Kept(u, [u EXCEPT !.pkt = a])
               /\ Kept(u, [u EXCEPT !.io = b])
               /\ Kept(u, [u EXCEPT !.fd = a, !.io = b])
               /\ Kept(u, [u EXCEPT !.list = a, !.pkt = b])
               /\ Kept(u, [u EXCEPT !.fd = a, !.io = b, !.pkt = c])
    BY <1>1 DEF Kept, Fields
  <1>2. Kept(s, [s EXCEPT !.pkt[r][q] = k])
    BY <1>1
  <1>3. Kept(s, remote_add_flags(s, r, flags))
    BY <1>1 DEF remote_add_flags
  <1>4. Kept(s, remote_del_flags(s, r, flags))
    BY <1>1 DEF remote_del_flags
  <1>5. Kept(s, remote_disconnect(s, r))
    BY <1>1 DEF remote_disconnect
  <1>6. Kept(s, remote_shutdown(s, r))
    <2> DEFINE d == remote_disconnect(s, r)
    <2>1. Kept(d, remote_shutdown(s, r))
      <3>1. Fields(d)
        BY <1>5 DEF Kept
      <3> HIDE DEF d
      <3> QED
        BY <1>1, <3>1 DEF remote_shutdown, d
    <2> QED
      BY <1>5, <2>1 DEF Kept
  <1>7. Kept(s, kr_remote_send(s, r, q))
    <2> DEFINE d == remote_add_flags(s, r, {"W"})
    <2>1. Kept(s, d)
      BY <1>1 DEF remote_add_flags
    <2>2. Kept(d, kr_remote_send(s, r, q))
      <3>1. Fields(d)
        BY <2>1 DEF Kept
      <3> HIDE DEF d
      <3> QED
        BY <1>1, <3>1 DEF kr_remote_send, d
    <2> QED
      BY <2>1, <2>2 DEF Kept
  <1>8. Kept(s, unlist(s, r, q))
    BY <1>1 DEF unlist
  <1>9. Kept(s, kr_remote_cancel(s, q))
    BY <1>1 DEF kr_remote_cancel
  <1>10. Kept(s, age(s, old))
    BY <1>1 DEF age
  <1> QED
    BY <1>2, <1>3, <1>4, <1>6, <1>7, <1>8, <1>9, <1>10

(* complete, when there is no next token. *)
LEMMA CompleteEnds ==
  ASSUME NTokens = 1, NEW s, Fields(s), NEW q, s.index[q[1]] = 1,
         q[1] \in DOMAIN s.index, NEW ret, NEW e
  PROVE  Ended(s, complete(s, q, ret, e), q)
  <1> DEFINE v == q[1]
             a == [s EXCEPT !.open = s.open \ {q}]
             n == [a EXCEPT !.index = [a.index EXCEPT ![v] = a.index[v] + 1]]
             b == callback(a, v, ret, e)
             c == kr_remote_cancel(b, q)
             d == age(c, e.old \ (in_use(s) \cup in_use(b)))
             t == [d EXCEPT !.addrs = [d.addrs EXCEPT ![q] = <<>>],
                            !.current = [d.current EXCEPT ![q] = 0]]
  <1>1. complete(s, q, ret, e) = t
    BY DEF complete
  <1>2. /\ Fields(a) /\ a.open = s.open \ {q} /\ a.index = s.index
        /\ a.answers = s.answers
    BY DEF Fields
  <1> HIDE DEF a
  <1>3. /\ Fields(n) /\ n.open = a.open /\ n.answers = a.answers
        /\ n.index = [a.index EXCEPT ![v] = a.index[v] + 1]
    BY <1>2 DEF Fields
  <1>4. n.index = [s.index EXCEPT ![v] = 2] /\ n.index[v] = 2
    <2>1. a.index[v] + 1 = 2
      BY <1>2, SMT
    <2> HIDE DEF n
    <2>2. n.index = [s.index EXCEPT ![v] = 2]
      BY ONLY <1>2, <1>3, <2>1, Zenon
    <2>3. v \in DOMAIN s.index
      OBVIOUS
    <2> QED
      BY ONLY <2>2, <2>3, Zenon
  <1>5. b = answer(n, v)
    <2>1. ~(n.index[v] <= NTokens)
      BY <1>4, SMT
    <2> QED
      BY <2>1 DEF callback
  <1> HIDE DEF n
  <1>6. /\ Fields(b) /\ b.open = n.open /\ b.index = n.index
        /\ b.answers = [n.answers EXCEPT ![v] =
                          IF n.answers[v] < 2 THEN n.answers[v] + 1
                          ELSE n.answers[v]]
    <2> HIDE DEF b
    <2> DEFINE x == [n.answers EXCEPT ![v] =
                       IF n.answers[v] < 2 THEN n.answers[v] + 1 ELSE n.answers[v]]
    <2>1. b = [n EXCEPT !.answers = x]
      BY <1>5 DEF answer
    <2>2. Fields(n)
      BY <1>3
    <2> HIDE DEF x
    <2>3. Fields(b) /\ b.open = n.open /\ b.index = n.index /\ b.answers = x
      BY ONLY <2>1, <2>2, Zenon DEF Fields
    <2> QED
      BY <2>3 DEF x
  <1> HIDE DEF b
  <1>7. Kept(b, c) /\ Fields(c)
    <2>1. Fields(b)
      BY <1>6
    <2>2. Kept(b, kr_remote_cancel(b, q))
      BY ONLY <2>1, RemotesKeep, Zenon
    <2> QED
      BY ONLY <2>2, Zenon DEF Kept
  <1> HIDE DEF c
  <1>8. Kept(c, d) /\ Fields(d)
    <2>1. Fields(c)
      BY <1>7
    <2> HIDE DEF d
    <2>2. \A old : Kept(c, age(c, old))
      BY ONLY <2>1, RemotesKeep, Zenon
    <2>3. Kept(c, d)
      BY ONLY <2>2, Zenon DEF d
    <2> QED
      BY ONLY <2>3, Zenon DEF Kept
  <1> HIDE DEF d
  <1>9. t.open = d.open /\ t.index = d.index /\ t.answers = d.answers
    BY <1>8 DEF Fields
  <1> HIDE DEF t
  <1>10. /\ t.open = s.open \ {q} /\ t.index = [s.index EXCEPT ![v] = 2]
         /\ t.answers = [s.answers EXCEPT ![v] =
                           IF s.answers[v] < 2 THEN s.answers[v] + 1
                           ELSE s.answers[v]]
    <2>1. t.open = b.open /\ t.index = b.index /\ t.answers = b.answers
      BY ONLY <1>7, <1>8, <1>9, Zenon DEF Kept
    <2>2. t.open = s.open \ {q} /\ t.index = [s.index EXCEPT ![v] = 2]
      BY ONLY <1>2, <1>3, <1>4, <1>6, <2>1, Zenon
    <2>3. n.answers = s.answers
      BY ONLY <1>2, <1>3, Zenon
    <2> QED
      BY ONLY <1>6, <2>1, <2>2, <2>3, Zenon
  <1> QED
    BY <1>1, <1>10 DEF Ended

(* on_response sends to the next address or completes the request. *)
LEMMA ResponseEnds ==
  ASSUME NTokens = 1, NEW s, Fields(s), NEW q, s.index[q[1]] = 1,
         q[1] \in DOMAIN s.index, NEW ret, NEW e
  PROVE  LET t == on_response(s, q, ret, e) IN
         \/ /\ t.open = s.open /\ t.index = s.index /\ t.answers = s.answers
         \/ Ended(s, t, q)
  <1> DEFINE n == [s EXCEPT !.current = [s.current EXCEPT ![q] = s.current[q] + 1]]
             x == s.addrs[q][n.current[q]]
             t == on_response(s, q, ret, e)
             goal == \/ /\ t.open = s.open /\ t.index = s.index
                        /\ t.answers = s.answers
                     \/ Ended(s, t, q)
  <1>1. Kept(s, n)
    BY DEF Kept, Fields
  <1> HIDE DEF n
  <1>2. \/ t = s \/ t = complete(s, q, ret, e)
        \/ t = kr_remote_send(n, x, q) \/ t = complete(n, q, "error", e)
    BY DEF on_response, n
  <1> HIDE DEF t, x
  <1>3. ASSUME t = s PROVE goal
    BY <1>3
  <1>4. ASSUME t = complete(s, q, ret, e) PROVE goal
    BY <1>4, CompleteEnds
  <1>5. ASSUME t = kr_remote_send(n, x, q) PROVE goal
    <2>0. Fields(n)
      BY <1>1 DEF Kept
    <2>1. Kept(n, t)
      BY <1>5, <2>0, RemotesKeep
    <2> QED
      BY <1>1, <2>1 DEF Kept
  <1>6. ASSUME t = complete(n, q, "error", e) PROVE goal
    <2>1. Ended(n, t, q)
      BY <1>1, <1>6, CompleteEnds DEF Kept
    <2> QED
      BY <1>1, <2>1 DEF Kept, Ended
  <1> QED
    BY <1>2, <1>3, <1>4, <1>5, <1>6 DEF t

Single ==
    /\ \A v \in Verification : answers[v] <= 1 /\ (index[v] = 0 => answers[v] = 0)
    /\ \A q \in open : answers[q[1]] = 0

(* The requests of a verification with one token. *)
LEMMA OneRequest ==
  ASSUME NTokens = 1, IInv
  PROVE  /\ open \in SUBSET Request
         /\ \A q \in open : q[1] \in Verification /\ index[q[1]] = 1
         /\ \A p, q \in open : p[1] = q[1] => p = q
         /\ answers \in [Verification -> 0 .. 2]
         /\ index \in [Verification -> 0 .. 2]
  <1>1. Now \in State
    BY DEF IInv, Good, Base
  <1>2. /\ open \in SUBSET Request /\ answers \in [Verification -> 0 .. 2]
        /\ index \in [Verification -> 0 .. 2]
    <2>1. NTokens + 1 = 2
      BY SMT
    <2> QED
      BY <1>1, <2>1, StateTypes, NowFields
  <1>3. ASSUME NEW q \in open
        PROVE  q[1] \in Verification /\ q[2] = 1 /\ q = <<q[1], q[2]>>
    BY <1>2, SMT DEF Request
  <1>4. ASSUME NEW q \in open
        PROVE  index[q[1]] = 1
    <2>1. Running(Now, q)
      BY <1>2, NowFields DEF IInv, Good, Fine
    <2> QED
      BY <1>3, <2>1, NowFields DEF Running
  <1>5. ASSUME NEW p \in open, NEW q \in open, p[1] = q[1]
        PROVE  p = q
    <2>1. p = <<p[1], p[2]>> /\ p[2] = 1
      BY <1>3
    <2>2. q = <<q[1], q[2]>> /\ q[2] = 1
      BY <1>3
    <2> QED
      BY <1>5, <2>1, <2>2
  <1> QED
    BY <1>2, <1>3, <1>4, <1>5

(* Events that leave the OTP module alone, and the answer of a request. *)
LEMMA SingleKept ==
  ASSUME NTokens = 1, IInv, Single, NEW t, Becomes(t),
         t.open = open /\ t.index = index /\ t.answers = answers
  PROVE  Single'
  <1>1. open' = open /\ index' = index /\ answers' = answers
    BY DEF Becomes
  <1> QED
    BY <1>1 DEF Single

LEMMA SingleEnded ==
  ASSUME NTokens = 1, IInv, Single, NEW t, Becomes(t), NEW q \in open,
         Ended(Now, t, q)
  PROVE  Single'
  <1> DEFINE v == q[1]
  <1>1. /\ answers \in [Verification -> 0 .. 2] /\ v \in Verification
        /\ index \in [Verification -> 0 .. 2]
    BY OneRequest
  <1>2. answers[v] = 0
    BY DEF Single
  <1>3. /\ open' = open \ {q} /\ index' = [index EXCEPT ![v] = 2]
        /\ answers' = [answers EXCEPT ![v] = 1]
    <2>1. t.answers = [answers EXCEPT ![v] = IF answers[v] < 2
                                             THEN answers[v] + 1 ELSE answers[v]]
      BY NowFields DEF Ended
    <2>2. (IF answers[v] < 2 THEN answers[v] + 1 ELSE answers[v]) = 1
      BY <1>2, SMT
    <2>3. t.answers = [answers EXCEPT ![v] = 1]
      BY <2>1, <2>2
    <2> QED
      BY <2>3, NowFields DEF Ended, Becomes
  <1>4. ASSUME NEW p \in open \ {q}
        PROVE  p[1] # v /\ p[1] \in Verification
    BY OneRequest
  <1>5. ASSUME NEW w \in Verification
        PROVE  answers'[w] <= 1 /\ (index'[w] = 0 => answers'[w] = 0)
    <2>1. CASE w = v
      BY <1>1, <1>3, <2>1, SMT
    <2>2. CASE w # v
      BY <1>1, <1>3, <2>2 DEF Single
    <2> QED
      BY <2>1, <2>2
  <1>6. ASSUME NEW p \in open'
        PROVE  answers'[p[1]] = 0
    <2>1. p \in open \ {q} /\ p[1] # v /\ p[1] \in Verification
      BY <1>3, <1>4
    <2>2. answers'[p[1]] = answers[p[1]]
      BY <1>1, <1>3, <2>1
    <2> QED
      BY <2>1, <2>2 DEF Single
  <1> QED
    BY <1>5, <1>6 DEF Single

(* on_response, of a state that differs from this one only in packets and  *)
(* sockets.                                                                *)
LEMMA SingleResponse ==
  ASSUME NTokens = 1, IInv, Single, NEW s, Kept(Now, s), NEW q \in open,
         NEW ret, NEW e, Becomes(on_response(s, q, ret, e))
  PROVE  Single'
  <1> DEFINE t == on_response(s, q, ret, e)
  <1>1. /\ Fields(s) /\ s.open = open /\ s.index = index
        /\ s.answers = answers
    BY NowFields DEF Kept
  <1>2. s.index[q[1]] = 1 /\ q[1] \in DOMAIN s.index
    <2>1. index \in [Verification -> 0 .. 2] /\ q[1] \in Verification
          /\ index[q[1]] = 1
      BY OneRequest
    <2> QED
      BY <1>1, <2>1
  <1>3. \/ /\ t.open = s.open /\ t.index = s.index /\ t.answers = s.answers
        \/ Ended(s, t, q)
    BY <1>1, <1>2, ResponseEnds
  <1> HIDE DEF t
  <1>4. CASE t.open = s.open /\ t.index = s.index /\ t.answers = s.answers
    BY <1>1, <1>4, SingleKept DEF t
  <1>5. CASE Ended(s, t, q)
    <2>1. Ended(Now, t, q)
      BY <1>1, <1>5, NowFields DEF Ended
    <2> QED
      BY <2>1, SingleEnded DEF t
  <1> QED
    BY <1>3, <1>4, <1>5

(* Verify is the first step of a verification. *)
LEMMA SingleVerify ==
  ASSUME NTokens = 1, IInv, Single, NEW v \in Verification, Verify(v)
  PROVE  Single'
  <1> DEFINE a == [Now EXCEPT !.index[v] = 1]
  <1>1. PICK e \in [up : BOOLEAN, ads : Addresses[v] \cup {<<>>}, old : {{}}] :
               otp_state_verify(v, e)
    BY DEF Verify
  <1>2. /\ index[v] = 0
        /\ Becomes(request_send(a, v, e)) \/ Becomes(answer(a, v))
    BY <1>1 DEF otp_state_verify
  <1>3. /\ Fields(a) /\ a.open = open /\ a.answers = answers
        /\ a.index = [index EXCEPT ![v] = 1]
    BY DEF Now, Fields
  <1>4. /\ answers \in [Verification -> 0 .. 2]
        /\ index \in [Verification -> 0 .. 2]
    BY OneRequest
  <1>5. a.index[v] = 1 /\ answers[v] = 0
    <2>1. a.index[v] = 1
      BY <1>3, <1>4
    <2> QED
      BY <1>2, <2>1 DEF Single
  <1>6. ASSUME NEW p \in open
        PROVE  p[1] # v /\ p[1] \in Verification /\ answers[p[1]] = 0
    <2>1. p[1] \in Verification /\ index[p[1]] = 1
      BY OneRequest
    <2> QED
      BY <1>2, <2>1, SMT DEF Single
  <1> HIDE DEF a
  <1> DEFINE b == answer(a, v)
             c == krad_client_send(a, <<v, a.index[v]>>, e.ads)
  <1>7. Becomes(b) \/ Becomes(c)
    BY <1>2 DEF request_send
  <1>8. CASE Becomes(b)
    <2>1. /\ b.open = open /\ b.index = [index EXCEPT ![v] = 1]
          /\ b.answers = [answers EXCEPT ![v] = 1]
      <3> DEFINE k == [a.answers EXCEPT ![v] = IF a.answers[v] < 2
                                               THEN a.answers[v] + 1
                                               ELSE a.answers[v]]
      <3>1. b = [a EXCEPT !.answers = k]
        BY DEF answer
      <3>2. (IF a.answers[v] < 2 THEN a.answers[v] + 1 ELSE a.answers[v]) = 1
        BY <1>3, <1>5, SMT
      <3>3. k = [answers EXCEPT ![v] = 1]
        BY <1>3, <3>2
      <3> HIDE DEF b, k
      <3> QED
        BY <1>3, <3>1, <3>3 DEF Fields
    <2>2. /\ open' = open /\ index' = [index EXCEPT ![v] = 1]
          /\ answers' = [answers EXCEPT ![v] = 1]
      BY <1>8, <2>1 DEF Becomes
    <2>3. \A w \in Verification :
             answers'[w] <= 1 /\ (index'[w] = 0 => answers'[w] = 0)
      BY <1>4, <2>2, SMT DEF Single
    <2>4. \A p \in open' : answers'[p[1]] = 0
      BY <1>4, <1>6, <2>2
    <2> QED
      BY <2>3, <2>4 DEF Single
  <1>9. CASE Becomes(c)
    <2> DEFINE n == <<v, a.index[v]>>
               u == kr_remote_send(a, e.ads[1], n)
    <2>1. Kept(a, u)
      BY <1>3, RemotesKeep
    <2>2. c = [u EXCEPT !.addrs = [u.addrs EXCEPT ![n] = e.ads],
                        !.current = [u.current EXCEPT ![n] = 1],
                        !.open = u.open \cup {n}]
      BY DEF krad_client_send
    <2> HIDE DEF u, c, n
    <2>3. /\ c.open = open \cup {n} /\ c.index = a.index
          /\ c.answers = answers
      BY <1>3, <2>1, <2>2 DEF Kept, Fields
    <2>4. /\ open' = open \cup {n} /\ index' = [index EXCEPT ![v] = 1]
          /\ answers' = answers
      BY <1>3, <1>9, <2>3 DEF Becomes
    <2>5. \A w \in Verification :
             answers'[w] <= 1 /\ (index'[w] = 0 => answers'[w] = 0)
      BY <1>4, <2>4, SMT DEF Single
    <2>6. n[1] = v
      BY DEF n
    <2>7. \A p \in open' : answers'[p[1]] = 0
      BY <1>5, <1>6, <2>4, <2>6
    <2> QED
      BY <2>5, <2>7 DEF Single
  <1> QED
    BY <1>7, <1>8, <1>9

(* With one token, a verification is answered when its request is complete *)
(* and only then.  With more, callback answers a verification whose next   *)
(* token it has just sent.                                                 *)
THEOREM OneTokenOneAnswer == NTokens = 1 /\ Spec => []OneAnswer
  <1> SUFFICES ASSUME NTokens = 1 PROVE Spec => []OneAnswer
    OBVIOUS
  <1>1. Init => Single
    BY SMT DEF Init, Single
  <1>2. ASSUME IInv, Single, [Next]_vars
        PROVE  Single'
    <2>1. CASE UNCHANGED vars
      BY <1>2, <2>1 DEF vars, Single
    <2>2. ASSUME NEW v \in Verification, Verify(v)
          PROVE  Single'
      BY <1>2, <2>2, SingleVerify
    <2>3. Fields(Now) /\ Now.open = open /\ Now.index = index
          /\ Now.answers = answers
      BY DEF Fields, Now
    <2>4. ASSUME NEW r \in Remote, NEW q \in Range(list[r])
          PROVE  q \in open
      BY <1>2, NowFields, GoodHalf DEF IInv, Half
    <2>5. ASSUME NEW s, Kept(Now, s), Becomes(s)
          PROVE  Single'
      BY <1>2, <2>3, <2>5, SingleKept DEF Kept
    <2>6. ASSUME NEW r \in Remote, NEW q \in Request, Timeout(r, q)
          PROVE  Single'
      <3>1. PICK e : on_timeout(r, q, e)
        BY <2>6 DEF Timeout
      <3>2. q \in open
        BY <2>4, <3>1 DEF on_timeout
      <3>3. \E k, s :
               /\ s = [Now EXCEPT !.pkt[r][q] = k]
               /\ \/ Becomes(remote_add_flags(s, r, {"W"}))
                  \/ Becomes(on_response(unlist(Now, r, q), q, "error", e))
                  \/ Becomes(on_response(s, q, "timeout", e))
        BY <3>1 DEF on_timeout
      <3>4. PICK k, s :
               /\ s = [Now EXCEPT !.pkt[r][q] = k]
               /\ \/ Becomes(remote_add_flags(s, r, {"W"}))
                  \/ Becomes(on_response(unlist(Now, r, q), q, "error", e))
                  \/ Becomes(on_response(s, q, "timeout", e))
        BY <3>3
      <3>5. Kept(Now, s)
        BY <2>3, <3>4, RemotesKeep
      <3>6. Kept(Now, remote_add_flags(s, r, {"W"}))
        <4>1. Fields(s)
          BY <3>5 DEF Kept
        <4>2. Kept(s, remote_add_flags(s, r, {"W"}))
          BY <4>1, RemotesKeep
        <4> QED
          BY <3>5, <4>2 DEF Kept
      <3>7. Kept(Now, unlist(Now, r, q))
        BY <2>3, RemotesKeep
      <3> QED
        BY <1>2, <2>5, <3>2, <3>4, <3>5, <3>6, <3>7, SingleResponse
    <2>7. ASSUME NEW r \in Remote, Write(r)
          PROVE  Single'
      <3>1. ASSUME NEW q, Becomes(written(r, q))
            PROVE  Single'
        <4> DEFINE u == remote_add_flags(Now, r, {"R"})
        <4>1. Kept(Now, u)
          BY <2>3, RemotesKeep
        <4> HIDE DEF u
        <4>2. PICK k : written(r, q) = [u EXCEPT !.pkt[r][q] = k]
          BY DEF written, u
        <4>3. Fields(u)
          BY <4>1 DEF Kept
        <4>4. Kept(u, written(r, q))
          <5>1. Kept(u, [u EXCEPT !.pkt[r][q] = k])
            BY <4>3, RemotesKeep
          <5> QED
            BY <4>2, <5>1
        <4>5. Kept(Now, written(r, q))
          BY <4>1, <4>4 DEF Kept
        <4> QED
          BY <2>5, <3>1, <4>5
      <3>2. ASSUME NEW q, Becomes([Now EXCEPT !.pkt[r][q].sent = "part"])
            PROVE  Single'
        <4>1. Kept(Now, [Now EXCEPT !.pkt[r][q].sent = "part"])
          BY <2>3, RemotesKeep
        <4> QED
          BY <2>5, <3>2, <4>1
      <3>3. Kept(Now, remote_del_flags(Now, r, {"W"}))
            /\ Kept(Now, remote_shutdown(Now, r))
        BY <2>3, RemotesKeep
      <3> QED
        BY <2>5, <2>7, <3>1, <3>2, <3>3 DEF Write, on_io_write
    <2>8. ASSUME NEW r \in Remote, Read(r)
          PROVE  Single'
      <3>1. PICK e : on_io_read(r, e)
        BY <2>8 DEF Read
      <3>2. /\ Kept(Now, remote_del_flags(Now, r, {"R"}))
            /\ Kept(Now, remote_shutdown(Now, r))
            /\ \A q : Kept(Now, unlist(Now, r, q))
        BY <2>3, RemotesKeep
      <3> QED
        BY <1>2, <2>4, <2>5, <3>1, <3>2, SingleResponse DEF on_io_read
    <2> QED
      BY <1>2, <2>1, <2>2, <2>6, <2>7, <2>8 DEF Next
  <1>3. IInv /\ Single => OneAnswer
    BY OneRequest, SMT DEF Single, OneAnswer
  <1> QED
    BY <1>1, <1>2, <1>3, Invariant, PTL DEF Spec

============================================================================
