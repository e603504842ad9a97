---------------------------- MODULE SendtoProofs ----------------------------
(***************************************************************************)
(* The client's exchange keeps its poll set and its descriptors in step,   *)
(* tries every address in every pass, gives an established stream its ten  *)
(* seconds, returns the right verdict and takes no longer than the code's  *)
(* comment says, for every list of servers, every number of addresses,     *)
(* passes and descriptors.                                                 *)
(*                                                                         *)
(* The invariant says of each connection what its state allows (Fine) and  *)
(* how often it has been tried (Due): once for each time the loops have    *)
(* come to it.  How often that is follows from the pass, the phase and the *)
(* position of the loop (Turns).  A loop that ends early, because no       *)
(* descriptor is left, is the one exception (Over), and then the call      *)
(* gives up.                                                               *)
(*                                                                         *)
(* The bound on the time rests on an account of what has been granted      *)
(* (Allowed): one second for each pair of a connection and a turn it was   *)
(* waited for (Spent), ten for each stream established later (Later), and  *)
(* the pauses of the passes, which double (Pauses).  The clock, the end    *)
(* time of the current wait and those of the streams never run ahead of    *)
(* it (Timely); the pairs are then counted.                                *)
(***************************************************************************)
EXTENDS Sendto, WellFoundedInduction, FiniteSetTheorems, TLAPS

(* The leaves are for Zenon, unless they name another prover or say ONLY. *)
USE Zenon

(* A set of natural numbers has a least one: where two sums first differ. *)
LEMMA LeastExists ==
  ASSUME NEW S \in SUBSET Nat, S # {}
  PROVE  \E x \in S : \A y \in S : x =< y
  <1> DEFINE R == {ss \in Nat \X Nat : ss[1] < ss[2]}
  <1>1. IsWellFoundedOn(R, Nat)
    BY NatLessThanWellFounded, SMT DEF OpToRel
  <1>2. PICK x \in S : \A y \in S : ~ (<<y, x>> \in R)
    <2> HIDE DEF R
    <2> QED
      BY <1>1, WFMin
  <1>3. ASSUME NEW y \in S
        PROVE  x =< y
    <2>1. ~ (<<y, x>> \in R) /\ x \in Nat /\ y \in Nat
      BY <1>2, SMT
    <2> QED
      BY <2>1, SMT
  <1> QED
    BY <1>3, SMT

(* A bounded one has a greatest: the end time that get_endtime() returns. *)
LEMMA GreatestExists ==
  ASSUME NEW n \in Nat, NEW S \in SUBSET (0 .. n), S # {}
  PROVE  \E x \in S : \A y \in S : x >= y
  <1> DEFINE T == {k \in 0 .. n : n - k \in S}
  <1>1. ASSUME NEW z \in S
        PROVE  n - z \in T
    <2>1. z \in 0 .. n /\ n - z \in 0 .. n /\ n - (n - z) = z
      BY SMT
    <2> QED
      BY <2>1, SMT
  <1>2. T \in SUBSET Nat
    BY SMT
  <1>3. T # {}
    BY <1>1
  <1>4. \A k \in T : k \in Nat /\ n - k \in S
    BY SMT
  <1> HIDE DEF T
  <1>5. PICK m \in T : \A y \in T : m =< y
    BY <1>2, <1>3, LeastExists, SMT
  <1>6. ASSUME NEW y \in S
        PROVE  n - m >= y
    <2>1. m =< n - y
      BY <1>1, <1>5, SMT
    <2> QED
      BY <2>1, <1>4, SMT
  <1> QED
    BY <1>4, <1>6, SMT

Live(c) == c.state \in {"CONNECTING", "WRITING", "READING"}

(* A connection in itself, at time t. *)
Fine(c, t) ==
  /\ (c.poll # "-") <=> Live(c)
  /\ Live(c) /\ c.transport # "HTTPS" => (c.poll = "R" <=> c.state = "READING")
  /\ c.transport = "UDP" => c.state \in {"INITIALIZING", "READING", "FAILED"}
  /\ c.state \in {"INITIALIZING", "CONNECTING"} => c.established = "no"
  /\ c.state # "INITIALIZING" => c.tries >= 1
  /\ c.established = "later" /\ c.state \in {"WRITING", "READING"} =>
       c.endtime = c.since + 10
  /\ c.endtime <= t + 10

(* How often it has been tried, when the loops have come to it m times. *)
Due(c, m, over) ==
  /\ c.tries <= m /\ (m >= 1 => c.tries >= 1)
  /\ c.transport = "UDP" /\ c.state \in {"INITIALIZING", "READING"} =>
       c.tries = m \/ over

(* The current loop has come to connection k, and so has the current pass. *)
Come(k) == k < i \/ (k = i /\ waiting = "conn")

Reached(k) ==
  IF phase = "again" THEN Come(k)
  ELSE IF phase = "deferred" THEN ~conns[k].defer \/ Come(k)
  ELSE ~conns[k].defer /\ Come(k)

Turns(k) == pass + IF Reached(k) THEN 1 ELSE 0

(* No descriptor is left in a later pass, and its loop has ended. *)
Over ==
  /\ phase = "again" /\ i > Len(conns)
  /\ \A k \in DOMAIN conns : conns[k].poll = "-"

Places ==
  /\ phase = "again" <=> pass >= 1
  /\ phase # "first" => s = Len(servers)
  /\ waiting = "pass" => i > Len(conns) /\ phase # "first"
  /\ waiting = "conn" => i <= Len(conns)

Descriptors ==
  /\ \A k \in DOMAIN conns :
       conns[k].fd <=> (result = "none" /\ Live(conns[k]))
  /\ nfds <= MAX_POLLFDS

Answers ==
  /\ result = "none" => winner = 0
  /\ result = "none" => (err <=> \E k \in DOMAIN conns : conns[k].refused)

Each ==
  \A k \in DOMAIN conns :
    /\ Fine(conns[k], now)
    /\ result = "none" => Due(conns[k], Turns(k), Over)

IInv ==
  /\ TypeOK /\ Places /\ Descriptors /\ Answers /\ Verdict /\ Each

-----------------------------------------------------------------------------
(* A list of connections in which one is replaced. *)
LEMMA Replaced ==
  ASSUME NEW q \in Seq(Connection), NEW k \in DOMAIN q, NEW d \in Connection,
         NEW r, r = [q EXCEPT ![k] = d]
  PROVE  /\ r \in Seq(Connection) /\ Len(r) = Len(q) /\ DOMAIN r = DOMAIN q
         /\ r[k] = d /\ \A j \in DOMAIN q : j # k => r[j] = q[j]
  BY SMT

(* The indices of a list. *)
LEMMA Indices ==
  ASSUME NEW q \in Seq(Connection)
  PROVE  /\ Len(q) \in Nat /\ DOMAIN q = 1 .. Len(q)
         /\ \A k \in DOMAIN q : q[k] \in Connection
  BY SMT

(* The descriptors of the poll set can be counted. *)
LEMMA Countable ==
  ASSUME NEW q \in Seq(Connection), NEW S \in SUBSET (DOMAIN q)
  PROVE  IsFiniteSet(S) /\ Cardinality(S) \in Nat /\ (Cardinality(S) = 0 <=> S = {})
  <1>1. Len(q) \in Nat /\ 1 \in Int /\ Len(q) \in Int /\ S \in SUBSET (1 .. Len(q))
    BY Indices, SMT
  <1>2. IsFiniteSet(1 .. Len(q))
    BY <1>1, FS_Interval
  <1>3. IsFiniteSet(S)
    BY <1>1, <1>2, FS_Subset
  <1> QED
    BY <1>3, FS_CardinalityType, FS_EmptySet

-----------------------------------------------------------------------------
(* What the loops look at in a connection is the same in another. *)
Alike(c, d) ==
  d.transport = c.transport /\ d.defer = c.defer /\ d.tries = c.tries

(* What service_fds may make of a connection it serves. *)
MayServe(c, d, t) ==
  /\ d \in Connection /\ Alike(c, d) /\ Fine(d, t) /\ (d.fd <=> Live(d))
  /\ d.transport = "UDP" => d.state = "FAILED" \/ d.state = c.state

(* kill_conn() leaves no descriptor. *)
LEMMA KillFacts ==
  ASSUME NEW c \in Connection, NEW t \in Nat, Fine(c, t), Live(c)
  PROVE  MayServe(c, kill_conn(c), t) /\ kill_conn(c).refused = c.refused
  <1> DEFINE d == kill_conn(c)
  <1>1. /\ d \in Connection /\ Alike(c, d) /\ d.refused = c.refused
        /\ d.poll = "-" /\ d.fd = FALSE /\ d.state = "FAILED"
        /\ d.endtime = 0 /\ d.since = 0 /\ d.established = c.established
    BY DEF kill_conn, Connection, Alike
  <1> HIDE DEF d
  <1>2. c.tries >= 1
    BY DEF Fine, Live
  <1>3. Fine(d, t) /\ ~Live(d)
    BY <1>1, <1>2, SMT DEF Fine, Live, Alike
  <1> QED
    BY <1>1, <1>3 DEF MayServe, d

(* A stream that is connected has ten seconds from now. *)
LEMMA ConnectFacts ==
  ASSUME NEW c \in Connection, NEW t \in Nat, Fine(c, t), c.state = "CONNECTING",
         c.fd <=> Live(c), NEW d \in Connection, Alike(c, d), d.fd = c.fd,
         d.state \in {"WRITING", "READING"}, d.endtime = t + 10, d.since = t,
         d.poll # "-", d.poll = "R" <=> d.state = "READING"
  PROVE  MayServe(c, d, t)
  <1>1. c.tries >= 1 /\ c.fd /\ c.transport # "UDP"
    BY DEF Fine, Live
  <1>2. Fine(d, t) /\ Live(d)
    BY <1>1, SMT DEF Fine, Live, Alike
  <1> QED
    BY <1>1, <1>2 DEF MayServe, Alike

(* A request that is written leaves the end time alone. *)
LEMMA WriteFacts ==
  ASSUME NEW c \in Connection, NEW t \in Nat, Fine(c, t), c.state = "WRITING",
         c.fd <=> Live(c), NEW d,
         d = [c EXCEPT !.state = "READING", !.poll = "R"]
  PROVE  MayServe(c, d, t) /\ d.refused = c.refused
  <1>1. /\ d \in Connection /\ Alike(c, d) /\ d.refused = c.refused
        /\ d.poll = "R" /\ d.fd = c.fd /\ d.state = "READING"
        /\ d.endtime = c.endtime /\ d.since = c.since
        /\ d.established = c.established
    BY DEF Connection, Alike
  <1>2. c.tries >= 1 /\ c.fd /\ c.transport # "UDP"
    BY DEF Fine, Live
  <1>3. Fine(d, t) /\ Live(d)
    BY <1>1, <1>2 DEF Fine, Live, Alike
  <1> QED
    BY <1>1, <1>2, <1>3 DEF MayServe, Alike

(* The TLS layer waits for either direction. *)
LEMMA TlsFacts ==
  ASSUME NEW c \in Connection, NEW t \in Nat, Fine(c, t), Live(c),
         c.transport = "HTTPS", c.fd <=> Live(c), NEW p \in {"R", "W"}, NEW d,
         d = [c EXCEPT !.poll = p]
  PROVE  MayServe(c, d, t) /\ d.refused = c.refused
  <1>1. /\ d \in Connection /\ Alike(c, d) /\ d.refused = c.refused
        /\ d.poll = p /\ d.fd = c.fd /\ d.state = c.state
        /\ d.endtime = c.endtime /\ d.since = c.since
        /\ d.established = c.established
    BY DEF Connection, Alike
  <1>2. Fine(d, t) /\ Live(d)
    BY <1>1 DEF Fine, Live, Alike
  <1> QED
    BY <1>1, <1>2 DEF MayServe

(* A reply the handler passes over leaves the connection as it is. *)
LEMMA RefuseFacts ==
  ASSUME NEW c \in Connection, NEW t \in Nat, Fine(c, t), c.fd <=> Live(c), NEW d,
         d = [c EXCEPT !.refused = TRUE]
  PROVE  MayServe(c, d, t) /\ d.refused
  <1>1. /\ d \in Connection /\ Alike(c, d) /\ d.refused
        /\ d.poll = c.poll /\ d.fd = c.fd /\ d.state = c.state
        /\ d.endtime = c.endtime /\ d.since = c.since
        /\ d.established = c.established
    BY DEF Connection, Alike
  <1>2. Fine(d, t) /\ (d.fd <=> Live(d))
    BY <1>1 DEF Fine, Live, Alike
  <1> QED
    BY <1>1, <1>2 DEF MayServe

-----------------------------------------------------------------------------
(* The poll set, and the facts about the list that every step needs. *)
Pollset == {c \in DOMAIN conns : conns[c].poll # "-"}

LEMMA PollsetFacts ==
  ASSUME conns \in Seq(Connection)
  PROVE  /\ IsFiniteSet(Pollset) /\ nfds = Cardinality(Pollset) /\ nfds \in Nat
         /\ nfds = 0 <=> \A k \in DOMAIN conns : conns[k].poll = "-"
  <1>1. Pollset \in SUBSET (DOMAIN conns) /\ nfds = Cardinality(Pollset)
    BY DEF Pollset, nfds
  <1>2. /\ IsFiniteSet(Pollset) /\ Cardinality(Pollset) \in Nat
        /\ (Cardinality(Pollset) = 0 <=> Pollset = {})
    BY <1>1, Countable
  <1>3. Pollset = {} <=> \A k \in DOMAIN conns : conns[k].poll = "-"
    BY DEF Pollset
  <1> QED
    BY <1>1, <1>2, <1>3

(* A poll set that lost a descriptor, or none, still has room. *)
LEMMA PollsetShrinks ==
  ASSUME conns \in Seq(Connection), nfds <= MAX_POLLFDS, Pollset' \subseteq Pollset,
         MAX_POLLFDS \in Nat, conns' \in Seq(Connection)
  PROVE  nfds' <= MAX_POLLFDS
  <1>1. IsFiniteSet(Pollset) /\ nfds = Cardinality(Pollset) /\ nfds \in Nat
    BY PollsetFacts
  <1>2. nfds' = Cardinality(Pollset')
    BY DEF Pollset, nfds
  <1>3. Cardinality(Pollset') <= Cardinality(Pollset)
    BY <1>1, FS_Subset
  <1>4. Cardinality(Pollset') \in Nat
    BY <1>1, FS_Subset, FS_CardinalityType
  <1> QED
    BY <1>1, <1>2, <1>3, <1>4, SMT

(* service_fds serves a connection and no reply is accepted. *)
LEMMA Served ==
  ASSUME IInv, Waiting, NEW c \in DOMAIN conns, conns[c].poll # "-",
         NEW d, MayServe(conns[c], d, now), conns' = [conns EXCEPT ![c] = d],
         UNCHANGED <<servers, strategy, s, phase, pass, delay, i, waiting, endtime,
                     now, winner, result>>,
         err' \in BOOLEAN, err' <=> \E k \in DOMAIN conns' : conns'[k].refused
  PROVE  IInv'
  <1>1. /\ conns \in Seq(Connection) /\ d \in Connection /\ result = "none"
        /\ now \in Nat
    BY DEF IInv, TypeOK, MayServe, Waiting
  <1>2. /\ conns' \in Seq(Connection) /\ Len(conns') = Len(conns)
        /\ DOMAIN conns' = DOMAIN conns /\ conns'[c] = d
        /\ \A j \in DOMAIN conns : j # c => conns'[j] = conns[j]
    BY <1>1, Replaced, SMT
  <1>3. TypeOK'
    BY <1>2 DEF IInv, TypeOK
  <1>4. Places'
    BY <1>2 DEF IInv, Places
  <1>5. Pollset' \subseteq Pollset
    BY <1>2 DEF Pollset
  <1>6. nfds' <= MAX_POLLFDS
    BY <1>1, <1>2, <1>5, PollsetShrinks, SendtoAssumption DEF IInv, Descriptors
  <1>7. Descriptors'
    BY <1>1, <1>2, <1>6 DEF IInv, Descriptors, MayServe
  <1>8. Answers' /\ Verdict'
    BY <1>1 DEF IInv, Answers, Verdict
  <1>9. ~Over
    BY DEF Over
  <1>10. ASSUME NEW k \in DOMAIN conns
         PROVE  Fine(conns'[k], now) /\ Due(conns'[k], Turns(k)', Over')
    <2>1. Alike(conns[k], conns'[k])
      BY <1>2 DEF MayServe, Alike
    <2>2. Turns(k)' = Turns(k)
      BY <2>1 DEF Turns, Reached, Come, Alike
    <2>3. Fine(conns[k], now) /\ Due(conns[k], Turns(k), FALSE)
      BY <1>1, <1>9 DEF IInv, Each, Due
    <2>4. CASE k = c
      BY <1>1, <1>2, <2>1, <2>2, <2>3, <2>4 DEF Due, MayServe, Alike
    <2>5. CASE k # c
      BY <1>2, <2>2, <2>3, <2>5 DEF Due
    <2> QED
      BY <2>4, <2>5
  <1>11. Each'
    BY <1>2, <1>10 DEF Each
  <1> QED
    BY <1>3, <1>4, <1>7, <1>8, <1>11 DEF IInv

(* What holds of a connection that is in the poll set. *)
LEMMA Polling ==
  ASSUME IInv, Waiting, NEW c \in DOMAIN conns, conns[c].poll # "-"
  PROVE  /\ conns[c] \in Connection /\ now \in Nat /\ Fine(conns[c], now)
         /\ Live(conns[c]) /\ (conns[c].fd <=> Live(conns[c]))
  <1>1. /\ conns \in Seq(Connection) /\ now \in Nat /\ Fine(conns[c], now)
        /\ result = "none" /\ (conns[c].fd <=> Live(conns[c]))
    BY DEF IInv, TypeOK, Each, Waiting, Descriptors
  <1> QED
    BY <1>1, SMT DEF Fine

(* ... and no reply came. *)
LEMMA ServeStep ==
  ASSUME IInv, NEW c \in DOMAIN conns, NEW d, Serve(c, d),
         MayServe(conns[c], d, now), d.refused = conns[c].refused
  PROVE  IInv'
  <1>1. conns \in Seq(Connection) /\ result = "none"
    BY DEF IInv, TypeOK, Serve, Waiting
  <1>2. d \in Connection /\ conns' = [conns EXCEPT ![c] = d] /\ err' = err
    BY DEF MayServe, Serve
  <1>3. /\ DOMAIN conns' = DOMAIN conns /\ conns'[c] = d
        /\ \A j \in DOMAIN conns : j # c => conns'[j] = conns[j]
    BY <1>1, <1>2, Replaced
  <1>4. \A k \in DOMAIN conns : conns'[k].refused = conns[k].refused
    BY <1>3
  <1>5. err \in BOOLEAN /\ (err <=> \E k \in DOMAIN conns : conns[k].refused)
    BY <1>1 DEF IInv, TypeOK, Answers
  <1>6. err' \in BOOLEAN /\ (err' <=> \E k \in DOMAIN conns' : conns'[k].refused)
    BY <1>2, <1>3, <1>4, <1>5
  <1> QED
    BY <1>6, Served DEF Serve

LEMMA LostGood ==
  ASSUME IInv, NEW c \in DOMAIN conns, Lost(c)
  PROVE  IInv'
  <1>1. Serve(c, kill_conn(conns[c])) /\ Waiting /\ conns[c].poll # "-"
    BY DEF Lost, Serve
  <1>2. /\ MayServe(conns[c], kill_conn(conns[c]), now)
        /\ kill_conn(conns[c]).refused = conns[c].refused
    BY <1>1, Polling, KillFacts
  <1> QED
    BY <1>1, <1>2, ServeStep

LEMMA ConnectGood ==
  ASSUME IInv, NEW c \in DOMAIN conns, service_connect(c)
  PROVE  IInv'
  <1>1. PICK st \in {"WRITING", "READING"} :
          Serve(c, [conns[c] EXCEPT !.state = st, !.endtime = now + 10,
                                    !.established = "later", !.since = now,
                                    !.poll = IF st = "READING" THEN "R" ELSE "W"])
    BY DEF service_connect
  <1> DEFINE p == IF st = "READING" THEN "R" ELSE "W"
             u == now + 10
             d == [conns[c] EXCEPT !.state = st, !.endtime = u,
                                   !.established = "later", !.since = now,
                                   !.poll = p]
  <1>2. Serve(c, d) /\ Waiting /\ conns[c].poll # "-"
    BY <1>1 DEF Serve
  <1>3. conns[c].state = "CONNECTING"
    BY DEF service_connect
  <1>4. /\ conns[c] \in Connection /\ now \in Nat /\ Fine(conns[c], now)
        /\ (conns[c].fd <=> Live(conns[c]))
    BY <1>2, Polling
  <1>5. p \in {"R", "W"} /\ (p = "R" <=> st = "READING")
    OBVIOUS
  <1>6. u \in Nat /\ u = now + 10
    BY <1>4, SMT
  <1> HIDE DEF p, u
  <1>7. /\ d \in Connection /\ Alike(conns[c], d) /\ d.refused = conns[c].refused
        /\ d.fd = conns[c].fd
    BY <1>4, <1>5, <1>6 DEF Connection, Alike
  <1>8. d.state = st /\ d.endtime = u /\ d.since = now /\ d.poll = p
    BY <1>4, <1>5, <1>6 DEF Connection
  <1> HIDE DEF d
  <1>9. MayServe(conns[c], d, now)
    BY <1>3, <1>4, <1>5, <1>6, <1>7, <1>8, ConnectFacts
  <1> QED
    BY <1>2, <1>7, <1>9, ServeStep

LEMMA WriteGood ==
  ASSUME IInv, NEW c \in DOMAIN conns, service_write(c)
  PROVE  IInv'
  <1> DEFINE d == [conns[c] EXCEPT !.state = "READING", !.poll = "R"]
  <1>1. /\ Serve(c, d) /\ Waiting /\ conns[c].poll # "-"
        /\ conns[c].state = "WRITING"
    BY DEF service_write, Serve
  <1>2. MayServe(conns[c], d, now) /\ d.refused = conns[c].refused
    BY <1>1, Polling, WriteFacts
  <1> HIDE DEF d
  <1> QED
    BY <1>1, <1>2, ServeStep

LEMMA TlsGood ==
  ASSUME IInv, NEW c \in DOMAIN conns, TlsWants(c)
  PROVE  IInv'
  <1>1. PICK p \in {"R", "W"} : Serve(c, [conns[c] EXCEPT !.poll = p])
    BY DEF TlsWants
  <1> DEFINE d == [conns[c] EXCEPT !.poll = p]
  <1>2. /\ Serve(c, d) /\ Waiting /\ conns[c].poll # "-"
        /\ conns[c].transport = "HTTPS"
    BY <1>1 DEF Serve, TlsWants
  <1>3. MayServe(conns[c], d, now) /\ d.refused = conns[c].refused
    BY <1>2, Polling, TlsFacts
  <1> HIDE DEF d
  <1> QED
    BY <1>2, <1>3, ServeStep

LEMMA UnavailableGood ==
  ASSUME IInv, NEW c \in DOMAIN conns, ReplyUnavailable(c)
  PROVE  IInv'
  <1> DEFINE d == [conns[c] EXCEPT !.refused = TRUE]
  <1>1. /\ Waiting /\ conns[c].poll # "-" /\ err' = TRUE
        /\ conns' = [conns EXCEPT ![c] = d]
    BY DEF ReplyUnavailable, HasReply
  <1>2. MayServe(conns[c], d, now) /\ d.refused
    BY <1>1, Polling, RefuseFacts
  <1> HIDE DEF d
  <1>3. DOMAIN conns' = DOMAIN conns /\ conns'[c] = d
    BY <1>1
  <1>4. err' \in BOOLEAN /\ (err' <=> \E k \in DOMAIN conns' : conns'[k].refused)
    BY <1>1, <1>2, <1>3
  <1> QED
    BY <1>1, <1>2, <1>4, Served DEF ReplyUnavailable

-----------------------------------------------------------------------------
(* A connection that differs in its descriptor only. *)
Kept(c, d) ==
  /\ Alike(c, d) /\ d.state = c.state /\ d.poll = c.poll /\ d.refused = c.refused
  /\ d.endtime = c.endtime /\ d.since = c.since /\ d.established = c.established

(* The cleanup closes every descriptor and changes nothing else. *)
LEMMA Closed ==
  ASSUME NEW q \in Seq(Connection), NEW r,
         r = [k \in DOMAIN q |-> [q[k] EXCEPT !.fd = FALSE]]
  PROVE  /\ r \in Seq(Connection) /\ Len(r) = Len(q) /\ DOMAIN r = DOMAIN q
         /\ \A k \in DOMAIN q : Kept(q[k], r[k]) /\ ~r[k].fd
  <1>1. Len(q) \in Nat /\ DOMAIN q = 1 .. Len(q)
        /\ \A k \in DOMAIN q : q[k] \in Connection
    BY Indices
  <1>2. ASSUME NEW k \in DOMAIN q
        PROVE  r[k] \in Connection /\ Kept(q[k], r[k]) /\ ~r[k].fd
    <2>1. q[k] \in Connection /\ r[k] = [q[k] EXCEPT !.fd = FALSE]
      BY <1>1
    <2> QED
      BY <2>1 DEF Connection, Kept, Alike
  <1>3. r \in Seq(Connection) /\ Len(r) = Len(q) /\ DOMAIN r = DOMAIN q
    <2>1. \A k \in 1 .. Len(q) : r[k] \in Connection
      BY <1>1, <1>2
    <2>2. r = [k \in 1 .. Len(q) |-> r[k]]
      BY <1>1
    <2>3. r \in [1 .. Len(q) -> Connection]
      BY <2>1, <2>2
    <2> QED
      BY <1>1, <2>3, SMT
  <1> QED
    BY <1>2, <1>3

(* The call returns. *)
LEMMA Ended ==
  ASSUME IInv, result = "none",
         result' \in {"reply", "unreach", "svc_unavailable", "error"},
         conns' = [k \in DOMAIN conns |-> [conns[k] EXCEPT !.fd = FALSE]],
         waiting' \in {waiting, "no"},
         UNCHANGED <<servers, strategy, s, phase, pass, delay, i, endtime, now>>,
         err' \in BOOLEAN, winner' \in 0 .. Len(conns),
         result' = "reply" <=> winner' # 0,
         winner' # 0 => conns[winner'].state = "READING",
         result' = "svc_unavailable" => \E k \in DOMAIN conns : conns[k].refused,
         result' = "unreach" => ~\E k \in DOMAIN conns : conns[k].refused
  PROVE  IInv'
  <1>1. conns \in Seq(Connection) /\ result' # "none"
    BY DEF IInv, TypeOK
  <1>2. conns' \in Seq(Connection) /\ Len(conns') = Len(conns)
        /\ DOMAIN conns' = DOMAIN conns
    BY <1>1, Closed
  <1>3. \A k \in DOMAIN conns : Kept(conns[k], conns'[k]) /\ ~conns'[k].fd
    BY <1>1, Closed
  <1>4. TypeOK'
    BY <1>2 DEF IInv, TypeOK
  <1>5. Places'
    BY <1>2 DEF IInv, Places
  <1>6. Pollset' \subseteq Pollset
    BY <1>2, <1>3 DEF Pollset, Kept
  <1>7. nfds' <= MAX_POLLFDS
    BY <1>1, <1>2, <1>6, PollsetShrinks, SendtoAssumption DEF IInv, Descriptors
  <1>8. Descriptors'
    BY <1>1, <1>2, <1>3, <1>7 DEF Descriptors
  <1>9. Answers'
    BY <1>1 DEF Answers
  <1>10. winner' # 0 => winner' \in DOMAIN conns
    BY <1>1, Indices, SMT
  <1>11. Verdict'
    <2>1. winner' # 0 => conns'[winner'].state = "READING"
      BY <1>3, <1>10 DEF Kept
    <2>2. \A k \in DOMAIN conns : conns'[k].refused = conns[k].refused
      BY <1>3 DEF Kept
    <2>3. (\E k \in DOMAIN conns' : conns'[k].refused)
            <=> \E k \in DOMAIN conns : conns[k].refused
      BY <1>2, <2>2
    <2> QED
      BY <2>1, <2>3 DEF Verdict
  <1>12. ASSUME NEW k \in DOMAIN conns
         PROVE  Fine(conns'[k], now)
    <2>1. Fine(conns[k], now)
      BY DEF IInv, Each
    <2> QED
      BY <1>3, <2>1, SMT DEF Fine, Live, Alike, Kept
  <1>13. Each'
    BY <1>1, <1>2, <1>12 DEF Each
  <1> QED
    BY <1>4, <1>5, <1>8, <1>9, <1>11, <1>13 DEF IInv

LEMMA FinalGood ==
  ASSUME IInv, NEW c \in DOMAIN conns, ReplyFinal(c)
  PROVE  IInv'
  <1>1. conns \in Seq(Connection) /\ result = "none" /\ conns[c].state = "READING"
        /\ conns[c].poll # "-"
    BY DEF IInv, TypeOK, ReplyFinal, HasReply, Waiting
  <1>2. c \in 0 .. Len(conns) /\ c # 0
    BY <1>1, Indices, SMT
  <1>3. result' = "reply" /\ waiting' = "no"
        /\ conns' = [k \in DOMAIN conns |-> [conns[k] EXCEPT !.fd = FALSE]]
    BY <1>1, <1>2 DEF ReplyFinal, Return
  <1> QED
    BY <1>1, <1>2, <1>3, Ended DEF ReplyFinal

(* The call returns without a winner. *)
LEMMA Unanswered ==
  ASSUME IInv, result = "none", NEW done \in BOOLEAN, Return(done, 0, conns, err),
         UNCHANGED <<servers, strategy, s, phase, pass, delay, i, endtime, now,
                     err, winner>>
  PROVE  IInv'
  <1>1. /\ err \in BOOLEAN /\ winner = 0 /\ winner \in 0 .. Len(conns)
        /\ err <=> \E k \in DOMAIN conns : conns[k].refused
    BY DEF IInv, TypeOK, Answers
  <1>2. /\ result' = (IF err THEN "svc_unavailable" ELSE "unreach")
        /\ waiting' = "no"
        /\ conns' = [k \in DOMAIN conns |-> [conns[k] EXCEPT !.fd = FALSE]]
    BY DEF Return
  <1> QED
    BY <1>1, <1>2, Ended

LEMMA GiveUpGood ==
  ASSUME IInv, GiveUp
  PROVE  IInv'
  <1>1. result = "none" /\ winner = 0
    BY DEF IInv, Answers, GiveUp, WaitOver, Waiting
  <1> QED
    BY <1>1, Unanswered DEF GiveUp

LEMMA PollFailsGood ==
  ASSUME IInv, PollFails
  PROVE  IInv'
  <1>1. result = "none"
    BY DEF PollFails, Waiting
  <1> QED
    BY <1>1, Unanswered DEF PollFails

LEMMA ResolveFailsGood ==
  ASSUME IInv, ResolveFails
  PROVE  IInv'
  <1>1. result = "none" /\ winner = 0 /\ err \in BOOLEAN /\ winner \in 0 .. Len(conns)
    BY DEF IInv, TypeOK, Answers, ResolveFails, Busy
  <1>2. result' = "error" /\ waiting' = waiting
        /\ conns' = [k \in DOMAIN conns |-> [conns[k] EXCEPT !.fd = FALSE]]
    BY DEF ResolveFails
  <1> QED
    BY <1>1, <1>2, Ended DEF ResolveFails

-----------------------------------------------------------------------------
(* The loops move on, or time passes; the connections stay as they are. *)
LEMMA Moved ==
  ASSUME IInv, result = "none", UNCHANGED <<conns, err, winner, result>>,
         now' \in Nat, now' >= now, TypeOK', Places',
         \A k \in DOMAIN conns : Due(conns[k], Turns(k)', Over')
  PROVE  IInv'
  <1>1. Descriptors' /\ Answers' /\ Verdict'
    BY DEF IInv, Descriptors, Answers, Verdict, nfds
  <1>2. ASSUME NEW k \in DOMAIN conns
        PROVE  Fine(conns[k], now')
    <2>1. Fine(conns[k], now) /\ now \in Nat /\ conns[k] \in Connection
      BY Indices DEF IInv, Each, TypeOK
    <2>2. conns[k].endtime \in Nat
      BY <2>1 DEF Connection
    <2> QED
      BY <2>1, <2>2, SMT DEF Fine
  <1>3. Each'
    BY <1>2 DEF Each
  <1> QED
    BY <1>1, <1>3 DEF IInv

(* What is known of a connection while the call goes on. *)
LEMMA Known ==
  ASSUME IInv, result = "none", NEW k \in DOMAIN conns
  PROVE  /\ k \in Nat /\ 1 <= k /\ k <= Len(conns) /\ Len(conns) \in Nat
         /\ conns[k] \in Connection /\ conns[k].tries \in Nat
         /\ conns[k].defer \in BOOLEAN
         /\ Fine(conns[k], now) /\ Due(conns[k], Turns(k), Over)
         /\ pass \in Nat /\ i \in Nat /\ i >= 1
  <1>1. conns \in Seq(Connection) /\ pass \in Nat /\ i \in Nat /\ i >= 1
    BY SendtoAssumption, SMT DEF IInv, TypeOK
  <1>2. /\ k \in Nat /\ 1 <= k /\ k <= Len(conns) /\ Len(conns) \in Nat
        /\ conns[k] \in Connection
    BY <1>1, Indices, SMT
  <1>3. conns[k].tries \in 0 .. MAX_PASS /\ conns[k].defer \in BOOLEAN
    BY <1>2 DEF Connection
  <1>4. conns[k].tries \in Nat
    BY <1>3, SendtoAssumption, SMT
  <1> QED
    BY <1>1, <1>2, <1>3, <1>4 DEF IInv, Each

LEMMA FirstPassDoneGood ==
  ASSUME IInv, FirstPassDone
  PROVE  IInv'
  <1>1. /\ result = "none" /\ waiting = "no" /\ phase = "first" /\ i > Len(conns)
        /\ s = Len(servers) /\ phase' = "deferred" /\ i' = 1 /\ waiting' = "no"
        /\ UNCHANGED <<servers, strategy, s, conns, pass, delay, endtime, now, err,
                       winner, result>>
    BY DEF FirstPassDone, Busy
  <1>2. conns \in Seq(Connection) /\ now \in Nat
    BY DEF IInv, TypeOK
  <1>3. TypeOK'
    BY <1>1, <1>2, Indices, SMT DEF IInv, TypeOK
  <1>4. Places'
    BY <1>1 DEF IInv, Places
  <1>5. ASSUME NEW k \in DOMAIN conns
        PROVE  Due(conns[k], Turns(k)', Over')
    <2>1. Reached(k)' <=> Reached(k)
      BY <1>1, Known, SMT DEF Reached, Come
    <2>2. Turns(k)' = Turns(k)
      BY <1>1, <2>1 DEF Turns
    <2>3. ~Over
      BY <1>1 DEF Over
    <2> QED
      BY <1>1, <2>2, <2>3, Known DEF Due
  <1> QED
    BY <1>1, <1>2, <1>3, <1>4, <1>5, Moved, SMT

LEMMA PassEndGood ==
  ASSUME IInv, PassEnd
  PROVE  IInv'
  <1>1. /\ result = "none" /\ waiting = "no" /\ phase # "first" /\ i > Len(conns)
        /\ waiting' = "pass" /\ endtime' = now + delay
        /\ UNCHANGED <<servers, strategy, s, conns, phase, pass, delay, i, now,
                       err, winner, result>>
    BY DEF PassEnd, Busy
  <1>2. conns \in Seq(Connection) /\ now \in Nat
    BY DEF IInv, TypeOK
  <1>3. TypeOK'
    BY <1>1, <1>2, SMT DEF IInv, TypeOK
  <1>4. Places'
    BY <1>1 DEF IInv, Places
  <1>5. ASSUME NEW k \in DOMAIN conns
        PROVE  Due(conns[k], Turns(k)', Over')
    <2>1. Reached(k)' <=> Reached(k)
      BY <1>1, Known DEF Reached, Come
    <2>2. Turns(k)' = Turns(k)
      BY <1>1, <2>1 DEF Turns
    <2>3. Over' <=> Over
      BY <1>1 DEF Over
    <2> QED
      BY <1>1, <2>2, <2>3, Known DEF Due
  <1> QED
    BY <1>1, <1>2, <1>3, <1>4, <1>5, Moved, SMT

LEMMA SkipGood ==
  ASSUME IInv, Skip
  PROVE  IInv'
  <1>1. /\ result = "none" /\ waiting = "no" /\ i \in DOMAIN conns /\ i' = i + 1
        /\ ~Contacted(conns[i]) \/ NothingToSend(conns[i])
        /\ UNCHANGED <<servers, strategy, s, conns, phase, pass, delay, waiting,
                       endtime, now, err, winner, result>>
    BY DEF Skip, Busy
  <1>2. /\ conns \in Seq(Connection) /\ now \in Nat /\ Len(conns) \in Nat
        /\ i \in Nat /\ 1 <= i /\ i <= Len(conns)
    BY <1>1, Known DEF IInv, TypeOK
  <1>3. TypeOK'
    BY <1>1, <1>2, SMT DEF IInv, TypeOK
  <1>4. Places'
    BY <1>1, <1>2 DEF IInv, Places
  <1>5. ~Over
    BY <1>1, <1>2, SMT DEF Over
  <1>6. ASSUME NEW k \in DOMAIN conns
        PROVE  Due(conns[k], Turns(k)', Over')
    <2>1. /\ k \in Nat /\ conns[k].tries \in Nat /\ conns[k].defer \in BOOLEAN
          /\ Fine(conns[k], now) /\ Due(conns[k], Turns(k), Over) /\ pass \in Nat
      BY <1>1, Known
    <2>2. CASE Reached(k)' <=> Reached(k)
      <3>1. Turns(k)' = Turns(k)
        BY <1>1, <2>2 DEF Turns
      <3> QED
        BY <1>5, <2>1, <3>1 DEF Due
    <2>3. CASE ~(Reached(k)' <=> Reached(k))
      <3>1. k = i /\ Contacted(conns[k]) /\ Turns(k) = pass /\ Turns(k)' = pass + 1
        BY <1>1, <1>2, <2>1, <2>3, SMT DEF Reached, Come, Contacted, Turns
      <3>2. NothingToSend(conns[k])
        BY <1>1, <3>1
      <3>3. conns[k].tries >= 1
        BY <2>1, <3>2 DEF NothingToSend, Fine
      <3>4. ~(conns[k].transport = "UDP" /\ conns[k].state \in {"INITIALIZING", "READING"})
        BY <3>2 DEF NothingToSend
      <3> QED
        BY <2>1, <3>1, <3>3, <3>4, SMT DEF Due
    <2> QED
      BY <2>2, <2>3
  <1> QED
    BY <1>1, <1>2, <1>3, <1>4, <1>6, Moved, SMT

LEMMA NextConnGood ==
  ASSUME IInv, NextConn
  PROVE  IInv'
  <1>1. /\ result = "none" /\ waiting = "conn" /\ waiting' = "no"
        /\ i' = IF phase = "again" /\ nfds = 0 THEN Len(conns) + 1 ELSE i + 1
        /\ UNCHANGED <<servers, strategy, s, conns, phase, pass, delay, endtime, now,
                       err, winner, result>>
    BY DEF NextConn, WaitOver, Waiting
  <1>2. /\ conns \in Seq(Connection) /\ now \in Nat /\ Len(conns) \in Nat
        /\ i \in Nat /\ 1 <= i /\ i <= Len(conns)
    BY <1>1, Indices, SMT DEF IInv, TypeOK, Places
  <1>3. TypeOK'
    BY <1>1, <1>2, SMT DEF IInv, TypeOK
  <1>4. Places'
    BY <1>1 DEF IInv, Places
  <1>5. ~Over
    BY <1>1, <1>2, SMT DEF Over
  <1>6. ASSUME NEW k \in DOMAIN conns
        PROVE  Due(conns[k], Turns(k)', Over')
    <2>1. /\ k \in Nat /\ k <= Len(conns) /\ conns[k].tries \in Nat
          /\ conns[k].defer \in BOOLEAN
          /\ Due(conns[k], Turns(k), Over) /\ pass \in Nat
      BY <1>1, Known
    <2>2. CASE phase = "again" /\ nfds = 0
      <3>1. Over'
        BY <1>1, <1>2, <2>2, PollsetFacts, SMT DEF Over
      <3>2. pass >= 1
        BY <2>2 DEF IInv, Places
      <3>3. Turns(k) \in {pass, pass + 1} /\ Turns(k)' = pass + 1
        BY <1>1, <1>2, <2>1, <2>2, SMT DEF Turns, Reached, Come
      <3> QED
        BY <2>1, <3>1, <3>2, <3>3, SMT DEF Due
    <2>3. CASE ~(phase = "again" /\ nfds = 0)
      <3>1. Reached(k)' <=> Reached(k)
        BY <1>1, <1>2, <2>1, <2>3, SMT DEF Reached, Come
      <3>2. Turns(k)' = Turns(k)
        BY <1>1, <3>1 DEF Turns
      <3> QED
        BY <1>5, <2>1, <3>2 DEF Due
    <2> QED
      BY <2>2, <2>3
  <1> QED
    BY <1>1, <1>2, <1>3, <1>4, <1>6, Moved, SMT

LEMMA NextPassGood ==
  ASSUME IInv, NextPass
  PROVE  IInv'
  <1>1. /\ result = "none" /\ waiting = "pass" /\ ~LastPass /\ waiting' = "no"
        /\ phase' = "again" /\ i' = 1 /\ pass' = pass + 1 /\ delay' = 2 * delay
        /\ UNCHANGED <<servers, strategy, s, conns, endtime, now, err, winner, result>>
    BY DEF NextPass, WaitOver, Waiting
  <1>2. /\ conns \in Seq(Connection) /\ now \in Nat /\ Len(conns) \in Nat
        /\ i \in Nat /\ i > Len(conns) /\ phase # "first" /\ pass \in Nat
    BY <1>1, Indices, SendtoAssumption, SMT DEF IInv, TypeOK, Places
  <1>3. TypeOK'
    <2>1. pass + 1 \in 0 .. MAX_PASS - 1
      BY <1>1, SendtoAssumption, SMT DEF LastPass, IInv, TypeOK
    <2>2. delay' \in Nat
      BY <1>1, SMT DEF IInv, TypeOK
    <2> QED
      BY <1>1, <1>2, <2>1, <2>2, SMT DEF IInv, TypeOK
  <1>4. Places'
    BY <1>1, <1>2, SMT DEF IInv, Places
  <1>5. ~Over
    BY <1>1, <1>2, PollsetFacts DEF Over, LastPass
  <1>6. ASSUME NEW k \in DOMAIN conns
        PROVE  Due(conns[k], Turns(k)', Over')
    <2>1. /\ k \in Nat /\ 1 <= k /\ k <= Len(conns)
          /\ conns[k].defer \in BOOLEAN
          /\ Due(conns[k], Turns(k), Over)
      BY <1>1, Known
    <2>2. Turns(k) = pass + 1 /\ Turns(k)' = pass + 1
      BY <1>1, <1>2, <2>1, SMT DEF Turns, Reached, Come, IInv, TypeOK
    <2> QED
      BY <1>5, <2>1, <2>2 DEF Due
  <1> QED
    BY <1>1, <1>2, <1>3, <1>4, <1>6, Moved, SMT

LEMMA TickGood ==
  ASSUME IInv, Tick
  PROVE  IInv'
  <1>1. /\ result = "none" /\ now' = now + 1
        /\ UNCHANGED <<servers, strategy, s, conns, phase, pass, delay, i, waiting,
                       endtime, err, winner, result>>
    BY DEF Tick, Waiting
  <1>2. TypeOK' /\ Places' /\ now' \in Nat /\ now' >= now
    BY <1>1, SMT DEF IInv, TypeOK, Places
  <1>3. ASSUME NEW k \in DOMAIN conns
        PROVE  Due(conns[k], Turns(k)', Over')
    <2>1. Turns(k)' = Turns(k) /\ (Over' <=> Over)
      BY <1>1 DEF Turns, Reached, Come, Over
    <2> QED
      BY <1>1, <2>1, Known DEF Due
  <1> QED
    BY <1>1, <1>2, <1>3, Moved

-----------------------------------------------------------------------------
(* maybe_send() tries to send on connection i, which becomes d. *)
LEMMA Sent ==
  ASSUME IInv, Busy, i \in DOMAIN conns, Contacted(conns[i]),
         conns[i].transport = "UDP" =>
           conns[i].state \in {"INITIALIZING", "READING"},
         NEW d, conns' = [conns EXCEPT ![i] = d],
         conns[i].tries + 1 \in 0 .. MAX_PASS => d \in Connection,
         d.transport = conns[i].transport, d.defer = conns[i].defer,
         d.tries = conns[i].tries + 1, d.refused = conns[i].refused,
         Fine(d, now), d.fd <=> Live(d),
         d.poll # "-" => conns[i].poll # "-" \/ nfds < MAX_POLLFDS,
         \/ waiting' = "conn" /\ endtime' = now + 1 /\ i' = i
         \/ i' = i + 1 /\ UNCHANGED <<waiting, endtime>>,
         UNCHANGED <<servers, strategy, s, phase, pass, delay, now, err, winner,
                     result>>
  PROVE  IInv'
  <1>1. /\ result = "none" /\ waiting = "no" /\ conns \in Seq(Connection)
        /\ now \in Nat /\ pass \in Nat /\ pass + 1 <= MAX_PASS
        /\ i \in Nat /\ 1 <= i /\ i <= Len(conns) /\ Len(conns) \in Nat
        /\ i' \in {i, i + 1}
    <2>1. /\ result = "none" /\ waiting = "no" /\ conns \in Seq(Connection)
          /\ now \in Nat /\ pass \in 0 .. MAX_PASS - 1 /\ i' \in {i, i + 1}
      BY DEF IInv, TypeOK, Busy
    <2>2. i \in Nat /\ 1 <= i /\ i <= Len(conns) /\ Len(conns) \in Nat
      BY <2>1, Known
    <2>3. pass \in Nat /\ pass + 1 <= MAX_PASS
      BY ONLY <2>1, SendtoAssumption
    <2> QED
      BY <2>1, <2>2, <2>3
  <1>2. ~Over
    BY <1>1, SMT DEF Over
  <1>3. /\ conns[i] \in Connection /\ conns[i].tries \in Nat
        /\ conns[i].defer \in BOOLEAN /\ Due(conns[i], Turns(i), Over)
    BY <1>1, Known
  <1>4. ~Reached(i)
    BY <1>1, <1>3, SMT DEF Reached, Come, Contacted
  <1>5. Due(conns[i], pass, FALSE)
    BY <1>1, <1>2, <1>3, <1>4, SMT DEF Turns, Due
  <1>6. conns[i].tries + 1 \in 0 .. MAX_PASS
    <2>1. /\ conns[i].tries <= pass /\ conns[i].tries \in Nat /\ pass \in Nat
          /\ pass + 1 <= MAX_PASS
      BY <1>1, <1>3, <1>5 DEF Due
    <2> QED
      BY ONLY <2>1, SendtoAssumption
  <1>7. /\ d \in Connection /\ conns' \in Seq(Connection)
        /\ Len(conns') = Len(conns) /\ DOMAIN conns' = DOMAIN conns
        /\ conns'[i] = d
        /\ \A j \in DOMAIN conns : j # i => conns'[j] = conns[j]
    BY <1>1, <1>6, Replaced, SMT
  <1>8. TypeOK'
    <2>1. TypeOK
      BY DEF IInv
    <2>2. i' \in 1 .. Len(conns') + 1
      <3>1. /\ i \in Nat /\ 1 <= i /\ i <= Len(conns) /\ Len(conns) \in Nat
            /\ i' \in {i, i + 1} /\ Len(conns') = Len(conns)
        BY <1>1, <1>7
      <3> QED
        BY ONLY <3>1
    <2>3. endtime' \in Nat
      <3>1. endtime \in Nat /\ now \in Nat
        BY <2>1 DEF TypeOK
      <3>2. now + 1 \in Nat
        BY ONLY <3>1
      <3> QED
        BY <3>1, <3>2
    <2>4. waiting' \in {"no", "conn", "pass"}
      BY <2>1 DEF TypeOK
    <2> QED
      BY <1>7, <2>1, <2>2, <2>3, <2>4 DEF TypeOK
  <1>9. Places'
    BY <1>1, <1>7 DEF IInv, Places
  <1>10. nfds' <= MAX_POLLFDS
    <2>1. CASE Pollset' \subseteq Pollset
      BY <1>1, <1>7, <2>1, PollsetShrinks, SendtoAssumption DEF IInv, Descriptors
    <2>2. CASE ~(Pollset' \subseteq Pollset)
      <3>1. Pollset' = Pollset \cup {i} /\ i \notin Pollset /\ nfds < MAX_POLLFDS
        BY <1>7, <2>2, SMT DEF Pollset
      <3>2. IsFiniteSet(Pollset) /\ nfds = Cardinality(Pollset) /\ nfds \in Nat
        BY <1>1, PollsetFacts
      <3>3. Cardinality(Pollset') = Cardinality(Pollset) + 1
        BY <3>1, <3>2, FS_AddElement
      <3>4. nfds' = Cardinality(Pollset')
        BY DEF Pollset, nfds
      <3> QED
        BY <3>1, <3>2, <3>3, <3>4, SendtoAssumption, SMT
    <2> QED
      BY <2>1, <2>2
  <1>11. Descriptors'
    BY <1>1, <1>7, <1>10 DEF IInv, Descriptors
  <1>12. Answers' /\ Verdict'
    <2>1. \A k \in DOMAIN conns : conns'[k].refused = conns[k].refused
      BY <1>7
    <2>2. (\E k \in DOMAIN conns' : conns'[k].refused)
            <=> \E k \in DOMAIN conns : conns[k].refused
      BY <1>7, <2>1
    <2> QED
      BY <1>1, <2>2 DEF IInv, Answers, Verdict
  <1>13. ASSUME NEW k \in DOMAIN conns
         PROVE  Fine(conns'[k], now) /\ Due(conns'[k], Turns(k)', Over')
    <2>1. CASE k = i
      <3>1. Reached(k)'
        BY <1>1, <1>3, <1>7, <2>1, SMT DEF Reached, Come, Contacted
      <3>2. Turns(k)' = pass + 1
        BY <3>1 DEF Turns
      <3>3. Due(conns'[k], Turns(k)', Over')
        BY <1>1, <1>3, <1>5, <1>7, <2>1, <3>2, SMT DEF Due
      <3> QED
        BY <1>7, <2>1, <3>3
    <2>2. CASE k # i
      <3>1. conns'[k] = conns[k] /\ k \in Nat /\ Fine(conns[k], now)
            /\ Due(conns[k], Turns(k), Over)
        BY <1>1, <1>7, <2>2, Known
      <3>2. Reached(k)' <=> Reached(k)
        BY <1>1, <2>2, <3>1, SMT DEF Reached, Come
      <3>3. Turns(k)' = Turns(k)
        BY <3>2 DEF Turns
      <3> QED
        BY <1>2, <3>1, <3>3 DEF Due
    <2> QED
      BY <2>1, <2>2
  <1>14. Each'
    BY <1>1, <1>7, <1>13 DEF Each
  <1> QED
    BY <1>8, <1>9, <1>11, <1>12, <1>14 DEF IInv

LEMMA RetransmitGood ==
  ASSUME IInv, Retransmit
  PROVE  IInv'
  <1> DEFINE c == conns[i]
             d == [c EXCEPT !.tries = c.tries + 1]
  <1>1. /\ Busy /\ i \in DOMAIN conns /\ Contacted(c) /\ c.transport = "UDP"
        /\ c.state = "READING" /\ conns' = [conns EXCEPT ![i] = d]
        /\ \/ waiting' = "conn" /\ endtime' = now + 1 /\ i' = i
           \/ i' = i + 1 /\ UNCHANGED <<waiting, endtime>>
        /\ UNCHANGED <<servers, strategy, s, phase, pass, delay, now, err, winner,
                       result>>
    BY DEF Retransmit
  <1>2. /\ c \in Connection /\ c.tries \in Nat /\ Fine(c, now) /\ result = "none"
        /\ (c.fd <=> Live(c))
    BY <1>1, Known DEF Busy, IInv, Descriptors
  <1> HIDE DEF c
  <1>3. /\ c.tries + 1 \in 0 .. MAX_PASS => d \in Connection
        /\ d.transport = c.transport /\ d.defer = c.defer /\ d.tries = c.tries + 1
        /\ d.refused = c.refused /\ d.fd = c.fd /\ d.poll = c.poll
        /\ d.state = c.state /\ d.established = c.established
        /\ d.endtime = c.endtime /\ d.since = c.since
    BY <1>2 DEF Connection
  <1> HIDE DEF d
  <1>4. Fine(d, now) /\ (d.fd <=> Live(d))
    BY <1>2, <1>3, SMT DEF Fine, Live
  <1>5. c.poll # "-"
    BY <1>1, <1>2 DEF Fine, Live
  <1> QED
    BY <1>1, <1>3, <1>4, <1>5, Sent DEF c

(* What start_connection() may make of a connection. *)
MayStart(c, d, t) ==
  /\ c.tries + 1 \in 0 .. MAX_PASS => d \in Connection
  /\ d.transport = c.transport /\ d.defer = c.defer /\ d.tries = c.tries + 1
  /\ d.refused = c.refused /\ Fine(d, t) /\ (d.fd <=> Live(d))
  /\ d.endtime = c.endtime
  /\ d.poll # "-" => nfds < MAX_POLLFDS

LEMMA StartFacts ==
  ASSUME NEW c \in Connection, c.state = "INITIALIZING", NEW t \in Nat, Fine(c, t),
         c.fd <=> Live(c), c.tries \in Nat, nfds \in Nat,
         NEW d \in start_connection(c)
  PROVE  MayStart(c, d, t)
  <1> DEFINE e == [c EXCEPT !.tries = c.tries + 1]
             o == [e EXCEPT !.fd = TRUE]
             Base(r) == /\ c.tries + 1 \in 0 .. MAX_PASS => r \in Connection
                        /\ r.transport = c.transport /\ r.defer = c.defer
                        /\ r.tries = c.tries + 1 /\ r.refused = c.refused
                        /\ r.endtime = c.endtime
  <1>1. /\ Base(e) /\ e.state = "INITIALIZING" /\ e.fd = c.fd /\ e.poll = c.poll
        /\ e.established = c.established
    BY DEF Connection
  <1>2. Base(o) /\ o.fd = TRUE
    BY DEF Connection
  <1>3. c.fd = FALSE /\ c.poll = "-" /\ c.established = "no"
    BY DEF Fine, Live, Connection
  <1>4. \/ d = e \/ d = [e EXCEPT !.state = "FAILED"]
        \/ /\ nfds < MAX_POLLFDS
           /\ \/ /\ c.transport = "UDP"
                 /\ d = [o EXCEPT !.state = "READING", !.poll = "R"]
              \/ /\ c.transport # "UDP"
                 /\ \/ d = [o EXCEPT !.state = "CONNECTING", !.poll = "W"]
                    \/ d = [o EXCEPT !.state = "WRITING", !.poll = "W",
                                     !.established = "at once"]
    BY SendtoAssumption, SMT DEF start_connection
  <1>5. CASE d = e
    <2> HIDE DEF e, o
    <2> QED
      BY <1>1, <1>3, <1>5 DEF MayStart, Fine, Live
  <1>6. CASE d = [e EXCEPT !.state = "FAILED"]
    <2>1. Base(d) /\ d.state = "FAILED" /\ d.fd = c.fd /\ d.poll = c.poll
      BY <1>6 DEF Connection
    <2> HIDE DEF e, o
    <2> QED
      BY <1>3, <2>1, SMT DEF MayStart, Fine, Live
  <1>7. CASE /\ nfds < MAX_POLLFDS /\ c.transport = "UDP"
             /\ d = [o EXCEPT !.state = "READING", !.poll = "R"]
    <2>1. /\ Base(d) /\ d.state = "READING" /\ d.fd = TRUE /\ d.poll = "R"
          /\ d.established = c.established
      BY <1>7 DEF Connection
    <2> HIDE DEF e, o
    <2> QED
      BY <1>3, <1>7, <2>1, SMT DEF MayStart, Fine, Live
  <1>8. CASE /\ nfds < MAX_POLLFDS /\ c.transport # "UDP"
             /\ d = [o EXCEPT !.state = "CONNECTING", !.poll = "W"]
    <2>1. /\ Base(d) /\ d.state = "CONNECTING" /\ d.fd = TRUE /\ d.poll = "W"
          /\ d.established = c.established
      BY <1>8 DEF Connection
    <2> HIDE DEF e, o
    <2> QED
      BY <1>3, <1>8, <2>1, SMT DEF MayStart, Fine, Live
  <1>9. CASE /\ nfds < MAX_POLLFDS /\ c.transport # "UDP"
             /\ d = [o EXCEPT !.state = "WRITING", !.poll = "W",
                              !.established = "at once"]
    <2>1. /\ Base(d) /\ d.state = "WRITING" /\ d.fd = TRUE /\ d.poll = "W"
          /\ d.established = "at once"
      BY <1>9 DEF Connection
    <2> HIDE DEF e, o
    <2> QED
      BY <1>3, <1>9, <2>1, SMT DEF MayStart, Fine, Live
  <1> HIDE DEF e, o
  <1> QED
    BY <1>4, <1>5, <1>6, <1>7, <1>8, <1>9

LEMMA StartGood ==
  ASSUME IInv, Start
  PROVE  IInv'
  <1>1. /\ Busy /\ i \in DOMAIN conns /\ Contacted(conns[i])
        /\ conns[i].state = "INITIALIZING"
        /\ UNCHANGED <<servers, strategy, s, phase, pass, delay, now, err, winner,
                       result>>
    BY DEF Start
  <1>2. PICK d \in start_connection(conns[i]) :
          /\ conns' = [conns EXCEPT ![i] = d]
          /\ \/ waiting' = "conn" /\ endtime' = now + 1 /\ i' = i
             \/ i' = i + 1 /\ UNCHANGED <<waiting, endtime>>
    BY DEF Start
  <1>3. /\ conns[i] \in Connection /\ Fine(conns[i], now) /\ conns[i].tries \in Nat
        /\ (conns[i].fd <=> Live(conns[i])) /\ now \in Nat /\ nfds \in Nat
    BY <1>1, Known, PollsetFacts DEF Busy, IInv, Descriptors, TypeOK
  <1>4. MayStart(conns[i], d, now)
    BY <1>1, <1>2, <1>3, StartFacts
  <1> QED
    BY <1>1, <1>2, <1>4, Sent DEF MayStart

-----------------------------------------------------------------------------
(* A connection that nothing has been tried on. *)
Fresh ==
  {c \in Connection :
     /\ c.state = "INITIALIZING" /\ ~c.fd /\ c.poll = "-" /\ c.endtime = 0
     /\ c.tries = 0 /\ ~c.refused /\ c.established = "no"}

LEMMA AddFacts ==
  ASSUME NEW t \in Transports, NEW d \in BOOLEAN
  PROVE  add_connection(t, d) \in Fresh
  <1> DEFINE c == add_connection(t, d)
  <1>1. 0 \in 0 .. MAX_PASS /\ 0 \in Nat
    BY SendtoAssumption, SMT
  <1>2. c \in Connection
    BY <1>1 DEF Connection, add_connection
  <1>3. /\ c.state = "INITIALIZING" /\ ~c.fd /\ c.poll = "-" /\ c.endtime = 0
        /\ c.tries = 0 /\ ~c.refused /\ c.established = "no"
    BY DEF add_connection
  <1> HIDE DEF c
  <1> QED
    BY <1>2, <1>3 DEF Fresh, c

(* resolve_server() adds such connections only. *)
LEMMA ResolveFacts ==
  ASSUME NEW e \in ServerEntry, NEW n \in Nat
  PROVE  resolve_server(e, n) \in Seq(Fresh)
  <1>1. ASSUME NEW t \in Transports, NEW d \in BOOLEAN
        PROVE  [a \in 1 .. n |-> add_connection(t, d)] \in Seq(Fresh)
    <2>1. add_connection(t, d) \in Fresh
      BY AddFacts
    <2> QED
      BY <2>1, SMT
  <1>2. Preferred \in Transports /\ Other \in Transports
    BY DEF Preferred, Other, Transports
  <1>3. CASE strategy = "NO_UDP" /\ e.transport = "UDP"
    <2>1. resolve_server(e, n) = <<>>
      BY <1>3 DEF resolve_server
    <2> QED
      BY <2>1, SMT
  <1>4. CASE ~(strategy = "NO_UDP" /\ e.transport = "UDP") /\ ~e.named
    <2>1. e.transport \in Transports
      BY <1>4 DEF ServerEntry, Transports
    <2>2. (e.transport # Preferred) \in BOOLEAN
      OBVIOUS
    <2>3. add_connection(e.transport, e.transport # Preferred) \in Fresh
      BY <2>1, <2>2, AddFacts
    <2>4. resolve_server(e, n)
            = <<add_connection(e.transport, e.transport # Preferred)>>
      BY <1>4 DEF resolve_server
    <2> QED
      BY <2>3, <2>4, SMT
  <1>5. CASE /\ ~(strategy = "NO_UDP" /\ e.transport = "UDP") /\ e.named
             /\ e.transport # "TCP_OR_UDP"
    <2>1. e.transport \in Transports
      BY <1>5 DEF ServerEntry, Transports
    <2>2. resolve_server(e, n) = [a \in 1 .. n |-> add_connection(e.transport, FALSE)]
      BY <1>5 DEF resolve_server
    <2> QED
      BY <1>1, <2>1, <2>2
  <1>6. CASE /\ ~(strategy = "NO_UDP" /\ e.transport = "UDP") /\ e.named
             /\ e.transport = "TCP_OR_UDP"
    <2> DEFINE p == [a \in 1 .. n |-> add_connection(Preferred, FALSE)]
               o == [a \in 1 .. n |-> add_connection(Other, TRUE)]
               r == IF strategy = "NO_UDP" THEN <<>> ELSE o
    <2>1. p \in Seq(Fresh) /\ o \in Seq(Fresh)
      BY <1>1, <1>2
    <2>2. resolve_server(e, n) = p \o r
      BY <1>6 DEF resolve_server
    <2> HIDE DEF p, o
    <2>3. r \in Seq(Fresh)
      BY <2>1, SMT
    <2> HIDE DEF r
    <2> QED
      BY <2>1, <2>2, <2>3, SMT
  <1> QED
    BY <1>3, <1>4, <1>5, <1>6

(* The list of connections grows by new ones. *)
LEMMA Resolved ==
  ASSUME IInv, ResolveServer
  PROVE  /\ Len(conns) \in Nat /\ Len(conns') \in Nat /\ Len(conns) <= Len(conns')
         /\ DOMAIN conns = 1 .. Len(conns) /\ DOMAIN conns' = 1 .. Len(conns')
         /\ conns' \in Seq(Connection)
         /\ \A k \in DOMAIN conns : conns'[k] = conns[k]
         /\ \A k \in DOMAIN conns' : k \notin DOMAIN conns => conns'[k] \in Fresh
  <1>1. /\ result = "none" /\ waiting = "no" /\ phase = "first" /\ i > Len(conns)
        /\ s < Len(servers) /\ s' = s + 1
        /\ UNCHANGED <<servers, strategy, phase, pass, delay, i, waiting, endtime, now,
                       err, winner, result>>
    BY DEF ResolveServer, Busy
  <1>2. /\ conns \in Seq(Connection) /\ now \in Nat /\ Len(conns) \in Nat
        /\ DOMAIN conns = 1 .. Len(conns) /\ i = Len(conns) + 1 /\ pass = 0
        /\ s \in Nat /\ Len(servers) \in Nat /\ servers \in Seq(ServerEntry)
    BY <1>1, Indices, SendtoAssumption, SMT DEF IInv, TypeOK, Places
  <1>3. PICK n \in 0 .. MaxAddrs : conns' = conns \o resolve_server(servers[s + 1], n)
    BY DEF ResolveServer
  <1> DEFINE q == resolve_server(servers[s + 1], n)
  <1>4. q \in Seq(Fresh)
    <2>1. servers[s + 1] \in ServerEntry
      BY <1>1, <1>2, SMT
    <2>2. n \in Nat
      BY SendtoAssumption, SMT
    <2> QED
      BY <2>1, <2>2, ResolveFacts
  <1>5. conns' = conns \o q
    BY <1>3
  <1> HIDE DEF q
  <1>6. /\ q \in Seq(Connection) /\ Len(q) \in Nat
        /\ \A j \in 1 .. Len(q) : q[j] \in Fresh
    <2>1. Fresh \subseteq Connection
      BY DEF Fresh
    <2> QED
      BY <1>4, <2>1, SMT
  <1>7. /\ conns' \in Seq(Connection) /\ Len(conns') = Len(conns) + Len(q)
        /\ DOMAIN conns' = 1 .. (Len(conns) + Len(q))
        /\ \A k \in DOMAIN conns : conns'[k] = conns[k]
        /\ \A k \in DOMAIN conns' : k \notin DOMAIN conns => conns'[k] \in Fresh
    <2>1. /\ conns' \in Seq(Connection) /\ Len(conns') = Len(conns) + Len(q)
          /\ DOMAIN conns' = 1 .. (Len(conns) + Len(q))
      BY <1>2, <1>5, <1>6, SMT
    <2>2. \A k \in DOMAIN conns : conns'[k] = conns[k]
      BY <1>2, <1>5, <1>6, SMT
    <2>3. ASSUME NEW k \in DOMAIN conns', k \notin DOMAIN conns
          PROVE  conns'[k] \in Fresh
      <3>1. /\ k \in Nat /\ Len(conns) < k /\ k <= Len(conns) + Len(q)
            /\ k - Len(conns) \in 1 .. Len(q)
        BY <1>2, <1>6, <2>1, <2>3, SMT
      <3>2. conns'[k] = q[k - Len(conns)]
        BY <1>2, <1>5, <1>6, <3>1, SMT
      <3> QED
        BY <1>6, <3>1, <3>2
    <2> QED
      BY <2>1, <2>2, <2>3
  <1> QED
    BY <1>2, <1>6, <1>7, SMT

LEMMA ResolveServerGood ==
  ASSUME IInv, ResolveServer
  PROVE  IInv'
  <1>1. /\ result = "none" /\ waiting = "no" /\ phase = "first" /\ i > Len(conns)
        /\ s < Len(servers) /\ s' = s + 1
        /\ UNCHANGED <<servers, strategy, phase, pass, delay, i, waiting, endtime, now,
                       err, winner, result>>
    BY DEF ResolveServer, Busy
  <1>2. /\ conns \in Seq(Connection) /\ now \in Nat /\ Len(conns) \in Nat
        /\ DOMAIN conns = 1 .. Len(conns) /\ i = Len(conns) + 1 /\ pass = 0
        /\ s \in Nat /\ Len(servers) \in Nat /\ servers \in Seq(ServerEntry)
    BY <1>1, Indices, SendtoAssumption, SMT DEF IInv, TypeOK, Places
  <1>3. /\ Len(conns') \in Nat /\ Len(conns) <= Len(conns')
        /\ DOMAIN conns' = 1 .. Len(conns') /\ conns' \in Seq(Connection)
        /\ \A k \in DOMAIN conns : conns'[k] = conns[k]
        /\ \A k \in DOMAIN conns' : k \notin DOMAIN conns => conns'[k] \in Fresh
    BY Resolved
  <1>4. TypeOK'
    <2>1. s' \in 0 .. Len(servers')
      BY <1>1, <1>2, SMT
    <2>2. i' \in 1 .. Len(conns') + 1 /\ winner' \in 0 .. Len(conns')
      BY <1>1, <1>2, <1>3, SMT DEF IInv, TypeOK
    <2> QED
      BY <1>1, <1>3, <2>1, <2>2 DEF IInv, TypeOK
  <1>5. Places'
    BY <1>1, <1>2 DEF IInv, Places
  <1>6. Pollset' \subseteq Pollset
    BY <1>3 DEF Pollset, Fresh
  <1>7. nfds' <= MAX_POLLFDS
    BY <1>2, <1>3, <1>6, PollsetShrinks, SendtoAssumption DEF IInv, Descriptors
  <1>8. Descriptors'
    <2>1. ASSUME NEW k \in DOMAIN conns'
          PROVE  conns'[k].fd <=> Live(conns'[k])
      <3>1. CASE k \in DOMAIN conns
        BY <1>1, <1>3, <3>1 DEF IInv, Descriptors
      <3>2. CASE k \notin DOMAIN conns
        BY <1>3, <3>2 DEF Fresh, Live
      <3> QED
        BY <3>1, <3>2
    <2> QED
      BY <1>1, <1>7, <2>1 DEF Descriptors
  <1>9. Answers' /\ Verdict'
    <2>1. (\E k \in DOMAIN conns' : conns'[k].refused)
            <=> \E k \in DOMAIN conns : conns[k].refused
      <3>1. DOMAIN conns \subseteq DOMAIN conns'
        BY <1>2, <1>3, SMT
      <3>2. \A k \in DOMAIN conns' : k \notin DOMAIN conns => ~conns'[k].refused
        BY <1>3 DEF Fresh
      <3> QED
        BY <1>3, <3>1, <3>2
    <2> QED
      BY <1>1, <2>1 DEF IInv, Answers, Verdict
  <1>10. ASSUME NEW k \in DOMAIN conns'
         PROVE  Fine(conns'[k], now) /\ Due(conns'[k], Turns(k)', Over')
    <2>1. CASE k \in DOMAIN conns
      <3>1. conns'[k] = conns[k] /\ Fine(conns[k], now)
            /\ Due(conns[k], Turns(k), Over)
        BY <1>1, <1>3, <2>1, Known
      <3>2. Turns(k)' = Turns(k)
        BY <1>1, <3>1 DEF Turns, Reached, Come
      <3>3. ~Over
        BY <1>1 DEF Over
      <3> QED
        BY <3>1, <3>2, <3>3 DEF Due
    <2>2. CASE k \notin DOMAIN conns
      <3>1. conns'[k] \in Fresh /\ k \in Nat /\ ~(k < i)
        BY <1>2, <1>3, <2>2, SMT
      <3>2. Turns(k)' = 0
        BY <1>1, <1>2, <3>1, SMT DEF Turns, Reached, Come
      <3> QED
        BY <1>2, <3>1, <3>2, SMT DEF Fresh, Fine, Live, Due
    <2> QED
      BY <2>1, <2>2
  <1>11. Each'
    BY <1>1, <1>10 DEF Each
  <1> QED
    BY <1>4, <1>5, <1>8, <1>9, <1>11 DEF IInv

-----------------------------------------------------------------------------
LEMMA InitIInv == Init => IInv
  <1> SUFFICES ASSUME Init PROVE IInv
    OBVIOUS
  <1>1. conns = <<>> /\ DOMAIN conns = {} /\ Len(conns) = 0 /\ conns \in Seq(Connection)
    BY SMT DEF Init
  <1>2. PICK call \in Calls : servers = call[1] /\ strategy = call[2]
    BY DEF Init
  <1>3. <<servers, strategy>> \in Calls /\ Len(servers) \in Nat
    <2>1. call \in Seq(ServerEntry) \X {"UDP_FIRST", "UDP_LAST", "NO_UDP"}
      BY SendtoAssumption
    <2>2. call = <<call[1], call[2]>> /\ call[1] \in Seq(ServerEntry)
      BY <2>1, SMT
    <2> QED
      BY <1>2, <2>2, SMT
  <1>4. TypeOK
    <2>1. /\ 0 \in 0 .. MAX_PASS - 1 /\ 0 \in 0 .. Len(servers)
          /\ 1 \in 1 .. Len(conns) + 1 /\ 0 \in 0 .. Len(conns)
          /\ 0 \in Nat /\ 2 \in Nat
      BY <1>1, <1>3, SendtoAssumption, SMT
    <2>2. /\ s = 0 /\ phase = "first" /\ pass = 0 /\ delay = 2 /\ i = 1
          /\ waiting = "no" /\ endtime = 0 /\ now = 0 /\ err = FALSE /\ winner = 0
          /\ result = "none"
      BY DEF Init
    <2> QED
      BY <1>1, <1>3, <2>1, <2>2 DEF TypeOK
  <1>5. Places
    BY <1>1, SMT DEF Init, Places
  <1>6. nfds = 0
    BY <1>1, PollsetFacts
  <1>7. Descriptors
    BY <1>1, <1>6, SendtoAssumption, SMT DEF Descriptors
  <1>8. Answers /\ Verdict /\ Each
    BY <1>1 DEF Init, Answers, Verdict, Each
  <1> QED
    BY <1>4, <1>5, <1>7, <1>8 DEF IInv

LEMMA StepKeepsIInv == IInv /\ [Next]_vars => IInv'
  <1> SUFFICES ASSUME IInv, [Next]_vars PROVE IInv'
    OBVIOUS
  <1>1. CASE Advance
    BY <1>1, ResolveServerGood, ResolveFailsGood, FirstPassDoneGood, SkipGood,
       StartGood, RetransmitGood, PassEndGood, NextConnGood, NextPassGood,
       GiveUpGood DEF Advance, EndWait
  <1>2. ASSUME NEW c \in DOMAIN conns, Ready(c)
        PROVE  IInv'
    BY <1>2, LostGood, ConnectGood, WriteGood, TlsGood, UnavailableGood, FinalGood DEF Ready
  <1>3. CASE UNCHANGED vars
    <2>1. nfds' = nfds
      BY <1>3 DEF nfds, vars
    <2>2. TypeOK' /\ Places' /\ Descriptors' /\ Answers' /\ Verdict'
      BY <1>3, <2>1 DEF IInv, TypeOK, Places, Descriptors, Answers, Verdict, vars
    <2>3. Each'
      BY <1>3 DEF IInv, Each, Turns, Reached, Come, Over, vars
    <2> QED
      BY <2>2, <2>3 DEF IInv
  <1> QED
    BY <1>1, <1>2, <1>3, PollFailsGood, TickGood DEF Next, Returned

(* The invariant of a call of krb5_sendto_kdc(). *)
LEMMA Invariant == Spec => []IInv
  <1>1. Init => IInv
    BY InitIInv
  <1>2. IInv /\ [Next]_vars => IInv'
    BY StepKeepsIInv
  <1> QED
    BY <1>1, <1>2, PTL DEF Spec

(* The loops of k5_sendto() stay within the list of connections and try none *)
(* of them more often than there are passes, for every list of servers.      *)
THEOREM TypeCorrect == Spec => []TypeOK
  <1>1. IInv => TypeOK
    BY DEF IInv
  <1> QED
    BY <1>1, Invariant, PTL

(* cm_add_fd(), cm_remove_fd() and the changes between reading and writing   *)
(* keep the poll set equal to the open descriptors, within its size, and the *)
(* cleanup of k5_sendto() leaves none open.                                  *)
THEOREM PollsetExact == Spec => []Polled
  <1>1. IInv => Polled
    <2> SUFFICES ASSUME IInv, NEW c \in DOMAIN conns
                 PROVE  IF result = "none"
                        THEN /\ conns[c].fd <=> Live(conns[c])
                             /\ (conns[c].poll # "-") <=> Live(conns[c])
                             /\ Live(conns[c]) /\ conns[c].transport # "HTTPS" =>
                                  (conns[c].poll = "R" <=> conns[c].state = "READING")
                             /\ nfds <= MAX_POLLFDS
                        ELSE ~conns[c].fd
      BY DEF Polled, Live
    <2>1. /\ conns[c].fd <=> (result = "none" /\ Live(conns[c]))
          /\ nfds <= MAX_POLLFDS /\ Fine(conns[c], now)
      BY DEF IInv, Descriptors, Each
    <2> QED
      BY <2>1 DEF Fine
  <1> QED
    BY <1>1, Invariant, PTL

(* krb5_sendto_kdc() returns the reply that its handler accepted, and reports *)
(* KRB5KDC_ERR_SVC_UNAVAILABLE exactly when it accepted none and some server  *)
(* said so, for every list of servers.                                        *)
THEOREM RightVerdict == Spec => []Verdict
  <1>1. IInv => Verdict
    BY DEF IInv
  <1> QED
    BY <1>1, Invariant, PTL

(* service_fds() waits for the latest of its own end time and those of the   *)
(* established TCP streams.                                                  *)
LEMMA EndtimeMax ==
  ASSUME IInv
  PROVE  LET live == {k \in DOMAIN conns :
                        /\ conns[k].transport = "TCP"
                        /\ conns[k].state \in {"READING", "WRITING"}}
             S == {endtime} \cup {conns[k].endtime : k \in live}
         IN  /\ get_endtime \in Nat /\ get_endtime \in S
             /\ \A t \in S : get_endtime >= t
  <1> DEFINE live == {k \in DOMAIN conns :
                        /\ conns[k].transport = "TCP"
                        /\ conns[k].state \in {"READING", "WRITING"}}
             S == {endtime} \cup {conns[k].endtime : k \in live}
             n == endtime + now + 10
  <1>1. endtime \in Nat /\ now \in Nat /\ n \in Nat /\ conns \in Seq(Connection)
    BY SMT DEF IInv, TypeOK
  <1>2. ASSUME NEW k \in DOMAIN conns
        PROVE  conns[k].endtime \in 0 .. n
    <2>1. conns[k] \in Connection /\ Fine(conns[k], now)
      BY <1>1, Indices DEF IInv, Each
    <2>2. conns[k].endtime \in Nat
      BY <2>1 DEF Connection
    <2> QED
      BY <1>1, <2>1, <2>2, SMT DEF Fine
  <1>3. S \in SUBSET (0 .. n) /\ S # {}
    BY <1>1, <1>2, SMT
  <1>4. get_endtime = Max(S)
    BY DEF get_endtime
  <1> HIDE DEF S, n
  <1>5. \E x \in S : \A y \in S : x >= y
    BY <1>1, <1>3, GreatestExists
  <1>6. Max(S) \in S /\ \A y \in S : Max(S) >= y
    BY <1>5 DEF Max
  <1>7. Max(S) \in 0 .. n
    BY <1>3, <1>6
  <1>8. Max(S) \in Nat
    BY <1>1, <1>7, SMT
  <1> QED
    BY <1>4, <1>6, <1>8 DEF S

LEMMA EndtimeFacts ==
  ASSUME IInv, NEW c \in DOMAIN conns, conns[c].transport = "TCP",
         conns[c].state \in {"READING", "WRITING"}
  PROVE  get_endtime \in Nat /\ get_endtime >= conns[c].endtime
  BY EndtimeMax

(* service_fds() returns to a call that goes on: its time is over. *)
LEMMA WaitEnds ==
  ASSUME IInv, Next, waiting # "no", waiting' = "no", result' = "none"
  PROVE  WaitOver /\ result = "none"
  <1>1. CASE Advance
    <2>1. waiting # "no" => ~Busy
      BY DEF Busy
    <2>2. NextConn \/ NextPass \/ GiveUp
      BY <1>1, <2>1 DEF Advance, EndWait, ResolveServer, ResolveFails, FirstPassDone,
         Skip, Start, Retransmit, PassEnd
    <2>3. ~GiveUp
      BY DEF GiveUp, Return
    <2> QED
      BY <2>2, <2>3 DEF NextConn, NextPass, WaitOver, Waiting
  <1>2. ASSUME NEW c \in DOMAIN conns, Ready(c)
        PROVE  FALSE
    BY <1>2 DEF Ready, Lost, service_connect, service_write, TlsWants, Serve,
       ReplyUnavailable, ReplyFinal, Return
  <1>3. ~PollFails
    BY DEF PollFails, Return
  <1>4. ~Tick /\ ~Returned
    BY DEF Tick, Returned, vars
  <1> QED
    BY <1>1, <1>2, <1>3, <1>4 DEF Next

(* An established TCP stream is given its ten seconds before k5_sendto() goes *)
(* on, for any number of servers, addresses and passes.                       *)
THEOREM StreamsHaveTheirTime == Spec => TenSeconds
  <1> DEFINE A == waiting # "no" /\ waiting' = "no" /\ result' = "none" =>
                    \A c \in DOMAIN conns :
                      /\ conns[c].transport = "TCP" /\ conns[c].established = "later"
                      /\ conns[c].state \in {"WRITING", "READING"}
                      => now >= conns[c].since + 10
  <1>1. IInv /\ Next => A
    <2> SUFFICES ASSUME IInv, Next, waiting # "no", waiting' = "no",
                        result' = "none", NEW c \in DOMAIN conns,
                        conns[c].transport = "TCP", conns[c].established = "later",
                        conns[c].state \in {"WRITING", "READING"}
                 PROVE  now >= conns[c].since + 10
      OBVIOUS
    <2>1. Waiting /\ (nfds = 0 \/ now >= get_endtime) /\ result = "none"
      BY WaitEnds DEF WaitOver
    <2>2. Fine(conns[c], now) /\ now \in Nat /\ conns \in Seq(Connection)
      BY DEF IInv, Each, TypeOK
    <2>3. conns[c].poll # "-" /\ conns[c].endtime = conns[c].since + 10
      BY <2>2 DEF Fine, Live
    <2>4. nfds # 0
      BY <2>2, <2>3, PollsetFacts
    <2>5. get_endtime \in Nat /\ get_endtime >= conns[c].endtime
      BY EndtimeFacts
    <2>6. conns[c].endtime \in Nat /\ conns[c].since \in Nat
      BY <2>2, Indices DEF Connection
    <2> QED
      BY <2>1, <2>2, <2>3, <2>4, <2>5, <2>6, SMT
  <1>2. IInv /\ [Next]_vars => [A]_vars
    BY <1>1
  <1> QED
    BY <1>2, Invariant, PTL DEF Spec, TenSeconds

(* Before k5_sendto() gives up it has tried every address of every server,   *)
(* and has sent the datagram in every pass to each address whose socket is   *)
(* still good: no deferral, failed send or early end of a loop leaves one    *)
(* out.                                                                      *)
THEOREM NoServerLeftOut == Spec => EveryServerTried
  <1> DEFINE A == GiveUp =>
                    /\ s = Len(servers)
                    /\ \A c \in DOMAIN conns :
                         /\ conns[c].tries >= 1
                         /\ conns[c].transport = "UDP" /\ conns[c].state = "READING" =>
                              conns[c].tries = MAX_PASS
  <1>1. IInv => A
    <2> SUFFICES ASSUME IInv, GiveUp
                 PROVE  /\ s = Len(servers)
                        /\ \A c \in DOMAIN conns :
                             /\ conns[c].tries >= 1
                             /\ /\ conns[c].transport = "UDP"
                                /\ conns[c].state = "READING"
                                => conns[c].tries = MAX_PASS
      OBVIOUS
    <2>1. /\ result = "none" /\ waiting = "pass" /\ LastPass
          /\ phase # "first" /\ s = Len(servers) /\ i > Len(conns)
          /\ phase \in {"deferred", "again"} /\ conns \in Seq(Connection)
      BY DEF GiveUp, WaitOver, Waiting, IInv, Places, TypeOK
    <2>2. ASSUME NEW c \in DOMAIN conns
          PROVE  /\ conns[c].tries >= 1
                 /\ conns[c].transport = "UDP" /\ conns[c].state = "READING" =>
                      conns[c].tries = MAX_PASS
      <3>1. /\ c \in Nat /\ c <= Len(conns) /\ Len(conns) \in Nat /\ i \in Nat
            /\ pass \in Nat /\ conns[c].tries \in Nat
            /\ Fine(conns[c], now) /\ Due(conns[c], Turns(c), Over)
        BY <2>1, Known
      <3>2. Turns(c) = pass + 1
        BY <2>1, <3>1, SMT DEF Turns, Reached, Come
      <3>3. conns[c].state = "READING" => conns[c].poll # "-"
        BY <3>1 DEF Fine, Live
      <3>4. conns[c].state = "READING" => nfds # 0 /\ ~Over
        BY <2>1, <3>3, PollsetFacts DEF Over
      <3>5. conns[c].state = "READING" => pass + 1 = MAX_PASS
        BY <2>1, <3>4 DEF LastPass
      <3> QED
        BY <3>1, <3>2, <3>4, <3>5, SMT DEF Due
    <2> QED
      BY <2>1, <2>2
  <1>2. IInv /\ [Next]_vars => [A]_vars
    BY <1>1
  <1> QED
    BY <1>2, Invariant, PTL DEF Spec, EveryServerTried

-----------------------------------------------------------------------------
(* Doubling is well defined. *)
Doubles(f, n) ==
  /\ f[0] = 1 /\ \A k \in 1 .. n : f[k] = 2 * f[k - 1]

LEMMA DoublesExist ==
  ASSUME NEW n \in Nat
  PROVE  \E f : DOMAIN f = 0 .. n /\ f = [k \in DOMAIN f |-> f[k]] /\ Doubles(f, n)
  <1> DEFINE Good(m) == \E f : /\ DOMAIN f = 0 .. m /\ Doubles(f, m)
                               /\ f = [k \in DOMAIN f |-> f[k]]
             B == {m \in 0 .. n : ~Good(m)}
  <1>1. ASSUME B # {}
        PROVE  FALSE
    <2>1. B \in SUBSET Nat
      BY SMT
    <2> HIDE DEF B
    <2>2. PICK m \in B : \A k \in B : m <= k
      BY <1>1, <2>1, LeastExists
    <2>3. m \in 0 .. n /\ ~Good(m)
      BY <2>2 DEF B
    <2>4. CASE m = 0
      <3> DEFINE f == [k \in 0 .. 0 |-> 1]
      <3>1. DOMAIN f = 0 .. 0 /\ f[0] = 1 /\ f = [k \in DOMAIN f |-> f[k]]
        BY SMT
      <3> HIDE DEF f
      <3>2. Doubles(f, 0)
        BY <3>1, SMT DEF Doubles
      <3> QED
        BY <3>1, <3>2, <2>3, <2>4
    <2>5. CASE m # 0
      <3>1. m - 1 \in 0 .. n /\ ~ (m <= m - 1) /\ m \in Nat
        BY <2>3, <2>5, SMT
      <3>2. Good(m - 1)
        BY <3>1, <2>2 DEF B
      <3>3. PICK f : DOMAIN f = 0 .. m - 1 /\ Doubles(f, m - 1)
        BY <3>2
      <3> DEFINE g == [k \in 0 .. m |-> IF k = m THEN 2 * f[m - 1] ELSE f[k]]
      <3>4. /\ DOMAIN g = 0 .. m /\ g = [k \in DOMAIN g |-> g[k]]
            /\ g[m] = 2 * f[m - 1] /\ \A k \in 0 .. m - 1 : g[k] = f[k]
        BY <3>1, SMT
      <3> HIDE DEF g
      <3>5. ASSUME NEW k \in 1 .. m
            PROVE  g[k] = 2 * g[k - 1]
        <4>1. CASE k = m
          BY <4>1, <3>1, <3>4, SMT
        <4>2. CASE k # m
          <5>1. k \in 1 .. m - 1 /\ k \in 0 .. m - 1 /\ k - 1 \in 0 .. m - 1
            BY <4>2, <3>1, SMT
          <5>2. f[k] = 2 * f[k - 1]
            BY <5>1, <3>3 DEF Doubles
          <5> QED
            BY <5>1, <5>2, <3>4
        <4> QED
          BY <4>1, <4>2, SMT
      <3>6. g[0] = 1
        <4>1. 0 \in 0 .. m - 1
          BY <3>1, <2>5, SMT
        <4> QED
          BY <4>1, <3>3, <3>4 DEF Doubles
      <3>7. Doubles(g, m)
        BY <3>5, <3>6 DEF Doubles
      <3> QED
        BY <3>4, <3>7, <2>3
    <2> QED
      BY <2>4, <2>5, SMT
  <1>2. n \in 0 .. n /\ n \notin B
    BY <1>1, SMT
  <1> HIDE DEF Good
  <1>3. Good(n)
    BY <1>2
  <1> QED
    BY <1>3 DEF Good

(* The powers of two that the passes need. *)
LEMMA PowerFacts ==
  /\ Power2[0] = 1 /\ Power2[1] = 2
  /\ \A k \in 1 .. MAX_PASS + 1 : Power2[k] = 2 * Power2[k - 1]
  /\ \A k \in 0 .. MAX_PASS + 1 : Power2[k] \in Nat
  <1> DEFINE n == MAX_PASS + 1
             Rec(f) == [k \in 0 .. n |-> IF k = 0 THEN 1 ELSE 2 * f[k - 1]]
  <1>1. n \in Nat /\ 1 \in 1 .. n /\ 0 \in 0 .. n
    BY SendtoAssumption, SMT DEF SendtoAssumption
  <1>2. PICK f : /\ DOMAIN f = 0 .. n /\ f = [k \in DOMAIN f |-> f[k]]
                 /\ Doubles(f, n)
    BY <1>1, DoublesExist
  <1>3. f = Rec(f)
    <2>1. \A k \in 0 .. n : f[k] = IF k = 0 THEN 1 ELSE 2 * f[k - 1]
      BY <1>1, <1>2, SMT DEF Doubles
    <2> QED
      BY <1>2, <2>1
  <1>4. Power2 = CHOOSE g : g = Rec(g)
    BY SMT DEF Power2
  <1>5. Power2 = Rec(Power2)
    <2> HIDE DEF Rec
    <2> QED
      BY <1>3, <1>4
  <1>6. \A k \in 0 .. n : Power2[k] = IF k = 0 THEN 1 ELSE 2 * Power2[k - 1]
    BY <1>5
  <1>7. Power2[0] = 1 /\ \A k \in 1 .. n : Power2[k] = 2 * Power2[k - 1]
    BY <1>1, <1>6, SMT
  <1> DEFINE B == {k \in 0 .. n : Power2[k] \notin Nat}
  <1>8. ASSUME B # {}
        PROVE  FALSE
    <2>1. B \in SUBSET Nat
      BY <1>1, SMT
    <2> HIDE DEF B
    <2>2. PICK m \in B : \A k \in B : m <= k
      BY <1>8, <2>1, LeastExists
    <2>3. m \in 0 .. n /\ Power2[m] \notin Nat
      BY <2>2 DEF B
    <2>4. m # 0
      BY <2>3, <1>7, SMT
    <2>5. m - 1 \in 0 .. n /\ m \in 1 .. n /\ ~ (m <= m - 1)
      BY <2>3, <2>4, <1>1, SMT
    <2>6. Power2[m - 1] \in Nat
      BY <2>2, <2>5 DEF B
    <2>7. Power2[m] = 2 * Power2[m - 1]
      BY <2>5, <1>7
    <2> QED
      BY <2>3, <2>6, <2>7, SMT
  <1>9. \A k \in 0 .. n : Power2[k] \in Nat
    BY <1>8
  <1>10. Power2[1] = 2
    BY <1>1, <1>7, SMT
  <1> QED
    BY <1>7, <1>9, <1>10

(* They grow. *)
LEMMA PowerGrows ==
  ASSUME NEW k \in 0 .. MAX_PASS
  PROVE  Power2[k] <= Power2[MAX_PASS]
  <1> DEFINE B == {m \in 0 .. MAX_PASS : ~ (Power2[MAX_PASS - m] <= Power2[MAX_PASS])}
  <1>1. MAX_PASS \in Nat
    BY SendtoAssumption, SMT DEF SendtoAssumption
  <1>2. ASSUME B # {}
        PROVE  FALSE
    <2>1. B \in SUBSET Nat
      BY <1>1, SMT
    <2> HIDE DEF B
    <2>2. PICK m \in B : \A j \in B : m <= j
      BY <1>2, <2>1, LeastExists
    <2>3. m \in 0 .. MAX_PASS /\ ~ (Power2[MAX_PASS - m] <= Power2[MAX_PASS])
      BY <2>2 DEF B
    <2>4. MAX_PASS - m \in 0 .. MAX_PASS + 1 /\ MAX_PASS \in 0 .. MAX_PASS + 1
      BY <1>1, <2>3, SMT
    <2>5. Power2[MAX_PASS - m] \in Nat /\ Power2[MAX_PASS] \in Nat
      BY <2>4, PowerFacts
    <2>6. m # 0
      BY <2>3, <2>5, <1>1, SMT
    <2>7. /\ m - 1 \in 0 .. MAX_PASS /\ ~ (m <= m - 1)
          /\ MAX_PASS - (m - 1) \in 1 .. MAX_PASS + 1
          /\ MAX_PASS - (m - 1) \in 0 .. MAX_PASS + 1
          /\ MAX_PASS - (m - 1) - 1 = MAX_PASS - m
      BY <2>3, <2>6, <1>1, SMT
    <2>8. Power2[MAX_PASS - (m - 1)] <= Power2[MAX_PASS]
      BY <2>2, <2>7 DEF B
    <2>9. Power2[MAX_PASS - (m - 1)] = 2 * Power2[MAX_PASS - (m - 1) - 1]
      BY <2>7, PowerFacts
    <2> QED
      BY <2>3, <2>5, <2>7, <2>8, <2>9, SMT
  <1>3. /\ MAX_PASS - k \in 0 .. MAX_PASS /\ MAX_PASS - (MAX_PASS - k) = k
    BY <1>1, SMT
  <1>4. Power2[MAX_PASS - (MAX_PASS - k)] <= Power2[MAX_PASS]
    BY <1>2, <1>3
  <1> QED
    BY <1>3, <1>4

-----------------------------------------------------------------------------
(* The waits that k5_sendto() has made after contacting a connection: one for *)
(* each datagram sent, one for a stream that was started.                     *)
Waits(c) ==
  IF c.transport = "UDP" THEN 1 .. c.tries
  ELSE IF c.state # "INITIALIZING" THEN {1} ELSE {}

Spent(q) == {w \in (DOMAIN q) \X (1 .. MAX_PASS) : w[2] \in Waits(q[w[1]])}

(* The TCP streams that were given ten seconds. *)
IsLater(c) == c.transport = "TCP" /\ c.established = "later"
Later(q) == {k \in DOMAIN q : IsLater(q[k])}

(* Both can be counted. *)
LEMMA SpentCounted ==
  ASSUME NEW q \in Seq(Connection)
  PROVE  /\ IsFiniteSet(Spent(q)) /\ Cardinality(Spent(q)) \in Nat
         /\ IsFiniteSet(Later(q)) /\ Cardinality(Later(q)) \in Nat
  <1>1. IsFiniteSet(DOMAIN q)
    BY Countable
  <1>2. 1 \in Int /\ MAX_PASS \in Int
    BY SendtoAssumption, SMT DEF SendtoAssumption
  <1>3. IsFiniteSet(1 .. MAX_PASS)
    BY <1>2, FS_Interval
  <1>4. IsFiniteSet((DOMAIN q) \X (1 .. MAX_PASS))
    BY <1>1, <1>3, FS_Product
  <1>5. Spent(q) \in SUBSET ((DOMAIN q) \X (1 .. MAX_PASS))
    BY DEF Spent
  <1>6. IsFiniteSet(Spent(q))
    BY <1>4, <1>5, FS_Subset
  <1>7. Later(q) \in SUBSET (DOMAIN q)
    BY DEF Later
  <1> QED
    BY <1>6, <1>7, Countable, FS_CardinalityType

(* A larger set has more elements. *)
LEMMA OneMore ==
  ASSUME NEW S, NEW T, IsFiniteSet(T), S \subseteq T, NEW x \in T, x \notin S
  PROVE  Cardinality(S) + 1 <= Cardinality(T)
  <1>1. IsFiniteSet(S) /\ S \cup {x} \in SUBSET T
    BY FS_Subset
  <1>2. Cardinality(S \cup {x}) = Cardinality(S) + 1
    BY <1>1, FS_AddElement, SMT
  <1>3. Cardinality(S \cup {x}) <= Cardinality(T)
    BY <1>1, FS_Subset
  <1> QED
    BY <1>2, <1>3, SMT

(* Nothing of what connection c has spent is taken back in d. *)
Onward(c, d) == Waits(c) \subseteq Waits(d) /\ (IsLater(c) => IsLater(d))

AllOnward(q, r) ==
  /\ DOMAIN q \subseteq DOMAIN r
  /\ \A k \in DOMAIN q : Onward(q[k], r[k])

LEMMA OnwardCounts ==
  ASSUME NEW q \in Seq(Connection), NEW r \in Seq(Connection), AllOnward(q, r)
  PROVE  /\ Spent(q) \subseteq Spent(r) /\ Later(q) \subseteq Later(r)
         /\ Cardinality(Spent(q)) <= Cardinality(Spent(r))
         /\ Cardinality(Later(q)) <= Cardinality(Later(r))
  <1>1. ASSUME NEW w \in Spent(q)
        PROVE  w \in Spent(r)
    <2>1. /\ w \in (DOMAIN q) \X (1 .. MAX_PASS) /\ w[1] \in DOMAIN q
          /\ w[2] \in 1 .. MAX_PASS /\ w[2] \in Waits(q[w[1]])
      BY DEF Spent
    <2>2. w[1] \in DOMAIN r /\ w[2] \in Waits(r[w[1]])
      BY <2>1 DEF AllOnward, Onward
    <2>3. w \in (DOMAIN r) \X (1 .. MAX_PASS)
      BY <2>1, <2>2
    <2> QED
      BY <2>2, <2>3 DEF Spent
  <1>2. Later(q) \subseteq Later(r)
    BY DEF Later, AllOnward, Onward
  <1>3. Spent(q) \subseteq Spent(r)
    BY <1>1
  <1> QED
    BY <1>2, <1>3, SpentCounted, FS_Subset

(* A wait after connection k. *)
LEMMA OneMoreWait ==
  ASSUME NEW q \in Seq(Connection), NEW r \in Seq(Connection), AllOnward(q, r),
         NEW k \in DOMAIN q, NEW m \in 1 .. MAX_PASS,
         m \in Waits(r[k]), m \notin Waits(q[k])
  PROVE  Cardinality(Spent(q)) + 1 <= Cardinality(Spent(r))
  <1>1. <<k, m>> \in Spent(r) /\ <<k, m>> \notin Spent(q)
    BY DEF Spent, AllOnward
  <1> QED
    BY <1>1, OnwardCounts, SpentCounted, OneMore

(* Connection k is established. *)
LEMMA OneMoreStream ==
  ASSUME NEW q \in Seq(Connection), NEW r \in Seq(Connection), AllOnward(q, r),
         NEW k \in DOMAIN q, IsLater(r[k]), ~IsLater(q[k])
  PROVE  Cardinality(Later(q)) + 1 <= Cardinality(Later(r))
  <1>1. k \in Later(r) /\ k \notin Later(q)
    BY DEF Later, AllOnward
  <1> QED
    BY <1>1, OnwardCounts, SpentCounted, OneMore

(* What has been spent is no more than the comment above k5_sendto() allows. *)
LEMMA SpentBound ==
  ASSUME NEW q \in Seq(Connection)
  PROVE  /\ Cardinality(Spent(q))
              <= Cardinality({c \in DOMAIN q : q[c].transport = "UDP"}) * MAX_PASS
                   + Cardinality({c \in DOMAIN q : q[c].transport # "UDP"})
         /\ Cardinality({c \in DOMAIN q : q[c].transport = "UDP"}) \in Nat
         /\ Cardinality({c \in DOMAIN q : q[c].transport # "UDP"}) \in Nat
  <1> DEFINE U == {c \in DOMAIN q : q[c].transport = "UDP"}
             T == {c \in DOMAIN q : q[c].transport # "UDP"}
             X == U \X (1 .. MAX_PASS)
             Y == T \X {1}
  <1>1. IsFiniteSet(U) /\ Cardinality(U) \in Nat
    BY Countable
  <1>2. IsFiniteSet(T) /\ Cardinality(T) \in Nat
    BY Countable
  <1>3. MAX_PASS \in Nat /\ 1 \in Int /\ MAX_PASS \in Int /\ ~ (1 > MAX_PASS)
    BY SendtoAssumption, SMT DEF SendtoAssumption
  <1>4. IsFiniteSet(1 .. MAX_PASS) /\ Cardinality(1 .. MAX_PASS) = MAX_PASS
    BY <1>3, FS_Interval, SMT
  <1>5. IsFiniteSet({1}) /\ Cardinality({1}) = 1
    BY FS_Singleton
  <1>6. \A w \in Spent(q) : w \in X \cup Y
    <2> SUFFICES ASSUME NEW w \in Spent(q) PROVE w \in X \cup Y
      BY SMT
    <2>1. /\ w \in (DOMAIN q) \X (1 .. MAX_PASS) /\ w[1] \in DOMAIN q
          /\ w[2] \in 1 .. MAX_PASS /\ w[2] \in Waits(q[w[1]])
      BY DEF Spent
    <2>2. CASE q[w[1]].transport = "UDP"
      BY <2>1, <2>2
    <2>3. CASE q[w[1]].transport # "UDP"
      <3>1. w[2] \in {1}
        BY <2>1, <2>3 DEF Waits
      <3> QED
        BY <2>1, <2>3, <3>1
    <2> QED
      BY <2>2, <2>3
  <1> HIDE DEF U, T
  <1>7. IsFiniteSet(X) /\ Cardinality(X) = Cardinality(U) * Cardinality(1 .. MAX_PASS)
    BY <1>1, <1>4, FS_Product
  <1>8. IsFiniteSet(Y) /\ Cardinality(Y) = Cardinality(T) * Cardinality({1})
    BY <1>2, <1>5, FS_Product
  <1>9. Cardinality(X) \in Nat /\ Cardinality(Y) \in Nat
    BY <1>7, <1>8, FS_CardinalityType
  <1> HIDE DEF X, Y
  <1>10. /\ IsFiniteSet(X \cup Y)
         /\ Cardinality(X \cup Y) =
              Cardinality(X) + Cardinality(Y) - Cardinality(X \cap Y)
    BY <1>7, <1>8, FS_Union
  <1>11. Cardinality(X \cap Y) \in Nat
    <2>1. X \cap Y \in SUBSET X
      OBVIOUS
    <2> QED
      BY <2>1, <1>7, FS_Subset, FS_CardinalityType
  <1>12. Spent(q) \in SUBSET (X \cup Y)
    BY <1>6
  <1>13. Cardinality(Spent(q)) <= Cardinality(X \cup Y)
    BY <1>10, <1>12, FS_Subset
  <1>14. Cardinality(Spent(q)) \in Nat
    BY SpentCounted
  <1>15. Cardinality(Y) = Cardinality(T)
    BY <1>2, <1>5, <1>8, SMT
  <1>16. Cardinality(X) = Cardinality(U) * MAX_PASS
    BY <1>4, <1>7
  <1>17. Cardinality(Spent(q)) <= Cardinality(X) + Cardinality(T)
    BY <1>2, <1>9, <1>10, <1>11, <1>13, <1>14, <1>15, SMT
  <1> QED
    BY <1>1, <1>2, <1>16, <1>17 DEF U, T

-----------------------------------------------------------------------------
(* The waits at the end of the passes, those that have begun. *)
Pauses ==
  IF waiting = "pass" \/ result # "none" THEN 2 * delay - 2 ELSE delay - 2

Allowed ==
  Cardinality(Spent(conns)) + 10 * Cardinality(Later(conns)) + Pauses

(* No time has passed, and no wait goes on, beyond what has been spent. *)
Timely ==
  /\ delay = Power2[pass + 1]
  /\ now <= Allowed /\ endtime <= Allowed
  /\ \A k \in DOMAIN conns :
       conns[k].transport = "TCP" => conns[k].endtime <= Allowed

LEMMA AllowedType ==
  ASSUME TypeOK
  PROVE  /\ Allowed \in Int /\ Pauses \in Int /\ conns \in Seq(Connection)
         /\ Cardinality(Spent(conns)) \in Nat /\ Cardinality(Later(conns)) \in Nat
         /\ delay \in Nat /\ now \in Nat /\ endtime \in Nat
         /\ \A k \in DOMAIN conns : conns[k].endtime \in Nat
  <1>1. conns \in Seq(Connection) /\ delay \in Nat /\ now \in Nat /\ endtime \in Nat
    BY DEF TypeOK
  <1>2. Pauses \in Int
    BY <1>1, SMT DEF Pauses
  <1>3. Cardinality(Spent(conns)) \in Nat /\ Cardinality(Later(conns)) \in Nat
    BY <1>1, SpentCounted
  <1>4. Allowed \in Int
    BY <1>2, <1>3, SMT DEF Allowed
  <1>5. \A k \in DOMAIN conns : conns[k].endtime \in Nat
    BY <1>1, Indices DEF Connection
  <1> QED
    BY <1>1, <1>2, <1>3, <1>4, <1>5

LEMMA AllowedAfter ==
  ASSUME TypeOK'
  PROVE  /\ Allowed' \in Int /\ Pauses' \in Int /\ conns' \in Seq(Connection)
         /\ Cardinality(Spent(conns')) \in Nat /\ Cardinality(Later(conns')) \in Nat
         /\ Allowed' = Cardinality(Spent(conns'))
                         + 10 * Cardinality(Later(conns')) + Pauses'
  <1>1. conns' \in Seq(Connection) /\ delay' \in Nat
    BY DEF TypeOK
  <1>2. Pauses' \in Int
    BY <1>1, SMT DEF Pauses
  <1>3. Cardinality(Spent(conns')) \in Nat /\ Cardinality(Later(conns')) \in Nat
    BY <1>1, SpentCounted
  <1>4. Allowed' = Cardinality(Spent(conns')) + 10 * Cardinality(Later(conns')) + Pauses'
    BY DEF Allowed
  <1>5. Allowed' \in Int
    BY <1>2, <1>3, <1>4, SMT
  <1> QED
    BY <1>1, <1>2, <1>3, <1>4, <1>5

(* A step that lets no time pass and grants none. *)
LEMMA Quiet ==
  ASSUME TypeOK, TypeOK', Timely, AllOnward(conns, conns'),
         \A k \in DOMAIN conns' :
            conns'[k].transport = "TCP" =>
              \/ conns'[k].endtime = 0
              \/ /\ k \in DOMAIN conns /\ conns[k].transport = "TCP"
                 /\ conns'[k].endtime = conns[k].endtime,
         endtime' = endtime, now' = now, Pauses' >= Pauses,
         delay' = Power2[pass' + 1]
  PROVE  Timely'
  <1>1. /\ Allowed \in Int /\ Pauses \in Int /\ conns \in Seq(Connection)
        /\ Cardinality(Spent(conns)) \in Nat /\ Cardinality(Later(conns)) \in Nat
        /\ now \in Nat /\ \A k \in DOMAIN conns : conns[k].endtime \in Nat
    BY AllowedType
  <1>2. /\ Allowed' \in Int /\ Pauses' \in Int /\ conns' \in Seq(Connection)
        /\ Cardinality(Spent(conns')) \in Nat /\ Cardinality(Later(conns')) \in Nat
    BY AllowedAfter
  <1>3. /\ Cardinality(Spent(conns)) <= Cardinality(Spent(conns'))
        /\ Cardinality(Later(conns)) <= Cardinality(Later(conns'))
    BY <1>1, <1>2, OnwardCounts
  <1>4. Allowed' = Cardinality(Spent(conns')) + 10 * Cardinality(Later(conns')) + Pauses'
    BY DEF Allowed
  <1>5. Allowed <= Allowed'
    <2>1. Allowed = Cardinality(Spent(conns)) + 10 * Cardinality(Later(conns)) + Pauses
      BY DEF Allowed
    <2>2. /\ Cardinality(Spent(conns)) \in Nat /\ Cardinality(Later(conns)) \in Nat
          /\ Cardinality(Spent(conns')) \in Nat /\ Cardinality(Later(conns')) \in Nat
          /\ Pauses \in Int /\ Pauses' \in Int
      BY <1>1, <1>2
    <2>3. Pauses' >= Pauses
      BY SMT
    <2> QED
      BY ONLY <1>3, <1>4, <2>1, <2>2, <2>3
  <1>6. now <= Allowed /\ endtime <= Allowed /\ endtime \in Nat
    BY DEF Timely, TypeOK
  <1>7. now' <= Allowed' /\ endtime' <= Allowed' /\ 0 <= Allowed'
    BY <1>1, <1>2, <1>5, <1>6, SMT
  <1>8. ASSUME NEW k \in DOMAIN conns', conns'[k].transport = "TCP"
        PROVE  conns'[k].endtime <= Allowed'
    <2>1. CASE conns'[k].endtime = 0
      BY <2>1, <1>7
    <2>2. CASE /\ k \in DOMAIN conns /\ conns[k].transport = "TCP"
               /\ conns'[k].endtime = conns[k].endtime
      <3>1. conns[k].endtime <= Allowed /\ conns[k].endtime \in Nat
        BY <2>2, <1>1 DEF Timely
      <3> QED
        BY <2>2, <3>1, <1>1, <1>2, <1>5, SMT
    <2> QED
      BY <1>8, <2>1, <2>2
  <1> QED
    BY <1>7, <1>8 DEF Timely

(* The loops go on, or the call returns: the connections keep what they had. *)
LEMMA StillTimely ==
  ASSUME TypeOK, TypeOK', Timely,
         DOMAIN conns' = DOMAIN conns,
         \A k \in DOMAIN conns : Kept(conns[k], conns'[k]),
         endtime' = endtime, now' = now, Pauses' >= Pauses,
         delay' = Power2[pass' + 1]
  PROVE  Timely'
  <1>1. ASSUME NEW k \in DOMAIN conns
        PROVE  /\ Onward(conns[k], conns'[k])
               /\ conns'[k].transport = conns[k].transport
               /\ conns'[k].endtime = conns[k].endtime
    <2>1. Kept(conns[k], conns'[k])
      OBVIOUS
    <2>2. /\ conns'[k].transport = conns[k].transport
          /\ conns'[k].tries = conns[k].tries /\ conns'[k].state = conns[k].state
          /\ conns'[k].established = conns[k].established
          /\ conns'[k].endtime = conns[k].endtime
      BY <2>1 DEF Kept, Alike
    <2> QED
      BY <2>2 DEF Onward, Waits, IsLater
  <1>2. AllOnward(conns, conns')
    BY <1>1 DEF AllOnward
  <1> QED
    BY <1>1, <1>2, Quiet

LEMMA LoopTimely ==
  ASSUME TypeOK, TypeOK', Timely,
         UNCHANGED <<conns, pass, delay, endtime, now, result>>,
         waiting' = "pass" <=> waiting = "pass"
  PROVE  Timely'
  <1>1. \A k \in DOMAIN conns : Kept(conns[k], conns'[k])
    BY DEF Kept, Alike
  <1>2. Pauses' = Pauses
    BY DEF Pauses
  <1>3. Pauses' >= Pauses
    BY <1>2, AllowedType, SMT
  <1>4. delay' = Power2[pass' + 1]
    BY DEF Timely
  <1> QED
    BY <1>1, <1>3, <1>4, StillTimely

LEMMA ReturnTimely ==
  ASSUME TypeOK, TypeOK', Timely, result' # "none",
         conns' = [k \in DOMAIN conns |-> [conns[k] EXCEPT !.fd = FALSE]],
         UNCHANGED <<pass, delay, endtime, now>>
  PROVE  Timely'
  <1>1. /\ DOMAIN conns' = DOMAIN conns
        /\ \A k \in DOMAIN conns : Kept(conns[k], conns'[k])
    BY Closed DEF TypeOK
  <1>2. Pauses' = 2 * delay - 2 /\ delay \in Nat
    BY DEF Pauses, TypeOK
  <1>3. Pauses' >= Pauses
    BY <1>2, SMT DEF Pauses
  <1>4. delay' = Power2[pass' + 1]
    BY DEF Timely
  <1> QED
    BY <1>1, <1>3, <1>4, StillTimely

LEMMA NextPassTimely ==
  ASSUME TypeOK, TypeOK', Timely, NextPass
  PROVE  Timely'
  <1>1. /\ waiting = "pass" /\ waiting' = "no" /\ result = "none"
        /\ pass' = pass + 1 /\ delay' = 2 * delay
        /\ UNCHANGED <<conns, endtime, now, result>>
    BY DEF NextPass, WaitOver, Waiting
  <1>2. \A k \in DOMAIN conns : Kept(conns[k], conns'[k])
    BY <1>1 DEF Kept, Alike
  <1>3. Pauses' = delay' - 2 /\ Pauses = 2 * delay - 2 /\ delay \in Nat
    BY <1>1, SMT DEF Pauses, TypeOK
  <1>4. Pauses' >= Pauses
    BY <1>1, <1>3, SMT
  <1>5. delay' = Power2[pass' + 1]
    <2>1. pass \in 0 .. MAX_PASS - 1 /\ pass' \in 0 .. MAX_PASS - 1
          /\ MAX_PASS \in Nat
      BY SendtoAssumption, SMT DEF TypeOK, SendtoAssumption
    <2> DEFINE n == pass + 2
    <2>2. n \in 1 .. MAX_PASS + 1 /\ n - 1 = pass + 1 /\ pass' + 1 = n
      BY <1>1, <2>1, SMT
    <2> HIDE DEF n
    <2>3. Power2[n] = 2 * Power2[n - 1]
      BY <2>2, PowerFacts
    <2> QED
      BY <1>1, <2>2, <2>3, SMT DEF Timely
  <1> QED
    BY <1>1, <1>2, <1>4, <1>5, StillTimely

(* service_fds() serves connection c, which it grants no time. *)
LEMMA ServedTimely ==
  ASSUME TypeOK, TypeOK', Timely, NEW c \in DOMAIN conns, NEW d \in Connection,
         conns' = [conns EXCEPT ![c] = d], Onward(conns[c], d),
         d.transport = conns[c].transport,
         \/ d.transport # "TCP" \/ d.endtime = 0 \/ d.endtime = conns[c].endtime,
         UNCHANGED <<pass, delay, endtime, now, waiting, result>>
  PROVE  Timely'
  <1>1. /\ DOMAIN conns' = DOMAIN conns /\ conns'[c] = d
        /\ \A j \in DOMAIN conns : j # c => conns'[j] = conns[j]
    BY Replaced DEF TypeOK
  <1>2. AllOnward(conns, conns')
    BY <1>1 DEF AllOnward, Onward
  <1>3. \A k \in DOMAIN conns' :
          conns'[k].transport = "TCP" =>
            \/ conns'[k].endtime = 0
            \/ /\ k \in DOMAIN conns /\ conns[k].transport = "TCP"
               /\ conns'[k].endtime = conns[k].endtime
    BY <1>1
  <1>4. Pauses' = Pauses
    BY DEF Pauses
  <1>5. Pauses' >= Pauses
    BY <1>4, AllowedType, SMT
  <1>6. delay' = Power2[pass' + 1]
    BY DEF Timely
  <1> QED
    BY <1>2, <1>3, <1>5, <1>6, Quiet

(* A connection that was under way stays started. *)
LEMMA ServedOnward ==
  ASSUME NEW c, NEW d, Live(c), d.transport = c.transport, d.tries = c.tries,
         d.state # "INITIALIZING", c.established = "later" => d.established = "later"
  PROVE  Onward(c, d)
  <1>1. c.state # "INITIALIZING"
    BY DEF Live
  <1> QED
    BY <1>1 DEF Onward, Waits, IsLater

LEMMA LostTimely ==
  ASSUME IInv, TypeOK', Timely, NEW c \in DOMAIN conns, Lost(c)
  PROVE  Timely'
  <1> DEFINE d == kill_conn(conns[c])
  <1>1. /\ Waiting /\ conns[c].poll # "-" /\ conns' = [conns EXCEPT ![c] = d]
        /\ UNCHANGED <<pass, delay, endtime, now, waiting, result>> /\ TypeOK
    BY DEF Lost, Serve, IInv
  <1>2. conns[c] \in Connection /\ Live(conns[c])
    BY <1>1, Polling
  <1>3. /\ d \in Connection /\ d.transport = conns[c].transport
        /\ d.tries = conns[c].tries /\ d.established = conns[c].established
        /\ d.state = "FAILED" /\ d.endtime = 0
    BY <1>2 DEF kill_conn, Connection
  <1> HIDE DEF d
  <1>4. Onward(conns[c], d)
    BY <1>2, <1>3, ServedOnward
  <1> QED
    BY <1>1, <1>3, <1>4, ServedTimely

LEMMA WriteTimely ==
  ASSUME IInv, TypeOK', Timely, NEW c \in DOMAIN conns, service_write(c)
  PROVE  Timely'
  <1> DEFINE d == [conns[c] EXCEPT !.state = "READING", !.poll = "R"]
  <1>1. /\ Waiting /\ conns[c].poll # "-" /\ conns' = [conns EXCEPT ![c] = d]
        /\ UNCHANGED <<pass, delay, endtime, now, waiting, result>> /\ TypeOK
    BY DEF service_write, Serve, IInv
  <1>2. conns[c] \in Connection /\ Live(conns[c])
    BY <1>1, Polling
  <1>3. /\ d \in Connection /\ d.transport = conns[c].transport
        /\ d.tries = conns[c].tries /\ d.established = conns[c].established
        /\ d.state = "READING" /\ d.endtime = conns[c].endtime
    BY <1>2 DEF Connection
  <1> HIDE DEF d
  <1>4. Onward(conns[c], d)
    BY <1>2, <1>3, ServedOnward
  <1> QED
    BY <1>1, <1>3, <1>4, ServedTimely

LEMMA TlsTimely ==
  ASSUME IInv, TypeOK', Timely, NEW c \in DOMAIN conns, TlsWants(c)
  PROVE  Timely'
  <1>1. PICK p \in {"R", "W"} : Serve(c, [conns[c] EXCEPT !.poll = p])
    BY DEF TlsWants
  <1> DEFINE d == [conns[c] EXCEPT !.poll = p]
  <1>2. /\ Waiting /\ conns[c].poll # "-" /\ conns' = [conns EXCEPT ![c] = d]
        /\ UNCHANGED <<pass, delay, endtime, now, waiting, result>> /\ TypeOK
    BY <1>1 DEF Serve, IInv
  <1>3. conns[c] \in Connection /\ Live(conns[c])
    BY <1>2, Polling
  <1>4. /\ d \in Connection /\ d.transport = conns[c].transport
        /\ d.tries = conns[c].tries /\ d.established = conns[c].established
        /\ d.state = conns[c].state /\ d.endtime = conns[c].endtime
    BY <1>3 DEF Connection
  <1> HIDE DEF d
  <1>5. d.state # "INITIALIZING"
    BY <1>3, <1>4 DEF Live
  <1>6. Onward(conns[c], d)
    BY <1>3, <1>4, <1>5, ServedOnward
  <1> QED
    BY <1>2, <1>4, <1>6, ServedTimely

LEMMA UnavailableTimely ==
  ASSUME IInv, TypeOK', Timely, NEW c \in DOMAIN conns, ReplyUnavailable(c)
  PROVE  Timely'
  <1> DEFINE d == [conns[c] EXCEPT !.refused = TRUE]
  <1>1. /\ Waiting /\ conns[c].poll # "-" /\ conns' = [conns EXCEPT ![c] = d]
        /\ UNCHANGED <<pass, delay, endtime, now, waiting, result>> /\ TypeOK
    BY DEF ReplyUnavailable, HasReply, IInv
  <1>2. conns[c] \in Connection /\ Live(conns[c])
    BY <1>1, Polling
  <1>3. /\ d \in Connection /\ d.transport = conns[c].transport
        /\ d.tries = conns[c].tries /\ d.established = conns[c].established
        /\ d.state = conns[c].state /\ d.endtime = conns[c].endtime
    BY <1>2 DEF Connection
  <1> HIDE DEF d
  <1>4. d.state # "INITIALIZING"
    BY <1>2, <1>3 DEF Live
  <1>5. Onward(conns[c], d)
    BY <1>2, <1>3, <1>4, ServedOnward
  <1> QED
    BY <1>1, <1>3, <1>5, ServedTimely

(* A step that lets no time pass, and grants connection c until t. *)
LEMMA Granted ==
  ASSUME TypeOK, TypeOK', Timely, NEW c \in DOMAIN conns, NEW d \in Connection,
         conns' = [conns EXCEPT ![c] = d],
         d.transport = "TCP" => d.endtime <= Allowed',
         now' = now, Allowed <= Allowed', endtime' <= Allowed',
         delay' = Power2[pass' + 1]
  PROVE  Timely'
  <1>1. /\ DOMAIN conns' = DOMAIN conns /\ conns'[c] = d
        /\ \A j \in DOMAIN conns : j # c => conns'[j] = conns[j]
    BY Replaced DEF TypeOK
  <1>2. Allowed \in Int /\ Allowed' \in Int /\ now \in Nat
        /\ \A k \in DOMAIN conns : conns[k].endtime \in Nat
    BY AllowedType, AllowedAfter
  <1>3. now <= Allowed
    BY DEF Timely
  <1>4. now' <= Allowed'
    BY <1>2, <1>3, SMT
  <1>5. ASSUME NEW k \in DOMAIN conns', conns'[k].transport = "TCP"
        PROVE  conns'[k].endtime <= Allowed'
    <2>1. CASE k = c
      BY <1>1, <1>5, <2>1
    <2>2. CASE k # c
      <3>1. k \in DOMAIN conns /\ conns'[k] = conns[k]
        BY <1>1, <2>2
      <3>2. conns[k].endtime <= Allowed /\ conns[k].endtime \in Nat
        BY <1>2, <1>5, <3>1 DEF Timely
      <3> QED
        BY <1>2, <3>1, <3>2, SMT
    <2> QED
      BY <2>1, <2>2
  <1> QED
    BY <1>4, <1>5 DEF Timely

(* What a step adds to the time allowed. *)
LEMMA Adds ==
  ASSUME TypeOK, TypeOK', NEW m \in Nat, NEW n \in Nat, Pauses' = Pauses,
         Cardinality(Spent(conns)) + m <= Cardinality(Spent(conns')),
         Cardinality(Later(conns)) + n <= Cardinality(Later(conns'))
  PROVE  Allowed + (m + 10 * n) <= Allowed'
  <1> DEFINE a == Cardinality(Spent(conns))
             b == Cardinality(Later(conns))
             p == Pauses
             x == Cardinality(Spent(conns'))
             y == Cardinality(Later(conns'))
  <1>1. /\ a \in Nat /\ b \in Nat /\ p \in Int /\ x \in Nat /\ y \in Nat
    BY AllowedType, AllowedAfter
  <1>2. Allowed = a + 10 * b + p /\ Allowed' = x + 10 * y + p
    BY AllowedAfter DEF Allowed
  <1>3. a + m <= x /\ b + n <= y
    OBVIOUS
  <1> HIDE DEF a, b, p, x, y
  <1>4. (a + 10 * b + p) + (m + 10 * n) <= x + 10 * y + p
    BY <1>1, <1>3, SMT
  <1> QED
    BY <1>2, <1>4

(* A connection that becomes d takes nothing back, and the others are kept. *)
LEMMA OnwardAt ==
  ASSUME TypeOK, NEW c \in DOMAIN conns, NEW d \in Connection,
         conns' = [conns EXCEPT ![c] = d], Onward(conns[c], d)
  PROVE  AllOnward(conns, conns') /\ conns'[c] = d
  <1>1. /\ DOMAIN conns' = DOMAIN conns /\ conns'[c] = d
        /\ \A j \in DOMAIN conns : j # c => conns'[j] = conns[j]
    BY Replaced DEF TypeOK
  <1>2. \A k \in DOMAIN conns : Onward(conns[k], conns'[k])
    BY <1>1 DEF Onward
  <1> QED
    BY <1>1, <1>2 DEF AllOnward

(* A TCP stream is established later: it has ten seconds more. *)
LEMMA ConnectTimely ==
  ASSUME IInv, TypeOK', Timely, NEW c \in DOMAIN conns, service_connect(c)
  PROVE  Timely'
  <1>1. PICK st \in {"WRITING", "READING"} :
          Serve(c, [conns[c] EXCEPT !.state = st, !.endtime = now + 10,
                                    !.established = "later", !.since = now,
                                    !.poll = IF st = "READING" THEN "R" ELSE "W"])
    BY DEF service_connect
  <1> DEFINE p == IF st = "READING" THEN "R" ELSE "W"
             u == now + 10
             d == [conns[c] EXCEPT !.state = st, !.endtime = u,
                                   !.established = "later", !.since = now,
                                   !.poll = p]
  <1>2. /\ Waiting /\ conns[c].poll # "-" /\ conns' = [conns EXCEPT ![c] = d]
        /\ UNCHANGED <<pass, delay, endtime, now, waiting, result>> /\ TypeOK
    BY <1>1 DEF Serve, IInv
  <1>3. conns[c].state = "CONNECTING"
    BY DEF service_connect
  <1>4. /\ conns[c] \in Connection /\ now \in Nat /\ Fine(conns[c], now)
        /\ Live(conns[c])
    BY <1>2, Polling
  <1>5. p \in {"R", "W"} /\ u \in Nat /\ u = now + 10
    BY <1>4, SMT
  <1> HIDE DEF p, u
  <1>6. /\ d \in Connection /\ d.transport = conns[c].transport
        /\ d.tries = conns[c].tries /\ d.state = st /\ d.endtime = u
        /\ d.established = "later"
    BY <1>4, <1>5 DEF Connection
  <1> HIDE DEF d
  <1>7. d.state # "INITIALIZING"
    BY <1>6
  <1>8. Onward(conns[c], d)
    BY <1>4, <1>6, <1>7, ServedOnward
  <1>9. CASE d.transport # "TCP"
    BY <1>2, <1>6, <1>8, <1>9, ServedTimely
  <1>10. CASE d.transport = "TCP"
    <2>1. /\ conns \in Seq(Connection) /\ conns' \in Seq(Connection)
          /\ Allowed \in Int /\ Allowed' \in Int /\ endtime \in Nat
      BY <1>2, AllowedType, AllowedAfter
    <2>2. AllOnward(conns, conns') /\ conns'[c] = d
      BY <1>2, <1>6, <1>8, OnwardAt
    <2>3. IsLater(d) /\ ~IsLater(conns[c])
      BY <1>3, <1>4, <1>6, <1>10 DEF IsLater, Fine
    <2>4. /\ Cardinality(Spent(conns)) <= Cardinality(Spent(conns'))
          /\ Cardinality(Later(conns)) + 1 <= Cardinality(Later(conns'))
      BY <2>1, <2>2, <2>3, OnwardCounts, OneMoreStream
    <2>5. Pauses' = Pauses
      BY <1>2 DEF Pauses
    <2>6. Allowed + 10 <= Allowed'
      <3>1. Cardinality(Spent(conns)) + 0 <= Cardinality(Spent(conns'))
        BY <1>2, <2>4, AllowedType, SMT
      <3>2. Allowed + (0 + 10 * 1) <= Allowed'
        BY <1>2, <2>4, <2>5, <3>1, Adds
      <3> QED
        BY <3>2, SMT
    <2>7. now <= Allowed /\ endtime <= Allowed /\ delay' = Power2[pass' + 1]
      BY <1>2 DEF Timely
    <2>8. d.endtime = now + 10 /\ endtime' = endtime
      BY <1>2, <1>5, <1>6
    <2>9. d.endtime <= Allowed' /\ Allowed <= Allowed' /\ endtime' <= Allowed'
      BY <1>4, <2>1, <2>6, <2>7, <2>8, SMT
    <2> QED
      BY <1>2, <1>6, <2>7, <2>9, Granted
  <1> QED
    BY <1>9, <1>10

(* Connection i is contacted for the m-th time, which k5_sendto() may wait for. *)
LEMMA SentTimely ==
  ASSUME TypeOK, TypeOK', Timely, Busy, NEW c \in DOMAIN conns, NEW d \in Connection,
         conns' = [conns EXCEPT ![c] = d], Onward(conns[c], d),
         d.transport = conns[c].transport, d.endtime = conns[c].endtime,
         UNCHANGED <<pass, delay, now, result>>,
         \/ UNCHANGED <<waiting, endtime>>
         \/ /\ waiting' = "conn" /\ endtime' = now + 1
            /\ \E m \in 1 .. MAX_PASS : m \in Waits(d) /\ m \notin Waits(conns[c])
  PROVE  Timely'
  <1>1. CASE UNCHANGED <<waiting, endtime>>
    BY <1>1, ServedTimely
  <1>2. CASE /\ waiting' = "conn" /\ endtime' = now + 1
             /\ \E m \in 1 .. MAX_PASS : m \in Waits(d) /\ m \notin Waits(conns[c])
    <2>1. /\ conns \in Seq(Connection) /\ conns' \in Seq(Connection)
          /\ Allowed \in Int /\ Allowed' \in Int /\ now \in Nat
          /\ conns[c].endtime \in Nat
      BY AllowedType, AllowedAfter
    <2>2. AllOnward(conns, conns') /\ conns'[c] = d
      BY OnwardAt
    <2>3. PICK m \in 1 .. MAX_PASS : m \in Waits(d) /\ m \notin Waits(conns[c])
      BY <1>2
    <2>4. /\ Cardinality(Spent(conns)) + 1 <= Cardinality(Spent(conns'))
          /\ Cardinality(Later(conns)) <= Cardinality(Later(conns'))
      BY <2>1, <2>2, <2>3, OnwardCounts, OneMoreWait
    <2>5. Pauses' = Pauses
      BY <1>2 DEF Pauses, Busy
    <2>6. Allowed + 1 <= Allowed'
      <3>1. Cardinality(Later(conns)) + 0 <= Cardinality(Later(conns'))
        BY <2>4, AllowedType, SMT
      <3>2. Allowed + (1 + 10 * 0) <= Allowed'
        BY <2>4, <2>5, <3>1, Adds
      <3> QED
        BY <3>2, SMT
    <2>7. /\ now <= Allowed /\ delay' = Power2[pass' + 1]
          /\ d.transport = "TCP" => d.endtime <= Allowed
      BY DEF Timely
    <2>8. endtime' = now + 1 /\ d.endtime \in Nat
      BY <1>2, <2>1
    <2> DEFINE e == d.endtime
               z == endtime'
    <2>9. (e <= Allowed => e <= Allowed') /\ Allowed <= Allowed' /\ z <= Allowed'
      <3>1. e \in Nat /\ z = now + 1 /\ now <= Allowed
        BY <2>7, <2>8
      <3> HIDE DEF e, z
      <3> QED
        BY <2>1, <2>6, <3>1, SMT
    <2> QED
      BY <2>7, <2>9, Granted
  <1> QED
    BY <1>1, <1>2

LEMMA RetransmitTimely ==
  ASSUME IInv, TypeOK', Timely, Retransmit
  PROVE  Timely'
  <1> DEFINE c == conns[i]
             d == [c EXCEPT !.tries = c.tries + 1]
  <1>1. /\ Busy /\ i \in DOMAIN conns /\ c.transport = "UDP" /\ c.state = "READING"
        /\ conns' = [conns EXCEPT ![i] = d]
        /\ \/ waiting' = "conn" /\ endtime' = now + 1
           \/ UNCHANGED <<waiting, endtime>>
        /\ UNCHANGED <<pass, delay, now, result>> /\ TypeOK
    BY DEF Retransmit, IInv
  <1>2. c \in Connection /\ c.tries \in Nat
    BY <1>1, Known DEF Busy
  <1>3. conns'[i] = d /\ conns'[i] \in Connection
    <2>1. conns' \in Seq(Connection) /\ DOMAIN conns' = DOMAIN conns /\ conns'[i] = d
      BY <1>1 DEF TypeOK
    <2> QED
      BY <1>1, <2>1, Indices
  <1>4. /\ d.transport = c.transport /\ d.endtime = c.endtime /\ d.tries = c.tries + 1
        /\ d.established = c.established
    BY <1>2 DEF Connection
  <1>5. d.tries \in 1 .. MAX_PASS /\ d.tries \notin 1 .. c.tries
        /\ 1 .. c.tries \subseteq 1 .. d.tries /\ d.tries \in 1 .. d.tries
    <2>1. d.tries \in 0 .. MAX_PASS
      BY <1>3 DEF Connection
    <2> HIDE DEF c, d
    <2> QED
      BY <1>2, <1>4, <2>1, SMT
  <1> HIDE DEF d
  <1>6. Waits(d) = 1 .. d.tries /\ Waits(c) = 1 .. c.tries
    BY <1>1, <1>4 DEF Waits
  <1>7. Onward(c, d)
    BY <1>4, <1>5, <1>6 DEF Onward, IsLater
  <1>8. \E m \in 1 .. MAX_PASS : m \in Waits(d) /\ m \notin Waits(c)
    BY <1>5, <1>6
  <1> QED
    BY <1>1, <1>3, <1>4, <1>7, <1>8, SentTimely

LEMMA StartTimely ==
  ASSUME IInv, TypeOK', Timely, Start
  PROVE  Timely'
  <1> DEFINE c == conns[i]
  <1>1. /\ Busy /\ i \in DOMAIN conns /\ c.state = "INITIALIZING"
        /\ UNCHANGED <<pass, delay, now, result>> /\ TypeOK
    BY DEF Start, IInv
  <1>2. PICK d \in start_connection(c) :
          /\ conns' = [conns EXCEPT ![i] = d]
          /\ \/ d.fd /\ waiting' = "conn" /\ endtime' = now + 1
             \/ UNCHANGED <<waiting, endtime>>
    BY DEF Start
  <1>3. /\ c \in Connection /\ Fine(c, now) /\ c.tries \in Nat
        /\ (c.fd <=> Live(c)) /\ now \in Nat /\ nfds \in Nat
    BY <1>1, Known, PollsetFacts DEF Busy, IInv, Descriptors, TypeOK
  <1>4. MayStart(c, d, now)
    BY <1>1, <1>2, <1>3, StartFacts
  <1>5. /\ d.transport = c.transport /\ d.endtime = c.endtime /\ d.tries = c.tries + 1
        /\ (d.fd => d.state # "INITIALIZING") /\ c.established = "no"
    BY <1>1, <1>3, <1>4 DEF MayStart, Live, Fine
  <1>6. conns'[i] = d /\ conns'[i] \in Connection
    <2>1. conns' \in Seq(Connection) /\ DOMAIN conns' = DOMAIN conns /\ conns'[i] = d
      BY <1>1, <1>2 DEF TypeOK
    <2> QED
      BY <1>1, <2>1, Indices
  <1>7. d.tries \in 1 .. MAX_PASS /\ d.tries \notin 1 .. c.tries
        /\ 1 .. c.tries \subseteq 1 .. d.tries /\ d.tries \in 1 .. d.tries
        /\ 1 \in 1 .. MAX_PASS
    <2>1. d.tries \in 0 .. MAX_PASS
      BY <1>6 DEF Connection
    <2> HIDE DEF c
    <2> QED
      BY <1>3, <1>5, <2>1, SendtoAssumption, SMT DEF SendtoAssumption
  <1> HIDE DEF c
  <1>8. ~IsLater(c)
    BY <1>5 DEF IsLater
  <1>9. CASE c.transport = "UDP"
    <2>1. Waits(d) = 1 .. d.tries /\ Waits(c) = 1 .. c.tries
      BY <1>5, <1>9 DEF Waits
    <2>2. /\ Onward(c, d)
          /\ \E m \in 1 .. MAX_PASS : m \in Waits(d) /\ m \notin Waits(c)
      BY <1>7, <1>8, <2>1 DEF Onward
    <2> QED
      BY <1>1, <1>2, <1>5, <1>6, <2>2, SentTimely DEF c
  <1>10. CASE c.transport # "UDP"
    <2>1. Waits(c) = {} /\ (d.fd => Waits(d) = {1})
      BY <1>1, <1>5, <1>10 DEF Waits
    <2>2. /\ Onward(c, d)
          /\ d.fd => \E m \in 1 .. MAX_PASS : m \in Waits(d) /\ m \notin Waits(c)
      BY <1>7, <1>8, <2>1 DEF Onward
    <2> QED
      BY <1>1, <1>2, <1>5, <1>6, <2>2, SentTimely DEF c
  <1> QED
    BY <1>9, <1>10

(* The wait at the end of a pass begins. *)
LEMMA PassEndTimely ==
  ASSUME IInv, TypeOK', Timely, PassEnd
  PROVE  Timely'
  <1>1. /\ Busy /\ waiting' = "pass" /\ endtime' = now + delay
        /\ conns' = conns /\ pass' = pass /\ delay' = delay /\ now' = now
        /\ result' = result /\ TypeOK
    BY DEF PassEnd, IInv
  <1>2. /\ Pauses = delay - 2 /\ Pauses' = 2 * delay - 2
    BY <1>1 DEF Pauses, Busy
  <1>3. /\ Allowed \in Int /\ Cardinality(Spent(conns)) \in Nat
        /\ Cardinality(Later(conns)) \in Nat /\ delay \in Nat /\ now \in Nat
        /\ \A k \in DOMAIN conns : conns[k].endtime \in Nat
    BY <1>1, AllowedType
  <1> DEFINE a == Cardinality(Spent(conns))
             b == Cardinality(Later(conns))
  <1>4. /\ a \in Nat /\ b \in Nat /\ Allowed = a + 10 * b + (delay - 2)
        /\ Allowed' = a + 10 * b + (2 * delay - 2)
    BY <1>1, <1>2, <1>3 DEF Allowed
  <1> HIDE DEF a, b
  <1>5. Allowed' = Allowed + delay
    BY <1>3, <1>4, SMT
  <1>6. now <= Allowed /\ delay' = Power2[pass' + 1]
    BY <1>1 DEF Timely
  <1>7. now' <= Allowed' /\ endtime' <= Allowed' /\ Allowed <= Allowed' /\ Allowed' \in Int
    BY <1>1, <1>3, <1>5, <1>6, SMT
  <1>8. ASSUME NEW k \in DOMAIN conns, conns[k].transport = "TCP"
        PROVE  conns[k].endtime <= Allowed'
    <2>1. conns[k].endtime \in Nat /\ conns[k].endtime <= Allowed
      BY <1>3, <1>8 DEF Timely
    <2> QED
      BY <1>3, <1>7, <2>1, SMT
  <1> QED
    BY <1>1, <1>6, <1>7, <1>8 DEF Timely

(* poll() sleeps no longer than to the latest end time. *)
LEMMA TickTimely ==
  ASSUME IInv, TypeOK', Timely, Tick
  PROVE  Timely'
  <1>1. /\ now < get_endtime /\ now' = now + 1
        /\ UNCHANGED <<conns, pass, delay, endtime, waiting, result>> /\ TypeOK
    BY DEF Tick, IInv
  <1>2. /\ get_endtime \in Nat
        /\ \/ get_endtime = endtime
           \/ \E k \in DOMAIN conns :
                conns[k].transport = "TCP" /\ get_endtime = conns[k].endtime
    BY EndtimeMax
  <1>3. get_endtime <= Allowed
    BY <1>2 DEF Timely
  <1>4. Allowed \in Int /\ now \in Nat
    BY <1>1, AllowedType
  <1>5. now + 1 <= Allowed
    BY <1>1, <1>2, <1>3, <1>4, SMT
  <1>6. Pauses' = Pauses
    BY <1>1 DEF Pauses
  <1>7. Allowed' = Allowed
    BY <1>1, <1>6 DEF Allowed
  <1>8. now' <= Allowed'
    BY <1>1, <1>5, <1>7
  <1> QED
    BY <1>1, <1>7, <1>8 DEF Timely

(* A new connection has spent nothing. *)
LEMMA ResolveServerTimely ==
  ASSUME IInv, TypeOK', Timely, ResolveServer
  PROVE  Timely'
  <1>1. UNCHANGED <<pass, delay, endtime, now, waiting, result>> /\ TypeOK
    BY DEF ResolveServer, IInv
  <1>2. /\ Len(conns) \in Nat /\ Len(conns') \in Nat /\ Len(conns) <= Len(conns')
        /\ DOMAIN conns = 1 .. Len(conns) /\ DOMAIN conns' = 1 .. Len(conns')
        /\ \A k \in DOMAIN conns : conns'[k] = conns[k]
        /\ \A k \in DOMAIN conns' : k \notin DOMAIN conns => conns'[k] \in Fresh
    BY Resolved
  <1>3. DOMAIN conns \subseteq DOMAIN conns'
    BY <1>2, SMT
  <1>4. AllOnward(conns, conns')
    BY <1>2, <1>3 DEF AllOnward, Onward
  <1>5. \A k \in DOMAIN conns' :
          conns'[k].transport = "TCP" =>
            \/ conns'[k].endtime = 0
            \/ /\ k \in DOMAIN conns /\ conns[k].transport = "TCP"
               /\ conns'[k].endtime = conns[k].endtime
    BY <1>2 DEF Fresh
  <1>6. Pauses' = Pauses
    BY <1>1 DEF Pauses
  <1>7. Pauses' >= Pauses
    BY <1>1, <1>6, AllowedType, SMT
  <1>8. delay' = Power2[pass' + 1]
    BY <1>1 DEF Timely
  <1> QED
    BY <1>1, <1>4, <1>5, <1>7, <1>8, Quiet

LEMMA InitTimely == Init => Timely
  <1> SUFFICES ASSUME Init PROVE Timely
    OBVIOUS
  <1>1. /\ conns = <<>> /\ pass = 0 /\ delay = 2 /\ waiting = "no" /\ endtime = 0
        /\ now = 0 /\ result = "none" /\ IInv
    BY InitIInv DEF Init
  <1>2. TypeOK /\ DOMAIN conns = {}
    BY <1>1, SMT DEF IInv
  <1>3. Pauses = 0
    BY <1>1, SMT DEF Pauses
  <1>4. Cardinality(Spent(conns)) \in Nat /\ Cardinality(Later(conns)) \in Nat
    BY <1>2, AllowedType
  <1> DEFINE a == Cardinality(Spent(conns))
             b == Cardinality(Later(conns))
  <1>5. Allowed = a + 10 * b + 0 /\ a \in Nat /\ b \in Nat
    BY <1>3, <1>4 DEF Allowed
  <1> HIDE DEF a, b
  <1>6. 0 <= Allowed
    BY <1>5, SMT
  <1>7. 2 = Power2[0 + 1]
    <2>1. 0 + 1 = 1
      BY SMT
    <2> QED
      BY <2>1, PowerFacts
  <1> QED
    BY <1>1, <1>2, <1>6, <1>7 DEF Timely

LEMMA AdvanceTimely ==
  ASSUME IInv, TypeOK', Timely, Advance
  PROVE  Timely'
  <1>1. TypeOK
    BY DEF IInv
  <1>2. CASE ResolveFails
    <2>1. /\ result' # "none" /\ UNCHANGED <<pass, delay, endtime, now>>
          /\ conns' = [k \in DOMAIN conns |-> [conns[k] EXCEPT !.fd = FALSE]]
      BY <1>2 DEF ResolveFails
    <2> QED
      BY <1>1, <2>1, ReturnTimely
  <1>3. CASE GiveUp
    <2>1. /\ result' # "none" /\ UNCHANGED <<pass, delay, endtime, now>>
          /\ conns' = [k \in DOMAIN conns |-> [conns[k] EXCEPT !.fd = FALSE]]
      BY <1>3 DEF GiveUp, Return
    <2> QED
      BY <1>1, <2>1, ReturnTimely
  <1>4. CASE FirstPassDone \/ Skip \/ NextConn
    <2>1. /\ UNCHANGED <<conns, pass, delay, endtime, now, result>>
          /\ waiting' = "pass" <=> waiting = "pass"
      BY <1>4 DEF FirstPassDone, Skip, NextConn
    <2> QED
      BY <1>1, <2>1, LoopTimely
  <1> QED
    BY <1>1, <1>2, <1>3, <1>4, ResolveServerTimely, StartTimely, RetransmitTimely,
       PassEndTimely, NextPassTimely DEF Advance, EndWait

LEMMA StepKeepsTimely == IInv /\ IInv' /\ Timely /\ [Next]_vars => Timely'
  <1> SUFFICES ASSUME IInv, IInv', Timely, [Next]_vars PROVE Timely'
    OBVIOUS
  <1>1. TypeOK /\ TypeOK'
    BY DEF IInv
  <1>2. CASE Advance
    BY <1>1, <1>2, AdvanceTimely
  <1>3. ASSUME result' # "none" /\ UNCHANGED <<pass, delay, endtime, now>>,
               conns' = [k \in DOMAIN conns |-> [conns[k] EXCEPT !.fd = FALSE]]
        PROVE  Timely'
    BY <1>1, <1>3, ReturnTimely
  <1>4. ASSUME NEW c \in DOMAIN conns, Ready(c)
        PROVE  Timely'
    <2>1. CASE ReplyFinal(c)
      BY <1>3, <2>1 DEF ReplyFinal, Return
    <2> QED
      BY <1>1, <1>4, <2>1, LostTimely, ConnectTimely, WriteTimely, TlsTimely,
         UnavailableTimely DEF Ready
  <1>5. CASE PollFails
    BY <1>3, <1>5 DEF PollFails, Return
  <1>6. CASE UNCHANGED vars
    BY <1>1, <1>6, LoopTimely DEF vars
  <1> QED
    BY <1>1, <1>2, <1>4, <1>5, <1>6, TickTimely DEF Next, Returned

(* A call of krb5_sendto_kdc() takes no longer than the comment above        *)
(* k5_sendto() says, for every list of servers, every number of addresses    *)
(* and every number of passes: one second for each datagram and each stream, *)
(* the pauses of the passes, and ten seconds for each TCP connection that    *)
(* was established.                                                          *)
THEOREM TimeBounded == Spec => []WorstCase
  <1>1. Init => IInv /\ Timely
    BY InitIInv, InitTimely
  <1>2. (IInv /\ Timely) /\ [Next]_vars => (IInv /\ Timely)'
    BY StepKeepsIInv, StepKeepsTimely
  <1>3. IInv /\ Timely => WorstCase
    <2> SUFFICES ASSUME IInv, Timely PROVE WorstCase
      OBVIOUS
    <2> DEFINE U == {c \in DOMAIN conns : conns[c].transport = "UDP"}
               T == {c \in DOMAIN conns : conns[c].transport # "UDP"}
               a == Cardinality(Spent(conns))
               b == Cardinality(Later(conns))
               u == Cardinality(U)
               t == Cardinality(T)
               w == u * MAX_PASS
               p == Power2[MAX_PASS + 1]
               r == Pauses
    <2>1. TypeOK /\ conns \in Seq(Connection)
      BY DEF IInv, TypeOK
    <2>2. /\ a \in Nat /\ b \in Nat /\ r \in Int /\ delay \in Nat /\ now \in Nat
          /\ now <= Allowed /\ Allowed = a + 10 * b + r
      BY <2>1, AllowedType DEF Timely, Allowed
    <2>3. a <= w + t /\ u \in Nat /\ t \in Nat
      BY <2>1, SpentBound
    <2>4. w \in Nat
      BY <2>3, SendtoAssumption, SMT DEF SendtoAssumption
    <2>5. r <= p - 2 /\ p \in Nat
      <3> DEFINE n == pass + 1
                 m == MAX_PASS + 1
      <3>1. /\ n \in 0 .. MAX_PASS /\ m \in 1 .. m /\ m \in 0 .. m
            /\ m - 1 = MAX_PASS /\ MAX_PASS \in 0 .. m
        BY <2>1, SendtoAssumption, SMT DEF TypeOK, SendtoAssumption
      <3>2. delay = Power2[n]
        BY DEF Timely
      <3>3. \A k \in 0 .. m : Power2[k] \in Nat
        BY PowerFacts
      <3>4. \A k \in 1 .. m : Power2[k] = 2 * Power2[k - 1]
        BY PowerFacts
      <3> HIDE DEF n, m
      <3>5. delay <= Power2[MAX_PASS]
        BY <3>1, <3>2, PowerGrows
      <3>6. Power2[m] = 2 * Power2[MAX_PASS] /\ Power2[m] \in Nat
        BY <3>1, <3>3, <3>4
      <3>7. Power2[MAX_PASS] \in Nat
        BY <3>1, <3>3
      <3>8. r \in {2 * delay - 2, delay - 2}
        BY DEF Pauses
      <3>9. p = Power2[m]
        BY DEF m
      <3> HIDE DEF p, r
      <3> QED
        BY <2>2, <3>5, <3>6, <3>7, <3>8, <3>9, SMT
    <2> HIDE DEF a, b, u, t, w, p, r
    <2>6. now <= p + w + t - 2 + 10 * b
      BY <2>2, <2>3, <2>4, <2>5, SMT
    <2>7. now <= Power2[MAX_PASS + 1] + Cardinality(U) * MAX_PASS + Cardinality(T) - 2
                   + 10 * Cardinality(Later(conns))
      BY <2>6 DEF p, w, u, t, b
    <2>8. Later(conns) = {c \in DOMAIN conns :
                            conns[c].transport = "TCP" /\ conns[c].established = "later"}
      BY DEF Later, IsLater
    <2> QED
      BY <2>7, <2>8 DEF WorstCase, Count
  <1> QED
    BY <1>1, <1>2, <1>3, PTL DEF Spec
=============================================================================
