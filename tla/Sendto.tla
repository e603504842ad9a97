------------------------------- MODULE Sendto -------------------------------
(***************************************************************************)
(* The client's exchange with the KDCs of a realm: krb5_sendto_kdc and     *)
(* k5_sendto of lib/krb5/os/sendto_kdc.c.                                   *)
(*                                                                         *)
(* One call is modelled from its start to its return.  It resolves the     *)
(* servers one after the other, contacts every address they have, waits    *)
(* after every contact in service_fds, which serves the sockets of ALL the *)
(* connections made so far, and repeats the datagrams in two more passes.  *)
(* Time is counted in seconds and passes only inside poll: the code between*)
(* two polls takes no time.  What a socket delivers is abstracted to what  *)
(* the exchange tells apart: the connection is lost, it progresses, or a   *)
(* complete reply came, which the handler check_for_svc_unavailable        *)
(* accepts ("final") or passes over ("unavailable").                       *)
(***************************************************************************)
EXTENDS Integers, Sequences, FiniteSetsExt

CONSTANTS
  Calls,        \* the calls considered: a server list that k5_locate_kdc may
                \* return and a strategy that krb5_sendto_kdc may choose
  MaxAddrs,     \* bound: addresses that one host name has
  MAX_PASS,     \* passes over the connections
  MAX_POLLFDS   \* descriptors the poll set has room for

Transports == {"UDP", "TCP", "HTTPS"}

\* A server entry: its transport, and whether it is a host name to be resolved
\* (entry->hostname != NULL) or one address given by a module, which says whether
\* it is for streams or for datagrams.
ServerEntry ==
  [transport : Transports \cup {"TCP_OR_UDP"}, named : {TRUE}]
    \cup [transport : {"TCP", "UDP"}, named : {FALSE}]

ASSUME SendtoAssumption ==
  /\ Calls \subseteq Seq(ServerEntry) \X {"UDP_FIRST", "UDP_LAST", "NO_UDP"}
  /\ MaxAddrs \in Nat /\ MAX_PASS \in Nat \ {0} /\ MAX_POLLFDS \in Nat

VARIABLES
  servers,   \* the server list of this call
  strategy,  \* its transport strategy
  s,         \* servers resolved so far
  conns,     \* the list of connections
  phase,     \* "first": contacting servers as they are resolved; "deferred":
             \* the deferred ones; "again": a later pass
  pass,      \* the current pass, from 0
  delay,     \* how long the wait at its end is: 2, 4, 8, ... seconds
  i,         \* the connection the current loop is at
  waiting,   \* in service_fds: "no", after contacting connection i ("conn") or
             \* at the end of the pass ("pass")
  endtime,   \* when that service_fds is to end
  now,       \* the clock
  err,       \* krb5_sendto_kdc's err is KDC_ERR_SVC_UNAVAILABLE
  winner,    \* the connection whose reply was accepted, 0 if none
  result     \* what krb5_sendto_kdc returned, "none" before

vars == <<servers, strategy, s, conns, phase, pass, delay, i, waiting, endtime, now,
          err, winner, result>>

\* A connection (struct conn_state).  poll is what the poll set asks of its
\* descriptor, "-" when the descriptor is not in the set.  The last four fields are
\* history: tries counts the calls of maybe_send that tried to send, refused says
\* that the handler passed over a reply of this connection, established how a
\* stream was connected, at once by connect() or later, and since when.
Connection ==
  [transport : Transports, defer : BOOLEAN,
   state : {"INITIALIZING", "CONNECTING", "WRITING", "READING", "FAILED"},
   fd : BOOLEAN, poll : {"-", "R", "W"}, endtime : Nat,
   tries : 0 .. MAX_PASS, refused : BOOLEAN,
   established : {"no", "at once", "later"}, since : Nat]

\* A new connection, as add_connection makes it.
add_connection(transport, defer) ==
  [transport |-> transport, defer |-> defer, state |-> "INITIALIZING",
   fd |-> FALSE, poll |-> "-", endtime |-> 0,
   tries |-> 0, refused |-> FALSE, established |-> "no", since |-> 0]

\* The preferred transport, and the one that is deferred.
Preferred == IF strategy = "UDP_FIRST" THEN "UDP" ELSE "TCP"
Other == IF strategy = "UDP_FIRST" THEN "TCP" ELSE "UDP"

\* The connections resolve_server adds for an entry that has n addresses.  An
\* address given by a module has its transport and is deferred unless it is the
\* preferred one; a host name whose transport is open is added twice.
resolve_server(entry, n) ==
  IF strategy = "NO_UDP" /\ entry.transport = "UDP" THEN <<>>
  ELSE IF ~entry.named
  THEN <<add_connection(entry.transport, entry.transport # Preferred)>>
  ELSE IF entry.transport # "TCP_OR_UDP"
  THEN [a \in 1 .. n |-> add_connection(entry.transport, FALSE)]
  ELSE [a \in 1 .. n |-> add_connection(Preferred, FALSE)]
         \o (IF strategy = "NO_UDP" THEN <<>>
             ELSE [a \in 1 .. n |-> add_connection(Other, TRUE)])

-----------------------------------------------------------------------------
\* The number of descriptors in the poll set.
nfds == Cardinality({c \in DOMAIN conns : conns[c].poll # "-"})

\* A fault: only the connections that are reading extend the wait.
get_endtime_reading ==
  LET live == {c \in DOMAIN conns :
                 conns[c].transport = "TCP" /\ conns[c].state = "READING"}
  IN  Max({endtime} \cup {conns[c].endtime : c \in live})

\* Established TCP connections extend the wait to their own end times.
get_endtime ==
  LET live == {c \in DOMAIN conns :
                 /\ conns[c].transport = "TCP"
                 /\ conns[c].state \in {"READING", "WRITING"}}
  IN  Max({endtime} \cup {conns[c].endtime : c \in live})

\* A fault: the closed descriptor stays in the poll set.
kill_still_polled(c) == [c EXCEPT !.fd = FALSE, !.state = "FAILED",
                                  !.endtime = 0, !.since = 0]

\* The connection is closed and taken out of the poll set.  (Its times, which
\* nothing reads any more, are forgotten.)
kill_conn(c) == [c EXCEPT !.poll = "-", !.fd = FALSE, !.state = "FAILED",
                          !.endtime = 0, !.since = 0]

\* The end of k5_sendto: the result, as krb5_sendto_kdc reports it, and the
\* cleanup, which closes what is still open.
Return(done, won, cs, e) ==
  /\ result' = IF /\ \E c \in DOMAIN cs : cs[c].poll # "-"
                  /\ done /\ won # 0
               THEN "reply"
               ELSE IF e THEN "svc_unavailable" ELSE "unreach"
  /\ conns' = [c \in DOMAIN cs |-> [cs[c] EXCEPT !.fd = FALSE]]
  /\ waiting' = "no"

Busy == result = "none" /\ waiting = "no"
Waiting == result = "none" /\ waiting # "no"

-----------------------------------------------------------------------------
\* krb5_sendto_kdc begins: the strategy follows from the size of the message, the
\* servers from the configuration, the DNS or a module.
Init ==
  /\ \E call \in Calls : servers = call[1] /\ strategy = call[2]
  /\ s = 0 /\ conns = <<>> /\ phase = "first" /\ pass = 0 /\ delay = 2 /\ i = 1
  /\ waiting = "no" /\ endtime = 0 /\ now = 0
  /\ err = FALSE /\ winner = 0 /\ result = "none"

\* The first pass resolves the next server.
ResolveServer ==
  /\ Busy /\ phase = "first" /\ i > Len(conns) /\ s < Len(servers)
  /\ \E n \in 0 .. MaxAddrs : conns' = conns \o resolve_server(servers[s + 1], n)
  /\ s' = s + 1
  /\ UNCHANGED <<servers, strategy, phase, pass, delay, i, waiting, endtime, now,
                 err, winner, result>>

\* Resolving it fails (out of memory, no name service): the call gives up.
ResolveFails ==
  /\ Busy /\ phase = "first" /\ i > Len(conns) /\ s < Len(servers)
  /\ result' = "error"
  /\ conns' = [c \in DOMAIN conns |-> [conns[c] EXCEPT !.fd = FALSE]]
  /\ UNCHANGED <<servers, strategy, s, phase, pass, delay, i, waiting, endtime,
                 now, err, winner>>

\* All servers are resolved; the deferred connections come next.
FirstPassDone ==
  /\ Busy /\ phase = "first" /\ i > Len(conns) /\ s = Len(servers)
  /\ phase' = "deferred" /\ i' = 1
  /\ UNCHANGED <<servers, strategy, s, conns, pass, delay, waiting, endtime, now,
                 err, winner, result>>

\* A fault: the deferred connections are passed over in every loop.
NeverDeferred(c) == ~c.defer

\* The connections the current loop contacts.
Contacted(c) == phase = "again" \/ (c.defer <=> phase = "deferred")

\* maybe_send has nothing to send: the connection has failed, or it is a stream,
\* which is written once and by service_fds.
NothingToSend(c) ==
  c.state = "FAILED" \/ (c.transport # "UDP" /\ c.state # "INITIALIZING")

\* The loop goes on without a wait.
Skip ==
  /\ Busy /\ i \in DOMAIN conns
  /\ ~Contacted(conns[i]) \/ NothingToSend(conns[i])
  /\ i' = i + 1
  /\ UNCHANGED <<servers, strategy, s, conns, phase, pass, delay, waiting, endtime,
                 now, err, winner, result>>

\* start_connection: no socket could be had (the connection stays
\* INITIALIZING), it failed later, or it is under way.  A datagram is sent at
\* once; a stream is connecting, or already connected.
start_connection(c) ==
  LET tried == [c EXCEPT !.tries = @ + 1]
      open == [tried EXCEPT !.fd = TRUE]
  IN  {tried, [tried EXCEPT !.state = "FAILED"]}
        \cup (IF nfds >= MAX_POLLFDS THEN {}
              ELSE IF c.transport = "UDP"
              THEN {[open EXCEPT !.state = "READING", !.poll = "R"]}
              ELSE {[open EXCEPT !.state = "CONNECTING", !.poll = "W"],
                    [open EXCEPT !.state = "WRITING", !.poll = "W",
                                 !.established = "at once"]})

\* maybe_send starts the connection; if it is under way the caller waits for one
\* second.
Start ==
  /\ Busy /\ i \in DOMAIN conns
  /\ Contacted(conns[i]) /\ conns[i].state = "INITIALIZING"
  /\ \E c \in start_connection(conns[i]) :
       /\ conns' = [conns EXCEPT ![i] = c]
       /\ IF c.fd
          THEN waiting' = "conn" /\ endtime' = now + 1 /\ i' = i
          ELSE i' = i + 1 /\ UNCHANGED <<waiting, endtime>>
  /\ UNCHANGED <<servers, strategy, s, phase, pass, delay, now, err, winner,
                 result>>

\* maybe_send repeats a datagram.  A failing send() keeps the connection for the
\* next pass.
Retransmit ==
  /\ Busy /\ i \in DOMAIN conns
  /\ Contacted(conns[i]) /\ conns[i].transport = "UDP"
  /\ conns[i].state = "READING"
  /\ conns' = [conns EXCEPT ![i].tries = @ + 1]
  /\ \/ waiting' = "conn" /\ endtime' = now + 1 /\ i' = i
     \/ i' = i + 1 /\ UNCHANGED <<waiting, endtime>>
  /\ UNCHANGED <<servers, strategy, s, phase, pass, delay, now, err, winner,
                 result>>

\* All connections of a pass are contacted: the wait at its end begins.
PassEnd ==
  /\ Busy /\ phase # "first" /\ i > Len(conns)
  /\ waiting' = "pass" /\ endtime' = now + delay
  /\ UNCHANGED <<servers, strategy, s, conns, phase, pass, delay, i, now, err,
                 winner, result>>

\* A fault: the wait ends only after its end time.
WaitOverLate == Waiting /\ (nfds = 0 \/ now > get_endtime)

\* service_fds may return FALSE: no descriptor is left, or poll finds none ready
\* at the end time.  If it does find one, service_fds serves it and polls again.
WaitOver == Waiting /\ (nfds = 0 \/ now >= get_endtime)

\* ... after connection i.  In a later pass the loop ends when no descriptor is
\* left.
NextConn ==
  /\ WaitOver /\ waiting = "conn"
  /\ waiting' = "no"
  /\ i' = IF phase = "again" /\ nfds = 0 THEN Len(conns) + 1 ELSE i + 1
  /\ UNCHANGED <<servers, strategy, s, conns, phase, pass, delay, endtime, now,
                 err, winner, result>>

\* A fault: one pass too many.
LastPassLate == pass = MAX_PASS \/ (phase = "again" /\ nfds = 0)

\* ... at the end of a pass: the next pass, unless no descriptor is left (which
\* is not looked at after the first pass) or this was the last one.
LastPass == pass + 1 = MAX_PASS \/ (phase = "again" /\ nfds = 0)

NextPass ==
  /\ WaitOver /\ waiting = "pass" /\ ~LastPass
  /\ waiting' = "no" /\ phase' = "again" /\ i' = 1
  /\ pass' = pass + 1 /\ delay' = 2 * delay
  /\ UNCHANGED <<servers, strategy, s, conns, endtime, now, err, winner, result>>

GiveUp ==
  /\ WaitOver /\ waiting = "pass" /\ LastPass
  /\ Return(FALSE, winner, conns, err)
  /\ UNCHANGED <<servers, strategy, s, phase, pass, delay, i, endtime, now, err,
                 winner>>

\* poll or the clock fails: service_fds returns TRUE without a winner.
PollFails ==
  /\ Waiting
  /\ Return(TRUE, 0, conns, err)
  /\ UNCHANGED <<servers, strategy, s, phase, pass, delay, i, endtime, now, err,
                 winner>>

-----------------------------------------------------------------------------
\* service_fds serves connection c, which becomes d; no reply is complete.
Serve(c, d) ==
  /\ Waiting /\ c \in DOMAIN conns /\ conns[c].poll # "-"
  /\ conns' = [conns EXCEPT ![c] = d]
  /\ UNCHANGED <<servers, strategy, s, phase, pass, delay, i, waiting, endtime,
                 now, err, winner, result>>

\* An exception, a failed connect, an error of the socket or of the TLS layer, the
\* end of the stream, or a reply that is malformed or too large.
Lost(c) == Serve(c, kill_conn(conns[c]))

\* service_tcp_connect: the connection is established, which starts its ten
\* seconds, and service_write is called at once.
service_connect(c) ==
  /\ conns[c].state = "CONNECTING"
  /\ \E st \in {"WRITING", "READING"} :
       Serve(c, [conns[c] EXCEPT !.state = st, !.endtime = now + 10,
                                 !.established = "later", !.since = now,
                                 !.poll = IF st = "READING" THEN "R" ELSE "W"])

\* A fault: the ten seconds start again when the request is written.
write_restarts(c) ==
  /\ conns[c].state = "WRITING"
  /\ Serve(c, [conns[c] EXCEPT !.state = "READING", !.poll = "R",
                               !.endtime = now + 10])

\* service_tcp_write and service_https_write: the request is written.
service_write(c) ==
  /\ conns[c].state = "WRITING"
  /\ Serve(c, [conns[c] EXCEPT !.state = "READING", !.poll = "R"])

\* The TLS layer wants to read before it can write, or the reverse.
TlsWants(c) ==
  /\ conns[c].transport = "HTTPS" /\ conns[c].state \in {"WRITING", "READING"}
  /\ \E p \in {"R", "W"} : Serve(c, [conns[c] EXCEPT !.poll = p])

\* service_tcp_read, service_udp_read and service_https_read: a reply of
\* connection c is complete and goes to the handler.  After one that was passed
\* over, a TCP connection has nothing left to read (n_left = 0) and is lost; a
\* datagram may follow, and HTTPS may find the same reply in its buffer again.
HasReply(c) ==
  /\ Waiting /\ c \in DOMAIN conns /\ conns[c].poll # "-"
  /\ conns[c].state = "READING"
  /\ conns[c].transport # "TCP" \/ ~conns[c].refused

\* A fault: the handler clears the error it was given.
ReplyForgotten(c) ==
  /\ HasReply(c)
  /\ conns' = [conns EXCEPT ![c].refused = TRUE]
  /\ err' = FALSE
  /\ UNCHANGED <<servers, strategy, s, phase, pass, delay, i, waiting, endtime,
                 now, winner, result>>

\* The handler passes over a reply that says KDC_ERR_SVC_UNAVAILABLE.
ReplyUnavailable(c) ==
  /\ HasReply(c)
  /\ conns' = [conns EXCEPT ![c].refused = TRUE]
  /\ err' = TRUE
  /\ UNCHANGED <<servers, strategy, s, phase, pass, delay, i, waiting, endtime,
                 now, winner, result>>

\* The handler accepts any other reply: service_fds and k5_sendto return.
ReplyFinal(c) ==
  /\ HasReply(c)
  /\ winner' = c /\ err' = FALSE
  /\ Return(TRUE, c, conns, FALSE)
  /\ UNCHANGED <<servers, strategy, s, phase, pass, delay, i, endtime, now>>

\* One second passes in poll, which sleeps no longer than to its timeout.  Serving a
\* descriptor takes no time, even one that is found ready after the end time.
Tick ==
  /\ Waiting /\ nfds > 0 /\ now < get_endtime
  /\ now' = now + 1
  /\ UNCHANGED <<servers, strategy, s, conns, phase, pass, delay, i, waiting,
                 endtime, err, winner, result>>

\* The call has returned.
Returned == result # "none" /\ UNCHANGED vars

-----------------------------------------------------------------------------
\* How a wait ends without an answer.
EndWait == NextConn \/ NextPass \/ GiveUp

\* What k5_sendto does when poll reports nothing.
Advance ==
  \/ ResolveServer \/ ResolveFails \/ FirstPassDone
  \/ Skip \/ Start \/ Retransmit
  \/ PassEnd \/ EndWait

\* What poll reports of connection c.
Ready(c) ==
  \/ Lost(c) \/ service_connect(c) \/ service_write(c) \/ TlsWants(c)
  \/ ReplyUnavailable(c) \/ ReplyFinal(c)

Next ==
  \/ Advance
  \/ \E c \in DOMAIN conns : Ready(c)
  \/ PollFails
  \/ Tick
  \/ Returned

Spec == Init /\ [][Next]_vars

\* The caller's thread runs and the clock advances.  Nothing is assumed of the
\* network or of the servers, so a wait for open descriptors need not end: it takes
\* a poll that finds none of them ready.
FairSpec ==
  /\ Spec
  /\ WF_vars((~Waiting \/ nfds = 0) /\ Advance)
  /\ WF_vars(Tick)
-----------------------------------------------------------------------------
\* Every variable has its type; in particular no connection is tried more often
\* than there are passes, and the loops stay within the list of connections.
TypeOK ==
  /\ <<servers, strategy>> \in Calls
  /\ s \in 0 .. Len(servers)
  /\ conns \in Seq(Connection)
  /\ phase \in {"first", "deferred", "again"} /\ pass \in 0 .. MAX_PASS - 1
  /\ delay \in Nat /\ i \in 1 .. Len(conns) + 1
  /\ waiting \in {"no", "conn", "pass"}
  /\ endtime \in Nat /\ now \in Nat
  /\ err \in BOOLEAN /\ winner \in 0 .. Len(conns)
  /\ result \in {"none", "reply", "unreach", "svc_unavailable", "error"}

\* During the call exactly the open descriptors are in the poll set, each asked
\* for what its connection waits for (a TLS connection may wait for either), so
\* that find_pollfd never reaches its abort(); a connection that has failed, or
\* that has no socket yet, has no descriptor; the poll set is never overrun; after
\* the call none is open.
Polled ==
  \A c \in DOMAIN conns :
    LET d == conns[c]
        live == d.state \in {"CONNECTING", "WRITING", "READING"}
    IN  IF result = "none"
        THEN /\ d.fd <=> live
             /\ (d.poll # "-") <=> live
             /\ live /\ d.transport # "HTTPS" =>
                  (d.poll = "R" <=> d.state = "READING")
             /\ nfds <= MAX_POLLFDS
        ELSE ~d.fd

Count(P(_)) == Cardinality({c \in DOMAIN conns : P(conns[c])})

\* Powers of two, as far as the passes need them.
Power2[n \in 0 .. MAX_PASS + 1] == IF n = 0 THEN 1 ELSE 2 * Power2[n - 1]

\* The worst case of the comment above k5_sendto: 3*U + T + 14 seconds for U
\* datagram and T stream connections in three passes (2^(P+1) + U*P + T - 2 for
\* P), plus the ten seconds of each TCP connection that was established.
WorstCase ==
  LET U == Count(LAMBDA c : c.transport = "UDP")
      T == Count(LAMBDA c : c.transport # "UDP")
      E == Count(LAMBDA c : c.transport = "TCP" /\ c.established = "later")
  IN  now <= Power2[MAX_PASS + 1] + U * MAX_PASS + T - 2 + 10 * E

\* The exception of the same comment: when a wait ends and the call goes on, no
\* TCP connection that is still writing or reading was established less than ten
\* seconds ago.  A connection that connect() established at once is left out: the
\* code gives it no end time.
TenSeconds ==
  [][waiting # "no" /\ waiting' = "no" /\ result' = "none" =>
       \A c \in DOMAIN conns :
         /\ conns[c].transport = "TCP" /\ conns[c].established = "later"
         /\ conns[c].state \in {"WRITING", "READING"}
         => now >= conns[c].since + 10]_vars

\* Before the call reports that no KDC answered, every address of every server,
\* deferred or not, has been tried, and the datagram went to every address whose
\* socket is still good in each of the passes.  (A failing poll ends the call
\* early.)
EveryServerTried ==
  [][GiveUp =>
       /\ s = Len(servers)
       /\ \A c \in DOMAIN conns :
            /\ conns[c].tries >= 1
            /\ conns[c].transport = "UDP" /\ conns[c].state = "READING" =>
                 conns[c].tries = MAX_PASS]_vars

\* A reply the handler accepted is what the call returns, from a connection that
\* was still open; KRB5KDC_ERR_SVC_UNAVAILABLE is reported exactly when no reply was
\* accepted and some server did answer that it is unavailable.
Verdict ==
  LET refusals == \E c \in DOMAIN conns : conns[c].refused
  IN  /\ result = "reply" <=> winner # 0
      /\ winner # 0 => conns[winner].state = "READING"
      /\ result = "svc_unavailable" => refusals
      /\ result = "unreach" => ~refusals

\* The network does not keep some descriptor ready at every poll for ever after the
\* end time of a wait.
PollsEmpty == WF_vars(EndWait)

\* If so, the call returns, whatever else the network and the servers do.  Without
\* it service_fds has no way out: refusing datagrams without end, or an HTTPS reply
\* parsed again at the end of its stream, hold the call past its end time.
Returns == PollsEmpty => <>(result # "none")
=============================================================================
