------------------------------- MODULE Krad -------------------------------
(***************************************************************************)
(* The RADIUS client of the KDC (lib/krad/remote.c and client.c) and the   *)
(* OTP preauthentication module that drives it                             *)
(* (plugins/preauth/otp/otp_state.c).                                      *)
(*                                                                         *)
(* All of it runs in one thread, from verto's event loop, and every layer  *)
(* calls the one above it: a timer or a readable socket finishes a packet  *)
(* of a remote (request_finish), which tells the client's request          *)
(* (on_response), which may send to the next address or complete and tell  *)
(* the OTP module (callback), which may send for the next token before the *)
(* client has cleaned up.  An action is one event; what the event's        *)
(* callback does is computed by operators that map a state to the next     *)
(* one, named for the functions they translate.                            *)
(*                                                                         *)
(* A verification v tries its tokens 1..NTokens in order; the client       *)
(* request of token i is <<v, i>>.  A request is sent to the addresses of  *)
(* its server in order; its packet at one of them is known by the request  *)
(* alone, since RADIUS ids and authenticators keep packets apart.          *)
(* Answers may be lost, delayed or repeated, sockets may fail at any time. *)
(* Failing allocations are left out.                                       *)
(***************************************************************************)
EXTENDS Integers, Sequences, Functions

CONSTANTS Verification, \* the OTP verifications
          NTokens,      \* tokens of a principal's "otp" string
          Addresses,    \* what the server of a verification's tokens may be
                        \* found to be: sequences of remotes
          Stream,       \* the remotes that are UNIX domain stream sockets
          MaxRetries,   \* "retries" of the token type
          MaxId         \* ids of outstanding packets at one remote (256)

Servers == UNION {Addresses[v] : v \in Verification}
Remote == UNION {Range(ads) : ads \in Servers}
Request == Verification \X (1..NTokens)

(* size_t retries after 0 - 1: larger than any count of resends *)
Wrapped == -1

ASSUME KradAssumption ==
    /\ NTokens \in Nat \ {0} /\ MaxRetries \in Nat /\ MaxId \in Nat \ {0}
    /\ \A v \in Verification : \A ads \in Addresses[v] :
          ads \in Seq(Remote) \ {<<>>} /\ IsInjective(ads)
    /\ Stream \subseteq Remote

VARIABLES
    list,    \* rr->list: the outstanding packets of a remote, in order
    pkt,     \* struct request_st of remote.c, for the packets of list
    fd,      \* is rr->fd open and connected
    io,      \* flags of rr->io; {} when it is NULL
    addrs,   \* client request: the remotes; <<>> when there is no such request
    current, \* client request: index of the remote it was last sent to
    open,    \* client requests that are not complete (count >= 0)
    index,   \* OTP request: the token being tried; 0 before otp_verify
    answers  \* history: calls of the OTP request's cb

vars == <<list, pkt, fd, io, addrs, current, open, index, answers>>

(* r->sent: nothing, a part or all of the packet; "tail" and "gone" are a  *)
(* part and all of it sent, with bytes that went over a connection which   *)
(* was closed since, so that nobody can answer on this one.                *)
Packet == [sent    : {"no", "part", "tail", "all", "gone"},
           timer   : BOOLEAN,
           retries : {Wrapped} \cup 0..MaxRetries,
           tries   : 0..MaxRetries + 2,  \* history: whole transmissions
           revived : BOOLEAN]            \* history: was a timer started after
                                         \* the last timeout

(* Every variable has its type, and no closed socket has an event. *)
TypeOK ==
    /\ list \in [Remote -> Seq(Request)]
    /\ \A r \in Remote : IsInjective(list[r]) /\ Len(list[r]) <= MaxId
    /\ pkt \in [Remote -> [Request -> Packet]]
    /\ fd \in [Remote -> BOOLEAN]
    /\ io \in [Remote -> SUBSET {"R", "W"}]
    /\ \A r \in Remote : io[r] # {} => fd[r]
    /\ \A q \in Request : addrs[q] \in Servers \cup {<<>>}
    /\ \A q \in Request : current[q] \in 0..Len(addrs[q]) + 1
    /\ open \subseteq Request
    /\ index \in [Verification -> 0..NTokens + 1]
    /\ answers \in [Verification -> 0..2]

NoPacket == [sent |-> "no", timer |-> FALSE, retries |-> 0, tries |-> 0,
             revived |-> FALSE]

Init ==
    /\ list = [r \in Remote |-> <<>>]
    /\ pkt = [r \in Remote |-> [q \in Request |-> NoPacket]]
    /\ fd = [r \in Remote |-> FALSE]
    /\ io = [r \in Remote |-> {}]
    /\ addrs = [q \in Request |-> <<>>]
    /\ current = [q \in Request |-> 0]
    /\ open = {}
    /\ index = [v \in Verification |-> 0]
    /\ answers = [v \in Verification |-> 0]

Now == [list |-> list, pkt |-> pkt, fd |-> fd, io |-> io, addrs |-> addrs,
        current |-> current, open |-> open, index |-> index,
        answers |-> answers]

Becomes(state) ==
    \E s \in {state} :
        /\ list' = s.list /\ pkt' = s.pkt /\ fd' = s.fd /\ io' = s.io
        /\ addrs' = s.addrs /\ current' = s.current /\ open' = s.open
        /\ index' = s.index /\ answers' = s.answers

----------------------------------------------------------------------------
(* remote.c *)

request_start_timer(p) ==
    [p EXCEPT !.timer = TRUE, !.revived = @ \/ p.retries = Wrapped]

(* Mutant: the event of the closed socket is kept. *)
close_only(s, r) == [s EXCEPT !.fd[r] = FALSE]

(* A packet keeps r->sent when its connection is closed: the rest of one   *)
(* that was written in part goes out on the next connection, where nobody  *)
(* makes sense of it.                                                      *)
cut_off(p) ==
    [p EXCEPT !.sent = IF p.sent = "part" THEN "tail"
                       ELSE IF p.sent = "all" THEN "gone" ELSE p.sent]

remote_disconnect(s, r) ==
    [s EXCEPT !.fd[r] = FALSE, !.io[r] = {},
              !.pkt[r] = [q \in Request |-> cut_off(@[q])]]

(* remote_add_flags fails when the remote has no connection and cannot be  *)
(* connected to; "up" says if a connect() succeeds now (no event needs     *)
(* two).                                                                   *)
connects(s, r, up) == s.fd[r] \/ up

remote_add_flags(s, r, flags) ==
    [s EXCEPT !.fd[r] = TRUE, !.io[r] = @ \cup flags]

remote_del_flags(s, r, flags) == [s EXCEPT !.io[r] = @ \ flags]

(* Mutant: the packets that wait to be written get no timer. *)
shutdown_without_timers(s, r) == remote_disconnect(s, r)

(* "Start timers for all unsent packets": for every packet without one,    *)
(* those that timed out for good included.                                 *)
remote_shutdown(s, r) ==
    LET d == remote_disconnect(s, r)
        untimed(q) == q \in Range(s.list[r]) /\ ~s.pkt[r][q].timer
    IN  [d EXCEPT !.pkt[r] = [q \in Request |->
             IF untimed(q) THEN request_start_timer(@[q]) ELSE @[q]]]

(* id_generate finds no free id, or there is no connection *)
can_send(s, r, up) == Len(s.list[r]) < MaxId /\ connects(s, r, up)

kr_remote_send(s, r, q) ==
    [remote_add_flags(s, r, {"W"}) EXCEPT
        !.list[r] = Append(@, q),
        !.pkt[r][q] = [NoPacket EXCEPT
                          !.retries = IF r \in Stream THEN 0 ELSE MaxRetries]]

(* TAILQ_REMOVE; a queue holds a packet once. *)
remove(queue, q) ==
    LET n == CHOOSE n \in DOMAIN queue : queue[n] = q
    IN  IF q \in Range(queue)
        THEN SubSeq(queue, 1, n - 1) \o SubSeq(queue, n + 1, Len(queue))
        ELSE queue

(* request_finish with any code but ETIMEDOUT takes the packet off the     *)
(* list and frees it with its timer.                                       *)
unlist(s, r, q) ==
    [s EXCEPT !.list[r] = remove(@, q), !.pkt[r][q] = NoPacket]

(* Mutant: only the packet at the last remote is cancelled. *)
cancel_current(s, q) ==
    IF s.current[q] \in DOMAIN s.addrs[q]
    THEN unlist(s, s.addrs[q][s.current[q]], q) ELSE s

(* kr_remote_cancel at every remote of the request: its own callback       *)
(* returns at once, the request being complete already.                    *)
kr_remote_cancel(s, q) ==
    LET unlisted(r) == r \in Range(s.addrs[q])
    IN  [s EXCEPT !.list = [r \in Remote |->
                      IF unlisted(r) THEN remove(@[r], q) ELSE @[r]],
                  !.pkt = [r \in Remote |->
                      IF unlisted(r) THEN [@[r] EXCEPT ![q] = NoPacket]
                                     ELSE @[r]]]

----------------------------------------------------------------------------
(* otp_state.c and client.c.  The environment of an event: "up" as above,  *)
(* "ads" what the server of a token resolves to now (<<>> if it does not), *)
(* "old" the remotes that have not been used for an hour.                  *)

krad_client_send(s, q, ads) ==
    [kr_remote_send(s, ads[1], q) EXCEPT
        !.addrs[q] = ads, !.current[q] = 1, !.open = @ \cup {q}]

(* req->cb and request_free of the OTP module *)
answer(s, v) == [s EXCEPT !.answers[v] = IF @ < 2 THEN @ + 1 ELSE @]

request_send(s, v, e) ==
    IF e.ads # <<>> /\ can_send(s, Head(e.ads), e.up)
    THEN krad_client_send(s, <<v, s.index[v]>>, e.ads)
    ELSE answer(s, v)

(* Mutant: no return after the answer to an accept packet. *)
callback_no_return(s, v, ret, e) ==
    LET next == [s EXCEPT !.index[v] = @ + 1]
    IN  IF ret = "accept" THEN answer(answer(next, v), v) ELSE answer(next, v)

(* After "Try the next token" the code runs on into the error label: the   *)
(* request is answered and freed with the next token's packet outstanding. *)
callback(s, v, ret, e) ==
    LET next == [s EXCEPT !.index[v] = @ + 1]
    IN  IF ret = "reject" /\ next.index[v] <= NTokens
        THEN answer(request_send(next, v, e), v)
        ELSE answer(next, v)

(* age: a request lives for less than an hour, so the remotes it uses,     *)
(* which get_server stamped when it was made, are never aged.              *)
in_use(s) == UNION {Range(s.addrs[q]) : q \in s.open}

age(s, old) ==
    [s EXCEPT !.fd = [r \in Remote |-> @[r] /\ r \notin old],
              !.io = [r \in Remote |-> IF r \in old THEN {} ELSE @[r]]]

complete(s, q, ret, e) ==
    LET told == callback([s EXCEPT !.open = @ \ {q}], q[1], ret, e)
        aged == age(kr_remote_cancel(told, q),
                    e.old \ (in_use(s) \cup in_use(told)))
    IN  [aged EXCEPT !.addrs[q] = <<>>, !.current[q] = 0]

on_response(s, q, ret, e) ==
    LET next == [s EXCEPT !.current[q] = @ + 1]
        more == next.current[q] <= Len(s.addrs[q])
    IN  IF q \notin s.open THEN s
        ELSE IF ret # "timeout" THEN complete(s, q, ret, e)
        ELSE IF more /\ can_send(s, s.addrs[q][next.current[q]], e.up)
        THEN kr_remote_send(next, s.addrs[q][next.current[q]], q)
        ELSE complete(next, q, "error", e)

----------------------------------------------------------------------------
(* The events *)

idle == SUBSET {r \in Remote : fd[r] /\ r \notin in_use(Now)}

(* The configuration string of the principal may not decode. *)
otp_state_verify(v, e) ==
    LET s == [Now EXCEPT !.index[v] = 1]
    IN  /\ index[v] = 0
        /\ Becomes(request_send(s, v, e)) \/ Becomes(answer(s, v))

(* Mutant: req->retries > 0, without the decrement. *)
no_countdown(n) == n

(* Mutant: req->retries-- >= 0, which holds of every size_t. *)
resends_always(p) == TRUE

(* req->retries-- > 0 *)
resends(p) == p.retries # 0

countdown(n) == IF n > 0 THEN n - 1 ELSE Wrapped

on_timeout(r, q, e) ==
    LET p == pkt[r][q]
        resend == [p EXCEPT !.timer = FALSE, !.sent = "no",
                       !.retries = countdown(@)]
        spent == [p EXCEPT !.timer = FALSE, !.retries = countdown(@)]
    IN  /\ q \in Range(list[r]) /\ p.timer
        /\ \/ /\ resends(p) /\ connects(Now, r, e.up)
              /\ Becomes(remote_add_flags(
                     [Now EXCEPT !.pkt[r][q] = resend], r, {"W"}))
           \/ /\ resends(p) /\ ~connects(Now, r, e.up)
              /\ Becomes(on_response(unlist(Now, r, q), q, "error", e))
           \/ /\ ~resends(p)
              /\ Becomes(on_response([Now EXCEPT !.pkt[r][q] = spent], q,
                                     "timeout", e))

(* the places of the packets that wait to be written *)
unsent(r) ==
    {n \in DOMAIN list[r] : pkt[r][list[r][n]].sent \in {"no", "part", "tail"}}

written(r, q) ==
    LET p == pkt[r][q]
    IN  [remote_add_flags(Now, r, {"R"}) EXCEPT
            !.pkt[r][q] = [request_start_timer(p) EXCEPT
                !.sent = IF @ = "tail" THEN "gone" ELSE "all",
                !.tries = IF p.sent # "tail" /\ @ < MaxRetries + 2
                          THEN @ + 1 ELSE @]]

on_io_write(r) ==
    /\ "W" \in io[r]
    /\ \/ /\ unsent(r) = {}
          /\ Becomes(remote_del_flags(Now, r, {"W"}))
       \/ /\ unsent(r) # {}
          /\ Becomes(remote_shutdown(Now, r))
       \/ \E n \in unsent(r) :
             /\ \A m \in unsent(r) : n <= m
             /\ \/ Becomes(written(r, list[r][n]))
                \/ /\ r \in Stream /\ pkt[r][list[r][n]].sent = "no"
                   /\ Becomes([Now EXCEPT !.pkt[r][list[r][n]].sent = "part"])

(* Data that decodes to no answer, or to one of a packet that is no longer *)
(* listed or is about to be sent again, changes nothing.                   *)
on_io_read(r, e) ==
    /\ "R" \in io[r]
    /\ \/ Becomes(remote_shutdown(Now, r))
       \/ Becomes(remote_del_flags(Now, r, {"R"}))
       \/ \E q \in Range(list[r]), ret \in {"accept", "reject"} :
              /\ pkt[r][q].sent = "all"
              /\ Becomes(on_response(unlist(Now, r, q), q, ret, e))

(* The server of a token is looked up when the token is tried. *)
Verify(v) ==
    \E up \in BOOLEAN, ads \in Addresses[v] \cup {<<>>} :
        otp_state_verify(v, [up |-> up, ads |-> ads, old |-> {}])
Timeout(r, q) ==
    \E up \in BOOLEAN, old \in idle :
        on_timeout(r, q, [up |-> up, ads |-> <<>>, old |-> old])
Write(r) == on_io_write(r)
Read(r) ==
    \E up \in BOOLEAN, old \in idle,
       ads \in IF NTokens > 1 THEN Servers \cup {<<>>} ELSE {<<>>} :
        on_io_read(r, [up |-> up, ads |-> ads, old |-> old])

Next ==
    \/ \E v \in Verification : Verify(v)
    \/ \E r \in Remote, q \in Request : Timeout(r, q)
    \/ \E r \in Remote : Write(r)
    \/ \E r \in Remote : Read(r)

Spec == Init /\ [][Next]_vars

(* A socket is writable sooner or later, and the timer of a request's      *)
(* packet at its current remote fires; no answer ever needs to come.  The  *)
(* second is weak fairness, with what enables CurrentTimeout written out.  *)
Ticking(q) ==
    q \in open /\ LET r == addrs[q][current[q]]
                 IN  q \in Range(list[r]) /\ pkt[r][q].timer
CurrentTimeout(q) == q \in open /\ Timeout(addrs[q][current[q]], q)

FairSpec ==
    /\ Spec
    /\ \A r \in Remote : WF_vars(Write(r))
    /\ \A q \in Request : []<>~Ticking(q) \/ []<><<CurrentTimeout(q)>>_vars

----------------------------------------------------------------------------
(* Properties *)

(* A verification is answered when it is complete and only then: once its  *)
(* cb has been called it is not called again, and no RADIUS request is     *)
(* left whose callback would be given the freed verification.              *)
OneAnswer ==
    \A v \in Verification : answers[v] > 0 =>
        answers[v] = 1 /\ \A q \in open : q[1] # v

(* No remote holds a packet of a complete request: on_response frees the   *)
(* request, and a packet left behind, timed out or not, would call back    *)
(* with it.                                                                *)
NothingLeft ==
    \A r \in Remote : Range(list[r]) \subseteq open

(* A request is never stuck: its packet at the remote it was last sent to  *)
(* has a timer, or waits to be written on a connection that asks to write, *)
(* whatever shutdowns and timeouts of other packets happen.                *)
NeverStuck ==
    \A q \in open :
        LET r == addrs[q][current[q]]
        IN  /\ q \in Range(list[r])
            /\ \/ pkt[r][q].timer
               \/ pkt[r][q].sent \in {"no", "part", "tail"} /\ fd[r] /\ "W" \in io[r]

(* "3 retries (4 tries)": a packet is transmitted no more than once and    *)
(* "retries" times again, unless a timer is started for it after it timed  *)
(* out for good and its count wrapped: by remote_shutdown, or by           *)
(* on_io_write when it waited to be written.                               *)
TriesBounded ==
    \A r \in Remote, q \in Request :
        pkt[r][q].tries <= MaxRetries + 1 \/ pkt[r][q].revived

(* Every verification is answered, even if no server ever answers. *)
Answered == \A v \in Verification : index[v] # 0 ~> answers[v] # 0
=============================================================================
