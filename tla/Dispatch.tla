------------------------------ MODULE Dispatch ------------------------------
(***************************************************************************)
(* dispatch() of src/kdc/dispatch.c over the lookaside cache: one KDC      *)
(* process and its event loop.  A TGS request is processed inside the      *)
(* handler; an AS request may wait for a preauthentication module, and     *)
(* then other packets, copies of its own among them, are dispatched before *)
(* its callback finish_dispatch_cache() runs.                              *)
(***************************************************************************)
EXTENDS Lookaside

CONSTANTS
    AS, TGS,             \* the requests of each type; the rest are neither
    ReplyLen,            \* the possible lengths of a reply
    max_dgram_reply_size,
    NULL,
    States,              \* the dispatch states allocated for AS requests
    MaxTime,             \* bound on the clock
    MaxRuns              \* bound on how often one request is processed

ASSUME DispatchAssumption ==
    /\ AS \subseteq Req /\ TGS \subseteq Req /\ AS \cap TGS = {}
    /\ ReplyLen \subseteq Nat \ {0}
    /\ max_dgram_reply_size \in Nat
    /\ NULL \notin Data
    /\ MaxTime \in Nat /\ MaxRuns \in Nat

VARIABLES
    cache,               \* the lookaside cache
    now,                 \* the clock: it may be set back
    state,               \* the AS requests in progress
    out,                 \* the last call of the respond function
    up,                  \* the process is running
    runs,                \* history: how often each request was processed
    forgotten,           \* history: how often its entry was lost
    copyfailed           \* history: how often its reply could not be copied

vars == <<cache, now, state, out, up, runs, forgotten, copyfailed>>

Codes == {"ok", "discard", "error"}
TooBig == 1     \* an encoded KRB_ERR_RESPONSE_TOO_BIG
Unused == [req |-> NULL, is_tcp |-> FALSE]

\* What a call of respond shows of the dispatch that made it: busy tells that
\* the response comes from an entry that marks a request in progress.
Response == [req : Req \cup {NULL}, code : Codes, response : Data \cup {NULL},
             busy : BOOLEAN]
NoResponse == [req |-> NULL, code |-> "discard", response |-> NULL,
               busy |-> FALSE]

\* Every variable has its type.
TypeOK ==
    /\ cache.queue \in Seq(CacheEntry) /\ cache.total_size \in Nat
    /\ now \in 0 .. MaxTime
    /\ state \in [States -> [req : AS, is_tcp : BOOLEAN] \cup {Unused}]
    /\ out \in Response
    /\ up \in BOOLEAN
    /\ runs \in [Req -> 0 .. MaxRuns]
    /\ forgotten \in [Req -> Nat] /\ copyfailed \in [Req -> Nat]

Init ==
    /\ cache = EmptyCache
    /\ now = 0
    /\ state = [s \in States |-> Unused]
    /\ out = NoResponse
    /\ up = TRUE
    /\ runs = [r \in Req |-> 0]
    /\ forgotten = [r \in Req |-> 0]
    /\ copyfailed = [r \in Req |-> 0]

-----------------------------------------------------------------------------
\* finish_dispatch(): a reply too large for a datagram is replaced by an error
\* built with the names of the active realm.  Only the AS path has stored the
\* realm in the dispatch state; on the others the pointer is null, and the
\* process does not survive its use.
finish_dispatch(is_tcp, realm, resp) ==
    LET big == ~is_tcp /\ resp.response # NULL
                       /\ resp.response > max_dgram_reply_size
    IN  IF big /\ ~realm
        THEN up' = FALSE /\ UNCHANGED out
        ELSE /\ out' = [resp EXCEPT !.response = IF big THEN TooBig ELSE @]
             /\ UNCHANGED up

\* The history of the entries that a step loses which leaves the cache c,
\* out of those in had.
Forget(had, c) ==
    forgotten' = [r \in Req |->
        forgotten[r] + IF r \in had \ Cached(c) THEN 1 ELSE 0]

Made(req, code, response) ==
    [NoResponse EXCEPT !.req = req, !.code = code, !.response = response]

\* Mutant: the mark is left where it is when the reply is inserted.
FinishKeepsMark(c, req, code, response) ==
    IF code = "ok" /\ response # NULL
    THEN kdc_insert_lookaside(c, req, response, now)
    ELSE IF code = "error" THEN {kdc_remove_lookaside(c, req)} ELSE {c}

\* Mutant: the mark of a discarded request is removed as well.
FinishAlwaysUnmarks(c, req, code, response) ==
    IF code = "ok" /\ response # NULL
    THEN kdc_insert_lookaside(kdc_remove_lookaside(c, req), req, response, now)
    ELSE {kdc_remove_lookaside(c, req)}

\* What finish_dispatch_cache() does to the cache: the mark goes unless the
\* request is to be discarded, and a reply takes its place.
finish_dispatch_cache(c, req, code, response) ==
    LET unmarked == IF code = "discard" THEN c
                    ELSE kdc_remove_lookaside(c, req)
    IN  IF code = "ok" /\ response # NULL
        THEN kdc_insert_lookaside(unmarked, req, response, now)
        ELSE {unmarked}

\* dispatch() when kdc_check_lookaside() finds the packet.  krb5_copy_data()
\* allocates a copy of the stored reply whatever its length, so the response
\* is never null: not for the mark of a request in progress either.
kdc_check_lookaside(e) == e.reply

Hit(req, is_tcp) ==
    /\ up
    /\ req \in Cached(cache)
    /\ LET e == cache.queue[find_entry(cache, req)]
           response == kdc_check_lookaside(e)
       IN  finish_dispatch(is_tcp, FALSE,
               [req |-> req,
                code |-> IF response # NULL THEN "ok" ELSE "discard",
                response |-> response,
                busy |-> e.reply = EmptyData])
    /\ UNCHANGED <<cache, now, state, runs, forgotten, copyfailed>>

\* The packet is new, or its entry is there and the reply could not be copied:
\* kdc_check_lookaside() returns false in both cases, and processing begins.
Miss(req) ==
    /\ up
    /\ req \in Cached(cache) => NoMemory
    /\ runs[req] < MaxRuns
    /\ runs' = [runs EXCEPT ![req] = @ + 1]
    /\ copyfailed' = [copyfailed EXCEPT ![req] =
                        IF req \in Cached(cache) THEN @ + 1 ELSE @]

\* A request that is processed to its end inside dispatch(): a TGS request,
\* one of neither type, or an AS request that cannot be decoded or whose realm
\* this KDC does not serve.
Answer(req, is_tcp) ==
    /\ Miss(req)
    /\ \E code \in {"ok", "error"},
          response \in ReplyLen \cup {NULL},
          marked \in kdc_insert_lookaside(cache, req, EmptyData, now) :
        /\ (code = "ok") <=> (response # NULL)
        /\ code = "ok" => req \in TGS
        /\ \E c \in finish_dispatch_cache(marked, req, code, response) :
            /\ cache' = c
            /\ Forget(Cached(cache) \cup {req}, c)
        /\ finish_dispatch(is_tcp, FALSE, Made(req, code, response))
    /\ UNCHANGED <<now, state>>

\* dispatch() of an AS request, until process_as_req() waits.
StartAS(s, req, is_tcp) ==
    /\ state[s] = Unused
    /\ Miss(req)
    /\ \E c \in kdc_insert_lookaside(cache, req, EmptyData, now) :
        /\ cache' = c
        /\ Forget(Cached(cache) \cup {req}, c)
    /\ state' = [state EXCEPT ![s] = [req |-> req, is_tcp |-> is_tcp]]
    /\ UNCHANGED <<now, out, up>>

\* finish_request() of the AS exchange calls finish_dispatch_cache(): a reply
\* or an encoded error, nothing when not even that could be built, or the
\* code a preauthentication module returns to drop the request, which is no
\* reason to lose its entry.
FinishAS(s) ==
    /\ up
    /\ state[s] # Unused
    /\ LET req == state[s].req IN
       \E code \in Codes, response \in ReplyLen \cup {NULL} :
        /\ (code = "ok") <=> (response # NULL)
        /\ \E c \in finish_dispatch_cache(cache, req, code, response) :
            /\ cache' = c
            /\ Forget(Cached(cache) \ (IF code = "discard" THEN {req} ELSE {}), c)
        /\ finish_dispatch(state[s].is_tcp, TRUE, Made(req, code, response))
    /\ state' = [state EXCEPT ![s] = Unused]
    /\ UNCHANGED <<now, runs, copyfailed>>

SetClock(t) ==
    /\ up
    /\ t # now
    /\ now' = t
    /\ UNCHANGED <<cache, state, out, up, runs, forgotten, copyfailed>>

Next ==
    \/ \E req \in Req, is_tcp \in BOOLEAN :
        \/ Hit(req, is_tcp)
        \/ Answer(req, is_tcp)
    \/ \E s \in States, req \in AS, is_tcp \in BOOLEAN : StartAS(s, req, is_tcp)
    \/ \E s \in States : FinishAS(s)
    \/ \E t \in 0 .. MaxTime : SetClock(t)

Spec == Init /\ [][Next]_vars

-----------------------------------------------------------------------------
\* kdc_insert_lookaside() "Assumes it's not already there": however the
\* callbacks of several copies of a request interleave with insertions and
\* purges, the cache never holds two entries for one packet, but for one more
\* each time the reply of the entry that is there could not be copied.
OneEntry ==
    \A r \in Req :
        Cardinality({i \in DOMAIN cache.queue : cache.queue[i].req = r})
            <= 1 + copyfailed[r]

\* The running total is the footprint of the entries that are there, and stays
\* within LOOKASIDE_MAX_SIZE unless one entry alone exceeds it.
Accounted ==
    /\ cache.total_size = SizeOf(cache.queue)
    /\ Len(cache.queue) > 1 => cache.total_size <= LOOKASIDE_MAX_SIZE

\* A request is processed again only after the entry of an earlier copy was
\* lost: purged, never stored, or removed because it got no reply; or because
\* memory was short when the stored reply was to be copied.  One that
\* a module had discarded is not processed again meanwhile.  Copies
\* that arrive during a slow AS exchange do not start another.
ProcessedOnce ==
    \A r \in Req : runs[r] <= 1 + forgotten[r] + copyfailed[r]

\* What dispatch() logs, "during request processing, dropping repeated
\* request": a copy of a request in progress gets no response.
RepeatDropped ==
    out.busy => out.response = NULL
=============================================================================
