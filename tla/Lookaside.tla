----------------------------- MODULE Lookaside -----------------------------
(***************************************************************************)
(* The KDC's lookaside cache (src/kdc/replay.c): recent request packets    *)
(* and the replies sent to them, so that a retransmitted request gets the  *)
(* reply of its first copy instead of being processed again.               *)
(*                                                                         *)
(* A cache is a record: queue is the expiration queue, oldest insertion    *)
(* first, and total_size the running total the insertions are limited by.  *)
(* The hash buckets index the same entries by packet, so they are not a    *)
(* second piece of state.                                                  *)
(***************************************************************************)
EXTENDS Integers, Sequences, FiniteSets, FiniteSetsExt

CONSTANTS
    Req,                 \* the request packets clients send
    ReqLen,              \* the length of each
    ENTRY,               \* sizeof(struct entry)
    LOOKASIDE_MAX_SIZE,
    STALE_TIME,
    NoMemory             \* whether an allocation may fail

ASSUME LookasideAssumption ==
    /\ ReqLen \in [Req -> Nat \ {0}]
    /\ ENTRY \in Nat \ {0}
    /\ LOOKASIDE_MAX_SIZE \in Nat
    /\ STALE_TIME \in Nat \ {0}
    /\ NoMemory \in BOOLEAN

\* A reply packet is its length.  An entry is allocated with calloc(), so one
\* inserted without a reply holds the packet of length zero: the mark of a
\* request still being processed.
Data == Nat
EmptyData == 0

CacheEntry == [req : Req, reply : Data, timein : Nat]
EmptyCache == [queue |-> <<>>, total_size |-> 0]

\* abs(timein - now): a clock stepped back makes an entry stale as well.
STALE(e, now) == \/ now - e.timein >= STALE_TIME
                 \/ e.timein - now >= STALE_TIME

entry_size(req, rep) == ENTRY + ReqLen[req] + rep

\* The footprint of the entries of a queue.
SizeOf(queue) ==
    LET sum[n \in 0 .. Len(queue)] ==
            IF n = 0 THEN 0
            ELSE sum[n - 1] + entry_size(queue[n].req, queue[n].reply)
    IN  sum[Len(queue)]

Cached(cache) == {cache.queue[i].req : i \in DOMAIN cache.queue}

\* find_entry() for a packet that is there: the place of its entry.  A bucket
\* is searched from its most recent insertion.
find_entry(cache, req) ==
    Max({i \in DOMAIN cache.queue : cache.queue[i].req = req})

\* The queue without the entry at place i.
Without(queue, i) ==
    SubSeq(queue, 1, i - 1) \o SubSeq(queue, i + 1, Len(queue))

\* Mutant: the reply is not counted when its entry goes.
DiscardForgetsReply(cache, i) ==
    [queue |-> Without(cache.queue, i),
     total_size |-> cache.total_size
                        - entry_size(cache.queue[i].req, EmptyData)]

discard_entry(cache, i) ==
    LET e == cache.queue[i]
    IN  [queue |-> Without(cache.queue, i),
         total_size |-> cache.total_size - entry_size(e.req, e.reply)]

kdc_remove_lookaside(cache, req) ==
    IF req \in Cached(cache) THEN discard_entry(cache, find_entry(cache, req))
                             ELSE cache

\* The purge at the head of kdc_insert_lookaside(): entries leave from the
\* head of the queue until the head is fresh and the new entry fits.
Purge(cache, esize, now) ==
    LET Left(k) == cache.total_size - SizeOf(SubSeq(cache.queue, 1, k))
        Enough(k) == k < Len(cache.queue)
                        => /\ ~STALE(cache.queue[k + 1], now)
                           /\ Left(k) + esize <= LOOKASIDE_MAX_SIZE
        n == Min({k \in 0 .. Len(cache.queue) : Enough(k)})
    IN  [queue |-> SubSeq(cache.queue, n + 1, Len(cache.queue)),
         total_size |-> Left(n)]

\* Mutant: the new entry is not added to the total.
InsertUncounted(cache, req, reply, now) ==
    LET purged == Purge(cache, entry_size(req, reply), now)
    IN  [purged EXCEPT !.queue =
            Append(@, [req |-> req, reply |-> reply, timein |-> now])]

\* The insertion when nothing fails.
Insert(cache, req, reply, now) ==
    LET purged == Purge(cache, entry_size(req, reply), now)
    IN  [queue |-> Append(purged.queue,
                          [req |-> req, reply |-> reply, timein |-> now]),
         total_size |-> purged.total_size + entry_size(req, reply)]

\* The caches kdc_insert_lookaside() can leave: it "can fail silently" before
\* the purge, when the clock cannot be read, or after it, when memory is short.
kdc_insert_lookaside(cache, req, reply, now) ==
    {Insert(cache, req, reply, now), cache}
        \cup IF NoMemory THEN {Purge(cache, entry_size(req, reply), now)} ELSE {}
=============================================================================
