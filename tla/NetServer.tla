----------------------------- MODULE NetServer -----------------------------
(***************************************************************************)
(* The connections of the KDC's and kadmind's event loop                   *)
(* (lib/apputils/net-server.c): TCP connections that read one request, are *)
(* taken out of the loop while it is dispatched and come back to write the *)
(* reply; RPC connections, which the RPC library reads, answers and        *)
(* closes; the limit on connections, beyond which the oldest one is        *)
(* dropped; and the reconfiguration after a routing message.               *)
(*                                                                         *)
(* The loop is one thread: an action is one callback.  The loop of         *)
(* accept_rpc_connection over the descriptors takes one action for each    *)
(* descriptor, and nothing else happens until it ends.  Listening and UDP  *)
(* sockets are left out: they belong to no connection.                     *)
(***************************************************************************)
EXTENDS Integers, FiniteSets

CONSTANTS Fd,      \* file descriptors below FD_SETSIZE
          MaxConns,     \* max_tcp_or_rpc_data_connections
          MaxClock  \* bound on the clock

ASSUME NetAssumption ==
    /\ Fd \subseteq Nat /\ IsFiniteSet(Fd)
    /\ MaxConns \in Nat /\ MaxClock \in Nat

VARIABLES
    sock,     \* what a descriptor is open for
    events,   \* descriptors with an event in the set "events"
    phase,    \* TCP: what of the request has been read, or the reply waits
    dispatched, \* TCP: struct tcp_dispatch_state, by its sock
    start_time, \* when a connection was accepted
    clock,
    tcp_or_rpc_data_counter,
    scan,     \* descriptors accept_rpc_connection has still to look at
    peak      \* history: largest number of connections in dispatch

netvars == <<sock, events, phase, dispatched, start_time, clock,
             tcp_or_rpc_data_counter, scan, peak>>

(* Every variable has its type; the counter in particular is never negative. *)
NetTypeOK ==
    /\ sock \in [Fd -> {"free", "tcp", "rpc"}]
    /\ events \subseteq Fd
    /\ phase \in [Fd -> {"length", "message", "reply"}]
    /\ dispatched \subseteq Fd
    /\ start_time \in [Fd -> 0..MaxClock] /\ clock \in 0..MaxClock
    /\ tcp_or_rpc_data_counter \in Nat
    /\ scan \subseteq Fd
    /\ peak \in Nat

(* The kernel gives out the least descriptor that is not open. *)
least(s, free) == s \in free /\ \A f \in free : s <= f

FreeFds == {f \in Fd : sock[f] = "free"}

NetInit ==
    /\ sock = [f \in Fd |-> "free"]
    /\ events = {}
    /\ phase = [f \in Fd |-> "length"]
    /\ dispatched = {}
    /\ start_time = [f \in Fd |-> 0] /\ clock = 0
    /\ tcp_or_rpc_data_counter = 0
    /\ scan = {}
    /\ peak = 0

(* The connections the counter is about.  An RPC connection without an     *)
(* event is one the library still has and the loop has forgotten.          *)
DataConns == {f \in Fd : sock[f] = "tcp" \/ (sock[f] = "rpc" /\ f \in events)}

----------------------------------------------------------------------------
(* Mutant: an event is deleted and the counter is left alone. *)
close_uncounted(f) ==
    /\ sock' = [sock EXCEPT ![f] = "free"]
    /\ events' = events \ {f}
    /\ phase' = [phase EXCEPT ![f] = "length"]
    /\ start_time' = [start_time EXCEPT ![f] = 0]
    /\ UNCHANGED tcp_or_rpc_data_counter

(* free_socket, from verto_del, of a TCP connection or of an RPC one that  *)
(* the library has closed; struct connection is freed.                     *)
free_socket(f) ==
    /\ sock' = [sock EXCEPT ![f] = "free"]
    /\ events' = events \ {f}
    /\ phase' = [phase EXCEPT ![f] = "length"]
    /\ start_time' = [start_time EXCEPT ![f] = 0]
    /\ tcp_or_rpc_data_counter' = tcp_or_rpc_data_counter - 1

(* kill_lru_tcp_or_rpc_connection picks from the connections with an event *)
(* one with the least start_time.                                          *)
candidates == {f \in events : sock[f] \in {"tcp", "rpc"}}

oldest(f) ==
    f \in candidates /\ \A g \in candidates : start_time[f] <= start_time[g]

(* Mutant: the limit is tested before the new connection is counted. *)
crowded_before == tcp_or_rpc_data_counter > MaxConns

crowded == tcp_or_rpc_data_counter + 1 > MaxConns

(* A new connection s of kind k gets its event and is counted; when that   *)
(* makes too many, the oldest other one is dropped, if any has an event.   *)
(* An RPC connection is dropped with rpc_force_close: the descriptor is    *)
(* closed and the library made to notice.                                  *)
admit(s, k) ==
    \/ /\ crowded
       /\ \E f \in Fd :
             /\ oldest(f)
             /\ sock' = [sock EXCEPT ![s] = k, ![f] = "free"]
             /\ events' = (events \cup {s}) \ {f}
             /\ phase' = [phase EXCEPT ![f] = "length"]
             /\ start_time' = [start_time EXCEPT ![s] = clock, ![f] = 0]
       /\ UNCHANGED tcp_or_rpc_data_counter
    \/ /\ ~crowded \/ candidates = {}
       /\ sock' = [sock EXCEPT ![s] = k]
       /\ events' = events \cup {s}
       /\ start_time' = [start_time EXCEPT ![s] = clock]
       /\ tcp_or_rpc_data_counter' = tcp_or_rpc_data_counter + 1
       /\ UNCHANGED phase

(* The same when no buffer can be allocated: the new connection goes too.  *)
admit_and_close ==
    /\ crowded
    /\ \E f \in Fd : oldest(f) /\ free_socket(f)

accept_tcp_connection ==
    /\ scan = {}
    /\ \E s \in Fd :
          /\ least(s, FreeFds)
          /\ admit(s, "tcp") \/ admit_and_close
    /\ UNCHANGED <<dispatched, clock, scan, peak>>

(* Mutant: the event is not removed from the set. *)
keep_event(f) ==
    /\ events' = events
    /\ dispatched' = dispatched \cup {f}
    /\ peak' = IF Cardinality(dispatched) + 1 > peak
               THEN Cardinality(dispatched) + 1 ELSE peak

prepare_for_dispatch(f) ==
    /\ events' = events \ {f}
    /\ dispatched' = dispatched \cup {f}
    /\ peak' = IF Cardinality(dispatched) + 1 > peak
               THEN Cardinality(dispatched) + 1 ELSE peak

(* End of file, an error, or no memory for the dispatch closes the         *)
(* connection.  A length beyond the buffer is answered with an error at    *)
(* once, in the same callback.                                             *)
process_tcp_connection_read(f) ==
    /\ scan = {}
    /\ f \in events /\ sock[f] = "tcp" /\ phase[f] # "reply"
    /\ \/ free_socket(f) /\ UNCHANGED <<dispatched, peak>>
       \/ /\ phase[f] = "length"
          /\ \E p \in {"message", "reply"} : phase' = [phase EXCEPT ![f] = p]
          /\ UNCHANGED <<sock, events, start_time, tcp_or_rpc_data_counter,
                         dispatched, peak>>
       \/ /\ phase[f] = "message"
          /\ prepare_for_dispatch(f)
          /\ UNCHANGED <<sock, phase, start_time, tcp_or_rpc_data_counter>>
    /\ UNCHANGED <<clock, scan>>

(* A reply is queued; or there is none, or no event for it, and the        *)
(* connection is closed.                                                   *)
process_tcp_response(f) ==
    /\ scan = {}
    /\ f \in dispatched
    /\ dispatched' = dispatched \ {f}
    /\ \/ /\ events' = events \cup {f}
          /\ phase' = [phase EXCEPT ![f] = "reply"]
          /\ UNCHANGED <<sock, start_time, tcp_or_rpc_data_counter>>
       \/ /\ sock' = [sock EXCEPT ![f] = "free"]
          /\ tcp_or_rpc_data_counter' = tcp_or_rpc_data_counter - 1
          /\ phase' = [phase EXCEPT ![f] = "length"]
          /\ start_time' = [start_time EXCEPT ![f] = 0]
          /\ UNCHANGED events
    /\ UNCHANGED <<clock, scan, peak>>

(* Everything is written, or it cannot be. *)
process_tcp_connection_write(f) ==
    /\ scan = {}
    /\ f \in events /\ sock[f] = "tcp" /\ phase[f] = "reply"
    /\ free_socket(f)
    /\ UNCHANGED <<dispatched, clock, scan, peak>>

(* The library accepts a connection, or fails to; then the descriptors are *)
(* looked through from the lowest.                                         *)
accept_rpc_connection ==
    /\ scan = {}
    /\ \/ \E s \in Fd : /\ least(s, FreeFds)
                        /\ sock' = [sock EXCEPT ![s] = "rpc"]
       \/ UNCHANGED sock
    /\ scan' = Fd
    /\ UNCHANGED <<events, phase, dispatched, start_time, clock,
                   tcp_or_rpc_data_counter, peak>>

(* One turn of its loop; the event may not be had. *)
scan_fd(s) ==
    /\ s \in scan /\ \A f \in scan : s <= f
    /\ scan' = scan \ {s}
    /\ \/ /\ sock[s] = "rpc" /\ s \notin events
          /\ admit(s, "rpc")
       \/ UNCHANGED <<sock, events, tcp_or_rpc_data_counter, phase, start_time>>
    /\ UNCHANGED <<dispatched, clock, peak>>

(* The library has served the connection; this is when it closed it. *)
process_rpc_connection(f) ==
    /\ scan = {}
    /\ f \in events /\ sock[f] = "rpc"
    /\ free_socket(f)
    /\ UNCHANGED <<dispatched, clock, scan, peak>>

(* "Close any open connections": everything with an event goes, but an RPC *)
(* connection loses only its event, for want of rpc_force_close, and is    *)
(* found again by the next scan.                                           *)
loop_setup_network ==
    /\ scan = {}
    /\ sock' = [f \in Fd |-> IF f \in events /\ sock[f] = "tcp" THEN "free"
                             ELSE sock[f]]
    /\ events' = {}
    /\ phase' = [f \in Fd |-> IF f \in events THEN "length" ELSE phase[f]]
    /\ start_time' = [f \in Fd |-> IF f \in events THEN 0 ELSE start_time[f]]
    /\ tcp_or_rpc_data_counter' =
           tcp_or_rpc_data_counter - Cardinality(candidates)
    /\ UNCHANGED <<dispatched, clock, scan, peak>>

Tick ==
    /\ scan = {} /\ clock < MaxClock
    /\ clock' = clock + 1
    /\ UNCHANGED <<sock, events, phase, dispatched, start_time,
                   tcp_or_rpc_data_counter, scan, peak>>

NetNext ==
    \/ accept_tcp_connection \/ accept_rpc_connection
    \/ loop_setup_network \/ Tick
    \/ \E f \in Fd : \/ process_tcp_connection_read(f)
                     \/ process_tcp_response(f)
                     \/ process_tcp_connection_write(f)
                     \/ scan_fd(f)
                     \/ process_rpc_connection(f)

NetSpec == NetInit /\ [][NetNext]_netvars

----------------------------------------------------------------------------
(* Properties *)

(* The counter is the number of connections, whichever of the many ways    *)
(* to close one was taken: it is decremented in free_socket and in         *)
(* process_tcp_response.                                                   *)
Counted == tcp_or_rpc_data_counter = Cardinality(DataConns)

(* A connection that is being dispatched is out of the loop's reach: its   *)
(* struct is neither freed by kill_lru_tcp_or_rpc_connection or a          *)
(* reconfiguration nor handed to a second event before                     *)
(* process_tcp_response uses it.  Every other TCP connection has an event, *)
(* so that no descriptor is lost.                                          *)
Owned ==
    /\ \A f \in dispatched : sock[f] = "tcp" /\ f \notin events
    /\ \A f \in Fd : sock[f] = "tcp" => f \in events \cup dispatched

(* The limit holds but for connections in dispatch, which cannot be        *)
(* dropped: there are never more connections than the limit allows, or     *)
(* than one more than have been in dispatch at once.                       *)
Bounded ==
    \/ tcp_or_rpc_data_counter <= MaxConns
    \/ tcp_or_rpc_data_counter <= peak + 1
=============================================================================
