--------------------------- MODULE ServerProofs ----------------------------
(***************************************************************************)
(* What a server does with what it receives, for every value of the        *)
(* constants: the connections of the network loop (NetServer), and the     *)
(* requests that the KDC takes from it and their cached replies            *)
(* (Dispatch).  The two share no state.                                    *)
(***************************************************************************)
EXTENDS NetServer, Dispatch, WellFoundedInduction, FiniteSetTheorems,
        SequenceTheorems, TLAPS

(* The leaves are for Zenon, unless they name another prover or say ONLY. *)
USE Zenon

----------------------------------------------------------------------------
(***************************************************************************)
(* The connection counter of net-server.c is exact, connections in         *)
(* dispatch are out of reach, and the limit is exceeded only on account of *)
(* them, for every number of descriptors and every limit.                  *)
(*                                                                         *)
(* Owned says where a TCP connection is; with it, the set of connections   *)
(* an action adds or removes is known, and Counted and Bounded follow by   *)
(* counting.  EventsOpen and PeakSeen are what the induction needs besides *)
(* the invariants that are checked.                                        *)
(***************************************************************************)

EventsOpen == \A f \in events : sock[f] # "free"

PeakSeen == Cardinality(dispatched) <= peak

NetShape ==
    /\ sock \in [Fd -> {"free", "tcp", "rpc"}]
    /\ events \subseteq Fd
    /\ phase \in [Fd -> {"length", "message", "reply"}]
    /\ dispatched \subseteq Fd
    /\ start_time \in [Fd -> 0..MaxClock] /\ clock \in 0..MaxClock
    /\ scan \subseteq Fd
    /\ Owned /\ EventsOpen

NetInv == NetTypeOK /\ Owned /\ EventsOpen /\ Counted /\ Bounded /\ PeakSeen

(* DataConns is finite, and so is what is in dispatch. *)
LEMMA DataFinite ==
  ASSUME NetShape
  PROVE  /\ IsFiniteSet(DataConns) /\ Cardinality(DataConns) \in Nat
         /\ IsFiniteSet(dispatched) /\ Cardinality(dispatched) \in Nat
  <1>1. DataConns \in SUBSET Fd /\ dispatched \in SUBSET Fd
    BY DEF DataConns, NetShape
  <1>2. IsFiniteSet(DataConns) /\ IsFiniteSet(dispatched)
    BY <1>1, FS_Subset, NetAssumption DEF NetAssumption
  <1> QED
    BY <1>2, FS_CardinalityType

(* What is counted changes by one when one connection comes or goes. *)
LEMMA Counting ==
  ASSUME NEW S, IsFiniteSet(S), NEW x
  PROVE  /\ Cardinality(S) \in Nat
         /\ x \notin S => Cardinality(S \cup {x}) = Cardinality(S) + 1
         /\ x \in S => Cardinality(S \ {x}) = Cardinality(S) - 1
         /\ \A y \in S : x \notin S =>
               Cardinality((S \cup {x}) \ {y}) = Cardinality(S)
  <1>1. Cardinality(S) \in Nat
    BY FS_CardinalityType
  <1>2. x \notin S => Cardinality(S \cup {x}) = Cardinality(S) + 1
    BY FS_AddElement
  <1>3. x \in S => Cardinality(S \ {x}) = Cardinality(S) - 1
    BY FS_RemoveElement
  <1>4. ASSUME NEW y \in S, x \notin S
        PROVE  Cardinality((S \cup {x}) \ {y}) = Cardinality(S)
    <2>1. IsFiniteSet(S \cup {x})
      BY FS_AddElement
    <2>2. Cardinality((S \cup {x}) \ {y}) = Cardinality(S \cup {x}) - 1
      BY <2>1, FS_RemoveElement
    <2> QED
      BY <1>1, <1>2, <1>4, <2>2, SMT
  <1> QED
    BY <1>1, <1>2, <1>3, <1>4

(* free_socket takes one connection out of DataConns. *)
LEMMA Freed ==
  ASSUME NetShape, NEW f \in Fd, f \in events, free_socket(f),
         UNCHANGED <<dispatched, clock>>, scan' \subseteq Fd
  PROVE  NetShape' /\ f \in DataConns /\ DataConns' = DataConns \ {f}
  <1>1. sock[f] \in {"tcp", "rpc"}
    BY DEF NetShape, EventsOpen
  <1>2. f \notin dispatched
    BY DEF NetShape, Owned
  <1>3. f \in DataConns /\ DataConns' = DataConns \ {f}
    BY <1>1 DEF NetShape, DataConns, free_socket
  <1>4. Owned'
    BY <1>2 DEF NetShape, Owned, free_socket
  <1>5. EventsOpen'
    BY DEF NetShape, EventsOpen, free_socket
  <1>6. start_time' \in [Fd -> 0..MaxClock]
    BY NetAssumption, SMT DEF NetShape, free_socket, NetAssumption
  <1> QED
    BY <1>3, <1>4, <1>5, <1>6 DEF NetShape, free_socket

(* admit adds a connection to DataConns and may take one out; it takes     *)
(* none out beyond the limit only if all the others are in dispatch.       *)
LEMMA Admitted ==
  ASSUME NetShape, NEW s \in Fd, NEW k \in {"tcp", "rpc"}, s \notin events,
         sock[s] # "tcp", admit(s, k),
         UNCHANGED <<dispatched, clock>>, scan' \subseteq Fd
  PROVE  /\ NetShape' /\ s \notin DataConns
         /\ \/ /\ \E f \in DataConns : DataConns' = (DataConns \cup {s}) \ {f}
               /\ UNCHANGED tcp_or_rpc_data_counter
            \/ /\ DataConns' = DataConns \cup {s}
               /\ tcp_or_rpc_data_counter' = tcp_or_rpc_data_counter + 1
               /\ ~crowded \/ DataConns \subseteq dispatched
  <1>1. s \notin DataConns /\ s \notin dispatched
    BY DEF DataConns, NetShape, Owned
  <1>2. CASE /\ crowded
             /\ UNCHANGED tcp_or_rpc_data_counter
             /\ \E f \in Fd :
                   /\ oldest(f)
                   /\ sock' = [sock EXCEPT ![s] = k, ![f] = "free"]
                   /\ events' = (events \cup {s}) \ {f}
                   /\ phase' = [phase EXCEPT ![f] = "length"]
                   /\ start_time' = [start_time EXCEPT ![s] = clock, ![f] = 0]
    <2>1. PICK f \in Fd :
                   /\ oldest(f)
                   /\ sock' = [sock EXCEPT ![s] = k, ![f] = "free"]
                   /\ events' = (events \cup {s}) \ {f}
                   /\ phase' = [phase EXCEPT ![f] = "length"]
                   /\ start_time' = [start_time EXCEPT ![s] = clock, ![f] = 0]
      BY <1>2
    <2>2. f \in events /\ f # s /\ sock[f] \in {"tcp", "rpc"}
      BY <2>1 DEF oldest, candidates
    <2>3. f \in DataConns /\ f \notin dispatched
      BY <2>2 DEF DataConns, NetShape, Owned
    <2>4. DataConns' = (DataConns \cup {s}) \ {f}
      BY <2>1, <2>2 DEF DataConns, NetShape
    <2>5. Owned'
      BY <2>1, <2>2, <2>3, <1>1 DEF NetShape, Owned
    <2>6. EventsOpen'
      BY <2>1, <2>2 DEF NetShape, EventsOpen
    <2>7. start_time' \in [Fd -> 0..MaxClock]
      BY <2>1, NetAssumption, SMT DEF NetShape, NetAssumption
    <2> QED
      BY <1>1, <1>2, <2>1, <2>3, <2>4, <2>5, <2>6, <2>7 DEF NetShape
  <1>3. CASE /\ ~crowded \/ candidates = {}
             /\ sock' = [sock EXCEPT ![s] = k]
             /\ events' = events \cup {s}
             /\ start_time' = [start_time EXCEPT ![s] = clock]
             /\ tcp_or_rpc_data_counter' = tcp_or_rpc_data_counter + 1
             /\ UNCHANGED phase
    <2>1. DataConns' = DataConns \cup {s}
      BY <1>3 DEF DataConns, NetShape
    <2>2. Owned'
      BY <1>3, <1>1 DEF NetShape, Owned
    <2>3. EventsOpen'
      BY <1>3 DEF NetShape, EventsOpen
    <2>4. candidates = {} => DataConns \subseteq dispatched
      BY DEF candidates, DataConns, NetShape, Owned
    <2> QED
      BY <1>1, <1>3, <2>1, <2>2, <2>3, <2>4 DEF NetShape
  <1> QED
    BY <1>2, <1>3 DEF admit

(* Arithmetic for the case in which the peak may grow. *)
LEMMA Chain ==
  ASSUME NEW a \in Nat, NEW b \in Nat, NEW c \in Nat, NEW d \in Nat,
         a <= b, b <= c + 1, c <= d
  PROVE  a <= d + 1
  BY SMT

(* Counted, Bounded and the type of the counter follow from how DataConns  *)
(* changes.                                                                *)
LEMMA Settled ==
  ASSUME NetInv, NetShape', peak' \in Nat, PeakSeen', peak <= peak',
         \/ DataConns' = DataConns /\ UNCHANGED tcp_or_rpc_data_counter
         \/ \E f \in DataConns : /\ DataConns' = DataConns \ {f}
                            /\ tcp_or_rpc_data_counter' =
                                   tcp_or_rpc_data_counter - 1
         \/ \E s : /\ s \notin DataConns
                   /\ \/ /\ \E f \in DataConns : DataConns' = (DataConns \cup {s}) \ {f}
                         /\ UNCHANGED tcp_or_rpc_data_counter
                      \/ /\ DataConns' = DataConns \cup {s}
                         /\ tcp_or_rpc_data_counter' =
                                tcp_or_rpc_data_counter + 1
                         /\ ~crowded \/ DataConns \subseteq dispatched
  PROVE  NetInv'
  <1>1. NetShape
    BY DEF NetInv, NetShape, NetTypeOK
  <1>2. IsFiniteSet(DataConns) /\ Cardinality(DataConns) \in Nat
    BY <1>1, DataFinite
  <1>3. tcp_or_rpc_data_counter = Cardinality(DataConns) /\ peak \in Nat
        /\ MaxConns \in Nat
    BY NetAssumption DEF NetInv, Counted, NetTypeOK, NetAssumption
  <1>4. Counted'
    <2>1. CASE DataConns' = DataConns /\ UNCHANGED tcp_or_rpc_data_counter
      BY <2>1, <1>3 DEF Counted
    <2>2. ASSUME NEW f \in DataConns, DataConns' = DataConns \ {f},
                 tcp_or_rpc_data_counter' = tcp_or_rpc_data_counter - 1
          PROVE  Counted'
      BY <2>2, <1>2, <1>3, Counting DEF Counted
    <2>3. ASSUME NEW s, s \notin DataConns, NEW f \in DataConns,
                 DataConns' = (DataConns \cup {s}) \ {f},
                 UNCHANGED tcp_or_rpc_data_counter
          PROVE  Counted'
      <3>1. Cardinality((DataConns \cup {s}) \ {f}) = Cardinality(DataConns)
        <4>1. \A y \in DataConns : s \notin DataConns =>
                 Cardinality((DataConns \cup {s}) \ {y}) = Cardinality(DataConns)
          BY <1>2, Counting
        <4> QED
          BY <4>1, <2>3
      <3> QED
        BY <3>1, <2>3, <1>3 DEF Counted
    <2>4. ASSUME NEW s, s \notin DataConns, DataConns' = DataConns \cup {s},
                 tcp_or_rpc_data_counter' = tcp_or_rpc_data_counter + 1
          PROVE  Counted'
      BY <2>4, <1>2, <1>3, Counting DEF Counted
    <2> QED
      BY <2>1, <2>2, <2>3, <2>4
  <1>5. tcp_or_rpc_data_counter' \in Nat
    <2>1. IsFiniteSet(DataConns') /\ Cardinality(DataConns') \in Nat
      <3>1. DataConns' \in SUBSET Fd
        BY DEF DataConns, NetShape
      <3> QED
        BY <3>1, FS_Subset, FS_CardinalityType, NetAssumption DEF NetAssumption
    <2> QED
      BY <2>1, <1>4 DEF Counted
  <1>6. Bounded'
    <2>1. CASE tcp_or_rpc_data_counter' <= tcp_or_rpc_data_counter
      <3>1. tcp_or_rpc_data_counter \in Nat
        BY <1>2, <1>3
      <3>2. CASE tcp_or_rpc_data_counter <= MaxConns
        <4>1. tcp_or_rpc_data_counter' <= MaxConns
          BY <2>1, <3>1, <3>2, <1>3, <1>5, SMT
        <4> QED
          BY <4>1 DEF Bounded
      <3>3. CASE tcp_or_rpc_data_counter <= peak + 1
        <4>1. tcp_or_rpc_data_counter' <= peak' + 1
          BY <2>1, <3>1, <3>3, <1>3, <1>5, Chain
        <4> QED
          BY <4>1 DEF Bounded
      <3> QED
        BY <3>2, <3>3 DEF NetInv, Bounded
    <2>2. CASE /\ tcp_or_rpc_data_counter' = tcp_or_rpc_data_counter + 1
               /\ ~crowded
      BY <2>2, <1>3, <1>2, SMT DEF crowded, Bounded
    <2>3. CASE /\ tcp_or_rpc_data_counter' = tcp_or_rpc_data_counter + 1
               /\ DataConns \subseteq dispatched
      <3>1. IsFiniteSet(dispatched) /\ Cardinality(dispatched) \in Nat
        BY <1>1, DataFinite
      <3>2. Cardinality(DataConns) <= Cardinality(dispatched)
        BY <2>3, <3>1, FS_Subset
      <3>3. Cardinality(dispatched) <= peak
        BY DEF NetInv, PeakSeen
      <3> QED
        BY <2>3, <3>1, <3>2, <3>3, <1>2, <1>3, SMT DEF Bounded
    <2> QED
      BY <2>1, <2>2, <2>3, <1>2, <1>3, SMT
  <1> QED
    BY <1>4, <1>5, <1>6 DEF NetInv, NetShape, NetTypeOK

(* Every step of the loop preserves the inductive invariant: one case for  *)
(* each callback.                                                          *)
LEMMA StepKeepsNetInv ==
  ASSUME NetInv, [NetNext]_netvars
  PROVE  NetInv'
  <1>1. NetShape /\ PeakSeen /\ peak \in Nat
    BY DEF NetInv, NetShape, NetTypeOK
  <1>2. IsFiniteSet(dispatched) /\ Cardinality(dispatched) \in Nat
    BY <1>1, DataFinite
  <1>3. CASE accept_tcp_connection
    <2>1. UNCHANGED <<dispatched, clock, scan, peak>>
      BY <1>3 DEF accept_tcp_connection
    <2>2. PICK s \in Fd : least(s, FreeFds) /\ (admit(s, "tcp") \/ admit_and_close)
      BY <1>3 DEF accept_tcp_connection
    <2>3. sock[s] = "free" /\ s \notin events
      BY <2>2, <1>1 DEF least, FreeFds, NetShape, EventsOpen
    <2>4. PeakSeen' /\ peak' \in Nat /\ peak <= peak' /\ scan' \subseteq Fd
      BY <2>1, <1>1, SMT DEF PeakSeen, NetShape
    <2>5. CASE admit(s, "tcp")
      BY <2>1, <2>3, <2>4, <2>5, <1>1, Admitted, Settled
    <2>6. CASE admit_and_close
      <3>1. PICK f \in Fd : oldest(f) /\ free_socket(f)
        BY <2>6 DEF admit_and_close
      <3>2. f \in events
        BY <3>1 DEF oldest, candidates
      <3>3. NetShape' /\ f \in DataConns /\ DataConns' = DataConns \ {f}
        BY <3>1, <3>2, <2>1, <2>4, <1>1, Freed
      <3> QED
        BY <3>1, <3>3, <2>4, Settled DEF free_socket
    <2> QED
      BY <2>2, <2>5, <2>6
  <1>4. CASE accept_rpc_connection
    <2>1. UNCHANGED <<events, phase, dispatched, start_time, clock,
                      tcp_or_rpc_data_counter, peak>> /\ scan' = Fd
      BY <1>4 DEF accept_rpc_connection
    <2>2. CASE UNCHANGED sock
      <3>1. NetShape' /\ DataConns' = DataConns
        BY <2>1, <2>2, <1>1 DEF NetShape, Owned, EventsOpen, DataConns
      <3> QED
        BY <3>1, <2>1, <1>1, Settled, SMT DEF PeakSeen
    <2>3. ASSUME NEW s \in Fd, least(s, FreeFds),
                 sock' = [sock EXCEPT ![s] = "rpc"]
          PROVE  NetInv'
      <3>1. sock[s] = "free" /\ s \notin events
        BY <2>3, <1>1 DEF least, FreeFds, NetShape, EventsOpen
      <3>2. DataConns' = DataConns
        BY <3>1, <2>1, <2>3, <1>1 DEF DataConns, NetShape
      <3>3. NetShape'
        BY <3>1, <2>1, <2>3, <1>1 DEF NetShape, Owned, EventsOpen
      <3> QED
        BY <3>2, <3>3, <2>1, <1>1, Settled, SMT DEF PeakSeen
    <2> QED
      BY <2>2, <2>3, <1>4 DEF accept_rpc_connection
  <1>5. CASE loop_setup_network
    <2>1. UNCHANGED <<dispatched, clock, scan, peak>> /\ events' = {}
      BY <1>5 DEF loop_setup_network
    <2>2. sock' = [f \in Fd |-> IF f \in events /\ sock[f] = "tcp" THEN "free"
                               ELSE sock[f]]
      BY <1>5 DEF loop_setup_network
    <2>3. Owned' /\ EventsOpen'
      BY <2>1, <2>2, <1>1 DEF NetShape, Owned, EventsOpen
    <2>4. NetShape'
      <3>1. phase' \in [Fd -> {"length", "message", "reply"}]
        BY <1>5, <1>1 DEF loop_setup_network, NetShape
      <3>2. start_time' \in [Fd -> 0..MaxClock]
        BY <1>5, <1>1, NetAssumption, SMT DEF loop_setup_network, NetShape, NetAssumption
      <3>3. sock' \in [Fd -> {"free", "tcp", "rpc"}]
        BY <2>2, <1>1 DEF NetShape
      <3> QED
        BY <3>1, <3>2, <3>3, <2>1, <2>3, <1>1 DEF NetShape
    <2>5. DataConns' = DataConns \ candidates /\ DataConns \cap candidates = candidates
      BY <2>1, <2>2, <1>1 DEF DataConns, candidates, NetShape
    <2>6. IsFiniteSet(DataConns) /\ Cardinality(DataConns) \in Nat
      BY <1>1, DataFinite
    <2>7. /\ Cardinality(DataConns') = Cardinality(DataConns) - Cardinality(candidates)
          /\ Cardinality(DataConns') <= Cardinality(DataConns)
          /\ Cardinality(DataConns') \in Nat
      <3>1. /\ IsFiniteSet(DataConns \ candidates)
            /\ Cardinality(DataConns \ candidates) =
                  Cardinality(DataConns) - Cardinality(DataConns \cap candidates)
        BY <2>6, FS_Difference
      <3>2. Cardinality(DataConns \ candidates) <= Cardinality(DataConns)
        BY <2>6, FS_Subset
      <3> QED
        BY <3>1, <3>2, <2>5, FS_CardinalityType
    <2>8. /\ tcp_or_rpc_data_counter' =
               tcp_or_rpc_data_counter - Cardinality(candidates)
          /\ tcp_or_rpc_data_counter = Cardinality(DataConns)
      BY <1>5 DEF loop_setup_network, NetInv, Counted
    <2>9. /\ Counted' /\ tcp_or_rpc_data_counter' \in Nat
          /\ tcp_or_rpc_data_counter' <= tcp_or_rpc_data_counter
      BY <2>7, <2>8 DEF Counted
    <2>10. Bounded'
      BY <2>1, <2>9, <2>8, <2>6, <1>1, NetAssumption, SMT
         DEF NetInv, Bounded, NetAssumption
    <2> QED
      BY <2>1, <2>3, <2>4, <2>9, <2>10, <1>1 DEF NetInv, NetShape, NetTypeOK, PeakSeen
  <1>6. CASE Tick \/ UNCHANGED netvars
    <2>1. UNCHANGED <<sock, events, phase, dispatched, start_time,
                      tcp_or_rpc_data_counter, scan, peak>>
      BY <1>6 DEF Tick, netvars
    <2>2. clock' \in 0..MaxClock
      BY <1>6, <1>1, NetAssumption, SMT DEF Tick, netvars, NetShape, NetAssumption
    <2>3. NetShape' /\ DataConns' = DataConns
      BY <2>1, <2>2, <1>1 DEF NetShape, Owned, EventsOpen, DataConns
    <2> QED
      BY <2>1, <2>3, <1>1, Settled, SMT DEF PeakSeen
  <1>7. ASSUME NEW f \in Fd, process_tcp_connection_read(f)
        PROVE  NetInv'
    <2>1. /\ f \in events /\ sock[f] = "tcp" /\ UNCHANGED <<clock, scan>>
          /\ scan' \subseteq Fd
      BY <1>7, <1>1 DEF process_tcp_connection_read, NetShape
    <2>2. CASE free_socket(f) /\ UNCHANGED <<dispatched, peak>>
      <3>1. NetShape' /\ f \in DataConns /\ DataConns' = DataConns \ {f}
        BY <2>1, <2>2, <1>1, Freed
      <3> QED
        BY <3>1, <2>2, <1>1, Settled, SMT DEF free_socket, PeakSeen
    <2>3. CASE /\ \E p \in {"message", "reply"} : phase' = [phase EXCEPT ![f] = p]
               /\ UNCHANGED <<sock, events, start_time, tcp_or_rpc_data_counter,
                              dispatched, peak>>
      <3>1. NetShape' /\ DataConns' = DataConns
        BY <2>1, <2>3, <1>1, SMT DEF NetShape, Owned, EventsOpen, DataConns
      <3> QED
        BY <3>1, <2>3, <1>1, Settled, SMT DEF PeakSeen
    <2>4. CASE /\ prepare_for_dispatch(f)
               /\ UNCHANGED <<sock, phase, start_time, tcp_or_rpc_data_counter>>
      <3>1. NetShape' /\ DataConns' = DataConns
        BY <2>1, <2>4, <1>1
           DEF NetShape, Owned, EventsOpen, DataConns, prepare_for_dispatch
      <3>0. /\ Cardinality(dispatched) \in Nat
            /\ Cardinality(dispatched \cup {f}) =
                 IF f \in dispatched THEN Cardinality(dispatched)
                 ELSE Cardinality(dispatched) + 1
        BY <1>2, FS_AddElement, FS_CardinalityType
      <3>2. Cardinality(dispatched \cup {f}) <= Cardinality(dispatched) + 1
        BY ONLY <3>0
      <3>3. Cardinality(dispatched \cup {f}) \in Nat
        BY <1>2, FS_AddElement, FS_CardinalityType
      <3>4. PeakSeen' /\ peak' \in Nat /\ peak <= peak'
        BY <3>2, <3>3, <2>4, <1>1, <1>2, SMT DEF prepare_for_dispatch, PeakSeen
      <3> QED
        BY <3>1, <3>4, <2>4, Settled
    <2> QED
      BY <2>2, <2>3, <2>4, <1>7 DEF process_tcp_connection_read
  <1>8. ASSUME NEW f \in Fd, process_tcp_response(f)
        PROVE  NetInv'
    <2>1. /\ f \in dispatched /\ dispatched' = dispatched \ {f}
          /\ UNCHANGED <<clock, scan, peak>>
      BY <1>8 DEF process_tcp_response
    <2>2. PeakSeen' /\ peak' \in Nat /\ peak <= peak'
      <3>1. Cardinality(dispatched \ {f}) = Cardinality(dispatched) - 1
        BY <2>1, <1>2, FS_RemoveElement
      <3> QED
        BY <3>1, <2>1, <1>1, <1>2, SMT DEF PeakSeen
    <2>3. sock[f] = "tcp" /\ f \notin events
      BY <2>1, <1>1 DEF NetShape, Owned
    <2>4. CASE /\ events' = events \cup {f}
               /\ phase' = [phase EXCEPT ![f] = "reply"]
               /\ UNCHANGED <<sock, start_time, tcp_or_rpc_data_counter>>
      <3>1. NetShape' /\ DataConns' = DataConns
        BY <2>1, <2>3, <2>4, <1>1 DEF NetShape, Owned, EventsOpen, DataConns
      <3> QED
        BY <3>1, <2>2, <2>4, Settled
    <2>5. CASE /\ sock' = [sock EXCEPT ![f] = "free"]
               /\ tcp_or_rpc_data_counter' = tcp_or_rpc_data_counter - 1
               /\ phase' = [phase EXCEPT ![f] = "length"]
               /\ start_time' = [start_time EXCEPT ![f] = 0]
               /\ UNCHANGED events
      <3>1. f \in DataConns /\ DataConns' = DataConns \ {f}
        BY <2>3, <2>5, <1>1 DEF NetShape, DataConns
      <3>2. Owned' /\ EventsOpen'
        BY <2>1, <2>3, <2>5, <1>1 DEF NetShape, Owned, EventsOpen
      <3>3. start_time' \in [Fd -> 0..MaxClock]
        BY <2>5, <1>1, NetAssumption, SMT DEF NetShape, NetAssumption
      <3>4. NetShape'
        BY <3>2, <3>3, <2>1, <2>5, <1>1 DEF NetShape
      <3> QED
        BY <3>1, <3>4, <2>2, <2>5, Settled
    <2> QED
      BY <2>4, <2>5, <1>8 DEF process_tcp_response
  <1>9. ASSUME NEW f \in Fd,
               process_tcp_connection_write(f) \/ process_rpc_connection(f)
        PROVE  NetInv'
    <2>1. /\ f \in events /\ free_socket(f)
          /\ UNCHANGED <<dispatched, clock, scan, peak>>
      BY <1>9 DEF process_tcp_connection_write, process_rpc_connection
    <2>2. NetShape' /\ f \in DataConns /\ DataConns' = DataConns \ {f}
      BY <2>1, <1>1, Freed DEF NetShape
    <2> QED
      BY <2>1, <2>2, <1>1, Settled, SMT DEF free_socket, PeakSeen
  <1>10. ASSUME NEW s \in Fd, scan_fd(s)
         PROVE  NetInv'
    <2>1. UNCHANGED <<dispatched, clock, peak>> /\ scan' \subseteq Fd
      BY <1>10, <1>1 DEF scan_fd, NetShape
    <2>2. CASE sock[s] = "rpc" /\ s \notin events /\ admit(s, "rpc")
      BY <2>1, <2>2, <1>1, Admitted, Settled, SMT DEF PeakSeen
    <2>3. CASE UNCHANGED <<sock, events, tcp_or_rpc_data_counter, phase,
                           start_time>>
      <3>1. NetShape' /\ DataConns' = DataConns
        BY <2>1, <2>3, <1>1 DEF NetShape, Owned, EventsOpen, DataConns
      <3> QED
        BY <3>1, <2>1, <2>3, <1>1, Settled, SMT DEF PeakSeen
    <2> QED
      BY <2>2, <2>3, <1>10 DEF scan_fd
  <1> QED
    BY <1>3, <1>4, <1>5, <1>6, <1>7, <1>8, <1>9, <1>10 DEF NetNext

(* The invariant that the theorems rest on holds in every state. *)
LEMMA NetInvariant == NetSpec => []NetInv
  <1>1. NetInit => NetInv
    <2> SUFFICES ASSUME NetInit PROVE NetInv
      OBVIOUS
    <2>1. DataConns = {} /\ Cardinality(DataConns) = 0 /\ Cardinality({}) = 0
      BY FS_EmptySet DEF NetInit, DataConns
    <2>2. NetTypeOK
      BY NetAssumption, SMT DEF NetInit, NetTypeOK, NetAssumption
    <2> QED
      BY <2>1, <2>2, NetAssumption, SMT
         DEF NetInit, NetInv, Owned, EventsOpen, Counted, Bounded, PeakSeen,
             NetAssumption
  <1>2. NetInv /\ [NetNext]_netvars => NetInv'
    BY StepKeepsNetInv
  <1> QED
    BY <1>1, <1>2, PTL DEF NetSpec

(* tcp_or_rpc_data_counter is the number of connections, whichever way they *)
(* are closed, for any number of descriptors.                               *)
THEOREM ConnectionsCounted == NetSpec => []Counted
  <1>1. NetInv => Counted
    BY DEF NetInv
  <1> QED
    BY <1>1, NetInvariant, PTL

(* A connection in dispatch is out of the loop's reach until                *)
(* process_tcp_response() has it, and every other one has its event.        *)
THEOREM ConnectionsOwned == NetSpec => []Owned
  <1>1. NetInv => Owned
    BY DEF NetInv
  <1> QED
    BY <1>1, NetInvariant, PTL

(* kill_lru_tcp_or_rpc_connection() keeps the limit, whatever it is, but for *)
(* connections in dispatch.                                                  *)
THEOREM ConnectionsBounded == NetSpec => []Bounded
  <1>1. NetInv => Bounded
    BY DEF NetInv
  <1> QED
    BY <1>1, NetInvariant, PTL

----------------------------------------------------------------------------
(***************************************************************************)
(* The lookaside cache holds one entry for a packet, and a packet is       *)
(* processed again only for a reason, for every set of requests, every     *)
(* number of exchanges in progress and every size of the cache.            *)
(*                                                                         *)
(* The argument counts.  The entries of a packet are the positions of the  *)
(* queue that hold it: a purge and a removal map the positions that remain *)
(* one to one into those that were there, an insertion adds one.  A run of *)
(* a request is paid for by the entry it has, by one it has lost, or by a  *)
(* reply that could not be copied.                                         *)
(*                                                                         *)
(* The running total is compared with the sum over the queue: two queues   *)
(* that hold the same entries at corresponding places have partial sums    *)
(* that grow alike, and the least place where they would not is none.      *)
(***************************************************************************)

(* A set of natural numbers has a least one: where a purge stops. *)
LEMMA LeastExists ==
  ASSUME NEW S \in SUBSET Nat, S # {}
  PROVE  \E x \in S : \A y \in S : x =< y
  <1> DEFINE R == {ss \in Nat \X Nat : ss[1] < ss[2]}
  <1>1. IsWellFoundedOn(R, Nat)
    BY NatLessThanWellFounded, SMT DEF OpToRel
  <1>2. PICK x \in S : \A y \in S : ~ (<<y, x>> \in R)
    <2> HIDE DEF R
    <2> QED
      BY <1>1, WFMin
  <1>3. ASSUME NEW y \in S
        PROVE  x =< y
    <2>1. ~ (<<y, x>> \in R) /\ x \in Nat /\ y \in Nat
      BY <1>2, SMT
    <2> QED
      BY <2>1, SMT
  <1> QED
    BY <1>3, SMT

(* A bounded one has a greatest: the entry find_entry() returns. *)
LEMMA GreatestExists ==
  ASSUME NEW n \in Nat, NEW S \in SUBSET (0 .. n), S # {}
  PROVE  \E x \in S : \A y \in S : x >= y
  <1> DEFINE T == {k \in 0 .. n : n - k \in S}
  <1>1. ASSUME NEW z \in S
        PROVE  n - z \in T
    <2>1. z \in 0 .. n /\ n - z \in 0 .. n /\ n - (n - z) = z
      BY SMT
    <2> QED
      BY <2>1, SMT
  <1>2. T \in SUBSET Nat
    BY SMT
  <1>3. T # {}
    BY <1>1
  <1>4. \A k \in T : k \in Nat /\ n - k \in S
    BY SMT
  <1> HIDE DEF T
  <1>5. PICK m \in T : \A y \in T : m =< y
    BY <1>2, <1>3, LeastExists, SMT
  <1>6. ASSUME NEW y \in S
        PROVE  n - m >= y
    <2>1. m =< n - y
      BY <1>1, <1>5, SMT
    <2> QED
      BY <2>1, <1>4, SMT
  <1> QED
    BY <1>4, <1>6, SMT

Occ(q, r) == {i \in DOMAIN q : q[i].req = r}
Entries(q, r) == Cardinality(Occ(q, r))

Queue == Seq(CacheEntry)

(* Min() finds a least number: where a purge stops. *)
LEMMA MinIn ==
  ASSUME NEW S \in SUBSET Nat, S # {}
  PROVE  Min(S) \in S
  BY LeastExists DEF Min

(* Max() finds a greatest position: the entry find_entry() returns. *)
LEMMA MaxIn ==
  ASSUME NEW n \in Nat, NEW S \in SUBSET (1 .. n), S # {}
  PROVE  Max(S) \in S
  <1>1. S \in SUBSET (0 .. n)
    BY SMT
  <1> QED
    BY <1>1, GreatestExists DEF Max

(* The entries of a packet can be counted. *)
LEMMA OccFinite ==
  ASSUME NEW q \in Queue, NEW r
  PROVE  /\ IsFiniteSet(Occ(q, r)) /\ Entries(q, r) \in Nat
         /\ Entries(q, r) = 0 <=> Occ(q, r) = {}
  <1>1. DOMAIN q = 1 .. Len(q) /\ Len(q) \in Nat
    BY SMT DEF Queue
  <1>2. Occ(q, r) \in SUBSET (1 .. Len(q))
    BY <1>1 DEF Occ
  <1>3. IsFiniteSet(1 .. Len(q))
    BY <1>1, FS_Interval, SMT
  <1>4. IsFiniteSet(Occ(q, r))
    BY <1>2, <1>3, FS_Subset
  <1> QED
    BY <1>4, FS_CardinalityType, FS_EmptySet DEF Entries

(* A packet is cached when it has an entry. *)
LEMMA CachedOcc ==
  ASSUME NEW c, c.queue \in Queue, NEW r
  PROVE  r \in Cached(c) <=> Entries(c.queue, r) > 0
  <1>1. r \in Cached(c) <=> Occ(c.queue, r) # {}
    BY DEF Cached, Occ
  <1>2. /\ Entries(c.queue, r) \in Nat
        /\ Entries(c.queue, r) = 0 <=> Occ(c.queue, r) = {}
    BY OccFinite
  <1> QED
    BY <1>1, <1>2, SMT

(* An insertion adds one entry of its packet. *)
LEMMA AppendOcc ==
  ASSUME NEW q \in Queue, NEW e \in CacheEntry, NEW r
  PROVE  /\ Append(q, e) \in Queue
         /\ Entries(Append(q, e), r) =
                Entries(q, r) + (IF e.req = r THEN 1 ELSE 0)
  <1> DEFINE n == Len(q)
  <1>1. /\ n \in Nat /\ DOMAIN q = 1 .. n /\ Append(q, e) \in Queue
        /\ DOMAIN Append(q, e) = 1 .. n + 1
        /\ Append(q, e)[n + 1] = e
        /\ \A i \in 1 .. n : Append(q, e)[i] = q[i]
    BY SMT DEF Queue
  <1>2. 1 .. n + 1 = (1 .. n) \cup {n + 1} /\ n + 1 \notin 1 .. n
    BY <1>1, SMT
  <1> HIDE DEF n
  <1>3. Occ(Append(q, e), r) =
            IF e.req = r THEN Occ(q, r) \cup {n + 1} ELSE Occ(q, r)
    BY <1>1, <1>2 DEF Occ
  <1>4. n + 1 \notin Occ(q, r)
    BY <1>1, <1>2 DEF Occ
  <1>5. IsFiniteSet(Occ(q, r)) /\ Entries(q, r) \in Nat
    BY OccFinite
  <1>6. Cardinality(Occ(q, r) \cup {n + 1}) = Entries(q, r) + 1
    BY <1>4, <1>5, FS_AddElement DEF Entries
  <1> QED
    BY <1>1, <1>3, <1>5, <1>6, SMT DEF Entries

(* One sequence has no more entries than another it is embedded in. *)
LEMMA Embedded ==
  ASSUME NEW S, NEW T, IsFiniteSet(T), NEW f \in [S -> T],
         \A i, j \in S : f[i] = f[j] => i = j
  PROVE  Cardinality(S) <= Cardinality(T)
  <1>1. f \in Injection(S, T)
    BY DEF Injection, IsInjective
  <1> QED
    BY <1>1, FS_Injection

(* A purge leaves a suffix of the queue. *)
LEMMA SuffixOcc ==
  ASSUME NEW q \in Queue, NEW n \in 0 .. Len(q), NEW r
  PROVE  /\ SubSeq(q, n + 1, Len(q)) \in Queue
         /\ Entries(SubSeq(q, n + 1, Len(q)), r) <= Entries(q, r)
  <1> DEFINE s == SubSeq(q, n + 1, Len(q))
             f == [i \in Occ(s, r) |-> i + n]
  <1>1. /\ Len(q) \in Nat /\ DOMAIN q = 1 .. Len(q)
        /\ s \in Queue /\ Len(s) = Len(q) - n /\ DOMAIN s = 1 .. Len(q) - n
        /\ \A i \in 1 .. Len(q) - n : s[i] = q[i + n]
    BY SMT DEF Queue
  <1> HIDE DEF s
  <1>2. ASSUME NEW i \in Occ(s, r)
        PROVE  i \in Nat /\ i + n \in Occ(q, r)
    <2>1. i \in 1 .. Len(q) - n /\ i + n \in 1 .. Len(q)
      BY <1>1, SMT DEF Occ
    <2> QED
      BY <1>1, <2>1, SMT DEF Occ
  <1>3. f \in [Occ(s, r) -> Occ(q, r)]
    BY <1>2
  <1>4. \A i, j \in Occ(s, r) : f[i] = f[j] => i = j
    BY <1>2, SMT
  <1>5. IsFiniteSet(Occ(q, r))
    BY OccFinite
  <1> HIDE DEF f
  <1>6. Entries(s, r) <= Entries(q, r)
    BY <1>3, <1>4, <1>5, Embedded DEF Entries
  <1> QED
    BY <1>1, <1>6 DEF s

(* An entry taken out: those before it stay, those after it move up. *)
LEMMA WithoutQueue ==
  ASSUME NEW q \in Queue, NEW n \in DOMAIN q
  PROVE  LET s == Without(q, n)
         IN  /\ s \in Queue /\ Len(s) = Len(q) - 1 /\ DOMAIN s = 1 .. Len(q) - 1
             /\ \A i \in 1 .. Len(q) - 1 :
                    s[i] = q[IF i < n THEN i ELSE i + 1]
  <1> DEFINE s == Without(q, n)
  <1>0. Len(q) \in Nat /\ DOMAIN q = 1 .. Len(q) /\ n \in 1 .. Len(q)
    BY SMT DEF Queue
  <1> DEFINE a == SubSeq(q, 1, n - 1)
             b == SubSeq(q, n + 1, Len(q))
  <1>1. /\ a \in Queue /\ Len(a) = n - 1
        /\ \A i \in 1 .. n - 1 : a[i] = q[i]
    BY <1>0, SMT DEF Queue
  <1>2. /\ b \in Queue /\ Len(b) = Len(q) - n
        /\ \A i \in 1 .. Len(q) - n : b[i] = q[i + n]
    BY <1>0, SMT DEF Queue
  <1> HIDE DEF a, b
  <1>3. /\ a \o b \in Queue /\ Len(a \o b) = Len(q) - 1
        /\ \A i \in 1 .. Len(q) - 1 :
              (a \o b)[i] = IF i <= n - 1 THEN a[i] ELSE b[i - (n - 1)]
    <2>1. /\ a \o b \in Queue /\ Len(a \o b) = Len(a) + Len(b)
          /\ \A i \in 1 .. Len(a) + Len(b) : (a \o b)[i] =
                  IF i <= Len(a) THEN a[i] ELSE b[i - Len(a)]
      BY <1>1, <1>2, ConcatProperties DEF Queue
    <2>2. Len(a) = n - 1 /\ Len(a) + Len(b) = Len(q) - 1
      BY <1>0, <1>1, <1>2, SMT
    <2> QED
      BY <2>1, <2>2
  <1>4. s = a \o b
    BY DEF Without, a, b
  <1> HIDE DEF s
  <1>5. DOMAIN s = 1 .. Len(q) - 1
    BY <1>3, <1>4, SMT DEF Queue
  <1>6. ASSUME NEW i \in 1 .. Len(q) - 1
        PROVE  s[i] = q[IF i < n THEN i ELSE i + 1]
    <2>1. CASE i < n
      BY <2>1, <1>1, <1>3, <1>4, <1>0, SMT
    <2>2. CASE i >= n
      <3>1. i - (n - 1) \in 1 .. Len(q) - n /\ i - (n - 1) + n = i + 1
        BY <2>2, <1>0, SMT
      <3>2. s[i] = b[i - (n - 1)]
        <4>1. ~ (i <= n - 1)
          BY <2>2, <1>0, SMT
        <4> QED
          BY <4>1, <1>3, <1>4
      <3>3. b[i - (n - 1)] = q[i - (n - 1) + n]
        BY <3>1, <1>2
      <3> QED
        BY <2>2, <3>1, <3>2, <3>3, <1>0, SMT
    <2> QED
      BY <2>1, <2>2, <1>0, SMT
  <1>7. Len(s) = Len(q) - 1 /\ s \in Queue
    BY <1>3, <1>4
  <1> QED
    BY <1>5, <1>6, <1>7 DEF s

(* discard_entry() takes one entry of its packet, and none of another. *)
LEMMA RemoveOcc ==
  ASSUME NEW q \in Queue, NEW n \in DOMAIN q, NEW r
  PROVE  /\ Without(q, n) \in Queue
         /\ Entries(Without(q, n), r) <=
                Entries(q, r) - (IF q[n].req = r THEN 1 ELSE 0)
  <1> DEFINE s == Without(q, n)
             f == [i \in Occ(s, r) |-> IF i < n THEN i ELSE i + 1]
             T == Occ(q, r) \ {n}
  <1>1. Len(q) \in Nat /\ DOMAIN q = 1 .. Len(q) /\ n \in 1 .. Len(q)
    BY SMT DEF Queue
  <1>2. /\ s \in Queue /\ DOMAIN s = 1 .. Len(q) - 1
        /\ \A i \in 1 .. Len(q) - 1 : s[i] = q[IF i < n THEN i ELSE i + 1]
    BY WithoutQueue
  <1> HIDE DEF s
  <1>3. ASSUME NEW i \in Occ(s, r)
        PROVE  i \in Nat /\ (IF i < n THEN i ELSE i + 1) \in T
    <2>1. i \in 1 .. Len(q) - 1 /\ s[i].req = r
      BY <1>2 DEF Occ
    <2>2. (IF i < n THEN i ELSE i + 1) \in (1 .. Len(q)) \ {n}
      BY <1>1, <2>1, SMT
    <2> QED
      BY <1>1, <1>2, <2>1, <2>2, SMT DEF Occ
  <1>4. IsFiniteSet(Occ(q, r)) /\ Entries(q, r) \in Nat
    BY OccFinite
  <1>5. /\ IsFiniteSet(T)
        /\ Cardinality(T) = Entries(q, r) - (IF q[n].req = r THEN 1 ELSE 0)
    <2>1. n \in Occ(q, r) <=> q[n].req = r
      BY DEF Occ
    <2> QED
      BY <1>4, <2>1, FS_RemoveElement, SMT DEF Entries
  <1> HIDE DEF T
  <1>6. f \in [Occ(s, r) -> T]
    BY <1>3
  <1>7. \A i, j \in Occ(s, r) : f[i] = f[j] => i = j
    BY <1>1, <1>3, SMT
  <1> HIDE DEF f
  <1>8. Cardinality(Occ(s, r)) <= Cardinality(T)
    BY <1>5, <1>6, <1>7, Embedded
  <1> QED
    BY <1>2, <1>5, <1>8 DEF Entries, s

-----------------------------------------------------------------------------
(* The footprint of a queue is the last of its partial sums. *)
Size(e) == entry_size(e.req, e.reply)

Sums(q, f) ==
    /\ f \in [0 .. Len(q) -> Nat] /\ f[0] = 0
    /\ \A n \in 1 .. Len(q) : f[n] = f[n - 1] + Size(q[n])

(* An entry has a size. *)
LEMMA SizeNat ==
  ASSUME NEW e \in CacheEntry
  PROVE  Size(e) \in Nat
  <1>1. e.req \in Req /\ e.reply \in Nat
    BY DEF CacheEntry, Data
  <1>2. ReqLen[e.req] \in Nat /\ ENTRY \in Nat
    BY <1>1, LookasideAssumption DEF LookasideAssumption
  <1> QED
    BY <1>1, <1>2, SMT DEF Size, entry_size

(* Partial sums exist up to every place: of a least place without them the  *)
(* one before has some, and one more entry extends them.                    *)
LEMMA SumsExist ==
  ASSUME NEW q \in Queue
  PROVE  \E f : Sums(q, f)
  <1> DEFINE N == Len(q)
             Upto(k, f) == /\ f \in [0 .. k -> Nat] /\ f[0] = 0
                           /\ \A n \in 1 .. k : f[n] = f[n - 1] + Size(q[n])
             B == {k \in 0 .. N : ~ \E f : Upto(k, f)}
  <1>1. N \in Nat /\ \A n \in 1 .. N : Size(q[n]) \in Nat
    <2>1. N \in Nat /\ \A n \in 1 .. N : q[n] \in CacheEntry
      BY SMT DEF Queue
    <2> QED
      BY <2>1, SizeNat
  <1> HIDE DEF N
  <1>2. ASSUME B # {}
        PROVE  FALSE
    <2>1. B \in SUBSET Nat
      BY <1>1, SMT
    <2> HIDE DEF B
    <2>2. PICK m \in B : \A k \in B : m <= k
      BY <1>2, <2>1, LeastExists
    <2>3. m \in 0 .. N /\ ~ \E f : Upto(m, f)
      BY <2>2 DEF B
    <2>4. CASE m = 0
      <3> DEFINE f == [n \in 0 .. 0 |-> 0]
      <3>1. Upto(0, f)
        BY <1>1, SMT
      <3> HIDE DEF f, Upto
      <3> QED
        BY <3>1, <2>3, <2>4
    <2>5. CASE m # 0
      <3>1. m - 1 \in 0 .. N /\ m \in 1 .. N /\ ~ (m <= m - 1)
        BY <2>3, <2>5, <1>1, SMT
      <3>2. m - 1 \notin B
        BY <3>1, <2>2
      <3>3. PICK f : Upto(m - 1, f)
        BY <3>1, <3>2 DEF B
      <3> DEFINE g == [n \in 0 .. m |->
                          IF n = m THEN f[m - 1] + Size(q[m]) ELSE f[n]]
      <3>4. /\ DOMAIN g = 0 .. m /\ g[m] = f[m - 1] + Size(q[m])
            /\ \A n \in 0 .. m - 1 : g[n] = f[n]
        BY <3>1, SMT
      <3>5. g \in [0 .. m -> Nat] /\ g[0] = 0
        BY <3>1, <3>3, <1>1, SMT
      <3> HIDE DEF g
      <3>6. ASSUME NEW n \in 1 .. m
            PROVE  g[n] = g[n - 1] + Size(q[n])
        <4>1. CASE n = m
          BY <4>1, <3>1, <3>4, SMT
        <4>2. CASE n # m
          <5>1. n \in 1 .. m - 1 /\ n \in 0 .. m - 1 /\ n - 1 \in 0 .. m - 1
            BY <4>2, <3>1, SMT
          <5> QED
            BY <5>1, <3>3, <3>4
        <4> QED
          BY <4>1, <4>2
      <3>7. Upto(m, g)
        BY <3>5, <3>6
      <3> HIDE DEF Upto
      <3> QED
        BY <3>7, <2>3
    <2> QED
      BY <2>4, <2>5
  <1>3. N \in 0 .. N
    BY <1>1, SMT
  <1>4. PICK f : Upto(N, f)
    <2>1. N \notin B
      BY <1>2
    <2> HIDE DEF Upto
    <2> QED
      BY <1>3, <2>1
  <1> QED
    BY <1>4 DEF Sums, N

(* SizeOf() adds up the entries. *)
LEMMA SizeSums ==
  ASSUME NEW q \in Queue
  PROVE  \E f : Sums(q, f) /\ SizeOf(q) = f[Len(q)]
  <1> DEFINE N == Len(q)
             Rec(f) == [n \in 0 .. N |->
                           IF n = 0 THEN 0
                           ELSE f[n - 1] + entry_size(q[n].req, q[n].reply)]
             h == CHOOSE f : f = Rec(f)
  <1>1. N \in Nat /\ \A n \in 1 .. N : Size(q[n]) \in Nat
    <2>1. N \in Nat /\ \A n \in 1 .. N : q[n] \in CacheEntry
      BY SMT DEF Queue
    <2> QED
      BY <2>1, SizeNat
  <1>2. PICK f : Sums(q, f)
    BY SumsExist
  <1>3. SizeOf(q) = h[N]
    BY DEF SizeOf
  <1>4. f = Rec(f)
    BY <1>1, <1>2, SMT DEF Sums, Size
  <1>5. h = Rec(h)
    <2> HIDE DEF Rec
    <2> QED
      BY <1>4
  <1> HIDE DEF h
  <1>6. /\ h[0] = 0
        /\ \A n \in 1 .. N : h[n] = h[n - 1] + Size(q[n])
    <2>1. \A n \in 0 .. N : h[n] = IF n = 0 THEN 0
                                   ELSE h[n - 1] + Size(q[n])
      BY <1>5 DEF Size
    <2> QED
      BY <2>1, <1>1, SMT
  <1> HIDE DEF Rec, N
  <1>7. ASSUME {n \in 0 .. N : h[n] # f[n]} # {}
        PROVE  FALSE
    <2>1. PICK m \in {n \in 0 .. N : h[n] # f[n]} :
                \A k \in {n \in 0 .. N : h[n] # f[n]} : m <= k
      <3>1. {n \in 0 .. N : h[n] # f[n]} \in SUBSET Nat
        BY <1>1, SMT
      <3> QED
        BY <1>7, <3>1, LeastExists
    <2>2. m # 0 /\ m \in 1 .. N /\ m - 1 \in 0 .. N /\ ~ (m <= m - 1)
      BY <2>1, <1>1, <1>2, <1>6, SMT DEF Sums
    <2>3. h[m - 1] = f[m - 1]
      BY <2>1, <2>2
    <2>4. f[m] = f[m - 1] + Size(q[m])
      BY <2>2, <1>2 DEF Sums, N
    <2> QED
      BY <2>1, <2>2, <2>3, <2>4, <1>6
  <1>8. h[N] = f[N]
    BY <1>1, <1>7, SMT
  <1> QED
    BY <1>2, <1>3, <1>8 DEF N

(* What a partial sum is. *)
LEMMA SumsAt ==
  ASSUME NEW q, NEW f, Sums(q, f), NEW n \in 0 .. Len(q), Len(q) \in Nat
  PROVE  /\ f[0] = 0 /\ f[n] \in Nat /\ f[n] \in Int
         /\ n # 0 => f[n] = f[n - 1] + Size(q[n])
  <1>1. f[0] = 0 /\ f[n] \in Nat
    BY DEF Sums
  <1>2. ASSUME n # 0
        PROVE  f[n] = f[n - 1] + Size(q[n])
    <2>1. n \in 1 .. Len(q)
      BY <1>2, SMT
    <2> QED
      BY <2>1 DEF Sums
  <1> QED
    BY <1>1, <1>2, SMT

(* From a to b, f grows as g does d places further on. *)
Alongside(f, g, a, b, d) ==
    /\ \A n \in a .. b : f[n] \in Int /\ g[n + d] \in Int
    /\ \A n \in a + 1 .. b : f[n] - f[n - 1] = g[n + d] - g[n - 1 + d]

SameGrowth(f, g, a, b, d) == f[b] - f[a] = g[b + d] - g[a + d]

(* Two runs of entries of the same sizes add the same to their sums. *)
LEMMA SameSizes ==
  ASSUME NEW f, NEW g, NEW a \in Nat, NEW b \in Nat, NEW d \in Nat, a <= b,
         Alongside(f, g, a, b, d)
  PROVE  SameGrowth(f, g, a, b, d)
  <1> DEFINE B == {n \in a .. b : f[n] - f[a] # g[n + d] - g[a + d]}
  <1>1. ASSUME B # {}
        PROVE  FALSE
    <2>1. B \in SUBSET Nat
      BY SMT
    <2>2. PICK m \in B : \A k \in B : m <= k
      BY <1>1, <2>1, LeastExists
    <2>3. m \in a .. b /\ m # a /\ a \in a .. b
      <3>1. m \in a .. b /\ f[m] - f[a] # g[m + d] - g[a + d]
        BY <2>2
      <3>2. a \in a .. b
        BY SMT
      <3>3. f[a] \in Int /\ g[a + d] \in Int
        BY <3>2 DEF Alongside
      <3>4. f[a] - f[a] = g[a + d] - g[a + d]
        BY <3>3, SMT
      <3> QED
        BY <3>1, <3>2, <3>4
    <2>4. m \in a + 1 .. b /\ m - 1 \in a .. b /\ ~ (m <= m - 1)
      BY <2>3, SMT
    <2>5. m - 1 \notin B
      BY <2>2, <2>4
    <2>6. f[m - 1] - f[a] = g[m - 1 + d] - g[a + d]
      BY <2>4, <2>5
    <2>7. f[m] - f[m - 1] = g[m + d] - g[m - 1 + d]
      BY <2>4 DEF Alongside
    <2>8. /\ f[m] \in Int /\ f[m - 1] \in Int /\ f[a] \in Int
          /\ g[m + d] \in Int /\ g[m - 1 + d] \in Int /\ g[a + d] \in Int
      BY <2>3, <2>4 DEF Alongside
    <2>9. f[m] - f[a] = g[m + d] - g[a + d]
      BY <2>6, <2>7, <2>8, SMT
    <2> QED
      BY <2>2, <2>9
  <1>2. b \notin B /\ b \in a .. b
    BY <1>1, SMT
  <1> QED
    BY <1>2 DEF SameGrowth

(* The entries of t after a, up to b, are those of q d places further on. *)
Moved(q, t, a, b, d) == \A n \in a + 1 .. b : t[n] = q[n + d]

(* The same entries at other places of another queue add the same. *)
LEMMA SameEntries ==
  ASSUME NEW q \in Queue, NEW t \in Queue, NEW f, NEW g, Sums(q, f), Sums(t, g),
         NEW a \in Nat, NEW b \in Nat, NEW d \in Nat,
         a <= b, b <= Len(t), b + d <= Len(q),
         Moved(q, t, a, b, d)
  PROVE  SameGrowth(g, f, a, b, d)
  <1>1. Len(q) \in Nat /\ Len(t) \in Nat
    BY SMT DEF Queue
  <1>2. ASSUME NEW n \in a .. b
        PROVE  g[n] \in Int /\ f[n + d] \in Int
    <2>1. n \in 0 .. Len(t) /\ n + d \in 0 .. Len(q)
      BY <1>1, SMT
    <2>2. g[n] \in Int
      BY <1>1, <2>1, SumsAt
    <2>3. f[n + d] \in Int
      BY <1>1, <2>1, SumsAt
    <2> QED
      BY <2>2, <2>3
  <1>3. ASSUME NEW n \in a + 1 .. b
        PROVE  g[n] - g[n - 1] = f[n + d] - f[n - 1 + d]
    <2>1. /\ n \in 1 .. Len(t) /\ n + d \in 1 .. Len(q)
          /\ n \in 0 .. Len(t) /\ n + d \in 0 .. Len(q) /\ n # 0 /\ n + d # 0
          /\ n \in a .. b /\ n - 1 \in a .. b /\ n - 1 + d = n + d - 1
      BY <1>1, SMT
    <2>2. /\ g[n] = g[n - 1] + Size(t[n])
          /\ f[n + d] = f[n + d - 1] + Size(q[n + d])
      <3>1. \A i \in 1 .. Len(t) : g[i] = g[i - 1] + Size(t[i])
        BY DEF Sums
      <3>2. \A i \in 1 .. Len(q) : f[i] = f[i - 1] + Size(q[i])
        BY DEF Sums
      <3> QED
        BY <2>1, <3>1, <3>2, SMT
    <2>3. Size(t[n]) \in Nat /\ t[n] = q[n + d]
      <3>1. t[n] \in CacheEntry
        BY <2>1, SMT DEF Queue
      <3> QED
        BY <3>1, SizeNat DEF Moved
    <2>4. g[n - 1] \in Int /\ f[n - 1 + d] \in Int
      BY <2>1, <1>2
    <2>5. f[n - 1 + d] = f[n + d - 1]
      BY <2>1
    <2>6. /\ g[n] = g[n - 1] + Size(t[n]) /\ Size(t[n]) \in Nat
          /\ f[n + d] = f[n - 1 + d] + Size(t[n])
      BY <2>2, <2>3, <2>5
    <2> QED
      BY ONLY <2>4, <2>6
  <1>4. Alongside(g, f, a, b, d)
    BY <1>2, <1>3 DEF Alongside
  <1> QED
    BY <1>4, SameSizes

(* An insertion adds the size of its entry. *)
LEMMA AppendSize ==
  ASSUME NEW q \in Queue, NEW e \in CacheEntry
  PROVE  SizeOf(Append(q, e)) = SizeOf(q) + Size(e)
  <1> DEFINE t == Append(q, e)
             n == Len(q)
  <1>1. /\ n \in Nat /\ t \in Queue /\ Len(t) = n + 1 /\ t[n + 1] = e
        /\ \A i \in 1 .. n : t[i] = q[i]
    BY SMT DEF Queue
  <1> HIDE DEF t
  <1>2. PICK f : Sums(q, f) /\ SizeOf(q) = f[n]
    BY SizeSums
  <1>3. PICK g : Sums(t, g) /\ SizeOf(t) = g[Len(t)]
    BY <1>1, SizeSums
  <1> HIDE DEF n
  <1>4. SameGrowth(g, f, 0, n, 0)
    <2>1. Moved(q, t, 0, n, 0)
      BY <1>1, SMT DEF Moved
    <2>2. 0 \in Nat /\ 0 <= n /\ n <= Len(t) /\ n + 0 <= Len(q)
      BY <1>1, SMT DEF n
    <2> QED
      BY <1>1, <1>2, <1>3, <2>1, <2>2, SameEntries
  <1>5. f[0] = 0 /\ g[0] = 0 /\ f[n] \in Nat /\ g[n] \in Nat
    <2>1. 0 \in 0 .. Len(q) /\ n \in 0 .. Len(q) /\ n \in 0 .. Len(t)
      BY <1>1, SMT DEF n
    <2> QED
      BY <1>2, <1>3, <2>1 DEF Sums
  <1>6. g[n + 1] = g[n] + Size(e)
    <2>1. n + 1 \in 1 .. Len(t) /\ n + 1 - 1 = n
      BY <1>1, SMT
    <2> QED
      BY <2>1, <1>1, <1>3, SMT DEF Sums
  <1> QED
    BY <1>1, <1>2, <1>3, <1>4, <1>5, <1>6, SMT DEF t, SameGrowth

(* What a purge takes and what it leaves make up the queue. *)
LEMMA PurgeSize ==
  ASSUME NEW q \in Queue, NEW n \in 0 .. Len(q)
  PROVE  /\ SizeOf(q) \in Nat
         /\ SizeOf(SubSeq(q, 1, n)) \in Nat
         /\ SizeOf(SubSeq(q, n + 1, Len(q))) \in Nat
         /\ SizeOf(SubSeq(q, n + 1, Len(q)))
                = SizeOf(q) - SizeOf(SubSeq(q, 1, n))
  <1> DEFINE s == SubSeq(q, 1, n)
             t == SubSeq(q, n + 1, Len(q))
             N == Len(q)
  <1>1. N \in Nat /\ n \in Nat /\ n <= N
    BY SMT DEF Queue
  <1>2. s \in Queue /\ Len(s) = n /\ \A i \in 1 .. n : s[i] = q[i]
    BY <1>1, SMT DEF Queue
  <1>3. t \in Queue /\ Len(t) = N - n /\ \A i \in 1 .. N - n : t[i] = q[i + n]
    BY <1>1, SMT DEF Queue
  <1> HIDE DEF s, t
  <1>4. PICK f : Sums(q, f) /\ SizeOf(q) = f[N]
    BY SizeSums
  <1>5. PICK g : Sums(s, g) /\ SizeOf(s) = g[Len(s)]
    BY <1>2, SizeSums
  <1>6. PICK h : Sums(t, h) /\ SizeOf(t) = h[Len(t)]
    BY <1>3, SizeSums
  <1> HIDE DEF N
  <1>7. SameGrowth(g, f, 0, n, 0)
    <2>1. Moved(q, s, 0, n, 0)
      BY <1>1, <1>2, SMT DEF Moved
    <2>2. 0 \in Nat /\ 0 <= n /\ n <= Len(s) /\ n + 0 <= Len(q)
      BY <1>1, <1>2, SMT DEF N
    <2> QED
      BY <1>1, <1>2, <1>4, <1>5, <2>1, <2>2, SameEntries
  <1>8. SameGrowth(h, f, 0, N - n, n)
    <2>1. Moved(q, t, 0, N - n, n)
      BY <1>1, <1>3, SMT DEF Moved
    <2>2. /\ 0 \in Nat /\ N - n \in Nat /\ 0 <= N - n /\ N - n <= Len(t)
          /\ N - n + n <= Len(q)
      BY <1>1, <1>3, SMT DEF N
    <2> QED
      BY <1>1, <1>3, <1>4, <1>6, <2>1, <2>2, SameEntries
  <1>9. /\ f[0] = 0 /\ g[0] = 0 /\ h[0] = 0
        /\ f[n] \in Nat /\ f[N] \in Nat /\ g[n] \in Nat /\ h[N - n] \in Nat
    <2>1. /\ n \in 0 .. N /\ N \in 0 .. N
          /\ n \in 0 .. Len(s) /\ N - n \in 0 .. Len(t)
      BY <1>1, <1>2, <1>3, SMT
    <2> QED
      BY <1>4, <1>5, <1>6, <2>1 DEF Sums, N
  <1>10. N - n + n = N /\ 0 + n = n /\ n + 0 = n
    BY <1>1, SMT
  <1>11. /\ SizeOf(q) = f[N] /\ SizeOf(s) = g[n] /\ SizeOf(t) = h[N - n]
    BY <1>2, <1>3, <1>4, <1>5, <1>6
  <1>12. SizeOf(t) = SizeOf(q) - SizeOf(s)
    BY ONLY <1>7, <1>8, <1>9, <1>10, <1>11 DEF SameGrowth
  <1> QED
    BY <1>9, <1>11, <1>12 DEF s, t

(* discard_entry() takes the size of its entry. *)
LEMMA WithoutSize ==
  ASSUME NEW q \in Queue, NEW n \in DOMAIN q
  PROVE  /\ SizeOf(Without(q, n)) \in Nat
         /\ SizeOf(Without(q, n)) = SizeOf(q) - Size(q[n])
         /\ SizeOf(q) \in Nat /\ Size(q[n]) \in Nat
  <1> DEFINE t == Without(q, n)
             N == Len(q)
  <1>1. N \in Nat /\ n \in 1 .. N /\ q[n] \in CacheEntry
    BY SMT DEF Queue
  <1>2. /\ t \in Queue /\ Len(t) = N - 1
        /\ \A i \in 1 .. N - 1 : t[i] = q[IF i < n THEN i ELSE i + 1]
    BY WithoutQueue
  <1> HIDE DEF t
  <1>3. PICK f : Sums(q, f) /\ SizeOf(q) = f[N]
    BY SizeSums
  <1>4. PICK g : Sums(t, g) /\ SizeOf(t) = g[Len(t)]
    BY <1>2, SizeSums
  <1> HIDE DEF N
  <1>5. SameGrowth(g, f, 0, n - 1, 0)
    <2>1. Moved(q, t, 0, n - 1, 0)
      BY <1>1, <1>2, SMT DEF Moved
    <2>2. /\ 0 \in Nat /\ n - 1 \in Nat /\ 0 <= n - 1 /\ n - 1 <= Len(t)
          /\ n - 1 + 0 <= Len(q)
      BY <1>1, <1>2, SMT DEF N
    <2> QED
      BY <1>1, <1>2, <1>3, <1>4, <2>1, <2>2, SameEntries
  <1>6. SameGrowth(g, f, n - 1, N - 1, 1)
    <2>1. Moved(q, t, n - 1, N - 1, 1)
      BY <1>1, <1>2, SMT DEF Moved
    <2>2. /\ 1 \in Nat /\ n - 1 \in Nat /\ N - 1 \in Nat /\ n - 1 <= N - 1
          /\ N - 1 <= Len(t) /\ N - 1 + 1 <= Len(q)
      BY <1>1, <1>2, SMT DEF N
    <2> QED
      BY <1>1, <1>2, <1>3, <1>4, <2>1, <2>2, SameEntries
  <1>7. /\ f[0] = 0 /\ g[0] = 0 /\ f[n] = f[n - 1] + Size(q[n])
        /\ f[n - 1] \in Nat /\ f[n] \in Nat /\ f[N] \in Nat
        /\ g[n - 1] \in Nat /\ g[N - 1] \in Nat
    <2>1. /\ n \in 0 .. N /\ n - 1 \in 0 .. N /\ N \in 0 .. N
          /\ n - 1 \in 0 .. Len(t) /\ N - 1 \in 0 .. Len(t)
      BY <1>1, <1>2, SMT
    <2> QED
      BY <1>1, <1>3, <1>4, <2>1 DEF Sums, N
  <1>8. Size(q[n]) \in Nat
    BY <1>1, SizeNat
  <1>9. /\ n - 1 + 0 = n - 1 /\ N - 1 + 1 = N /\ n - 1 + 1 = n
    BY <1>1, SMT
  <1>10. SizeOf(q) = f[N] /\ SizeOf(t) = g[N - 1]
    BY <1>2, <1>3, <1>4
  <1>11. SizeOf(t) = SizeOf(q) - Size(q[n])
    <2>1. g[n - 1] = f[n - 1]
      BY <1>5, <1>7, <1>9, SMT DEF SameGrowth
    <2>2. g[N - 1] - g[n - 1] = f[N] - f[n]
      BY <1>6, <1>9 DEF SameGrowth
    <2> QED
      BY <2>1, <2>2, <1>7, <1>8, <1>10, SMT
  <1> QED
    BY <1>7, <1>8, <1>10, <1>11 DEF t

-----------------------------------------------------------------------------
(* find_entry() finds an entry of the packet if there is one. *)
LEMMA FindEntry ==
  ASSUME NEW c, c.queue \in Queue, NEW req, req \in Cached(c)
  PROVE  /\ find_entry(c, req) \in DOMAIN c.queue
         /\ c.queue[find_entry(c, req)].req = req
  <1>1. Len(c.queue) \in Nat /\ DOMAIN c.queue = 1 .. Len(c.queue)
    BY SMT DEF Queue
  <1>2. /\ Occ(c.queue, req) \in SUBSET (1 .. Len(c.queue))
        /\ Occ(c.queue, req) # {}
    BY <1>1 DEF Occ, Cached
  <1>3. Max(Occ(c.queue, req)) \in Occ(c.queue, req)
    BY <1>1, <1>2, MaxIn
  <1> QED
    BY <1>3 DEF Occ, find_entry

(* kdc_remove_lookaside() takes an entry of the packet if there is one. *)
LEMMA RemoveLookaside ==
  ASSUME NEW c, c.queue \in Queue, NEW req, NEW r
  PROVE  LET d == kdc_remove_lookaside(c, req)
         IN  /\ d.queue \in Queue
             /\ Entries(d.queue, r) <= Entries(c.queue, r)
             /\ r = req /\ Entries(c.queue, r) > 0 =>
                    Entries(d.queue, r) <= Entries(c.queue, r) - 1
  <1>1. Entries(c.queue, r) \in Nat
    BY OccFinite
  <1>2. CASE req \in Cached(c)
    <2> DEFINE n == find_entry(c, req)
    <2>1. n \in DOMAIN c.queue /\ c.queue[n].req = req
      BY <1>2, FindEntry
    <2> HIDE DEF n
    <2>2. kdc_remove_lookaside(c, req).queue = Without(c.queue, n)
      BY <1>2 DEF kdc_remove_lookaside, discard_entry, n
    <2>3. /\ Without(c.queue, n) \in Queue
          /\ Entries(Without(c.queue, n), r) <=
                Entries(c.queue, r) - (IF c.queue[n].req = r THEN 1 ELSE 0)
      BY <2>1, RemoveOcc
    <2>4. Entries(Without(c.queue, n), r) \in Nat
      BY <2>3, OccFinite
    <2> QED
      BY <1>1, <2>1, <2>2, <2>3, <2>4, SMT
  <1>3. CASE req \notin Cached(c)
    <2>1. kdc_remove_lookaside(c, req) = c
      BY <1>3 DEF kdc_remove_lookaside
    <2>2. r = req => Entries(c.queue, r) = 0
      BY <1>1, <1>3, CachedOcc, SMT
    <2> QED
      BY <1>1, <2>1, <2>2, SMT
  <1> QED
    BY <1>2, <1>3

(* A purge takes entries from the head of the queue. *)
LEMMA PurgeKeeps ==
  ASSUME NEW c, c.queue \in Queue, NEW esize, NEW t, NEW r
  PROVE  /\ Purge(c, esize, t).queue \in Queue
         /\ Entries(Purge(c, esize, t).queue, r) <= Entries(c.queue, r)
  <1> DEFINE Left(k) == c.total_size - SizeOf(SubSeq(c.queue, 1, k))
             Enough(k) == k < Len(c.queue)
                             => /\ ~STALE(c.queue[k + 1], t)
                                /\ Left(k) + esize <= LOOKASIDE_MAX_SIZE
             S == {k \in 0 .. Len(c.queue) : Enough(k)}
             n == Min(S)
  <1>1. Len(c.queue) \in Nat
    BY SMT DEF Queue
  <1>2. S \in SUBSET Nat /\ S \in SUBSET (0 .. Len(c.queue))
    BY <1>1, SMT
  <1>3. Len(c.queue) \in S
    BY <1>1, SMT
  <1>4. Purge(c, esize, t).queue = SubSeq(c.queue, n + 1, Len(c.queue))
    BY DEF Purge
  <1> HIDE DEF S
  <1>5. n \in 0 .. Len(c.queue)
    BY <1>2, <1>3, MinIn
  <1> HIDE DEF n
  <1> QED
    BY <1>4, <1>5, SuffixOcc

(* An insertion adds an entry of its packet at most, whatever it purges. *)
LEMMA InsertLookaside ==
  ASSUME NEW c, c.queue \in Queue, NEW req \in Req, NEW reply \in Data,
         NEW t \in Nat, NEW d \in kdc_insert_lookaside(c, req, reply, t), NEW r
  PROVE  /\ d.queue \in Queue
         /\ Entries(d.queue, r) <=
                Entries(c.queue, r) + (IF r = req THEN 1 ELSE 0)
  <1> DEFINE P == Purge(c, entry_size(req, reply), t)
             e == [req |-> req, reply |-> reply, timein |-> t]
  <1>1. d = Insert(c, req, reply, t) \/ d = c \/ d = P
    BY DEF kdc_insert_lookaside
  <1>2. P.queue \in Queue /\ Entries(P.queue, r) <= Entries(c.queue, r)
    BY PurgeKeeps
  <1>3. Insert(c, req, reply, t).queue = Append(P.queue, e)
    BY DEF Insert
  <1> HIDE DEF P
  <1>4. e \in CacheEntry /\ e.req = req
    BY DEF CacheEntry
  <1> HIDE DEF e
  <1>5. /\ Append(P.queue, e) \in Queue
        /\ Entries(Append(P.queue, e), r) =
              Entries(P.queue, r) + (IF e.req = r THEN 1 ELSE 0)
    BY <1>2, <1>4, AppendOcc
  <1>6. Entries(c.queue, r) \in Nat /\ Entries(P.queue, r) \in Nat
    BY <1>2, OccFinite
  <1>7. Entries(Append(P.queue, e), r) <=
            Entries(c.queue, r) + (IF r = req THEN 1 ELSE 0)
    BY <1>2, <1>4, <1>5, <1>6, SMT
  <1>8. CASE d = Insert(c, req, reply, t)
    BY <1>3, <1>5, <1>7, <1>8
  <1>9. CASE d = c
    BY <1>6, <1>9, SMT
  <1>10. CASE d = P
    BY <1>2, <1>6, <1>10, SMT
  <1> QED
    BY <1>1, <1>8, <1>9, <1>10

(* finish_dispatch_cache() adds no entry where there is one. *)
LEMMA FinishKeeps ==
  ASSUME NEW c, c.queue \in Queue, NEW req \in Req, NEW code,
         NEW response \in ReplyLen \cup {NULL},
         (code = "ok") <=> (response # NULL), now \in Nat,
         NEW d \in finish_dispatch_cache(c, req, code, response), NEW r
  PROVE  /\ d.queue \in Queue
         /\ Entries(d.queue, r) <= Entries(c.queue, r)
                \/ Entries(d.queue, r) <= 1
         /\ code = "discard" => d = c
  <1> DEFINE u == kdc_remove_lookaside(c, req)
  <1>1. CASE code = "discard"
    <2>1. d = c
      BY <1>1 DEF finish_dispatch_cache
    <2> QED
      BY <2>1, OccFinite, SMT
  <1>2. CASE code # "discard"
    <2>1. /\ u.queue \in Queue
          /\ Entries(u.queue, r) <= Entries(c.queue, r)
          /\ r = req /\ Entries(c.queue, r) > 0 =>
                Entries(u.queue, r) <= Entries(c.queue, r) - 1
      BY RemoveLookaside
    <2>2. \/ d = u
          \/ /\ response \in Data
             /\ d \in kdc_insert_lookaside(u, req, response, now)
      BY <1>2, DispatchAssumption
         DEF finish_dispatch_cache, DispatchAssumption, Data
    <2> HIDE DEF u
    <2>3. Entries(c.queue, r) \in Nat /\ Entries(u.queue, r) \in Nat
      BY <2>1, OccFinite
    <2>4. CASE d = u
      BY <1>2, <2>1, <2>4
    <2>5. CASE /\ response \in Data
               /\ d \in kdc_insert_lookaside(u, req, response, now)
      <3>1. /\ d.queue \in Queue
            /\ Entries(d.queue, r) <=
                 Entries(u.queue, r) + (IF r = req THEN 1 ELSE 0)
        BY <2>1, <2>5, InsertLookaside
      <3>2. Entries(d.queue, r) \in Nat
        BY <3>1, OccFinite
      <3>3. CASE r = req /\ Entries(c.queue, r) > 0
        BY <1>2, <3>1, <3>2, <3>3, <2>1, <2>3, SMT
      <3>4. CASE r = req /\ Entries(c.queue, r) = 0
        BY <1>2, <3>1, <3>2, <3>4, <2>1, <2>3, SMT
      <3>5. CASE r # req
        BY <1>2, <3>1, <3>2, <3>5, <2>1, <2>3, SMT
      <3> QED
        BY <3>3, <3>4, <3>5, <2>3, SMT
    <2> QED
      BY <2>2, <2>4, <2>5
  <1> QED
    BY <1>1, <1>2

-----------------------------------------------------------------------------
(* The running total of a cache, and the limit it stays within. *)
Summed(c) ==
    /\ c.queue \in Queue
    /\ c.total_size = SizeOf(c.queue)
    /\ Len(c.queue) > 1 => c.total_size <= LOOKASIDE_MAX_SIZE

(* kdc_remove_lookaside() keeps the total. *)
LEMMA RemoveCounts ==
  ASSUME NEW c, Summed(c), NEW req
  PROVE  Summed(kdc_remove_lookaside(c, req))
  <1>1. CASE req \in Cached(c)
    <2> DEFINE n == find_entry(c, req)
               d == kdc_remove_lookaside(c, req)
    <2>1. n \in DOMAIN c.queue /\ c.queue[n].req = req
      BY <1>1, FindEntry DEF Summed
    <2> HIDE DEF n
    <2>2. /\ d.queue = Without(c.queue, n)
          /\ d.total_size = c.total_size - Size(c.queue[n])
      BY <1>1 DEF kdc_remove_lookaside, discard_entry, n, Size
    <2> HIDE DEF d
    <2>3. /\ Without(c.queue, n) \in Queue
          /\ Len(Without(c.queue, n)) = Len(c.queue) - 1
      BY <2>1, WithoutQueue DEF Summed
    <2>4. /\ SizeOf(Without(c.queue, n)) = SizeOf(c.queue) - Size(c.queue[n])
          /\ SizeOf(c.queue) \in Nat /\ Size(c.queue[n]) \in Nat
      BY <2>1, WithoutSize DEF Summed
    <2>5. Len(c.queue) \in Nat /\ LOOKASIDE_MAX_SIZE \in Nat
      BY LookasideAssumption, SMT DEF Summed, Queue, LookasideAssumption
    <2>6. d.queue \in Queue /\ d.total_size = SizeOf(d.queue)
      BY <2>2, <2>3, <2>4 DEF Summed
    <2>7. ASSUME Len(d.queue) > 1
          PROVE  d.total_size <= LOOKASIDE_MAX_SIZE
      <3>1. Len(c.queue) > 1
        BY <2>2, <2>3, <2>5, <2>7, SMT
      <3>2. c.total_size <= LOOKASIDE_MAX_SIZE /\ c.total_size = SizeOf(c.queue)
        BY <3>1 DEF Summed
      <3> QED
        BY <2>2, <2>4, <2>5, <3>2, SMT
    <2> QED
      BY <2>6, <2>7 DEF Summed, d
  <1>2. CASE req \notin Cached(c)
    BY <1>2 DEF kdc_remove_lookaside
  <1> QED
    BY <1>1, <1>2

(* A purge keeps the total, and stops when the queue is empty or there is    *)
(* room for the entry to come.                                               *)
LEMMA PurgeCounts ==
  ASSUME NEW c, Summed(c), NEW esize \in Nat, NEW t
  PROVE  LET p == Purge(c, esize, t)
         IN  /\ Summed(p)
             /\ \/ Len(p.queue) = 0
                \/ p.total_size + esize <= LOOKASIDE_MAX_SIZE
  <1> DEFINE N == Len(c.queue)
             Left(k) == c.total_size - SizeOf(SubSeq(c.queue, 1, k))
             Enough(k) == k < Len(c.queue)
                             => /\ ~STALE(c.queue[k + 1], t)
                                /\ Left(k) + esize <= LOOKASIDE_MAX_SIZE
             S == {k \in 0 .. Len(c.queue) : Enough(k)}
             n == Min(S)
             p == Purge(c, esize, t)
  <1>1. N \in Nat /\ LOOKASIDE_MAX_SIZE \in Nat
    BY LookasideAssumption, SMT DEF Summed, Queue, LookasideAssumption
  <1>2. /\ p.queue = SubSeq(c.queue, n + 1, Len(c.queue))
        /\ p.total_size = c.total_size - SizeOf(SubSeq(c.queue, 1, n))
    BY DEF Purge
  <1>3. S \in SUBSET Nat
    BY <1>1, SMT
  <1>4. N \in S
    BY <1>1, SMT
  <1>5. n \in S
    <2> HIDE DEF S
    <2> QED
      BY <1>3, <1>4, MinIn
  <1> HIDE DEF p
  <1>6. n \in 0 .. N /\ Enough(n)
    BY <1>5
  <1> HIDE DEF n, S
  <1>7. /\ SizeOf(c.queue) \in Nat
        /\ SizeOf(SubSeq(c.queue, 1, n)) \in Nat
        /\ SizeOf(SubSeq(c.queue, n + 1, Len(c.queue)))
                = SizeOf(c.queue) - SizeOf(SubSeq(c.queue, 1, n))
    BY <1>6, PurgeSize DEF Summed
  <1>8. p.queue \in Queue /\ Len(p.queue) = N - n
    BY <1>1, <1>2, <1>6, SMT DEF Summed, Queue
  <1>9. /\ p.total_size = SizeOf(p.queue)
        /\ p.total_size \in Int /\ p.total_size <= c.total_size
    BY <1>2, <1>7, SMT DEF Summed
  <1>10. ASSUME Len(p.queue) > 1
         PROVE  p.total_size <= LOOKASIDE_MAX_SIZE
    <2>1. Len(c.queue) > 1
      BY <1>1, <1>6, <1>8, <1>10, SMT
    <2>2. c.total_size <= LOOKASIDE_MAX_SIZE /\ c.total_size \in Nat
      BY <2>1, <1>7 DEF Summed
    <2> QED
      BY <2>2, <1>1, <1>9, SMT
  <1>11. Len(p.queue) = 0 \/ p.total_size + esize <= LOOKASIDE_MAX_SIZE
    <2>1. CASE n = N
      BY <2>1, <1>1, <1>8, SMT
    <2>2. CASE n # N
      <3>1. n < Len(c.queue)
        BY <2>2, <1>1, <1>6, SMT
      <3> QED
        BY <3>1, <1>2, <1>6
    <2> QED
      BY <2>1, <2>2
  <1>12. Summed(p)
    BY <1>8, <1>9, <1>10 DEF Summed
  <1> QED
    BY <1>11, <1>12 DEF p

(* kdc_insert_lookaside() keeps the total, whether or not it fails. *)
LEMMA InsertCounts ==
  ASSUME NEW c, Summed(c), NEW req \in Req, NEW reply \in Data,
         NEW t \in Nat, NEW d \in kdc_insert_lookaside(c, req, reply, t)
  PROVE  Summed(d)
  <1> DEFINE esize == entry_size(req, reply)
             P == Purge(c, esize, t)
             e == [req |-> req, reply |-> reply, timein |-> t]
             I == Insert(c, req, reply, t)
  <1>1. d = I \/ d = c \/ d = P
    BY DEF kdc_insert_lookaside
  <1>2. e \in CacheEntry /\ Size(e) = esize
    BY DEF CacheEntry, Size
  <1>3. esize \in Nat
    BY <1>2, SizeNat
  <1>4. /\ I.queue = Append(P.queue, e)
        /\ I.total_size = P.total_size + esize
    BY DEF Insert
  <1> HIDE DEF e, esize, I
  <1>5. /\ Summed(P)
        /\ Len(P.queue) = 0 \/ P.total_size + esize <= LOOKASIDE_MAX_SIZE
    BY <1>3, PurgeCounts
  <1> HIDE DEF P
  <1>6. /\ I.queue \in Queue /\ Len(I.queue) = Len(P.queue) + 1
        /\ Len(P.queue) \in Nat
    BY <1>2, <1>4, <1>5, SMT DEF Summed, Queue
  <1>7. I.total_size = SizeOf(I.queue)
    <2>1. SizeOf(Append(P.queue, e)) = SizeOf(P.queue) + Size(e)
      BY <1>2, <1>5, AppendSize DEF Summed
    <2> QED
      BY <2>1, <1>2, <1>4, <1>5 DEF Summed
  <1>8. Len(I.queue) > 1 => I.total_size <= LOOKASIDE_MAX_SIZE
    BY <1>4, <1>5, <1>6, SMT
  <1>9. Summed(I)
    BY <1>6, <1>7, <1>8 DEF Summed
  <1> QED
    BY <1>1, <1>5, <1>9

(* finish_dispatch_cache() keeps the total. *)
LEMMA FinishCounts ==
  ASSUME NEW c, Summed(c), NEW req \in Req, NEW code,
         NEW response \in ReplyLen \cup {NULL}, now \in Nat,
         NEW d \in finish_dispatch_cache(c, req, code, response)
  PROVE  Summed(d)
  <1> DEFINE u == IF code = "discard" THEN c ELSE kdc_remove_lookaside(c, req)
  <1>1. Summed(u)
    BY RemoveCounts
  <1>2. \/ d = u
        \/ response \in Data /\ d \in kdc_insert_lookaside(u, req, response, now)
    BY DispatchAssumption
       DEF finish_dispatch_cache, DispatchAssumption, Data
  <1> HIDE DEF u
  <1> QED
    BY <1>1, <1>2, InsertCounts

-----------------------------------------------------------------------------
(* Every run of a request is accounted for. *)
Paid ==
    \A r \in Req : runs[r] <= forgotten[r] + copyfailed[r]
                                + (IF r \in Cached(cache) THEN 1 ELSE 0)

Shape ==
    /\ cache.queue \in Queue
    /\ now \in Nat
    /\ state \in [States -> [req : AS, is_tcp : BOOLEAN] \cup {Unused}]
    /\ runs \in [Req -> Nat] /\ forgotten \in [Req -> Nat]
    /\ copyfailed \in [Req -> Nat]

IInv == Shape /\ OneEntry /\ Paid

(* Nothing has happened yet. *)
LEMMA InitIInv == Init => IInv
  <1> SUFFICES ASSUME Init PROVE IInv
    OBVIOUS
  <1>1. cache.queue = <<>> /\ cache.queue \in Queue
    BY SMT DEF Init, EmptyCache, Queue
  <1>2. Shape
    BY <1>1 DEF Init, Shape
  <1>3. ASSUME NEW r \in Req
        PROVE  Entries(cache.queue, r) = 0
    <2>1. Occ(cache.queue, r) = {}
      BY <1>1, SMT DEF Occ
    <2> QED
      BY <2>1, FS_EmptySet DEF Entries
  <1>4. OneEntry
    BY <1>3, SMT DEF OneEntry, Entries, Occ, Init
  <1>5. Paid
    BY SMT DEF Paid, Init
  <1> QED
    BY <1>2, <1>4, <1>5 DEF IInv

(* What a run of req does to the histories, if it leaves the cache c. *)
LEMMA MissPaid ==
  ASSUME Shape, Paid, NEW req \in Req, NEW c, cache' = c, Miss(req),
         Forget(Cached(cache) \cup {req}, c)
  PROVE  /\ runs' \in [Req -> Nat] /\ forgotten' \in [Req -> Nat]
         /\ copyfailed' \in [Req -> Nat] /\ Paid'
         /\ \A r \in Req : copyfailed'[r] = copyfailed[r]
                + (IF r = req /\ req \in Cached(cache) THEN 1 ELSE 0)
  <1>1. /\ runs' \in [Req -> Nat] /\ forgotten' \in [Req -> Nat]
        /\ copyfailed' \in [Req -> Nat]
    BY SMT DEF Shape, Miss, Forget
  <1>2. \A r \in Req : copyfailed'[r] = copyfailed[r]
                + (IF r = req /\ req \in Cached(cache) THEN 1 ELSE 0)
    BY SMT DEF Shape, Miss
  <1>3. \A r \in Req : runs'[r] = runs[r] + (IF r = req THEN 1 ELSE 0)
    BY SMT DEF Shape, Miss
  <1>4. \A r \in Req : forgotten'[r] = forgotten[r]
                + (IF r \in (Cached(cache) \cup {req}) \ Cached(cache')
                   THEN 1 ELSE 0)
    BY DEF Shape, Forget
  <1>5. ASSUME NEW r \in Req
        PROVE  runs'[r] <= forgotten'[r] + copyfailed'[r]
                              + (IF r \in Cached(cache') THEN 1 ELSE 0)
    <2>1. /\ runs[r] \in Nat /\ forgotten[r] \in Nat /\ copyfailed[r] \in Nat
          /\ runs[r] <= forgotten[r] + copyfailed[r]
                           + (IF r \in Cached(cache) THEN 1 ELSE 0)
      BY DEF Shape, Paid
    <2> QED
      BY ONLY <2>1, <1>2, <1>3, <1>4, r \in Req
  <1>6. Paid'
    BY <1>5 DEF Paid, Cached
  <1> QED
    BY <1>1, <1>2, <1>6

(* Each dispatch, each callback and the clock keep the invariant. *)
LEMMA StepKeepsIInv == IInv /\ [Next]_vars => IInv'
  <1> SUFFICES ASSUME IInv, [Next]_vars PROVE IInv'
    OBVIOUS
  <1> USE DEF IInv
  <1>a. \A r \in Req : Entries(cache.queue, r) \in Nat
                        /\ Entries(cache.queue, r) <= 1 + copyfailed[r]
                        /\ (r \in Cached(cache) <=> Entries(cache.queue, r) > 0)
    <2> SUFFICES ASSUME NEW r \in Req
                 PROVE  /\ Entries(cache.queue, r) \in Nat
                        /\ Entries(cache.queue, r) <= 1 + copyfailed[r]
                        /\ (r \in Cached(cache) <=> Entries(cache.queue, r) > 0)
      OBVIOUS
    <2>1. cache.queue \in Queue
      BY DEF Shape
    <2>2. Entries(cache.queue, r) <= 1 + copyfailed[r]
      BY DEF OneEntry, Entries, Occ
    <2>3. Entries(cache.queue, r) \in Nat
      BY <2>1, OccFinite
    <2>4. r \in Cached(cache) <=> Entries(cache.queue, r) > 0
      BY <2>1, CachedOcc
    <2> QED
      BY <2>2, <2>3, <2>4
  <1>1. ASSUME NEW req \in Req, NEW is_tcp \in BOOLEAN, Hit(req, is_tcp)
        PROVE  IInv'
    <2>1. UNCHANGED <<cache, now, state, runs, forgotten, copyfailed>>
      BY <1>1 DEF Hit
    <2>2. Shape'
      BY <2>1 DEF Shape
    <2>3. OneEntry'
      BY <2>1 DEF OneEntry
    <2>4. Paid'
      BY <2>1 DEF Paid, Cached
    <2> QED
      BY <2>2, <2>3, <2>4
  <1>2. ASSUME NEW req \in Req, NEW is_tcp \in BOOLEAN, Answer(req, is_tcp)
        PROVE  IInv'
    <2>1. PICK code \in {"ok", "error"}, response \in ReplyLen \cup {NULL},
               marked \in kdc_insert_lookaside(cache, req, EmptyData, now) :
            /\ (code = "ok") <=> (response # NULL)
            /\ \E c \in finish_dispatch_cache(marked, req, code, response) :
                /\ cache' = c
                /\ Forget(Cached(cache) \cup {req}, c)
      BY <1>2 DEF Answer
    <2>2. PICK c \in finish_dispatch_cache(marked, req, code, response) :
            cache' = c /\ Forget(Cached(cache) \cup {req}, c)
      BY <2>1
    <2>3. /\ runs' \in [Req -> Nat] /\ forgotten' \in [Req -> Nat]
          /\ copyfailed' \in [Req -> Nat] /\ Paid'
          /\ \A r \in Req : copyfailed'[r] = copyfailed[r]
                + (IF r = req /\ req \in Cached(cache) THEN 1 ELSE 0)
      BY <1>2, <2>2, MissPaid DEF Answer
    <2>4. EmptyData \in Data /\ now \in Nat /\ cache.queue \in Queue
      BY DEF EmptyData, Data, Shape
    <2>5. ASSUME NEW r \in Req
          PROVE  /\ c.queue \in Queue
                 /\ Entries(c.queue, r) <= 1 + copyfailed'[r]
      <3>1. /\ marked.queue \in Queue
            /\ Entries(marked.queue, r) <=
                 Entries(cache.queue, r) + (IF r = req THEN 1 ELSE 0)
        BY <2>4, InsertLookaside
      <3>2. /\ c.queue \in Queue
            /\ \/ Entries(c.queue, r) <= Entries(marked.queue, r)
               \/ Entries(c.queue, r) <= 1
        BY <2>1, <2>4, <3>1, FinishKeeps
      <3>3. /\ Entries(c.queue, r) \in Nat /\ Entries(marked.queue, r) \in Nat
            /\ Entries(cache.queue, r) \in Nat /\ copyfailed[r] \in Nat
        BY <3>1, <3>2, <2>4, OccFinite DEF Shape
      <3>4. Entries(marked.queue, r) <= 1 + copyfailed'[r]
        <4>0. /\ Entries(cache.queue, r) <= 1 + copyfailed[r]
              /\ r \in Cached(cache) <=> Entries(cache.queue, r) > 0
              /\ copyfailed'[r] = copyfailed[r]
                   + (IF r = req /\ req \in Cached(cache) THEN 1 ELSE 0)
          BY <1>a, <2>3
        <4>1. CASE r = req /\ req \in Cached(cache)
          BY ONLY <4>0, <4>1, <3>1, <3>3
        <4>2. CASE r = req /\ req \notin Cached(cache)
          <5>1. Entries(cache.queue, r) = 0
            BY ONLY <4>0, <4>2, <3>3
          <5> QED
            BY ONLY <4>0, <5>1, <4>2, <3>1, <3>3
        <4>3. CASE r # req
          BY ONLY <4>0, <4>3, <3>1, <3>3
        <4> QED
          BY <4>1, <4>2, <4>3
      <3>5. copyfailed'[r] \in Nat
        BY <2>3
      <3> QED
        BY <3>2, <3>3, <3>4, <3>5, SMT
    <2>6. OneEntry'
      BY <2>2, <2>5 DEF OneEntry, Entries, Occ
    <2>7. Shape'
      <3>1. cache'.queue \in Queue
        BY <2>2, <2>5
      <3> QED
        BY <1>2, <2>3, <3>1 DEF Shape, Answer
    <2> QED
      BY <2>3, <2>6, <2>7
  <1>3. ASSUME NEW s \in States, NEW req \in AS, NEW is_tcp \in BOOLEAN,
               StartAS(s, req, is_tcp)
        PROVE  IInv'
    <2>1. req \in Req
      BY DispatchAssumption DEF DispatchAssumption
    <2>2. PICK c \in kdc_insert_lookaside(cache, req, EmptyData, now) :
            cache' = c /\ Forget(Cached(cache) \cup {req}, c)
      BY <1>3 DEF StartAS
    <2>3. /\ runs' \in [Req -> Nat] /\ forgotten' \in [Req -> Nat]
          /\ copyfailed' \in [Req -> Nat] /\ Paid'
          /\ \A r \in Req : copyfailed'[r] = copyfailed[r]
                + (IF r = req /\ req \in Cached(cache) THEN 1 ELSE 0)
      BY <1>3, <2>1, <2>2, MissPaid DEF StartAS
    <2>4. EmptyData \in Data /\ now \in Nat /\ cache.queue \in Queue
      BY DEF EmptyData, Data, Shape
    <2>5. ASSUME NEW r \in Req
          PROVE  /\ c.queue \in Queue
                 /\ Entries(c.queue, r) <= 1 + copyfailed'[r]
      <3>1. /\ c.queue \in Queue
            /\ Entries(c.queue, r) <=
                 Entries(cache.queue, r) + (IF r = req THEN 1 ELSE 0)
        BY <2>1, <2>4, InsertLookaside
      <3>2. /\ Entries(c.queue, r) \in Nat
            /\ Entries(cache.queue, r) \in Nat /\ copyfailed[r] \in Nat
        BY <3>1, <2>4, OccFinite DEF Shape
      <3>0. /\ Entries(cache.queue, r) <= 1 + copyfailed[r]
            /\ r \in Cached(cache) <=> Entries(cache.queue, r) > 0
            /\ copyfailed'[r] = copyfailed[r]
                 + (IF r = req /\ req \in Cached(cache) THEN 1 ELSE 0)
        BY <1>a, <2>3
      <3>3. CASE r = req /\ req \in Cached(cache)
        BY ONLY <3>0, <3>3, <3>1, <3>2
      <3>4. CASE r = req /\ req \notin Cached(cache)
        <4>1. Entries(cache.queue, r) = 0
          BY ONLY <3>0, <3>4, <3>2
        <4> QED
          BY ONLY <3>0, <4>1, <3>4, <3>1, <3>2
      <3>5. CASE r # req
        BY ONLY <3>0, <3>5, <3>1, <3>2
      <3> QED
        BY <3>3, <3>4, <3>5
    <2>6. OneEntry'
      BY <2>2, <2>5 DEF OneEntry, Entries, Occ
    <2>7. Shape'
      <3>1. cache'.queue \in Queue
        BY <2>1, <2>2, <2>5
      <3>2. state' \in [States -> [req : AS, is_tcp : BOOLEAN] \cup {Unused}]
        BY <1>3 DEF StartAS, Shape
      <3> QED
        BY <1>3, <2>3, <3>1, <3>2 DEF Shape, StartAS
    <2> QED
      BY <2>3, <2>6, <2>7
  <1>4. ASSUME NEW s \in States, FinishAS(s)
        PROVE  IInv'
    <2> DEFINE req == state[s].req
    <2>1. req \in Req
      BY <1>4, DispatchAssumption DEF DispatchAssumption, FinishAS, Shape
    <2>2. PICK code \in Codes, response \in ReplyLen \cup {NULL} :
            /\ (code = "ok") <=> (response # NULL)
            /\ \E c \in finish_dispatch_cache(cache, req, code, response) :
                /\ cache' = c
                /\ Forget(Cached(cache) \
                            (IF code = "discard" THEN {req} ELSE {}), c)
      BY <1>4 DEF FinishAS
    <2>3. PICK c \in finish_dispatch_cache(cache, req, code, response) :
            /\ cache' = c
            /\ Forget(Cached(cache) \
                        (IF code = "discard" THEN {req} ELSE {}), c)
      BY <2>2
    <2>4. UNCHANGED <<now, runs, copyfailed>> /\ now \in Nat
          /\ cache.queue \in Queue
      BY <1>4 DEF FinishAS, Shape
    <2>5. state' \in [States -> [req : AS, is_tcp : BOOLEAN] \cup {Unused}]
      BY <1>4 DEF FinishAS, Shape
    <2> HIDE DEF req
    <2>6. ASSUME NEW r \in Req
          PROVE  /\ c.queue \in Queue
                 /\ Entries(c.queue, r) <= 1 + copyfailed[r]
      <3>1. /\ c.queue \in Queue
            /\ \/ Entries(c.queue, r) <= Entries(cache.queue, r)
               \/ Entries(c.queue, r) <= 1
        BY <2>1, <2>2, <2>4, FinishKeeps
      <3>2. /\ Entries(c.queue, r) \in Nat
            /\ Entries(cache.queue, r) \in Nat /\ copyfailed[r] \in Nat
            /\ Entries(cache.queue, r) <= 1 + copyfailed[r]
        BY <3>1, <2>4, <1>a, OccFinite DEF Shape
      <3> QED
        BY <3>1, <3>2, SMT
    <2>7. OneEntry'
      BY <2>3, <2>4, <2>6 DEF OneEntry, Entries, Occ
    <2>8. forgotten' \in [Req -> Nat]
      BY <2>3, SMT DEF Forget, Shape
    <2>9. Shape'
      <3>1. cache'.queue \in Queue
        BY <2>1, <2>3, <2>6
      <3> QED
        BY <2>4, <2>5, <2>8, <3>1 DEF Shape
    <2>10. code = "discard" => c = cache
      BY <2>1, <2>2, <2>4, FinishKeeps
    <2>11. ASSUME NEW r \in Req
           PROVE  runs[r] <= forgotten'[r] + copyfailed[r]
                               + (IF r \in Cached(c) THEN 1 ELSE 0)
      <3>1. /\ runs[r] \in Nat /\ forgotten[r] \in Nat /\ copyfailed[r] \in Nat
            /\ runs[r] <= forgotten[r] + copyfailed[r]
                             + (IF r \in Cached(cache) THEN 1 ELSE 0)
        BY DEF Shape, Paid
      <3>2. forgotten'[r] = forgotten[r]
              + (IF r \in (Cached(cache) \
                            (IF code = "discard" THEN {req} ELSE {})) \ Cached(c)
                 THEN 1 ELSE 0)
        BY <2>3 DEF Forget, Shape
      <3>3. CASE code = "discard"
        BY <3>1, <3>2, <3>3, <2>10, SMT
      <3>4. CASE code # "discard"
        BY <3>1, <3>2, <3>4, SMT
      <3> QED
        BY <3>3, <3>4
    <2>12. Paid'
      BY <2>3, <2>4, <2>11 DEF Paid, Cached
    <2> QED
      BY <2>7, <2>9, <2>12
  <1>5. ASSUME NEW t \in 0 .. MaxTime, SetClock(t)
        PROVE  IInv'
    BY <1>5, DispatchAssumption, SMT
       DEF SetClock, Shape, OneEntry, Paid, Cached, DispatchAssumption
  <1>6. CASE UNCHANGED vars
    BY <1>6 DEF vars, Shape, OneEntry, Paid, Cached
  <1> QED
    BY <1>1, <1>2, <1>3, <1>4, <1>5, <1>6 DEF Next

(* The invariant of the cache and its histories. *)
LEMMA Invariant == Spec => []IInv
  <1>1. Init => IInv
    BY InitIInv
  <1>2. IInv /\ [Next]_vars => IInv'
    BY StepKeepsIInv
  <1> QED
    BY <1>1, <1>2, PTL DEF Spec

(* kdc_insert_lookaside() may assume that the packet is not there: the cache *)
(* holds one entry for a packet, and one more for each time the reply of an  *)
(* entry could not be copied.                                                *)
THEOREM OneEntryEach == Spec => []OneEntry
  <1>1. IInv => OneEntry
    BY DEF IInv
  <1> QED
    BY <1>1, Invariant, PTL

(* dispatch() processes a request again only after its entry was lost or its *)
(* reply could not be copied, however many exchanges are in progress.        *)
THEOREM ProcessedOnceEach == Spec => []ProcessedOnce
  <1>1. IInv => ProcessedOnce
    <2> SUFFICES ASSUME IInv, NEW r \in Req
                 PROVE  runs[r] <= 1 + forgotten[r] + copyfailed[r]
      BY DEF ProcessedOnce
    <2>1. /\ runs[r] \in Nat /\ forgotten[r] \in Nat /\ copyfailed[r] \in Nat
          /\ runs[r] <= forgotten[r] + copyfailed[r]
                           + (IF r \in Cached(cache) THEN 1 ELSE 0)
      BY DEF IInv, Shape, Paid
    <2> QED
      BY <2>1, SMT
  <1> QED
    BY <1>1, Invariant, PTL

-----------------------------------------------------------------------------
(* What else holds: the total is kept, and a response is one. *)
Rest ==
    /\ Summed(cache)
    /\ now \in 0 .. MaxTime
    /\ out \in Response /\ up \in BOOLEAN
    /\ runs \in [Req -> 0 .. MaxRuns]

(* finish_dispatch() responds, or the process is gone. *)
LEMMA Responds ==
  ASSUME out \in Response, up \in BOOLEAN, NEW is_tcp, NEW realm,
         NEW resp \in Response, finish_dispatch(is_tcp, realm, resp)
  PROVE  out' \in Response /\ up' \in BOOLEAN
  <1> DEFINE big == ~is_tcp /\ resp.response # NULL
                            /\ resp.response > max_dgram_reply_size
  <1>1. CASE big /\ ~realm
    BY <1>1 DEF finish_dispatch
  <1>2. CASE ~ (big /\ ~realm)
    <2>1. /\ out' = [resp EXCEPT !.response =
                        IF big THEN TooBig ELSE resp.response]
          /\ up' = up
      BY <1>2 DEF finish_dispatch
    <2> HIDE DEF big
    <2>2. resp.response \in Data \cup {NULL} /\ TooBig \in Data
      BY DEF Response, TooBig, Data
    <2> QED
      BY <2>1, <2>2 DEF Response
  <1> QED
    BY <1>1, <1>2

(* What a handler makes of a code and a reply is a response. *)
LEMMA MadeType ==
  ASSUME NEW req \in Req, NEW code \in Codes,
         NEW response \in ReplyLen \cup {NULL}
  PROVE  Made(req, code, response) \in Response
  <1>1. response \in Data \cup {NULL}
    BY DispatchAssumption DEF DispatchAssumption, Data
  <1> QED
    BY <1>1 DEF Made, NoResponse, Response, Codes

(* A run that begins is within its bound. *)
LEMMA MissBound ==
  ASSUME runs \in [Req -> 0 .. MaxRuns], NEW req \in Req, Miss(req)
  PROVE  runs' \in [Req -> 0 .. MaxRuns]
  <1>1. runs[req] + 1 \in 0 .. MaxRuns
    BY DispatchAssumption, SMT DEF Miss, DispatchAssumption
  <1>2. runs' = [runs EXCEPT ![req] = runs[req] + 1]
    BY DEF Miss
  <1> QED
    BY <1>1, <1>2

(* Each dispatch, each callback and the clock keep the total. *)
LEMMA StepKeepsRest == IInv /\ Rest /\ [Next]_vars => Rest'
  <1> SUFFICES ASSUME IInv, Rest, [Next]_vars PROVE Rest'
    OBVIOUS
  <1>a. /\ Summed(cache) /\ now \in 0 .. MaxTime
        /\ out \in Response /\ up \in BOOLEAN
        /\ runs \in [Req -> 0 .. MaxRuns]
    BY DEF Rest
  <1>b. now \in Nat /\ EmptyData \in Data /\ cache.queue \in Queue
    BY <1>a, DispatchAssumption, SMT
       DEF DispatchAssumption, EmptyData, Data, Summed
  <1>1. ASSUME NEW req \in Req, NEW is_tcp \in BOOLEAN, Hit(req, is_tcp)
        PROVE  Rest'
    <2> DEFINE e == cache.queue[find_entry(cache, req)]
               resp == [req |-> req,
                        code |-> IF kdc_check_lookaside(e) # NULL
                                 THEN "ok" ELSE "discard",
                        response |-> kdc_check_lookaside(e),
                        busy |-> e.reply = EmptyData]
    <2>1. /\ req \in Cached(cache) /\ finish_dispatch(is_tcp, FALSE, resp)
          /\ UNCHANGED <<cache, now, runs>>
      BY <1>1 DEF Hit
    <2>2. find_entry(cache, req) \in DOMAIN cache.queue
      BY <1>b, <2>1, FindEntry
    <2>3. e \in CacheEntry
      BY <1>b, <2>2, SMT DEF Queue
    <2>4. kdc_check_lookaside(e) \in Data
      BY <2>3 DEF kdc_check_lookaside, CacheEntry
    <2>5. resp \in Response
      BY <2>4 DEF Response, Codes
    <2> HIDE DEF resp
    <2>6. out' \in Response /\ up' \in BOOLEAN
      BY <1>a, <2>1, <2>5, Responds
    <2> QED
      BY <1>a, <2>1, <2>6 DEF Rest
  <1>2. ASSUME NEW req \in Req, NEW is_tcp \in BOOLEAN, Answer(req, is_tcp)
        PROVE  Rest'
    <2>1. PICK code \in {"ok", "error"}, response \in ReplyLen \cup {NULL},
               marked \in kdc_insert_lookaside(cache, req, EmptyData, now) :
            /\ \E c \in finish_dispatch_cache(marked, req, code, response) :
                cache' = c
            /\ finish_dispatch(is_tcp, FALSE, Made(req, code, response))
      BY <1>2 DEF Answer
    <2>2. cache' \in finish_dispatch_cache(marked, req, code, response)
      BY <2>1
    <2>3. Summed(marked)
      BY <1>a, <1>b, InsertCounts
    <2>4. Summed(cache')
      BY <1>b, <2>2, <2>3, FinishCounts
    <2>5. Made(req, code, response) \in Response
      BY MadeType DEF Codes
    <2>6. out' \in Response /\ up' \in BOOLEAN
      BY <1>a, <2>1, <2>5, Responds
    <2>7. runs' \in [Req -> 0 .. MaxRuns] /\ now' = now
      BY <1>2, <1>a, MissBound DEF Answer
    <2> QED
      BY <1>a, <2>4, <2>6, <2>7 DEF Rest, Summed
  <1>3. ASSUME NEW s \in States, NEW req \in AS, NEW is_tcp \in BOOLEAN,
               StartAS(s, req, is_tcp)
        PROVE  Rest'
    <2>1. req \in Req
      BY DispatchAssumption DEF DispatchAssumption
    <2>2. cache' \in kdc_insert_lookaside(cache, req, EmptyData, now)
      BY <1>3 DEF StartAS
    <2>3. Summed(cache')
      BY <1>a, <1>b, <2>1, <2>2, InsertCounts
    <2>4. runs' \in [Req -> 0 .. MaxRuns] /\ UNCHANGED <<now, out, up>>
      BY <1>3, <1>a, <2>1, MissBound DEF StartAS
    <2> QED
      BY <1>a, <2>3, <2>4 DEF Rest, Summed
  <1>4. ASSUME NEW s \in States, FinishAS(s)
        PROVE  Rest'
    <2> DEFINE req == state[s].req
    <2>1. req \in Req
      BY <1>4, DispatchAssumption, SMT DEF DispatchAssumption, FinishAS, IInv, Shape
    <2>2. PICK code \in Codes, response \in ReplyLen \cup {NULL} :
            /\ \E c \in finish_dispatch_cache(cache, req, code, response) :
                cache' = c
            /\ finish_dispatch(state[s].is_tcp, TRUE,
                               Made(req, code, response))
      BY <1>4 DEF FinishAS
    <2> HIDE DEF req
    <2>3. cache' \in finish_dispatch_cache(cache, req, code, response)
      BY <2>2
    <2>4. Summed(cache')
      BY <1>a, <1>b, <2>1, <2>3, FinishCounts
    <2>5. Made(req, code, response) \in Response
      BY <2>1, MadeType
    <2>6. out' \in Response /\ up' \in BOOLEAN
      BY <1>a, <2>2, <2>5, Responds
    <2>7. UNCHANGED <<now, runs>>
      BY <1>4 DEF FinishAS
    <2> QED
      BY <1>a, <2>4, <2>6, <2>7 DEF Rest, Summed
  <1>5. ASSUME NEW t \in 0 .. MaxTime, SetClock(t)
        PROVE  Rest'
    BY <1>5, <1>a DEF SetClock, Rest, Summed
  <1>6. CASE UNCHANGED vars
    BY <1>6, <1>a DEF vars, Rest, Summed
  <1> QED
    BY <1>1, <1>2, <1>3, <1>4, <1>5, <1>6 DEF Next

(* An empty cache has no entry to count. *)
LEMMA InitRest == Init => Rest
  <1> SUFFICES ASSUME Init PROVE Rest
    OBVIOUS
  <1>1. cache.queue = <<>> /\ cache.queue \in Queue /\ cache.total_size = 0
    BY SMT DEF Init, EmptyCache, Queue
  <1>2. Len(cache.queue) = 0
    BY <1>1
  <1>3. SizeOf(cache.queue) = 0
    BY <1>1, <1>2, SizeSums DEF Sums
  <1>4. Summed(cache)
    BY <1>1, <1>2, <1>3, SMT DEF Summed
  <1>5. NoResponse \in Response
    BY DEF NoResponse, Response, Codes
  <1>6. now \in 0 .. MaxTime /\ runs \in [Req -> 0 .. MaxRuns]
    BY DispatchAssumption, SMT DEF Init, DispatchAssumption
  <1> QED
    BY <1>4, <1>5, <1>6 DEF Init, Rest

(* The invariant of the total. *)
LEMMA RestInvariant == Spec => []Rest
  <1>1. Init => Rest
    BY InitRest
  <1>2. IInv /\ Rest /\ [Next]_vars => Rest'
    BY StepKeepsRest
  <1> QED
    BY <1>1, <1>2, Invariant, PTL DEF Spec

(* total_size, which kdc_insert_lookaside() and discard_entry() keep by      *)
(* addition and subtraction, is the footprint of the entries in the queue    *)
(* whichever insertions fail and whatever they purge, and more than one      *)
(* entry never takes more than LOOKASIDE_MAX_SIZE.                           *)
THEOREM TotalAccounted == Spec => []Accounted
  <1>1. Rest => Accounted
    BY DEF Rest, Summed, Accounted
  <1> QED
    BY <1>1, RestInvariant, PTL

(* The variables of dispatch() have their types; that total_size does not    *)
(* become negative follows from what it counts.                              *)
THEOREM TypeCorrect == Spec => []TypeOK
  <1>1. IInv /\ Rest => TypeOK
    <2> SUFFICES ASSUME IInv, Rest PROVE TypeOK
      OBVIOUS
    <2>1. cache.queue \in Queue /\ cache.total_size = SizeOf(cache.queue)
      BY DEF Rest, Summed
    <2>2. SizeOf(cache.queue) \in Nat
      <3>1. Len(cache.queue) \in Nat /\ 0 \in 0 .. Len(cache.queue)
        BY <2>1, SMT DEF Queue
      <3> QED
        BY <2>1, <3>1, PurgeSize
    <2> QED
      BY <2>1, <2>2 DEF TypeOK, IInv, Shape, Rest, Queue
  <1> QED
    BY <1>1, Invariant, RestInvariant, PTL

============================================================================
