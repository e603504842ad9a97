------------------------------ MODULE MCSendto ------------------------------
(***************************************************************************)
(* TLC instance of Sendto: a host name whose transport is open (a datagram *)
(* and a deferred stream); a host name to be reached by HTTPS and a        *)
(* datagram address given by a module; a list from which the datagram      *)
(* servers are left out; and more datagram servers than can be polled.     *)
(***************************************************************************)
EXTENDS Sendto

Named(t) == [transport |-> t, named |-> TRUE]
Given(t) == [transport |-> t, named |-> FALSE]

MCCalls ==
  {<< <<Named("TCP_OR_UDP")>>, "UDP_FIRST" >>,
   << <<Named("HTTPS"), Given("UDP")>>, "UDP_LAST" >>,
   << <<Named("UDP"), Named("TCP_OR_UDP")>>, "NO_UDP" >>,
   << <<Given("UDP"), Given("UDP"), Given("UDP")>>, "UDP_FIRST" >>}
=============================================================================
