------------------------------ MODULE MCKrad ------------------------------
(* Two verifications that share the first address of a name or a UNIX      *)
(* domain socket.                                                          *)
EXTENDS Krad, TLC

CONSTANTS v1, v2, udp1, udp2, unix

MCAddresses ==
    (v1 :> {<<udp1, udp2>>, <<unix>>}) @@ (v2 :> {<<udp1>>, <<unix>>})
=============================================================================
