---------------------------- MODULE MCNetServer ----------------------------
(* Four descriptors for a limit of two connections: two may be dispatched, *)
(* one be new and one be forgotten by the loop.                            *)
EXTENDS NetServer

MCFd == 1..4
=============================================================================
