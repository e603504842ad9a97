----------------------------- MODULE MCSeqState -----------------------------
(***************************************************************************)
(* TLC instance of SeqState: numbers of two and of three bits, a bitmap of *)
(* three.                                                                  *)
(***************************************************************************)
EXTENDS SeqState
=============================================================================
