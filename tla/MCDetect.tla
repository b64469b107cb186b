------------------------------ MODULE MCDetect ------------------------------
(* Detect over the messages of Corpus. *)
EXTENDS Detect, Corpus
=============================================================================
