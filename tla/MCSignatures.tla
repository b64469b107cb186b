---------------------------- MODULE MCSignatures ----------------------------
(* Signatures over the messages of Corpus. *)
EXTENDS Signatures, Corpus
=============================================================================
