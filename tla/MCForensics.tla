----------------------------- MODULE MCForensics ----------------------------
(* Messages for one vouched name and one other, and their alterations. *)
EXTENDS Forensics
=============================================================================
