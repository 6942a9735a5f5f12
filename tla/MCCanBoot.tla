----------------------------- MODULE MCCanBoot ------------------------------
(* Two images of different length; the longer one wraps the sequence number. *)
EXTENDS CanBoot

CONSTANTS i1, i2

MCImages == {i1, i2}
MCChunks == [i \in MCImages |-> IF i = i1 THEN 2 ELSE 3]
=============================================================================
