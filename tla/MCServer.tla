------------------------------ MODULE MCServer ------------------------------
(* Server for TLC: one command of one byte, and some that fill the buffer. *)
EXTENDS Server

CONSTANT c1

MCCommandLength == [c \in Clients |-> IF c = c1 THEN 1 ELSE 2]
=============================================================================
