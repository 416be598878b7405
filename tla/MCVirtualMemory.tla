-------------------------- MODULE MCVirtualMemory ---------------------------
(* VirtualMemory for TLC: the words the program writes. *)
EXTENDS VirtualMemory

\* A word of its own at each address, and two at one of them. Address 16 is out
\* of range.
MCWrites == {<<0, 21>>, <<0, 22>>, <<7, 23>>, <<10, 24>>, <<16, 25>>}
=============================================================================
