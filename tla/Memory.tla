------------------------------- MODULE Memory -------------------------------
(***************************************************************************)
(* What the virtual memory of Project-Ex4 promises: a flat memory, however *)
(* few frames there are. A read returns what was last written to that      *)
(* address since the memory was initialized; the content of an address     *)
(* that was not written is not specified.                                  *)
(***************************************************************************)
EXTENDS Integers

CONSTANTS Addresses, Values, Unwritten

VARIABLES
  mem,      \* address -> what was last written there, or Unwritten
  result    \* what the last call returned, or NoResult while one runs

vars == <<mem, result>>

NoResult == [returned |-> -1]
Refused == [returned |-> 0]
Returned(a, v) == [returned |-> 1, address |-> a, value |-> v]

Init ==
  /\ mem = [a \in Addresses |-> Unwritten]
  /\ result = NoResult

Begin == result' = NoResult /\ UNCHANGED mem

Write(a, v) ==
  /\ mem' = [mem EXCEPT ![a] = v]
  /\ result' = Returned(a, v)

Read(a) ==
  /\ result' = Returned(a, result'.value)
  /\ mem[a] # Unwritten => result'.value = mem[a]
  /\ UNCHANGED mem

\* An address out of range: the call returns 0 and does nothing.
Refuse == result' = Refused /\ UNCHANGED mem

Initialize ==
  /\ mem' = [a \in Addresses |-> Unwritten]
  /\ result' = NoResult

Next ==
  \/ Begin \/ Refuse \/ Initialize
  \/ \E a \in Addresses : Read(a) \/ \E v \in Values : Write(a, v)

Spec == Init /\ [][Next]_vars
=============================================================================
