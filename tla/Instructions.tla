----------------------------- MODULE Instructions -----------------------------
(***************************************************************************)
(* The instructions of client programs of the uthreads library: one for a  *)
(* library call, or for a step of a thread's own code that the outcome of  *)
(* a test depends on. Programs says what each does.                        *)
(***************************************************************************)
EXTENDS Integers, Sequences

Self == -100              \* the caller's own tid
NextTid == -200           \* the tid after the caller's, in a ring of four
Kept(k) == -300 - k       \* the k-th tid the caller kept from uthread_spawn

\* op, entry point, argument or set of tids, jump, and the answers a check lets pass
Instruction(op, entry, to, back, ok) ==
  [op |-> op, entry |-> entry, to |-> to, back |-> back, ok |-> ok]

spawn(entry, ok) == Instruction("spawn", entry, {0}, 0, ok)
keep(entry, ok) == Instruction("keep", entry, {0}, 0, ok)
call(op, to, ok) == Instruction(op, "", to, 0, ok)
sleep(num_quantums) == call("sleep", {num_quantums}, {0})
at(quantum) == call("at", {quantum}, Int)
totalBelow(quantum, out) == Instruction("total", "", {quantum}, -out, Int)
until(S, back) == Instruction("until", "", S, back, Int)
\* while not all of S are done: instruction
untilDone(S, instruction) ==
  <<Instruction("goto", "", {}, -2, Int), instruction, until(S, 1)>>
maybe(back) == Instruction("maybe", "", {}, back, Int)
goto(back) == Instruction("goto", "", {}, back, Int)
with(op, S) == Instruction(op, "", S, 0, Int)
code(op) == Instruction(op, "", {}, 0, Int)

terminateSelf == call("terminate", {Self}, Int)
exit == call("terminate", {0}, Int)
\* wait_next_quantum: note the own quantum, then poll until it is another
wait_next_quantum == <<call("mark", {Self}, Int), call("changed", {Self}, Int)>>
=============================================================================
