------------------------------- MODULE Programs -------------------------------
(***************************************************************************)
(* Client programs of the uthreads library: the composition of Uthreads    *)
(* with the code of the threads it runs. A program is data: to every entry *)
(* point it gives a sequence of instructions, one per library call or step *)
(* of the thread's own code that its test depends on (TestPrograms holds   *)
(* the programs of the repository). uthread_get_tid is folded into the     *)
(* call that uses its answer.                                              *)
(*                                                                         *)
(* Time: the timer does not expire before the process has made MinSteps    *)
(* steps since it was last set or expired; a thread may still get fewer,   *)
(* when a tick was pending as it was switched to.                          *)
(***************************************************************************)
EXTENDS Uthreads, Instructions

CONSTANTS
  Code,      \* program -> entry point -> instructions; "main" is main's
  MinSteps,  \* program -> the steps a quantum is long enough for
  Horizon    \* program -> bound: it is followed for so many quanta

ASSUME CodeAssumption == \A p \in DOMAIN Code : "main" \in DOMAIN Code[p]
\* Threads start at entry points, what they sleep is an int, and they leave the
\* timer's signal alone (negative arguments are tids, see Instructions).
ASSUME InstructionsAssumption ==
  \A p \in DOMAIN Code : \A e \in DOMAIN Code[p] :
    /\ DOMAIN Code[p][e] = 1 .. Len(Code[p][e]) /\ Len(Code[p][e]) \in Nat
    /\ \A k \in DOMAIN Code[p][e] :
         LET instruction == Code[p][e][k]
         IN  /\ instruction.back \in Int
             /\ instruction.op \in {"spawn", "keep"} => instruction.entry \in DOMAIN Code[p]
             /\ instruction.op = "sleep" => instruction.to \subseteq 0 .. INT_MAX
             /\ instruction.op = "sigprocmask" => instruction.to \subseteq Signals \ {SIGVTALRM}
ASSUME MinStepsAssumption == MinSteps \in [DOMAIN Code -> Nat]
ASSUME HorizonAssumption == Horizon \in [DOMAIN Code -> 1 .. MaxQuanta]

VARIABLES
  client,    \* the program that runs
  local,     \* tid -> the locals of its thread: entry point, pc, variables
  status,    \* the tids that are DONE in thread_status, and the flags raised
  finished,  \* history: the entry points whose work is done
  ran,       \* steps since the timer was set or expired, up to MinSteps
  outcome    \* "ok", or "ERROR" when a check of the program failed

clientVars == <<client, local, status, finished, ran, outcome>>
pvars == <<uvars, clientVars>>

-----------------------------------------------------------------------------
(* The instruction a thread is at *)

Calls == {"spawn", "keep", "terminate", "block", "resume", "sleep",
          "quantums", "mark", "changed", "passed", "at", "total"}

Blank == [entry |-> "", pc |-> 0, q |-> 0, i |-> 0, kept |-> <<>>]
Start(entry) == [Blank EXCEPT !.entry = entry, !.pc = 1]
Body(t) == Code[client][local[t].entry]
\* A thread's function that returns has nowhere to return to.
Here(t) == IF local[t].pc \in DOMAIN Body(t) THEN Body(t)[local[t].pc] ELSE code("return")
Instr == Here(Running)

\* The tids, or the number, that an instruction of t may pass.
Arguments(t, instruction) ==
  {CASE a = Self -> t
     [] a = NextTid -> (t + 1) % 4
     [] a < Kept(0) -> local[t].kept[Kept(0) - a]
     [] OTHER -> a : a \in instruction.to}

-----------------------------------------------------------------------------
(* Library calls *)

Quantums(tid) == IF tid \in DOMAIN Remaining THEN threads_[tid].numOfQuantum_ ELSE -1

\* What a call returns; a thread it is not the end of sees it when it goes on.
answer(op, arg) ==
  CASE op \in {"spawn", "keep"} ->
         IF spawnRefused(TRUE) THEN -1 ELSE getLowestAvailableId(DOMAIN Remaining)
    [] op \in {"terminate", "resume"} -> IF arg \in DOMAIN Remaining THEN 0 ELSE -1
    [] op = "block" -> IF blockRefused(arg) THEN -1 ELSE 0
    [] op = "sleep" -> IF Running = 0 \/ arg <= 0 THEN -1 ELSE 0
    [] op \in {"at", "passed"} -> Quantums(Running)
    [] op = "total" -> total_quantum_
    [] OTHER -> Quantums(arg)

method(op, arg) ==
  \/ op \in {"spawn", "keep"} /\ spawnThread(TRUE)
  \/ op = "terminate" /\ terminateThread(arg)
  \/ op = "block" /\ blockThread(arg)
  \/ op = "resume" /\ resumeThread(arg)
  \/ op = "sleep" /\ sleepThread(arg)
  \/ op \in {"quantums", "mark", "changed", "passed", "at"} /\ getThreadQuantums
  \/ op = "total" /\ getter

Onward(l) == [l EXCEPT !.pc = @ + 1]
Back(l) == [l EXCEPT !.pc = @ - Instr.back]

\* The caller's locals once it has the answer.
answered(l, arg, result) ==
  CASE Instr.op = "keep" -> Onward([l EXCEPT !.kept = Append(@, result)])
    [] Instr.op = "mark" -> Onward([l EXCEPT !.q = result])
    [] Instr.op = "changed" -> IF result = l.q THEN l ELSE Onward(l)
    [] Instr.op = "passed" -> IF result = l.q + arg THEN Onward(l) ELSE l
    [] Instr.op = "sleep" -> Onward([l EXCEPT !.q = total_quantum_ + arg])
    [] Instr.op = "at" -> IF result # l.i + 1 THEN l
                          ELSE IF result # arg THEN [l EXCEPT !.i = result]
                          ELSE Onward([l EXCEPT !.i = result])
    [] Instr.op = "total" -> IF result < arg THEN Onward(l) ELSE Back(l)
    [] OTHER -> Onward(l)

\* A poll for a certain own quantum has missed it.
missedQuantum(arg, result) ==
  \/ Instr.op = "at" /\ result > local[Running].i + 1
  \/ Instr.op = "passed" /\ result > local[Running].q + arg

Paced == ran' = IF Running' # Running THEN 0 ELSE Min({ran + 1, MinSteps[client]})

clientCall ==
  /\ Instr.op \in Calls
  /\ \E arg \in Arguments(Running, Instr) :
      LET result == answer(Instr.op, arg)
      IN  /\ forward(method(Instr.op, arg))
          /\ local' = [t \in Tids |->
               CASE Instr.op \in {"spawn", "keep"} /\ t = result -> Start(Instr.entry)
                 [] Instr.op = "terminate" /\ t = arg -> Blank
                 [] t = Running -> answered(local[t], arg, result)
                 [] OTHER -> local[t]]
          /\ outcome' = IF result \in Instr.ok /\ ~missedQuantum(arg, result)
                        THEN outcome ELSE "ERROR"
          /\ UNCHANGED <<client, status, finished>>

\* Every library call of a program, from its SigMask to its end.
libraryCall ==
  /\ client # "any"
  /\ \/ Instr.op \in Calls /\ SigMask /\ UNCHANGED <<client, local, status, finished, outcome>>
     \/ clientCall
     \/ SigMaskEnd /\ UNCHANGED <<client, local, status, finished, outcome>>
  /\ Paced

-----------------------------------------------------------------------------
(* Steps of a thread's own code *)

goOn(l) == local' = [local EXCEPT ![Running] = l]

loop ==
  LET l == local[Running]
  IN  /\ \/ Instr.op = "until" /\ goOn(IF Arguments(Running, Instr) \subseteq status
                                       THEN Onward(l) ELSE Back(l))
         \/ Instr.op = "maybe" /\ (goOn(Onward(l)) \/ goOn(Back(l)))
         \/ Instr.op = "goto" /\ goOn(Back(l))
         \/ Instr.op = "halt" /\ goOn(l)
      /\ UNCHANGED <<uvars, client, status, finished, outcome>>

note ==
  /\ \/ Instr.op = "done" /\ status' = status \cup {Running}
                          /\ finished' = finished \cup {local[Running].entry}
     \/ Instr.op = "raise" /\ status' = status \cup Instr.to /\ UNCHANGED finished
     \/ Instr.op = "reset" /\ status' = {} /\ UNCHANGED finished
  /\ goOn(Onward(local[Running]))
  /\ UNCHANGED <<uvars, client, outcome>>

expect(condition) == outcome' = IF condition THEN outcome ELSE "ERROR"

\* Checks of the program, and a thread's function that returns.
check ==
  /\ \/ Instr.op = "slept" /\ expect(total_quantum_ >= local[Running].q)
     \/ Instr.op = "mask" /\ expect(sigmask = Instr.to)
     \/ Instr.op = "all" /\ expect(Instr.to \subseteq status)
     \/ Instr.op = "some" /\ expect(Instr.to \cap status # {})
     \/ Instr.op = "none" /\ expect(Instr.to \cap status = {})
     \/ Instr.op = "return" /\ expect(FALSE)
  /\ goOn(IF Instr.op = "return" THEN local[Running] ELSE Onward(local[Running]))
  /\ UNCHANGED <<uvars, client, status, finished>>

blockSignals ==
  /\ Instr.op = "sigprocmask"
  /\ sigprocmask(Instr.to)
  /\ goOn(Onward(local[Running]))
  /\ UNCHANGED <<client, status, finished, outcome>>

ownCode ==
  /\ client # "any"
  /\ process = "up" /\ ~Deliverable
  /\ inside[Running] = "code"
  /\ loop \/ note \/ check \/ blockSignals
  /\ Paced

-----------------------------------------------------------------------------
(* The timer, and the whole *)

timerStep ==
  /\ \/ ran = MinSteps[client] /\ timerExpires /\ ran' = 0
     \/ deliver /\ UNCHANGED ran
     \/ timerHandlerGlobal /\ ran' = IF Running' # Running THEN 0 ELSE ran
     \/ sigreturn /\ UNCHANGED ran
  /\ UNCHANGED <<client, local, status, finished, outcome>>

\* "any" is every program of up to MaxFree threads at once.
MaxFree == 3

anyClient ==
  /\ client = "any"
  /\ \/ SigMask \/ forward(apiCall) \/ forward(getter) \/ SigMaskEnd
     \/ \E blocked \in SignalSets : sigprocmask(blocked)
  /\ Cardinality(DOMAIN threads_') <= MaxFree
  /\ UNCHANGED clientVars

over == process # "up" \/ total_quantum_ >= Horizon[client]

PInit ==
  /\ UInit
  /\ client \in DOMAIN Code
  /\ MinSteps[client] > 0 => pending = NoTick
  /\ local = [t \in Tids |-> IF t = 0 THEN Start("main") ELSE Blank]
  /\ status = {} /\ finished = {} /\ ran = 0 /\ outcome = "ok"

PNext ==
  \/ ~over /\ (libraryCall \/ ownCode \/ timerStep \/ anyClient)
  \/ over /\ UNCHANGED pvars

PSpec == PInit /\ [][PNext]_pvars

-----------------------------------------------------------------------------
(* Properties *)

\* What a program tests holds under every timing in which a quantum is long
\* enough for MinSteps steps: each id and error it compares with the one it
\* expects, the mask of each thread, no return from a sleep before its end, no
\* own quantum missed by a poll. The checks are those of the test programs.
ExpectedResults == outcome = "ok"

\* The instructions t may still execute: those from its pc on, and the body of
\* a loop that ends there.
Ahead(t) ==
  LET p == local[t].pc
      body == {p} \cup {j - Body(t)[j].back : j \in {k \in DOMAIN Body(t) : k >= p}}
  IN  {k \in DOMAIN Body(t) : k >= Min(body)}

Schedulable(t) ==
  \/ t \in {Running} \cup Ready \cup Sleeping
  \/ t \in blockedThreads_ /\ \E r \in Live \ {t} :
       \E k \in Ahead(r) : Body(r)[k].op = "resume" /\ t \in Arguments(r, Body(r)[k])

\* The tids t waits for, at an until that no spawn or reset precedes.
Awaited(t) ==
  LET ahead == {k \in DOMAIN Body(t) : k >= local[t].pc}
      stops == {k \in ahead : Body(t)[k].op \in {"until", "keep", "spawn", "reset"}}
  IN  IF stops = {} \/ Body(t)[Min(stops)].op # "until" THEN {}
      ELSE Arguments(t, Body(t)[Min(stops)]) \ status

\* No wait-up is lost: a thread that another one waits for, or a thread that
\* will raise the flag, is still there with that step ahead of it, and if it is
\* blocked somebody has yet to resume it (jona2 .. jona6, main_other_test).
AwaitedCanFinish ==
  process = "up" /\ outcome = "ok" /\ client # "any" =>
    \A w \in Live : \A t \in Awaited(w) :
      \E u \in IF t = 0 THEN Live ELSE {t} \cap Live :
        /\ Schedulable(u)
        /\ \E k \in Ahead(u) : Body(u)[k].op = IF t = 0 THEN "raise" ELSE "done"

\* A thread that has waited for the threads it spawned goes on only when their
\* work is done, although thread_status is indexed by ids that are used again
\* (jona5.cpp:163).
WaitsForItsOwn ==
  client # "any" => \A t \in Live : \A w \in 1 .. local[t].pc - 1 :
    Body(t)[w].op = "until" =>
      \A k \in 1 .. w : Body(t)[k].op = "keep" => Body(t)[k].entry \in finished

-----------------------------------------------------------------------------
(* Programs whose checks rest on the promises of the library alone *)

Spawns == {"spawn", "keep"}
Jumps == {"until", "maybe", "goto", "total"}

\* The instructions of body before the k-th that are one of ops.
Before(body, k, ops) == {j \in DOMAIN body : j < k /\ body[j].op \in ops}

\* The signals a thread has blocked when it comes to the k-th.
BlockedBefore(body, k) == UNION {body[j].to : j \in Before(body, k, {"sigprocmask"})}

\* Where a thread goes on after the k-th.
After(body, k) ==
  (IF body[k].op \in Jumps THEN {k - body[k].back} ELSE {}) \cup
  (IF \/ body[k].op \in {"goto", "halt"}
      \/ body[k].op = "terminate" /\ body[k].to \in {{Self}, {0}} THEN {} ELSE {k + 1})

\* All that a call can return, to the callers and with the arguments below.
Answers(op) ==
  CASE op \in Spawns -> 1 .. MAX_THREAD_NUM - 1
    [] op \in {"terminate", "block", "resume"} -> {-1, 0}
    [] op = "sleep" -> {0}
    [] OTHER -> -1 .. MaxQuanta

\* The k-th instruction of entry point e: main alone spawns, the others alone
\* sleep; a thread checks its mask against what it has blocked so far, and answers
\* against all that there can be; no jump leads over a spawn or a sigprocmask, or
\* out of the function; and nothing depends on when other threads run.
Rests(e, body, k) ==
  /\ body[k].op \in Spawns => e = "main" /\ body[k].entry # "main"
  /\ body[k].op = "sleep" => e # "main" /\ body[k].to \subseteq 1 .. INT_MAX - MaxQuanta
  /\ body[k].op = "mask" => body[k].to = BlockedBefore(body, k)
  /\ body[k].op \in Calls => Answers(body[k].op) \subseteq body[k].ok
  /\ body[k].op \notin {"at", "passed", "all", "some", "none", "return"}
  /\ After(body, k) \subseteq DOMAIN body
  /\ body[k].op \in Jumps =>
       Before(body, k, Spawns \cup {"sigprocmask"})
         = Before(body, k - body[k].back, Spawns \cup {"sigprocmask"})

\* Main spawns no more threads than there are ids.
RestsOnLibrary(p) ==
  /\ Cardinality({k \in DOMAIN Code[p]["main"] : Code[p]["main"][k].op \in Spawns})
       < MAX_THREAD_NUM
  /\ \A e \in DOMAIN Code[p] :
       /\ 1 \in DOMAIN Code[p][e]
       /\ \A k \in DOMAIN Code[p][e] : Rests(e, Code[p][e], k)
=============================================================================
