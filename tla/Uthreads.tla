------------------------------- MODULE Uthreads -------------------------------
(***************************************************************************)
(* The uthread_* calls of Project-Ex2 around the Scheduler: the process's  *)
(* signal mask, a timer signal that may be pending, and where each thread  *)
(* is between its own code, a library call and the timer handler.          *)
(*                                                                         *)
(* A call masks SIGVTALRM (SigMask), runs a method of the Scheduler, and   *)
(* unmasks it. A method may switch threads: sigsetjmp saves the mask of    *)
(* the thread that leaves and siglongjmp restores that of the thread that  *)
(* comes, so the end of a call runs when its thread comes back. The timer  *)
(* may expire at any instant; the kernel delivers the signal as soon as it *)
(* is not masked, before another instruction of the thread.                *)
(***************************************************************************)
EXTENDS Scheduler

CONSTANTS
  Signals,     \* the signals a mask is followed for
  SIGVTALRM,   \* the timer's signal
  SignalSets   \* the sets that threads block in their own code

ASSUME SignalsAssumption == SIGVTALRM \in Signals
ASSUME SignalSetsAssumption == SignalSets \subseteq SUBSET (Signals \ {SIGVTALRM})

VARIABLES
  sigmask,     \* the signals the process blocks now
  pending,     \* the quantum in which a SIGVTALRM that waits was sent, or NoTick
  env_,        \* tid -> the mask its jump buffer holds
  frame,       \* tid -> the mask its signal frame holds while it handles a tick
  inside,      \* tid -> "code", "called", "returning", "handling" or "handled"
  ownMask      \* history: tid -> the signals its own code has blocked

maskVars == <<sigmask, pending, env_, frame, inside, ownMask>>
uvars == <<vars, maskVars>>

Running == currentRunningThread_
NoTick == 0

\* uthread_init is about to return: the constructor has set the timer, and the
\* first expiration may be pending under the mask.
UInit ==
  /\ Init
  /\ sigmask = {SIGVTALRM}
  /\ pending \in {NoTick, total_quantum_}
  /\ env_ = [t \in Tids |-> {}]
  /\ frame = [t \in Tids |-> {}]
  /\ inside = [t \in Tids |-> IF t = 0 THEN "returning" ELSE "code"]
  /\ ownMask = [t \in Tids |-> {}]

-----------------------------------------------------------------------------
(* The kernel *)

timerExpires ==
  /\ process = "up"
  /\ pending = NoTick
  /\ pending' = total_quantum_
  /\ UNCHANGED <<vars, sigmask, env_, frame, inside, ownMask>>

Deliverable == pending # NoTick /\ SIGVTALRM \notin sigmask

\* Mistake: the handler runs without the signal in its mask (SA_NODEFER).
deliverUnmasked ==
  /\ process = "up"
  /\ Deliverable
  /\ pending' = NoTick
  /\ frame' = [frame EXCEPT ![Running] = sigmask]
  /\ inside' = [inside EXCEPT ![Running] = "handling"]
  /\ UNCHANGED <<vars, sigmask, env_, ownMask>>

\* The handler starts, with the signal masked by sigaction.
deliver ==
  /\ process = "up"
  /\ Deliverable
  /\ pending' = NoTick
  /\ frame' = [frame EXCEPT ![Running] = sigmask]
  /\ sigmask' = sigmask \cup {SIGVTALRM}
  /\ inside' = [inside EXCEPT ![Running] = "handling"]
  /\ UNCHANGED <<vars, env_, ownMask>>

\* The handler returns, perhaps long after: the frame's mask comes back.
sigreturn ==
  /\ process = "up" /\ ~Deliverable
  /\ inside[Running] = "handled"
  /\ sigmask' = frame[Running]
  /\ inside' = [inside EXCEPT ![Running] = "code"]
  /\ UNCHANGED <<vars, pending, env_, frame, ownMask>>

-----------------------------------------------------------------------------
(* Jumps *)

Spawned == Live' \ Live

\* Mistake: a new thread keeps the mask it was spawned under.
initialMaskInherited(mask) == mask

\* Thread::Thread empties the mask saved for a new thread.
initialMask(mask) == {}

\* Mistake: the mask is not saved by sigsetjmp (its second argument is zero).
maskAfterJumpKept(next, mask) == mask

\* siglongjmp restores the mask of the jump buffer.
maskAfterJump(next, mask) == env_[next]

\* What a method of the scheduler leaves of the masks: t goes on at place, now
\* or when it is switched to again.
jump(t, place) ==
  /\ sigmask' = IF Running' = t THEN sigmask ELSE maskAfterJump(Running', sigmask)
  /\ env_' = [u \in Tids |-> CASE u \in Spawned -> initialMask(sigmask)
                               [] u = t /\ Running' # t -> sigmask
                               [] OTHER -> env_[u]]
  /\ inside' = [u \in Tids |-> CASE u \in Spawned -> "code"
                                 [] u = t -> place
                                 [] OTHER -> inside[u]]
  /\ ownMask' = [u \in Tids |-> IF u \in Spawned THEN {} ELSE ownMask[u]]
  /\ UNCHANGED <<pending, frame>>

-----------------------------------------------------------------------------
(* The running thread *)

\* A call begins: SigMask's constructor.
SigMask ==
  /\ process = "up" /\ ~Deliverable
  /\ inside[Running] = "code"
  /\ sigmask' = sigmask \cup {SIGVTALRM}
  /\ inside' = [inside EXCEPT ![Running] = "called"]
  /\ UNCHANGED <<vars, pending, env_, frame, ownMask>>

\* The method of the scheduler that the call forwards to.
forward(method) ==
  /\ ~Deliverable
  /\ inside[Running] = "called"
  /\ method
  /\ jump(Running, "returning")

\* The call ends: SigMask's destructor, and the return to the thread's code.
SigMaskEnd ==
  /\ process = "up" /\ ~Deliverable
  /\ inside[Running] = "returning"
  /\ sigmask' = sigmask \ {SIGVTALRM}
  /\ inside' = [inside EXCEPT ![Running] = "code"]
  /\ UNCHANGED <<vars, pending, env_, frame, ownMask>>

timerHandlerGlobal ==
  /\ ~Deliverable
  /\ inside[Running] = "handling"
  /\ timerHandler
  /\ jump(Running, "handled")

\* A thread's own code blocks signals; it leaves the timer's alone.
sigprocmask(signals) ==
  /\ process = "up" /\ ~Deliverable
  /\ inside[Running] = "code"
  /\ sigmask' = sigmask \cup signals
  /\ ownMask' = [ownMask EXCEPT ![Running] = @ \cup signals]
  /\ UNCHANGED <<vars, pending, env_, frame, inside>>

\* uthread_get_tid and uthread_get_total_quantums.
getter == process = "up" /\ UNCHANGED vars

ended == process # "up" /\ UNCHANGED uvars

UNext ==
  \/ timerExpires \/ deliver \/ timerHandlerGlobal \/ sigreturn
  \/ SigMask \/ forward(apiCall) \/ forward(getter) \/ SigMaskEnd
  \/ \E signals \in SignalSets : sigprocmask(signals)
  \/ ended

USpec == UInit /\ [][UNext]_uvars

-----------------------------------------------------------------------------
(* Properties *)

Places == {"code", "called", "returning", "handling", "handled"}

\* Type invariant.
UTypeOK ==
  /\ TypeOK
  /\ sigmask \subseteq Signals
  /\ pending \in {NoTick} \cup 1 .. MaxQuanta
  /\ env_ \in [Tids -> SUBSET Signals]
  /\ frame \in [Tids -> SUBSET Signals]
  /\ inside \in [Tids -> Places]
  /\ ownMask \in [Tids -> SUBSET (Signals \ {SIGVTALRM})]

\* What Scheduler takes for granted: no tick is handled while a thread is in a
\* method of the scheduler, whatever jumps lie between the mask and the method.
MethodsAreAtomic ==
  process = "up" /\ inside[Running] # "code" => SIGVTALRM \in sigmask

\* However a thread left the processor and came back, in its own code the mask
\* is what that code has made it: no signal of another thread's is blocked, none
\* of its own is lost, and the timer can interrupt it. It is what
\* jona6mask_sigvt.cpp tests.
MaskFollowsThread ==
  process = "up" /\ inside[Running] = "code" => sigmask = ownMask[Running]

\* A tick that comes while a call or the handler has the signal masked is kept,
\* and charged to the thread switched to: it ends that quantum early, although
\* the timer was set again for it. It never outlives that quantum.
TickCutsOneQuantum ==
  process = "up" /\ pending # NoTick => total_quantum_ - pending <= 1
=============================================================================
