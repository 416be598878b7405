---------------------------- MODULE UthreadsProofs ----------------------------
(***************************************************************************)
(* For every number of threads, every set of signals and every choice of   *)
(* the instants at which the timer expires: the signal mask makes each     *)
(* method of the Scheduler atomic, so that the library implements Scheduler*)
(* and inherits what is proved of it; a thread finds in its own code the   *)
(* mask it made; and a tick cuts at most one quantum short.                *)
(*                                                                         *)
(* The same for every program over the library, with any arguments; and a  *)
(* program that rests on the library's promises alone meets no answer, no  *)
(* mask and no end of a sleep that it does not expect.                     *)
(***************************************************************************)
EXTENDS Programs, SchedulingProofs

\* Where the process's mask stands while t is at place: its own mask in its own
\* code, that and the timer's signal everywhere else.
MaskAt(t, place) ==
  IF place = "code" THEN ownMask[t] ELSE ownMask[t] \cup {SIGVTALRM}

Waiting == {"code", "returning", "handled"}  \* places to switch to and from

\* The signal frame of a thread that handles a tick holds its own mask.
FrameIsOwn(t) == inside[t] \in {"handling", "handled"} => frame[t] = ownMask[t]

\* The mask of the thread that runs is the one of its place, and the jump
\* buffer of each that does not holds the mask of its place: without the second,
\* nothing is known of the mask after a jump.
MaskInv ==
  /\ sigmask = MaskAt(Running, inside[Running])
  /\ \A t \in Live \ {Running} : inside[t] \in Waiting /\ env_[t] = MaskAt(t, inside[t])
  /\ \A t \in Live : FrameIsOwn(t)

\* A thread that is switched to handles a pending tick before it calls again.
TickInv ==
  pending # NoTick =>
    /\ total_quantum_ - pending <= 1
    /\ inside[Running] \in {"called", "handling"} => total_quantum_ - pending <= 0

\* The inductive invariant. After the process has ended the masks mean nothing.
UInv ==
  /\ Inv /\ UTypeOK
  /\ process = "up" => MaskInv /\ TickInv

-----------------------------------------------------------------------------
(* What a method does to the running thread and to the quanta *)

\* A call with any arguments, those of a given program or of SleepRequests: a
\* tid that is out of range is no thread's.
AnyCall == apiCall \/ \E n \in Int : sleepThread(n)

\* Any call keeps the scheduler's invariants.
LEMMA AnyCallInv == AnyCall => (Inv => Inv') /\ (SInv => SInv')
<1>1. ASSUME apiCall PROVE (Inv => Inv') /\ (SInv => SInv')
  BY <1>1, NextInv, NextTimes DEF Next
<1>2. ASSUME NEW n \in Int, sleepThread(n) PROVE (Inv => Inv') /\ (SInv => SInv')
  BY <1>2, SleepInv, SleepTimes DEF SInv
<1> QED
  BY <1>1, <1>2 DEF AnyCall

\* A switch goes to a thread that was live before it and starts one quantum.
LEMMA PreemptFacts ==
  ASSUME Inv, NEW th, DOMAIN th = Live, NEW queue, NEW reason, preempt(th, queue, reason)
  PROVE  Running' \in Live /\ total_quantum_' \in {total_quantum_, total_quantum_ + 1}
<1>1. CASE queue = <<>> \/ Head(queue) \notin DOMAIN th
  BY <1>1, StateFacts DEF preempt, Running
<1>2. CASE ~(queue = <<>> \/ Head(queue) \notin DOMAIN th)
  BY <1>2 DEF preempt, Running
<1> QED
  BY <1>1, <1>2

\* Whatever the method, the thread that runs after it was live before it, at
\* most one quantum has started, and the process was up.
LEMMA MethodFacts ==
  ASSUME Inv, timerHandler \/ AnyCall
  PROVE  /\ Running' \in Live /\ total_quantum_' \in {total_quantum_, total_quantum_ + 1}
         /\ process = "up"
<1> DEFINE Goal == Running' \in Live /\ total_quantum_' \in {total_quantum_, total_quantum_ + 1}
<1>0. DOMAIN Remaining = Live /\ Running \in Live
  BY StateFacts DEF Running
<1>1. ASSUME UNCHANGED <<currentRunningThread_, total_quantum_>> PROVE Goal
  BY <1>0, <1>1 DEF Running
<1>2. ASSUME deleteTerminatedThread PROVE Goal
  BY <1>1, <1>2 DEF deleteTerminatedThread
<1> HIDE DEF Goal
<1>3. CASE timerHandler
  BY <1>0, <1>3, PreemptFacts DEF timerHandler, Goal
<1>4. ASSUME NEW hasFunction \in BOOLEAN, spawnThread(hasFunction) PROVE Goal /\ process = "up"
  BY <1>1, <1>2, <1>4 DEF spawnThread
<1>5. ASSUME NEW tid \in TidArguments, terminateThread(tid) PROVE Goal /\ process = "up"
  <2>1. ASSUME preempt(Remaining, readyQueue_, "Termination") PROVE Goal
    BY <1>0, <2>1, PreemptFacts DEF Goal
  <2> QED
    BY <1>1, <1>2, <1>5, <2>1 DEF terminateThread, exitProcess, terminateOtherThread
<1>6. CASE getThreadQuantums
  BY <1>2, <1>6 DEF getThreadQuantums, Goal
<1>7. ASSUME NEW tid \in TidArguments, blockThread(tid) PROVE Goal /\ process = "up"
  <2>1. ASSUME preempt(Remaining, readyQueue_, "Blocking") PROVE Goal
    BY <1>0, <2>1, PreemptFacts DEF Goal
  <2> QED
    BY <1>1, <1>2, <1>7, <2>1 DEF blockThread, blockOtherThread
<1>8. ASSUME NEW tid \in TidArguments, resumeThread(tid) PROVE Goal /\ process = "up"
  BY <1>1, <1>2, <1>8 DEF resumeThread, unblock
<1>9. ASSUME NEW n, sleepThread(n) PROVE Goal /\ process = "up"
  <2> DEFINE th == [Remaining EXCEPT ![currentRunningThread_].sleepUntil_ =
                                       Wrapped(total_quantum_ + n)]
  <2>1. DOMAIN th = Live
    BY <1>0
  <2> HIDE DEF th
  <2>2. ASSUME preempt(th, readyQueue_, "Blocking") PROVE Goal
    BY <2>1, <2>2, PreemptFacts DEF Goal
  <2> QED
    BY <1>2, <1>9, <2>2 DEF sleepThread, th
<1> QED
  BY <1>3, <1>4, <1>5, <1>6, <1>7, <1>8, <1>9 DEF AnyCall, apiCall, timerHandler, getThreadQuantums, Goal

\* A step of the library is a step of the scheduler or leaves it alone.
LEMMA StepRefines == [UNext]_uvars => [Next]_vars
<1> SUFFICES ASSUME [UNext]_uvars PROVE [Next]_vars
  OBVIOUS
<1>1. ASSUME timerExpires \/ deliver \/ sigreturn \/ SigMask \/ SigMaskEnd PROVE UNCHANGED vars
  BY <1>1 DEF timerExpires, deliver, sigreturn, SigMask, SigMaskEnd
<1>2. ASSUME NEW signals \in SignalSets, sigprocmask(signals) PROVE UNCHANGED vars
  BY <1>2 DEF sigprocmask
<1>3. CASE timerHandlerGlobal
  BY <1>3 DEF timerHandlerGlobal, Next
<1>4. CASE forward(apiCall)
  BY <1>4 DEF forward, Next
<1>5. CASE forward(getter)
  BY <1>5 DEF forward, getter
<1>6. CASE ended \/ UNCHANGED uvars
  BY <1>6 DEF ended, uvars
<1> QED
  BY <1>1, <1>2, <1>3, <1>4, <1>5, <1>6 DEF UNext

-----------------------------------------------------------------------------
(* The jump *)

\* A difference of at most zero is at most one after a step of one.
LEMMA OneMore ==
  \A total, next, sent \in Int :
    next \in {total, total + 1} /\ total - sent <= 0 => next - sent <= 1
OBVIOUS

\* A method and the jump in it keep the masks and the tick as they should be,
\* if the tick that may be pending was sent while the method's call began.
LEMMA JumpInv ==
  ASSUME UInv, Inv', process = "up",
         Running' \in Live, total_quantum_' \in {total_quantum_, total_quantum_ + 1},
         inside[Running] \in {"called", "handling"},
         NEW place \in {"returning", "handled"},
         inside[Running] = "handling" <=> place = "handled",
         jump(Running, place)
  PROVE  UInv'
<1> DEFINE self == Running
<1>1. /\ MaskInv /\ TickInv /\ self \in Live /\ self \notin Spawned
      /\ SIGVTALRM \in Signals
  BY StateFacts, SignalsAssumption DEF UInv, Running, Spawned
<1>2. Running' \notin Spawned /\ Running' \in Live' /\ Spawned \subseteq Live'
  <2>1. Running' \in Live'
    BY DEF Inv, OnePlace, Running
  <2> QED
    BY <2>1 DEF Spawned
<1>3. Live \subseteq Tids /\ Live' \subseteq Tids
  <2>1. Live \subseteq Tids
    BY StateFacts DEF UInv
  <2>2. Live' \subseteq Tids
    BY Zenon DEF Inv, TypeOK, Live
  <2> QED
    BY <2>1, <2>2
<1>4. ASSUME NEW t \in Live'
      PROVE  /\ t \in Spawned => inside'[t] = "code" /\ ownMask'[t] = {} /\ env_'[t] = {}
             /\ t \notin Spawned => ownMask'[t] = ownMask[t]
             /\ t \notin Spawned /\ t # self => inside'[t] = inside[t] /\ env_'[t] = env_[t]
             /\ t = self => inside'[t] = place
             /\ t = self /\ Running' # self => env_'[t] = sigmask
             /\ t \notin Spawned => t \in Live
  BY <1>1, <1>3 DEF jump, initialMask, Spawned
<1>5. sigmask' = IF Running' = self THEN sigmask ELSE env_[Running']
  BY DEF jump, maskAfterJump
<1>6. sigmask = ownMask[self] \cup {SIGVTALRM}
  BY <1>1 DEF MaskInv, MaskAt
<1>7. frame' = frame /\ pending' = pending
  BY DEF jump
<1>8. MaskInv'
  <2>1. sigmask' = MaskAt(Running, inside[Running])'
    <3>1. CASE Running' = self
      BY <1>2, <1>4, <1>5, <1>6, <3>1 DEF MaskAt
    <3>2. CASE Running' # self
      BY <1>1, <1>2, <1>4, <1>5, <3>2 DEF MaskAt, MaskInv
    <3> QED
      BY <3>1, <3>2
  <2>2. ASSUME NEW t \in Live' \ {Running'}
        PROVE  inside'[t] \in Waiting /\ env_'[t] = MaskAt(t, inside[t])'
    <3>1. CASE t \in Spawned
      BY <1>4, <3>1 DEF MaskAt, Waiting
    <3>2. CASE t = self
      BY <1>1, <1>4, <1>6, <2>2, <3>2 DEF MaskAt, Waiting
    <3>3. CASE t \notin Spawned /\ t # self
      BY <1>1, <1>4, <3>3 DEF MaskAt, Waiting, MaskInv
    <3> QED
      BY <3>1, <3>2, <3>3
  <2>3. ASSUME NEW t \in Live' PROVE FrameIsOwn(t)'
    <3>1. CASE t \in Spawned
      BY <1>4, <3>1 DEF FrameIsOwn
    <3>2. CASE t = self
      BY <1>1, <1>4, <1>7, <3>2 DEF FrameIsOwn, MaskInv
    <3>3. CASE t \notin Spawned /\ t # self
      BY <1>1, <1>4, <1>7, <3>3 DEF FrameIsOwn, MaskInv
    <3> QED
      BY <3>1, <3>2, <3>3
  <2> QED
    BY <2>1, <2>2, <2>3 DEF MaskInv
<1>9. TickInv'
  <2>1. inside'[Running'] \notin {"called", "handling"}
    BY <1>1, <1>2, <1>4 DEF MaskInv, Waiting
  <2>2. pending # NoTick => total_quantum_' - pending <= 1
    <3>1. pending \in Int /\ total_quantum_ \in Int /\ total_quantum_' \in Int
      BY DEF UInv, UTypeOK, TypeOK, NoTick
    <3>2. pending # NoTick => total_quantum_ - pending <= 0
      BY <1>1, Zenon DEF TickInv
    <3> QED
      BY <3>1, <3>2, OneMore
  <2> QED
    BY <1>7, <2>1, <2>2 DEF TickInv, NoTick
<1>10. UTypeOK'
  <2>1. sigmask' \subseteq Signals
    BY <1>3, <1>5 DEF UInv, UTypeOK
  <2>2. env_' \in [Tids -> SUBSET Signals]
    BY DEF UInv, UTypeOK, jump, initialMask
  <2>3. inside' \in [Tids -> Places]
    BY DEF UInv, UTypeOK, jump, Places
  <2>4. ownMask' \in [Tids -> SUBSET (Signals \ {SIGVTALRM})]
    BY DEF UInv, UTypeOK, jump
  <2> QED
    BY <1>7, <2>1, <2>2, <2>3, <2>4 DEF UInv, UTypeOK, Inv
<1> QED
  BY <1>8, <1>9, <1>10 DEF UInv

-----------------------------------------------------------------------------
(* The steps that leave the scheduler alone *)

\* While the scheduler does not move, neither do the threads that are live nor
\* the one that runs.
LEMMA QuietFacts ==
  ASSUME UInv, UNCHANGED vars
  PROVE  /\ Inv' /\ TypeOK'
         /\ Live' = Live /\ Running' = Running /\ Running \in Live /\ Live \subseteq Tids
         /\ total_quantum_' = total_quantum_ /\ process' = process
         /\ total_quantum_ \in 1 .. MaxQuanta
<1>1. Inv'
  BY NextInv DEF UInv
<1> QED
  BY <1>1, StateFacts DEF UInv, Inv, TypeOK, vars, Live, Running

\* A step of the running thread alone that takes it to place, where its mask is
\* what MaskAt says, and makes no tick wait longer.
LEMMA OwnStepInv ==
  ASSUME UInv, process = "up", UNCHANGED <<vars, env_>>,
         NEW place \in Places, inside' = [inside EXCEPT ![Running] = place],
         UTypeOK', sigmask' = MaskAt(Running, place)',
         \A t \in Live \ {Running} : frame'[t] = frame[t] /\ ownMask'[t] = ownMask[t],
         place \in {"handling", "handled"} => frame'[Running] = ownMask'[Running],
         TickInv'
  PROVE  UInv'
<1>1. /\ Live' = Live /\ Running' = Running /\ Running \in Live /\ Live \subseteq Tids
      /\ Inv' /\ process' = process
  BY QuietFacts
<1>2. inside'[Running] = place /\ \A t \in Live \ {Running} : inside'[t] = inside[t]
  BY <1>1 DEF UInv, UTypeOK
<1>3. MaskInv
  BY DEF UInv
<1>4. sigmask' = MaskAt(Running, inside[Running])'
  BY <1>1, <1>2 DEF MaskAt
<1>5. ASSUME NEW t \in Live \ {Running}
      PROVE  inside'[t] \in Waiting /\ env_'[t] = MaskAt(t, inside[t])'
  BY <1>1, <1>2, <1>3 DEF MaskInv, MaskAt
<1>6. ASSUME NEW t \in Live PROVE FrameIsOwn(t)'
  BY <1>1, <1>2, <1>3 DEF MaskInv, FrameIsOwn
<1> QED
  BY <1>1, <1>4, <1>5, <1>6 DEF UInv, MaskInv

\* A call begins. The signal is not pending: it would have been delivered.
LEMMA SigMaskInv == UInv /\ SigMask => UInv'
<1> SUFFICES ASSUME UInv, SigMask PROVE UInv'
  OBVIOUS
<1> USE DEF SigMask
<1>1. MaskInv /\ TickInv
  BY DEF UInv
<1>2. sigmask = ownMask[Running] /\ SIGVTALRM \notin sigmask /\ Running \in Tids
  BY <1>1, QuietFacts DEF MaskInv, MaskAt, UInv, UTypeOK
<1>3. pending = NoTick
  BY <1>2 DEF Deliverable
<1>4. UTypeOK'
  BY QuietFacts, SignalsAssumption DEF UInv, UTypeOK, Places
<1>5. sigmask' = MaskAt(Running, "called")'
  BY <1>2, QuietFacts DEF MaskAt
<1>6. TickInv'
  BY <1>3 DEF TickInv
<1> QED
  BY <1>4, <1>5, <1>6, OwnStepInv DEF Places

\* A call ends, and the mask is the thread's own again.
LEMMA SigMaskEndInv == UInv /\ SigMaskEnd => UInv'
<1> SUFFICES ASSUME UInv, SigMaskEnd PROVE UInv'
  OBVIOUS
<1> USE DEF SigMaskEnd
<1>1. MaskInv /\ TickInv
  BY DEF UInv
<1>2. /\ sigmask = ownMask[Running] \cup {SIGVTALRM} /\ Running \in Tids
      /\ SIGVTALRM \notin ownMask[Running]
  BY <1>1, QuietFacts DEF MaskInv, MaskAt, UInv, UTypeOK
<1>3. UTypeOK'
  BY QuietFacts DEF UInv, UTypeOK, Places
<1>4. sigmask' = MaskAt(Running, "code")'
  BY <1>2, QuietFacts DEF MaskAt
<1>5. TickInv'
  <2>1. inside'[Running'] = "code"
    BY <1>2, QuietFacts DEF UInv, UTypeOK
  <2> QED
    BY <1>1, <2>1, QuietFacts DEF TickInv
<1> QED
  BY <1>3, <1>4, <1>5, OwnStepInv DEF Places

\* The handler begins: the signal was deliverable, so the thread was in its own
\* code, and its frame gets its own mask.
LEMMA DeliverInv == UInv /\ deliver => UInv'
<1> SUFFICES ASSUME UInv, deliver PROVE UInv'
  OBVIOUS
<1> USE DEF deliver
<1>1. MaskInv
  BY DEF UInv
<1>2. sigmask = ownMask[Running] /\ Running \in Tids
  BY <1>1, QuietFacts DEF MaskInv, MaskAt, UInv, UTypeOK, Deliverable
<1>3. UTypeOK'
  BY QuietFacts, SignalsAssumption DEF UInv, UTypeOK, Places
<1>4. sigmask' = MaskAt(Running, "handling")'
  BY <1>2, QuietFacts DEF MaskAt
<1>5. frame'[Running] = ownMask'[Running] /\ \A t \in Live \ {Running} : frame'[t] = frame[t]
  BY <1>2, QuietFacts DEF UInv, UTypeOK
<1>6. TickInv'
  BY DEF TickInv
<1> QED
  BY <1>3, <1>4, <1>5, <1>6, OwnStepInv DEF Places

\* The handler returns to the thread's own code and own mask.
LEMMA SigreturnInv == UInv /\ sigreturn => UInv'
<1> SUFFICES ASSUME UInv, sigreturn PROVE UInv'
  OBVIOUS
<1> USE DEF sigreturn
<1>1. MaskInv /\ TickInv
  BY DEF UInv
<1>2. frame[Running] = ownMask[Running] /\ Running \in Tids
  BY <1>1, QuietFacts DEF MaskInv, FrameIsOwn
<1>3. UTypeOK'
  BY <1>2, QuietFacts DEF UInv, UTypeOK, Places
<1>4. sigmask' = MaskAt(Running, "code")'
  BY <1>2, QuietFacts DEF MaskAt
<1>5. TickInv'
  <2>1. inside'[Running'] = "code"
    BY <1>2, QuietFacts DEF UInv, UTypeOK
  <2> QED
    BY <1>1, <2>1, QuietFacts DEF TickInv
<1> QED
  BY <1>3, <1>4, <1>5, OwnStepInv DEF Places

\* A thread blocks signals of its own.
LEMMA SigprocmaskInv ==
  ASSUME UInv, NEW signals \in SUBSET (Signals \ {SIGVTALRM}), sigprocmask(signals)
  PROVE  UInv'
<1> USE DEF sigprocmask
<1>1. MaskInv /\ TickInv
  BY DEF UInv
<1>2. sigmask = ownMask[Running] /\ Running \in Tids
  BY <1>1, QuietFacts DEF MaskInv, MaskAt
<1>3. signals \subseteq Signals \ {SIGVTALRM}
  OBVIOUS
<1>4. /\ ownMask' \in [Tids -> SUBSET (Signals \ {SIGVTALRM})]
      /\ ownMask'[Running] = ownMask[Running] \cup signals
      /\ \A t \in Live \ {Running} : ownMask'[t] = ownMask[t]
  BY <1>2, <1>3, QuietFacts DEF UInv, UTypeOK
<1>5. UTypeOK'
  BY <1>3, <1>4, QuietFacts DEF UInv, UTypeOK
<1>6. sigmask' = MaskAt(Running, "code")'
  BY <1>2, <1>4, QuietFacts DEF MaskAt
<1>7. inside' = [inside EXCEPT ![Running] = "code"]
  BY <1>2 DEF UInv, UTypeOK
<1>8. TickInv'
  BY <1>1, QuietFacts DEF TickInv
<1> QED
  BY <1>4, <1>5, <1>6, <1>7, <1>8, OwnStepInv DEF Places

\* The timer expires, in the quantum that runs.
LEMMA TimerExpiresInv == UInv /\ timerExpires => UInv'
<1> SUFFICES ASSUME UInv, timerExpires PROVE UInv'
  OBVIOUS
<1> USE DEF timerExpires
<1>1. UTypeOK'
  BY QuietFacts DEF UInv, UTypeOK
<1>2. TickInv'
  BY QuietFacts DEF TickInv
<1>3. MaskInv'
  BY QuietFacts DEF UInv, MaskInv, MaskAt, FrameIsOwn
<1> QED
  BY <1>1, <1>2, <1>3, QuietFacts DEF UInv

-----------------------------------------------------------------------------
\* uthread_init leaves the invariant true.
LEMMA UInitInv == UInit => UInv
<1> SUFFICES ASSUME UInit PROVE UInv
  OBVIOUS
<1>1. Inv /\ Running = 0 /\ Live = {0} /\ 0 \in Tids /\ total_quantum_ = 1
  BY InitInv, StateFacts DEF UInit, Init, Running, Live, NoTid
<1>2. UTypeOK
  BY <1>1, SignalsAssumption DEF UInit, UTypeOK, Inv, TypeOK, Places, NoTick
<1>3. MaskInv
  BY <1>1 DEF UInit, MaskInv, MaskAt, FrameIsOwn
<1>4. TickInv
  BY <1>1 DEF UInit, TickInv, NoTick
<1> QED
  BY <1>1, <1>2, <1>3, <1>4 DEF UInv

\* A step of the library, whatever the arguments of the calls and the signals
\* that threads block.
AnyStep ==
  \/ timerExpires \/ deliver \/ timerHandlerGlobal \/ sigreturn
  \/ SigMask \/ forward(AnyCall) \/ forward(getter) \/ SigMaskEnd
  \/ \E signals \in SUBSET (Signals \ {SIGVTALRM}) : sigprocmask(signals)

\* It moves the scheduler by a tick or a call, or not at all.
LEMMA AnyStepFacts == AnyStep => timerHandler \/ AnyCall \/ UNCHANGED vars
BY DEF AnyStep, timerExpires, deliver, timerHandlerGlobal, sigreturn, SigMask, forward,
       getter, SigMaskEnd, sigprocmask

\* Every such step keeps the invariants.
LEMMA AnyStepInv ==
  AnyStep \/ UNCHANGED uvars => (UInv => UInv') /\ (Inv => Inv') /\ (SInv => SInv')
<1> SUFFICES ASSUME AnyStep \/ UNCHANGED uvars
             PROVE  (UInv => UInv') /\ (Inv => Inv') /\ (SInv => SInv')
  OBVIOUS
<1>a. (Inv => Inv') /\ (SInv => SInv')
  <2>1. timerHandler \/ AnyCall \/ UNCHANGED vars
    BY AnyStepFacts DEF uvars
  <2>2. timerHandler \/ UNCHANGED vars => (Inv => Inv') /\ (SInv => SInv')
    BY NextInv, NextTimes DEF Next
  <2> QED
    BY <2>1, <2>2, AnyCallInv
<1> SUFFICES ASSUME UInv PROVE UInv'
  BY <1>a
<1>0. Inv'
  BY <1>a DEF UInv
<1>1. CASE timerExpires
  BY <1>1, TimerExpiresInv
<1>2. CASE deliver
  BY <1>2, DeliverInv
<1>3. CASE sigreturn
  BY <1>3, SigreturnInv
<1>4. CASE SigMask
  BY <1>4, SigMaskInv
<1>5. CASE SigMaskEnd
  BY <1>5, SigMaskEndInv
<1>6. ASSUME NEW signals \in SUBSET (Signals \ {SIGVTALRM}), sigprocmask(signals) PROVE UInv'
  BY <1>6, SigprocmaskInv
<1>7. CASE timerHandlerGlobal
  <2>1. timerHandler /\ jump(Running, "handled") /\ inside[Running] = "handling"
    BY <1>7 DEF timerHandlerGlobal
  <2> QED
    BY <1>0, <2>1, MethodFacts, JumpInv DEF UInv
<1>8. CASE forward(AnyCall)
  <2>1. AnyCall /\ jump(Running, "returning") /\ inside[Running] = "called"
    BY <1>8 DEF forward
  <2> QED
    BY <1>0, <2>1, MethodFacts, JumpInv DEF UInv
<1>9. CASE forward(getter)
  <2>1. /\ process = "up" /\ UNCHANGED vars
        /\ jump(Running, "returning") /\ inside[Running] = "called"
    BY <1>9 DEF forward, getter
  <2>2. Running' \in Live /\ total_quantum_' = total_quantum_
    BY <2>1, QuietFacts
  <2> QED
    BY <1>0, <2>1, <2>2, JumpInv DEF UInv
<1>10. CASE UNCHANGED uvars
  <2> QED
    BY <1>0, <1>10, QuietFacts DEF uvars, maskVars, UInv, UTypeOK, MaskInv, MaskAt, FrameIsOwn, TickInv
<1> QED
  BY <1>1, <1>2, <1>3, <1>4, <1>5, <1>6, <1>7, <1>8, <1>9, <1>10 DEF AnyStep

\* Those of the specification are among them.
LEMMA UNextInv == UInv /\ [UNext]_uvars => UInv'
<1>1. UNext => AnyStep \/ UNCHANGED uvars
  BY SignalSetsAssumption DEF UNext, AnyStep, forward, AnyCall, ended
<1> QED
  BY <1>1, AnyStepInv

\* The invariant holds in every reachable state.
THEOREM UthreadsInvariant == USpec => []UInv
<1> QED
  BY UInitInv, UNextInv, PTL DEF USpec

\* The interface with its signals, masks and jumps behaves as the Scheduler whose
\* calls and ticks are single steps: what is proved of that holds of the library.
THEOREM UthreadsImplementsScheduler == USpec => Spec
<1>1. UInit => Init
  BY DEF UInit
<1> QED
  BY <1>1, StepRefines, PTL DEF USpec, Spec

\* The timer's signal is masked wherever a thread is inside the library, so no
\* tick is handled in the middle of a method (SigMask, sigaction).
THEOREM NoTickInsideAMethod == USpec => []MethodsAreAtomic
<1>1. UInv => MethodsAreAtomic
  BY DEF UInv, MaskInv, MaskAt, MethodsAreAtomic
<1> QED
  BY <1>1, UthreadsInvariant, PTL

\* However a thread left the processor and came back, its code has its own mask.
THEOREM EveryThreadFindsItsMask == USpec => []MaskFollowsThread
<1>1. UInv => MaskFollowsThread
  BY DEF UInv, MaskInv, MaskAt, MaskFollowsThread
<1> QED
  BY <1>1, UthreadsInvariant, PTL

\* A tick sent under the mask ends the quantum it was sent in or the next one.
THEOREM TickEndsOneQuantum == USpec => []TickCutsOneQuantum
<1>1. UInv => TickCutsOneQuantum
  BY DEF UInv, TickInv, TickCutsOneQuantum
<1> QED
  BY <1>1, UthreadsInvariant, PTL

-----------------------------------------------------------------------------
(* Client programs: their calls are calls of the library *)

\* A tid that no thread has makes of a call one that only frees a thread.
LEMMA AnyTid ==
  ASSUME Inv, NEW tid, terminateThread(tid) \/ blockThread(tid) \/ resumeThread(tid)
  PROVE  AnyCall
<1>1. Live \subseteq TidArguments /\ DOMAIN Remaining = Live /\ 0 \in TidArguments
  BY StateFacts, MaxThreadNumAssumption DEF TidArguments, Tids
<1>2. CASE tid \in TidArguments
  BY <1>2 DEF AnyCall, apiCall
<1>3. CASE tid \notin TidArguments
  <2>1. tid \notin DOMAIN Remaining /\ tid # 0
    BY <1>1, <1>3
  <2>2. deleteTerminatedThread /\ process = "up"
    BY <2>1 DEF terminateThread, blockThread, resumeThread, blockRefused
  <2> QED
    BY <2>2 DEF AnyCall, apiCall, getThreadQuantums
<1> QED
  BY <1>2, <1>3

\* The locals of a thread, of a client with its entry points.
Locals ==
  [entry : {""} \cup DOMAIN Code[client], pc : Int, q : Int, i : Int, kept : Seq(Int)]

\* A live thread is in a function of the program, or else nothing were known of
\* the arguments of its next call.
ClientInv ==
  /\ client \in DOMAIN Code
  /\ local \in [Tids -> Locals]
  /\ client # "any" /\ process = "up" => \A t \in Live : local[t].entry \in DOMAIN Code[client]

\* The instruction a thread is at is one of its function, or its end.
LEMMA InstrFacts ==
  ASSUME Inv, ClientInv, client # "any", process = "up"
  PROVE  /\ Running \in Live /\ Live \subseteq Tids /\ local[Running] \in Locals
         /\ local[Running].entry \in DOMAIN Code[client]
         /\ Body(Running) = Code[client][local[Running].entry]
         /\ Instr = code("return") \/ (/\ local[Running].pc \in DOMAIN Body(Running)
                                       /\ Instr = Body(Running)[local[Running].pc])
BY StateFacts DEF ClientInv, Here, Instr, Running, Body

\* What the instruction passes, to uthread_sleep and sigprocmask.
LEMMA InstrArguments ==
  ASSUME Inv, ClientInv, client # "any", process = "up"
  PROVE  /\ Instr.back \in Int
         /\ Instr.op \in {"spawn", "keep"} => Instr.entry \in DOMAIN Code[client]
         /\ Instr.op = "sleep" => /\ Instr.to \subseteq 0 .. INT_MAX
                                  /\ Arguments(Running, Instr) = Instr.to
         /\ Instr.op = "sigprocmask" => Instr.to \subseteq Signals \ {SIGVTALRM}
<1>1. CASE Instr = code("return")
  <2>1. Instr.back = 0 /\ Instr.op = "return"
    BY <1>1 DEF code, Instruction
  <2> QED
    BY <2>1
<1>2. CASE /\ local[Running].pc \in DOMAIN Body(Running)
           /\ Instr = Body(Running)[local[Running].pc]
  <2>1. PICK e \in DOMAIN Code[client] : \E k \in DOMAIN Code[client][e] : Instr = Code[client][e][k]
    BY <1>2, InstrFacts
  <2>2. /\ Instr.back \in Int
        /\ Instr.op \in {"spawn", "keep"} => Instr.entry \in DOMAIN Code[client]
        /\ Instr.op = "sleep" => Instr.to \subseteq 0 .. INT_MAX
        /\ Instr.op = "sigprocmask" => Instr.to \subseteq Signals \ {SIGVTALRM}
    BY <2>1, InstructionsAssumption DEF ClientInv
  <2>3. ASSUME Instr.op = "sleep" PROVE Arguments(Running, Instr) = Instr.to
    <3>1. \A a \in Instr.to : a # Self /\ a # NextTid /\ ~(a < Kept(0))
      BY <2>2, <2>3, IntMaxAssumption DEF Self, NextTid, Kept
    <3> QED
      BY <3>1 DEF Arguments
  <2> QED
    BY <2>2, <2>3
<1> QED
  BY <1>1, <1>2, InstrFacts

\* Every call of a program is a call of the library.
LEMMA MethodFits ==
  ASSUME Inv, ClientInv, client # "any", process = "up",
         NEW arg \in Arguments(Running, Instr), method(Instr.op, arg)
  PROVE  AnyCall \/ getter
<1>1. CASE spawnThread(TRUE) \/ getThreadQuantums
  BY <1>1 DEF AnyCall, apiCall
<1>2. CASE terminateThread(arg) \/ blockThread(arg) \/ resumeThread(arg)
  BY <1>2, AnyTid
<1>3. CASE Instr.op = "sleep" /\ sleepThread(arg)
  <2>1. arg \in Int
    BY <1>3, InstrArguments, IntMaxAssumption
  <2> QED
    BY <1>3, <2>1 DEF AnyCall
<1>4. CASE getter
  BY <1>4
<1> QED
  BY <1>1, <1>2, <1>3, <1>4 DEF method

\* So every step of a program is one of the library, or leaves it alone.
LEMMA ProgramStep ==
  ASSUME Inv, ClientInv, [PNext]_pvars PROVE AnyStep \/ UNCHANGED uvars
<1>1. CASE libraryCall /\ process = "up"
  <2>1. CASE SigMask \/ SigMaskEnd
    BY <2>1 DEF AnyStep
  <2>2. CASE clientCall
    <3>1. PICK arg \in Arguments(Running, Instr) : forward(method(Instr.op, arg))
      BY <2>2 DEF clientCall
    <3>2. AnyCall \/ getter
      BY <1>1, <3>1, MethodFits DEF forward, libraryCall
    <3> QED
      BY <3>1, <3>2 DEF AnyStep, forward
  <2> QED
    BY <1>1, <2>1, <2>2 DEF libraryCall
<1>2. CASE ownCode
  <2>1. CASE blockSignals
    <3>1. Instr.to \in SUBSET (Signals \ {SIGVTALRM}) /\ sigprocmask(Instr.to)
      BY <1>2, <2>1, InstrArguments DEF ownCode, blockSignals
    <3> QED
      BY <3>1 DEF AnyStep
  <2>2. CASE loop \/ note \/ check
    BY <2>2 DEF loop, note, check
  <2> QED
    BY <1>2, <2>1, <2>2 DEF ownCode
<1>3. CASE timerStep
  BY <1>3 DEF timerStep, AnyStep
<1>4. CASE anyClient
  BY <1>4, SignalSetsAssumption DEF anyClient, AnyStep, forward, AnyCall
<1>5. CASE UNCHANGED pvars
  BY <1>5 DEF pvars
<1> QED
  BY <1>1, <1>2, <1>3, <1>4, <1>5 DEF PNext, over

-----------------------------------------------------------------------------
(* What a method does to the threads *)

\* The same threads, and each sleeps until the quantum it did.
SameThreads ==
  Live' = Live /\ \A t \in Live : threads_'[t].sleepUntil_ = threads_[t].sleepUntil_

\* deleteTerminatedThread takes nobody away that is still live.
LEMMA FreeingKeepsThreads ==
  ASSUME Inv, threads_' = Remaining, tidToTerminate_' = ToTerminateAfterDelete
  PROVE  SameThreads
<1>1. DOMAIN threads_' = Live /\ tidToTerminate_' = NoTid /\ NoTid \notin Live
  BY StateFacts
<1>2. Live' = Live
  BY <1>1 DEF Live
<1> QED
  BY <1>2, StateFacts DEF SameThreads

\* A switch that nobody dies in.
LEMMA SwitchStays ==
  ASSUME Inv, Inv', NEW th \in [Live -> Thread], NEW queue, NEW reason,
         preempt(th, queue, reason), reason # "Termination"
  PROVE  Live' = Live /\ \A t \in Live : threads_'[t].sleepUntil_ = th[t].sleepUntil_
<1>1. Live' = Live
  BY SwitchLive
<1> QED
  BY <1>1, SwitchFacts

\* ... and whose threads are those the method began with.
LEMMA SwitchKeepsThreads ==
  ASSUME Inv, Inv', NEW queue, NEW reason, preempt(Remaining, queue, reason),
         reason # "Termination"
  PROVE  SameThreads
BY SwitchStays, StateFacts DEF SameThreads

\* A tick takes nobody away and puts nobody to sleep.
LEMMA TickKeepsThreads == Inv /\ Inv' /\ timerHandler => SameThreads
BY SwitchKeepsThreads DEF timerHandler

\* uthread_spawn: the lowest free id, unless there is none.
LEMMA SpawnThreads ==
  ASSUME Inv, spawnThread(TRUE), NEW new, new = getLowestAvailableId(DOMAIN Remaining)
  PROVE  \/ spawnRefused(TRUE) /\ SameThreads
         \/ /\ ~spawnRefused(TRUE) /\ new \in Tids \ ({0} \cup Live)
            /\ Live' = Live \cup {new}
            /\ \A t \in Live : threads_'[t].sleepUntil_ = threads_[t].sleepUntil_
            /\ threads_'[new].sleepUntil_ = NotSleeping
<1>1. CASE spawnRefused(TRUE)
  BY <1>1, FreeingKeepsThreads DEF spawnThread, deleteTerminatedThread
<1>2. CASE ~spawnRefused(TRUE)
  <2>1. new # NoTid
    BY <1>2 DEF spawnRefused
  <2>2. new \in Tids \ ({0} \cup Live)
    BY <2>1, LowestIdFacts, StateFacts
  <2>3. /\ threads_' = [t \in Live \cup {new} |-> IF t = new THEN NewThread ELSE threads_[t]]
        /\ tidToTerminate_' = NoTid
    BY <1>2, StateFacts DEF spawnThread
  <2>4. Live' = Live \cup {new}
    BY <2>2, <2>3, StateFacts DEF Live
  <2> QED
    BY <1>2, <2>2, <2>3, <2>4 DEF NewThread
<1> QED
  BY <1>1, <1>2

\* uthread_terminate: the thread, or with main the process.
LEMMA TerminateThreads ==
  ASSUME Inv, Inv', NEW tid, terminateThread(tid), process' = "up"
  PROVE  /\ tid # 0 /\ Live' = Live \ {tid}
         /\ \A t \in Live' : threads_'[t].sleepUntil_ = threads_[t].sleepUntil_
<1>1. tid # 0
  BY DEF terminateThread, exitProcess
<1>2. CASE tid \notin DOMAIN Remaining /\ deleteTerminatedThread
  BY <1>1, <1>2, FreeingKeepsThreads, StateFacts DEF deleteTerminatedThread, SameThreads
<1>3. CASE tid = currentRunningThread_ /\ preempt(Remaining, readyQueue_, "Termination")
  <2>1. Remaining \in [Live -> Thread]
    BY StateFacts
  <2>2. readyQueue_ # <<>> /\ \A t \in Live : threads_'[t].sleepUntil_ = Remaining[t].sleepUntil_
    BY <1>3, <2>1, SwitchFacts
  <2>3. Head(readyQueue_) # currentRunningThread_
    BY <2>2, TailFacts DEF Inv, TypeOK, OnePlace, Ready
  <2>4. Live' = Live \ {tid}
    BY <1>3, <2>1, <2>3, SwitchLive
  <2> QED
    BY <1>1, <2>2, <2>4, StateFacts
<1>4. CASE tid \in DOMAIN Remaining /\ terminateOtherThread(tid)
  <2>1. threads_' = Remaining /\ tidToTerminate_' = tid /\ DOMAIN Remaining = Live
    BY <1>4, StateFacts DEF terminateOtherThread
  <2>2. Live' = Live \ {tid}
    BY <2>1 DEF Live
  <2> QED
    BY <1>1, <2>1, <2>2, StateFacts
<1> QED
  BY <1>1, <1>2, <1>3, <1>4 DEF terminateThread

\* Nor does uthread_block,
LEMMA BlockThreads == ASSUME Inv, Inv', NEW tid, blockThread(tid) PROVE SameThreads
<1>1. CASE deleteTerminatedThread
  BY <1>1, FreeingKeepsThreads DEF deleteTerminatedThread
<1>2. CASE preempt(Remaining, readyQueue_, "Blocking")
  BY <1>2, SwitchKeepsThreads
<1>3. CASE blockOtherThread(tid)
  BY <1>3, FreeingKeepsThreads DEF blockOtherThread
<1> QED
  BY <1>1, <1>2, <1>3 DEF blockThread

\* nor uthread_resume.
LEMMA ResumeThreads == ASSUME Inv, NEW tid, resumeThread(tid) PROVE SameThreads
BY FreeingKeepsThreads DEF resumeThread, deleteTerminatedThread, unblock

\* uthread_sleep.
LEMMA SleepThreads ==
  ASSUME Inv, Inv', NEW n \in Int, sleepThread(n)
  PROVE  /\ Running = 0 \/ n <= 0 => SameThreads
         /\ Running # 0 /\ n > 0 =>
              /\ Live' = Live
              /\ \A t \in Live : threads_'[t].sleepUntil_ =
                                   IF t = Running THEN Wrapped(total_quantum_ + n)
                                   ELSE threads_[t].sleepUntil_
<1>1. ASSUME Running = 0 \/ n <= 0 PROVE SameThreads
  BY <1>1, FreeingKeepsThreads DEF sleepThread, deleteTerminatedThread, Running
<1>2. ASSUME Running # 0 /\ n > 0
      PROVE  /\ Live' = Live
             /\ \A t \in Live : threads_'[t].sleepUntil_ =
                                  IF t = Running THEN Wrapped(total_quantum_ + n)
                                  ELSE threads_[t].sleepUntil_
  <2>1. PICK wake : wake = Wrapped(total_quantum_ + n)
    OBVIOUS
  <2>2. wake \in Int
    <3>1. total_quantum_ + n \in Int
      BY DEF Inv, TypeOK
    <3> QED
      BY <2>1, <3>1, WrappedFacts
  <2>3. PICK th : th = [Remaining EXCEPT ![currentRunningThread_].sleepUntil_ = wake]
    OBVIOUS
  <2>4. preempt(th, readyQueue_, "Blocking")
    BY <1>2, <2>1, <2>3 DEF sleepThread, Running
  <2>5. Running \in Live /\ Remaining \in [Live -> Thread]
    BY StateFacts DEF Running
  <2>6. /\ th \in [Live -> Thread]
        /\ \A t \in Live : th[t].sleepUntil_ = IF t = Running THEN wake
                                               ELSE Remaining[t].sleepUntil_
    <3>1. [Remaining[Running] EXCEPT !.sleepUntil_ = wake] \in Thread
      BY <2>2, <2>5 DEF Thread
    <3>2. [Remaining[Running] EXCEPT !.sleepUntil_ = wake].sleepUntil_ = wake
      BY <2>2, <2>5 DEF Thread
    <3> QED
      BY <2>3, <2>5, <3>1, <3>2 DEF Running
  <2>7. "Blocking" # "Termination"
    OBVIOUS
  <2>8. Live' = Live /\ \A t \in Live : threads_'[t].sleepUntil_ = th[t].sleepUntil_
    BY <2>4, <2>6, <2>7, SwitchStays, Zenon
  <2> QED
    BY <2>1, <2>6, <2>7, <2>8, StateFacts
<1> QED
  BY <1>1, <1>2

-----------------------------------------------------------------------------
(* What a call answers, and what its caller keeps of it *)

\* No thread has had more quanta than have begun: what its polls answer.
QuantaInv == \A t \in Live : threads_[t].numOfQuantum_ <= total_quantum_

\* Who is charged a quantum is charged the one that begins.
LEMMA QuantaGrow ==
  ASSUME Inv, Inv', QuantaInv, timerHandler \/ AnyCall \/ UNCHANGED vars
  PROVE  QuantaInv'
<1>1. CASE UNCHANGED vars
  BY <1>1 DEF vars, QuantaInv, Live
<1>2. CASE timerHandler \/ AnyCall
  <2>1. Charged
    BY <1>2, StepCharges, SleepCharges DEF AnyCall
  <2>2. /\ total_quantum_ \in Nat /\ Live' \subseteq DOMAIN threads_'
        /\ \A t \in Live : threads_[t].numOfQuantum_ \in Nat
    BY DEF Inv, TypeOK, Live, Thread
  <2>3. CASE SameCounts
    BY <2>2, <2>3 DEF SameCounts, QuantaInv
  <2>4. CASE OneCharged
    BY <2>2, <2>4 DEF OneCharged, QuantaInv
  <2>5. CASE OneSpawned
    BY <2>2, <2>5 DEF OneSpawned, QuantaInv
  <2> QED
    BY <2>1, <2>3, <2>4, <2>5 DEF Charged
<1> QED
  BY <1>1, <1>2

\* uthread_get_quantums answers with a number of quanta, or with the error.
LEMMA QuantumsFacts ==
  ASSUME Inv, QuantaInv, NEW tid PROVE Quantums(tid) \in -1 .. MaxQuanta
<1>1. CASE tid \in Live
  <2>1. threads_[tid].numOfQuantum_ \in Nat /\ threads_[tid].numOfQuantum_ <= total_quantum_
    BY <1>1 DEF Inv, TypeOK, Live, Thread, QuantaInv
  <2> QED
    BY <1>1, <2>1, StateFacts, MaxQuantaAssumption DEF Quantums, Inv, TypeOK
<1>2. CASE tid \notin Live
  BY <1>2, StateFacts, MaxQuantaAssumption DEF Quantums, Inv, TypeOK
<1> QED
  BY <1>1, <1>2

\* What the calls answer.
LEMMA AnswerFacts ==
  ASSUME Inv, QuantaInv, NEW op \in Calls, NEW arg
  PROVE  /\ answer(op, arg) \in Int
         /\ op \in Spawns => answer(op, arg) = IF spawnRefused(TRUE) THEN -1
                                               ELSE getLowestAvailableId(DOMAIN Remaining)
         /\ op \in {"terminate", "block", "resume"} => answer(op, arg) \in {-1, 0}
         /\ op = "sleep" => answer(op, arg) = IF Running = 0 \/ arg <= 0 THEN -1 ELSE 0
         /\ op \notin Spawns \cup {"terminate", "block", "resume", "sleep"} =>
              answer(op, arg) \in -1 .. MaxQuanta
<1>1. CASE op \in Spawns
  <2>1. answer(op, arg) = IF spawnRefused(TRUE) THEN -1 ELSE getLowestAvailableId(DOMAIN Remaining)
    BY <1>1 DEF answer, Spawns
  <2>2. spawnRefused(TRUE) \/ getLowestAvailableId(DOMAIN Remaining) \in Tids
    BY LowestIdFacts DEF spawnRefused
  <2>3. Tids \subseteq Int /\ -1 \in Int
    BY MaxThreadNumAssumption DEF Tids
  <2>4. answer(op, arg) \in Int
    BY <2>1, <2>2, <2>3, Zenon
  <2> QED
    BY <1>1, <2>1, <2>4 DEF Spawns
<1>2. CASE op \in {"terminate", "resume", "block"}
  <2>1. answer(op, arg) \in {-1, 0}
    BY <1>2 DEF answer
  <2>2. answer(op, arg) \in Int
    BY <2>1
  <2> QED
    BY <1>2, <2>1, <2>2 DEF Spawns
<1>3. CASE op = "sleep"
  <2>1. answer(op, arg) = IF Running = 0 \/ arg <= 0 THEN -1 ELSE 0
    BY <1>3 DEF answer
  <2> QED
    BY <1>3, <2>1 DEF Spawns
<1>4. CASE op = "total"
  <2>1. answer(op, arg) = total_quantum_
    BY <1>4 DEF answer
  <2> QED
    BY <1>4, <2>1, MaxQuantaAssumption DEF Inv, TypeOK, Spawns
<1>5. CASE op \in {"quantums", "mark", "changed", "passed", "at"}
  <2>1. answer(op, arg) \in {Quantums(Running), Quantums(arg)}
    BY <1>5 DEF answer
  <2>2. answer(op, arg) \in -1 .. MaxQuanta
    BY <2>1, QuantumsFacts
  <2>3. answer(op, arg) \in Int
    BY <2>2, MaxQuantaAssumption
  <2> QED
    BY <1>5, <2>2, <2>3 DEF Spawns
<1> QED
  BY <1>1, <1>2, <1>3, <1>4, <1>5 DEF Calls, Spawns

\* Setting one of the locals.
LEMMA RecordFacts ==
  ASSUME NEW E, NEW K, NEW n \in Int, NEW k \in K,
         NEW l \in [entry : E, pc : Int, q : Int, i : Int, kept : K]
  PROVE  /\ LET m == [l EXCEPT !.pc = n]
            IN  /\ m \in [entry : E, pc : Int, q : Int, i : Int, kept : K]
                /\ m.pc = n /\ m.q = l.q /\ m.entry = l.entry
         /\ LET m == [l EXCEPT !.q = n]
            IN  /\ m \in [entry : E, pc : Int, q : Int, i : Int, kept : K]
                /\ m.pc = l.pc /\ m.q = n /\ m.entry = l.entry
         /\ LET m == [l EXCEPT !.i = n]
            IN  /\ m \in [entry : E, pc : Int, q : Int, i : Int, kept : K]
                /\ m.pc = l.pc /\ m.q = l.q /\ m.entry = l.entry
         /\ LET m == [l EXCEPT !.kept = k]
            IN  /\ m \in [entry : E, pc : Int, q : Int, i : Int, kept : K]
                /\ m.pc = l.pc /\ m.q = l.q /\ m.entry = l.entry
OBVIOUS

\* The numbers among a thread's locals.
LEMMA LocalsType ==
  ASSUME NEW l \in Locals PROVE l.pc \in Int /\ l.q \in Int /\ l.kept \in Seq(Int)
BY DEF Locals

\* Setting one of a thread's locals leaves it the others.
LEMMA LocalsFacts ==
  ASSUME NEW l \in Locals, NEW n \in Int, NEW k \in Seq(Int)
  PROVE  /\ LET m == [l EXCEPT !.pc = n]
            IN  m \in Locals /\ m.pc = n /\ m.q = l.q /\ m.entry = l.entry
         /\ LET m == [l EXCEPT !.q = n]
            IN  m \in Locals /\ m.pc = l.pc /\ m.q = n /\ m.entry = l.entry
         /\ LET m == [l EXCEPT !.i = n]
            IN  m \in Locals /\ m.pc = l.pc /\ m.q = l.q /\ m.entry = l.entry
         /\ LET m == [l EXCEPT !.kept = k]
            IN  m \in Locals /\ m.pc = l.pc /\ m.q = l.q /\ m.entry = l.entry
<1>1. PICK E : E = {""} \cup DOMAIN Code[client]
  OBVIOUS
<1>2. PICK K : K = Seq(Int)
  OBVIOUS
<1>3. Locals = [entry : E, pc : Int, q : Int, i : Int, kept : K]
  BY <1>1, <1>2 DEF Locals
<1>4. k \in K /\ l \in [entry : E, pc : Int, q : Int, i : Int, kept : K]
  BY <1>2, <1>3
<1> QED
  BY <1>3, <1>4, RecordFacts, Zenon

\* Going on to the next instruction,
LEMMA OnwardFacts ==
  ASSUME NEW l \in Locals
  PROVE  /\ Onward(l) \in Locals /\ Onward(l).entry = l.entry
         /\ Onward(l).pc = l.pc + 1 /\ Onward(l).q = l.q
<1>1. l.pc + 1 \in Int /\ l.kept \in Seq(Int)
  BY LocalsType
<1> QED
  BY <1>1, LocalsFacts, Zenon DEF Onward

\* or back to the top of a loop.
LEMMA BackFacts ==
  ASSUME Instr.back \in Int, NEW l \in Locals
  PROVE  /\ Back(l) \in Locals /\ Back(l).entry = l.entry
         /\ Back(l).pc = l.pc - Instr.back /\ Back(l).q = l.q
<1>1. l.pc - Instr.back \in Int /\ l.kept \in Seq(Int)
  BY LocalsType
<1> QED
  BY <1>1, LocalsFacts, Zenon DEF Back

\* What the caller keeps of the answer.
LEMMA AnsweredFacts ==
  ASSUME Inv, ClientInv, client # "any", process = "up", NEW l \in Locals,
         NEW arg \in Arguments(Running, Instr), NEW result \in Int
  PROVE  /\ answered(l, arg, result) \in Locals
         /\ answered(l, arg, result).entry = l.entry
         /\ answered(l, arg, result).pc \in {l.pc, l.pc + 1} \/
              (/\ Instr.op = "total"
               /\ answered(l, arg, result).pc = l.pc - Instr.back)
         /\ Instr.op = "mark" => answered(l, arg, result).q = result
         /\ Instr.op = "sleep" => answered(l, arg, result).q = total_quantum_ + arg
         /\ Instr.op \notin {"mark", "sleep"} => answered(l, arg, result).q = l.q
         /\ Instr.op \notin {"changed", "passed", "at", "total"} =>
              answered(l, arg, result).pc = l.pc + 1
<1> DEFINE a == answered(l, arg, result)
<1>l. l.pc \in Int /\ l.q \in Int /\ l.kept \in Seq(Int)
  BY LocalsType
<1>0. Onward(l) \in Locals /\ Onward(l).entry = l.entry /\ Onward(l).pc = l.pc + 1 /\ Onward(l).q = l.q
  BY OnwardFacts
<1>1. CASE Instr.op = "keep"
  <2>1. PICK k : k = Append(l.kept, result)
    OBVIOUS
  <2>2. k \in Seq(Int)
    BY <1>l, <2>1, AppendProperties
  <2>3. PICK m : m = [l EXCEPT !.kept = k]
    OBVIOUS
  <2>4. a = Onward(m)
    BY <1>1, <2>1, <2>3 DEF answered
  <2>5. m \in Locals /\ m.pc = l.pc /\ m.q = l.q /\ m.entry = l.entry
    BY <2>2, <2>3, LocalsFacts, Zenon
  <2> QED
    BY <1>1, <2>4, <2>5, OnwardFacts
<1>2. CASE Instr.op = "mark"
  <2>1. a = Onward([l EXCEPT !.q = result])
    BY <1>2 DEF answered
  <2>2. PICK m : m = [l EXCEPT !.q = result]
    OBVIOUS
  <2>3. m \in Locals /\ m.q = result /\ m.pc = l.pc /\ m.entry = l.entry
    BY <1>l, <2>2, LocalsFacts, Zenon
  <2> QED
    BY <1>2, <2>1, <2>2, <2>3, OnwardFacts
<1>3. CASE Instr.op = "changed"
  <2>1. a \in {l, Onward(l)}
    BY <1>3 DEF answered
  <2> QED
    BY <1>0, <1>3, <2>1 DEF Locals
<1>4. CASE Instr.op = "passed"
  <2>1. a \in {l, Onward(l)}
    BY <1>4 DEF answered
  <2> QED
    BY <1>0, <1>4, <2>1 DEF Locals
<1>5. CASE Instr.op = "sleep"
  <2>1. a = Onward([l EXCEPT !.q = total_quantum_ + arg])
    BY <1>5 DEF answered
  <2>2. total_quantum_ + arg \in Int
    BY <1>5, InstrArguments, IntMaxAssumption DEF Inv, TypeOK
  <2>3. PICK m : m = [l EXCEPT !.q = total_quantum_ + arg]
    OBVIOUS
  <2>4. m \in Locals /\ m.q = total_quantum_ + arg /\ m.pc = l.pc /\ m.entry = l.entry
    BY <1>l, <2>2, <2>3, LocalsFacts, Zenon
  <2> QED
    BY <1>5, <2>1, <2>3, <2>4, OnwardFacts
<1>6. CASE Instr.op = "at"
  <2>1. a \in {l, [l EXCEPT !.i = result], Onward([l EXCEPT !.i = result])}
    BY <1>6 DEF answered
  <2>2. PICK m : m = [l EXCEPT !.i = result]
    OBVIOUS
  <2>3. m \in Locals /\ m.q = l.q /\ m.pc = l.pc /\ m.entry = l.entry
    BY <1>l, <2>2, LocalsFacts, Zenon
  <2>4. a \in {l, m, Onward(m)}
    BY <2>1, <2>2
  <2> QED
    BY <1>6, <2>3, <2>4, OnwardFacts
<1>7. CASE Instr.op = "total"
  <2>1. a \in {Onward(l), Back(l)}
    BY <1>7 DEF answered
  <2>2. Instr.back \in Int
    BY InstrArguments
  <2>3. Back(l) \in Locals /\ Back(l).entry = l.entry /\ Back(l).pc = l.pc - Instr.back /\ Back(l).q = l.q
    BY <2>2, BackFacts
  <2> QED
    BY <1>0, <1>7, <2>1, <2>3
<1>8. CASE Instr.op \notin {"keep", "mark", "changed", "passed", "sleep", "at", "total"}
  <2>1. a = Onward(l)
    BY <1>8 DEF answered
  <2> QED
    BY <1>0, <1>8, <2>1
<1> QED
  BY <1>1, <1>2, <1>3, <1>4, <1>5, <1>6, <1>7, <1>8

\* How the threads change with a call.
ThreadsAfter(arg, result) ==
  /\ Instr.op \in Spawns =>
       \/ spawnRefused(TRUE) /\ SameThreads /\ result = -1
       \/ /\ result \in Tids \ ({0} \cup Live) /\ Live' = Live \cup {result}
          /\ threads_'[result].sleepUntil_ = NotSleeping
          /\ \A t \in Live : threads_'[t].sleepUntil_ = threads_[t].sleepUntil_
  /\ Instr.op = "terminate" /\ process' = "up" =>
       /\ arg # 0 /\ Live' = Live \ {arg}
       /\ \A t \in Live' : threads_'[t].sleepUntil_ = threads_[t].sleepUntil_
  /\ Instr.op = "sleep" =>
       /\ Live' = Live
       /\ \A t \in Live : threads_'[t].sleepUntil_ =
                            IF t = Running /\ Running # 0 /\ arg > 0
                            THEN Wrapped(total_quantum_ + arg) ELSE threads_[t].sleepUntil_
  /\ Instr.op \notin Spawns \cup {"terminate", "sleep"} => SameThreads

\* Each call changes them in that way.
LEMMA CallThreads ==
  ASSUME Inv, Inv', QuantaInv, ClientInv, client # "any", process = "up",
         NEW arg \in Arguments(Running, Instr), Instr.op \in Calls, method(Instr.op, arg)
  PROVE  ThreadsAfter(arg, answer(Instr.op, arg))
<1>1. CASE Instr.op \in Spawns
  <2>1. PICK new : new = getLowestAvailableId(DOMAIN Remaining)
    OBVIOUS
  <2>2. spawnThread(TRUE)
    BY <1>1 DEF method, Spawns
  <2>3. answer(Instr.op, arg) = IF spawnRefused(TRUE) THEN -1 ELSE new
    BY <1>1, <2>1, AnswerFacts
  <2>4. \/ spawnRefused(TRUE) /\ SameThreads
        \/ /\ ~spawnRefused(TRUE) /\ new \in Tids \ ({0} \cup Live)
           /\ Live' = Live \cup {new}
           /\ \A t \in Live : threads_'[t].sleepUntil_ = threads_[t].sleepUntil_
           /\ threads_'[new].sleepUntil_ = NotSleeping
    BY <2>1, <2>2, SpawnThreads
  <2> QED
    BY <1>1, <2>3, <2>4 DEF ThreadsAfter, Spawns
<1>2. CASE Instr.op = "terminate"
  <2>1. terminateThread(arg)
    BY <1>2 DEF method
  <2> QED
    BY <1>2, <2>1, TerminateThreads DEF ThreadsAfter, Spawns
<1>3. CASE Instr.op = "sleep"
  <2>1. sleepThread(arg) /\ arg \in Int
    BY <1>3, InstrArguments, IntMaxAssumption DEF method
  <2>2. CASE Running = 0 \/ arg <= 0
    BY <1>3, <2>1, <2>2, SleepThreads DEF ThreadsAfter, Spawns, SameThreads
  <2>3. CASE Running # 0 /\ arg > 0
    BY <1>3, <2>1, <2>3, SleepThreads DEF ThreadsAfter, Spawns
  <2>4. Running \in Int
    BY MaxThreadNumAssumption DEF Inv, TypeOK, Tids, Running
  <2> QED
    BY <2>1, <2>2, <2>3, <2>4
<1>4. CASE Instr.op \notin Spawns \cup {"terminate", "sleep"}
  <2>1. blockThread(arg) \/ resumeThread(arg) \/ getThreadQuantums \/ getter
    BY <1>4 DEF method, Spawns
  <2>2. getter => SameThreads
    BY DEF getter, vars, SameThreads, Live
  <2>3. getThreadQuantums => SameThreads
    BY FreeingKeepsThreads DEF getThreadQuantums, deleteTerminatedThread
  <2>4. SameThreads
    BY <2>1, <2>2, <2>3, BlockThreads, ResumeThreads
  <2> QED
    BY <1>4, <2>4 DEF ThreadsAfter, Spawns
<1> QED
  BY <1>1, <1>2, <1>3, <1>4

\* What a thread's locals are after a call that it stays alive in.
LEMMA CallLocals ==
  ASSUME Inv, Inv', QuantaInv, ClientInv, client # "any", process = "up", process' = "up",
         NEW arg \in Arguments(Running, Instr), Instr.op \in Calls, NEW result \in Int,
         ThreadsAfter(arg, result),
         local' = [t \in Tids |->
               CASE Instr.op \in {"spawn", "keep"} /\ t = result -> Start(Instr.entry)
                 [] Instr.op = "terminate" /\ t = arg -> Blank
                 [] t = Running -> answered(local[t], arg, result)
                 [] OTHER -> local[t]],
         NEW t \in Live'
  PROVE  \/ Instr.op \in Spawns /\ t = result /\ t \notin Live /\ local'[t] = Start(Instr.entry)
         \/ t \in Live /\ t = Running /\ local'[t] = answered(local[t], arg, result)
         \/ t \in Live /\ t # Running /\ local'[t] = local[t]
<1>1. t \in Tids /\ Live \subseteq Tids /\ Running \in Live
  BY StateFacts DEF Live, Inv, TypeOK, Running
<1>2. CASE Instr.op \in Spawns /\ t = result
  <2>1. t \notin Live /\ t # Running
    <3>1. t # -1
      BY <1>1, StateFacts DEF NoTid
    <3> QED
      BY <1>1, <1>2, <3>1 DEF ThreadsAfter
  <2>2. Instr.op # "terminate"
    BY <1>2 DEF Spawns
  <2> QED
    BY <1>1, <1>2, <2>1, <2>2 DEF Spawns
<1>3. CASE ~(Instr.op \in Spawns /\ t = result)
  <2>1. t \in Live
    BY <1>3 DEF ThreadsAfter, SameThreads, Spawns
  <2>2. ~(Instr.op = "terminate" /\ t = arg)
    BY DEF ThreadsAfter
  <2>3. ~(Instr.op \in {"spawn", "keep"} /\ t = result)
    BY <1>3 DEF Spawns
  <2>4. CASE t = Running
    BY <1>1, <2>1, <2>2, <2>3, <2>4
  <2>5. CASE t # Running
    BY <1>1, <2>1, <2>2, <2>3, <2>5
  <2> QED
    BY <2>4, <2>5
<1> QED
  BY <1>2, <1>3

\* The record a thread starts from.
LEMMA RecordType ==
  ASSUME NEW E, NEW K, NEW e \in E, NEW k \in K
  PROVE  [entry |-> e, pc |-> 0, q |-> 0, i |-> 0, kept |-> k]
           \in [entry : E, pc : Int, q : Int, i : Int, kept : K]
OBVIOUS

\* A new thread's locals.
LEMMA StartFacts ==
  ASSUME NEW e
  PROVE  /\ Start(e).entry = e /\ Start(e).pc = 1 /\ Start(e).q = 0
         /\ e \in {""} \cup DOMAIN Code[client] => Start(e) \in Locals
<1>1. PICK K : K = Seq(Int)
  OBVIOUS
<1>2. PICK E : E = {"", e} \cup DOMAIN Code[client]
  OBVIOUS
<1>3. Blank \in [entry : E, pc : Int, q : Int, i : Int, kept : K]
  <2>1. <<>> \in K /\ "" \in E
    BY <1>1, <1>2, EmptySeq
  <2> QED
    BY <2>1, RecordType, Zenon DEF Blank
<1>4. PICK b : b = Blank
  OBVIOUS
<1>5. PICK m : m = [b EXCEPT !.entry = e]
  OBVIOUS
<1>6. m \in [entry : E, pc : Int, q : Int, i : Int, kept : K] /\ m.entry = e /\ m.q = 0
  <2>1. b.q = 0 /\ e \in E
    BY <1>2, <1>4 DEF Blank
  <2> QED
    BY <1>3, <1>4, <1>5, <2>1
<1>7. Start(e) = [m EXCEPT !.pc = 1]
  BY <1>4, <1>5 DEF Start
<1>8. Start(e) \in [entry : E, pc : Int, q : Int, i : Int, kept : K]
      /\ Start(e).entry = e /\ Start(e).pc = 1 /\ Start(e).q = 0
  BY <1>6, <1>7
<1> QED
  BY <1>1, <1>2, <1>8 DEF Locals

\* The typing of the clients' state holds after a call.
LEMMA CallClient ==
  ASSUME Inv, Inv', QuantaInv, ClientInv, client # "any", process = "up", clientCall
  PROVE  ClientInv'
<1>1. PICK arg \in Arguments(Running, Instr) :
        LET result == answer(Instr.op, arg)
        IN  /\ forward(method(Instr.op, arg))
            /\ local' = [t \in Tids |->
                 CASE Instr.op \in {"spawn", "keep"} /\ t = result -> Start(Instr.entry)
                   [] Instr.op = "terminate" /\ t = arg -> Blank
                   [] t = Running -> answered(local[t], arg, result)
                   [] OTHER -> local[t]]
  BY DEF clientCall
<1>2. PICK result : result = answer(Instr.op, arg)
  OBVIOUS
<1>3. /\ Instr.op \in Calls /\ client' = client /\ method(Instr.op, arg)
      /\ local' = [t \in Tids |->
               CASE Instr.op \in {"spawn", "keep"} /\ t = result -> Start(Instr.entry)
                 [] Instr.op = "terminate" /\ t = arg -> Blank
                 [] t = Running -> answered(local[t], arg, result)
                 [] OTHER -> local[t]]
  BY <1>1, <1>2 DEF clientCall, forward
<1>4. result \in Int /\ ThreadsAfter(arg, result)
  BY <1>2, <1>3, AnswerFacts, CallThreads
<1>5. Running \in Tids /\ Locals' = Locals /\ local \in [Tids -> Locals]
  BY <1>3, InstrFacts DEF Locals, ClientInv
<1>6. answered(local[Running], arg, result) \in Locals
  BY <1>4, <1>5, AnsweredFacts
<1>7. Blank \in Locals
  BY EmptySeq DEF Blank, Locals
<1>8. Instr.op \in Spawns => Start(Instr.entry) \in Locals
  BY InstrArguments, StartFacts DEF Spawns
<1>9. local' \in [Tids -> Locals]
  <2>1. ASSUME NEW t \in Tids PROVE local'[t] \in Locals
    <3>1. CASE Instr.op \in Spawns /\ t = result
      <4>1. local'[t] \in {Start(Instr.entry), answered(local[Running], arg, result)}
        BY <1>3, <3>1 DEF Spawns
      <4> QED
        BY <1>6, <1>8, <3>1, <4>1
    <3>2. CASE ~(Instr.op \in Spawns /\ t = result)
      <4>1. local'[t] \in {Blank, answered(local[Running], arg, result), local[t]}
        BY <1>3, <3>2 DEF Spawns
      <4> QED
        BY <1>5, <1>6, <1>7, <4>1
    <3> QED
      BY <3>1, <3>2
  <2> QED
    BY <1>3, <2>1
<1>10. ASSUME process' = "up", NEW t \in Live' PROVE local'[t].entry \in DOMAIN Code[client]
  <2>1. CASE Instr.op \in Spawns /\ t = result /\ t \notin Live /\ local'[t] = Start(Instr.entry)
    BY <2>1, InstrArguments, StartFacts DEF Spawns
  <2>2. CASE t \in Live /\ t = Running /\ local'[t] = answered(local[t], arg, result)
    <3>1. answered(local[t], arg, result).entry = local[t].entry
      BY <1>4, <1>5, <2>2, AnsweredFacts
    <3> QED
      BY <2>2, <3>1 DEF ClientInv
  <2>3. CASE t \in Live /\ t # Running /\ local'[t] = local[t]
    BY <2>3 DEF ClientInv
  <2> QED
    BY <1>3, <1>4, <1>10, <2>1, <2>2, <2>3, CallLocals
<1> QED
  BY <1>3, <1>5, <1>9, <1>10 DEF ClientInv

-----------------------------------------------------------------------------
(* Every program keeps the library's invariants *)

\* A step of the running thread's own code: the scheduler stays as it is, and the
\* thread stays, goes on or jumps.
OwnStep(l) ==
  /\ UNCHANGED <<vars, client>> /\ goOn(l) /\ Instr.op \notin Calls
  /\ \/ Instr.op \in {"halt", "return"} /\ l = local[Running]
     \/ Instr.op \notin {"goto", "halt"} /\ l = Onward(local[Running])
     \/ Instr.op \in Jumps /\ l = Back(local[Running])

\* Every step of a thread's own code is one.
LEMMA OwnSteps == ASSUME ownCode PROVE \E l : OwnStep(l)
<1>1. CASE loop
  <2>1. /\ UNCHANGED <<vars, client>>
        /\ \/ Instr.op = "until" /\ (goOn(Onward(local[Running])) \/ goOn(Back(local[Running])))
           \/ Instr.op = "maybe" /\ (goOn(Onward(local[Running])) \/ goOn(Back(local[Running])))
           \/ Instr.op = "goto" /\ goOn(Back(local[Running]))
           \/ Instr.op = "halt" /\ goOn(local[Running])
    BY <1>1 DEF loop, uvars
  <2> QED
    BY <2>1 DEF OwnStep, Calls, Jumps
<1>2. CASE note
  BY <1>2 DEF note, uvars, OwnStep, Calls
<1>3. CASE check
  BY <1>3 DEF check, uvars, OwnStep, Calls
<1>4. CASE blockSignals
  BY <1>4 DEF blockSignals, sigprocmask, OwnStep, Calls
<1> QED
  BY <1>1, <1>2, <1>3, <1>4 DEF ownCode

\* The typing of the clients' state holds after it.
LEMMA OwnClient ==
  ASSUME Inv, ClientInv, ownCode PROVE ClientInv'
<1>1. client # "any" /\ process = "up"
  BY DEF ownCode
<1>2. PICK l : OwnStep(l)
  BY OwnSteps
<1>3. local[Running] \in Locals /\ Running \in Tids /\ Instr.back \in Int
  BY <1>1, InstrFacts, InstrArguments
<1>4. l \in Locals /\ l.entry = local[Running].entry
  BY <1>2, <1>3, OnwardFacts, BackFacts DEF OwnStep
<1>5. /\ UNCHANGED vars /\ client' = client /\ Locals' = Locals
      /\ local' = [local EXCEPT ![Running] = l]
  BY <1>2 DEF OwnStep, goOn, Locals
<1>6. local' \in [Tids -> Locals]
  BY <1>3, <1>4, <1>5 DEF ClientInv
<1>7. \A t \in Live : local'[t].entry = local[t].entry
  BY <1>3, <1>4, <1>5, StateFacts DEF ClientInv
<1>8. Live' = Live
  BY <1>5 DEF vars, Live
<1> QED
  BY <1>1, <1>5, <1>6, <1>7, <1>8 DEF ClientInv

\* The rest of the steps leave the clients alone, and the timer's the threads.
LEMMA QuietClient ==
  ASSUME Inv, Inv', ClientInv, UNCHANGED <<client, local>>, client = "any" \/ Live' = Live,
         process' = "up" => process = "up"
  PROVE  ClientInv'
<1>1. Locals' = Locals
  BY DEF Locals
<1> QED
  BY <1>1 DEF ClientInv

\* The timer takes no thread away, whoever it preempts.
LEMMA TimerStepFacts ==
  ASSUME Inv, Inv', timerStep
  PROVE  SameThreads /\ process = "up" /\ UNCHANGED <<client, local, outcome>>
<1>1. CASE UNCHANGED vars
  BY <1>1 DEF vars, SameThreads, Live, timerStep, timerExpires, deliver, timerHandlerGlobal,
              timerHandler, sigreturn
<1>2. CASE timerHandler
  BY <1>2, TickKeepsThreads DEF timerHandler, timerStep
<1> QED
  BY <1>1, <1>2 DEF timerStep, timerExpires, deliver, timerHandlerGlobal, sigreturn

\* The inductive invariant of the composition.
PInv == SInv /\ UInv /\ QuantaInv /\ ClientInv

\* Every step keeps it, the library's by what is proved of the library.
LEMMA PNextInv == PInv /\ [PNext]_pvars => PInv'
<1> SUFFICES ASSUME PInv, [PNext]_pvars PROVE PInv'
  OBVIOUS
<1>1. AnyStep \/ UNCHANGED uvars
  BY ProgramStep DEF PInv, UInv
<1>2. Inv' /\ SInv' /\ UInv'
  BY <1>1, AnyStepInv DEF PInv, UInv
<1>3. QuantaInv'
  <2>1. timerHandler \/ AnyCall \/ UNCHANGED vars
    BY <1>1, AnyStepFacts DEF uvars
  <2> QED
    BY <1>2, <2>1, QuantaGrow DEF PInv, UInv
<1>4. ClientInv'
  <2>1. CASE client # "any" /\ process = "up" /\ clientCall
    BY <1>2, <2>1, CallClient DEF PInv, UInv
  <2>2. CASE (SigMask \/ SigMaskEnd) /\ UNCHANGED <<client, local>>
    <3>1. UNCHANGED vars
      BY <2>2 DEF SigMask, SigMaskEnd
    <3> QED
      BY <1>2, <2>2, <3>1, QuietClient DEF PInv, UInv, vars, Live
  <2>3. CASE ownCode
    BY <2>3, OwnClient DEF PInv, UInv
  <2>4. CASE timerStep
    BY <1>2, <2>4, TimerStepFacts, QuietClient DEF PInv, UInv, SameThreads
  <2>5. CASE anyClient /\ process = "up"
    BY <1>2, <2>5, QuietClient DEF anyClient, clientVars, PInv, UInv
  <2>6. CASE UNCHANGED pvars
    BY <1>2, <2>6, QuietClient DEF pvars, uvars, clientVars, vars, Live, PInv, UInv
  <2> QED
    BY <2>1, <2>2, <2>3, <2>4, <2>5, <2>6 DEF PNext, over, libraryCall
<1> QED
  BY <1>2, <1>3, <1>4 DEF PInv

\* It holds when main starts.
LEMMA PInitInv == PInit => PInv
<1> SUFFICES ASSUME PInit PROVE PInv
  OBVIOUS
<1>1. UInv /\ Init
  BY UInitInv DEF PInit, UInit
<1>2. SInv
  BY <1>1 DEF Init, SInv, UInv, SleepOrder, AwakeIsDue, Ready, NewThread, NotSleeping, ToSet
<1>3. Live = {0} /\ threads_[0].numOfQuantum_ = 1 /\ total_quantum_ = 1
  BY <1>1, MaxThreadNumAssumption DEF Init, Live, NoTid, NewThread
<1>4. QuantaInv
  BY <1>3 DEF QuantaInv
<1>5. ClientInv
  <2>1. client \in DOMAIN Code /\ "main" \in DOMAIN Code[client]
    BY CodeAssumption DEF PInit
  <2>2. Start("main") \in Locals /\ Start("main").entry = "main"
    BY <2>1, StartFacts
  <2>3. Blank \in Locals
    BY EmptySeq DEF Blank, Locals
  <2>4. local = [t \in Tids |-> IF t = 0 THEN Start("main") ELSE Blank] /\ 0 \in Tids
    BY MaxThreadNumAssumption DEF PInit, Tids
  <2>5. local \in [Tids -> Locals]
    BY <2>2, <2>3, <2>4
  <2> QED
    BY <1>3, <2>1, <2>2, <2>4, <2>5 DEF ClientInv
<1> QED
  BY <1>1, <1>2, <1>4, <1>5 DEF PInv

\* Every program of the interface, with every outcome of its own branches and at
\* every speed of the clock, keeps the library's invariants: its calls are among
\* those that AnyCall allows (uthreads.cpp and the test programs).
THEOREM ProgramsInvariant == PSpec => []PInv
<1> QED
  BY PInitInv, PNextInv, PTL DEF PSpec

\* Under every program no tick is handled inside a method, code finds the mask it
\* made and a tick cuts at most one quantum short (SigMask and the jumps of
\* Scheduler.cpp).
THEOREM ProgramsFindTheirMasks ==
  PSpec => [](MethodsAreAtomic /\ MaskFollowsThread /\ TickCutsOneQuantum)
<1>1. PInv => MethodsAreAtomic /\ MaskFollowsThread /\ TickCutsOneQuantum
  BY DEF PInv, UInv, MaskInv, MaskAt, TickInv, MethodsAreAtomic, MaskFollowsThread,
         TickCutsOneQuantum
<1> QED
  BY <1>1, ProgramsInvariant, PTL

\* Under every program, whatever tids it passes and however long it sleeps, each
\* live thread is in one place, main can always be scheduled, and no thread that
\* is ready or runs has time left to sleep (Scheduler.cpp).
THEOREM ProgramsLoseNoThread == PSpec => [](OnePlace /\ MainSchedulable /\ AwakeIsDue)
<1>1. PInv => OnePlace /\ MainSchedulable /\ AwakeIsDue
  BY DEF PInv, SInv, Inv
<1> QED
  BY <1>1, ProgramsInvariant, PTL

-----------------------------------------------------------------------------
(* Programs that rest on the library's promises alone *)

\* Where a thread of a program that rests on the library's promises is: within
\* its function, with the mask that function has made so far, and awake only if
\* the time it will check is over.
RestsAt(t) ==
  /\ local[t].pc \in DOMAIN Body(t)
  /\ ownMask[t] = BlockedBefore(Body(t), local[t].pc)
  /\ local[t].entry = "main" <=> t = 0
  /\ local[t].q <= total_quantum_ \/ local[t].q <= threads_[t].sleepUntil_

\* The spawns that main has come past.
SpawnsDone == Before(Code[client]["main"], local[0].pc, Spawns)

\* No thread beyond those that main has spawned.
Resting ==
  process = "up" => /\ \A t \in Live : RestsAt(t)
                    /\ Cardinality(Live) <= 1 + Cardinality(SpawnsDone)

\* The instructions of a function.
LEMMA BodyFacts ==
  ASSUME NEW p \in DOMAIN Code, NEW e \in DOMAIN Code[p], NEW k, NEW S
  PROVE  LET body == Code[p][e]
         IN  /\ DOMAIN body \subseteq Nat \ {0}
             /\ IsFiniteSet(Before(body, k, S)) /\ Cardinality(Before(body, k, S)) \in Nat
             /\ Before(body, 1, S) = {}
<1> DEFINE body == Code[p][e]
<1>1. PICK n \in Nat : DOMAIN body = 1 .. n
  BY InstructionsAssumption
<1>2. IsFiniteSet(1 .. n)
  BY FS_Interval
<1>3. Before(body, k, S) \subseteq 1 .. n
  BY <1>1 DEF Before
<1>4. IsFiniteSet(Before(body, k, S)) /\ Cardinality(Before(body, k, S)) \in Nat
  BY <1>2, <1>3, FS_Subset, FS_CardinalityType
<1>5. Before(body, 1, S) = {}
  BY <1>1 DEF Before
<1> QED
  BY <1>1, <1>4, <1>5

\* Going on past an instruction adds it to those before.
LEMMA BeforeNext ==
  ASSUME NEW p \in DOMAIN Code, NEW e \in DOMAIN Code[p], NEW k \in DOMAIN Code[p][e], NEW S
  PROVE  /\ k \notin Before(Code[p][e], k, S)
         /\ Code[p][e][k].op \in S => Before(Code[p][e], k + 1, S) = Before(Code[p][e], k, S) \cup {k}
         /\ Code[p][e][k].op \notin S => Before(Code[p][e], k + 1, S) = Before(Code[p][e], k, S)
<1>1. DOMAIN Code[p][e] \subseteq Nat
  BY BodyFacts
<1>2. \A j \in DOMAIN Code[p][e] : (j < k + 1) <=> (j < k \/ j = k)
  BY <1>1
<1>3. ~(k < k)
  BY <1>1
<1> QED
  BY <1>2, <1>3 DEF Before

\* The set of instructions before both places is the same for every smaller set of operations.
LEMMA BeforeSubset ==
  ASSUME NEW body, NEW j, NEW k, NEW S, NEW T \in SUBSET S, Before(body, j, S) = Before(body, k, S)
  PROVE  Before(body, j, T) = Before(body, k, T)
<1>1. \A n : Before(body, n, T) = {m \in Before(body, n, S) : body[m].op \in T}
  BY DEF Before
<1> QED
  BY <1>1

\* There is an id for a thread while there are fewer than MAX_THREAD_NUM.
LEMMA RoomForOne ==
  ASSUME Inv, Cardinality(Live) < MAX_THREAD_NUM
  PROVE  ~spawnRefused(TRUE)
<1>1. DOMAIN Remaining = Live /\ Live \subseteq Tids /\ 0 \in Live
  BY StateFacts
<1>2. IsFiniteSet(Tids) /\ Cardinality(Tids) = MAX_THREAD_NUM
  BY FS_Interval, MaxThreadNumAssumption DEF Tids
<1>3. IsFiniteSet(Live) /\ Cardinality(Live) \in Nat
  BY <1>1, <1>2, FS_Subset, FS_CardinalityType
<1>4. Cardinality(DOMAIN Remaining) # MAX_THREAD_NUM
  BY <1>1, <1>3, MaxThreadNumAssumption
<1>5. ASSUME getLowestAvailableId(DOMAIN Remaining) = NoTid PROVE FALSE
  <2> DEFINE free == (1 .. MAX_THREAD_NUM - 1) \ Live
  <2>1. free # {}
    <3>1. ASSUME free = {} PROVE FALSE
      <4>1. Tids \subseteq Live
        BY <1>1, <3>1, MaxThreadNumAssumption DEF Tids
      <4>2. Live = Tids
        BY <1>1, <4>1
      <4> QED
        BY <1>2, <4>2, MaxThreadNumAssumption
    <3> QED
      BY <3>1
  <2>2. free \in SUBSET Nat /\ -1 \notin free
    BY MaxThreadNumAssumption
  <2> HIDE DEF free
  <2>3. getLowestAvailableId(Live) = Min(free)
    BY <2>1 DEF getLowestAvailableId, free
  <2> QED
    BY <1>1, <1>5, <2>1, <2>2, <2>3, MinFacts DEF NoTid
<1> QED
  BY <1>4, <1>5 DEF spawnRefused

\* A sleep within the bounds of the model does not overflow.
LEMMA SleepFits ==
  ASSUME Inv, NEW n \in 1 .. INT_MAX - MaxQuanta
  PROVE  Wrapped(total_quantum_ + n) = total_quantum_ + n
<1>1. total_quantum_ + n \in 0 .. INT_MAX
  BY MaxQuantaAssumption, IntMaxAssumption DEF Inv, TypeOK
<1> QED
  BY <1>1, NoWrap

\* What is known of the instruction the running thread is at.
LEMMA RestsFacts ==
  ASSUME Inv, ClientInv, client # "any", process = "up", RestsOnLibrary(client), RestsAt(Running),
         NEW k, k = local[Running].pc
  PROVE  /\ k \in DOMAIN Body(Running) /\ Instr = Body(Running)[k]
         /\ Instr.op \in Spawns => Running = 0 /\ Instr.entry # "main"
         /\ Instr.op = "sleep" => Running # 0 /\ Instr.to \subseteq 1 .. INT_MAX - MaxQuanta
         /\ Instr.op = "mask" => Instr.to = BlockedBefore(Body(Running), k)
         /\ Instr.op \in Calls => Answers(Instr.op) \subseteq Instr.ok
         /\ Instr.op \notin {"at", "passed", "all", "some", "none", "return"}
         /\ After(Body(Running), k) \subseteq DOMAIN Body(Running)
         /\ Instr.op \in Jumps =>
              Before(Body(Running), k, Spawns \cup {"sigprocmask"})
                = Before(Body(Running), k - Instr.back, Spawns \cup {"sigprocmask"})
<1>1. k \in DOMAIN Body(Running) /\ (local[Running].entry = "main" <=> Running = 0)
  BY DEF RestsAt
<1>2. Instr = Body(Running)[k]
  BY <1>1 DEF Instr, Here
<1>3. PICK e : e = local[Running].entry
  OBVIOUS
<1>4. e \in DOMAIN Code[client] /\ Body(Running) = Code[client][e]
  BY <1>3, InstrFacts
<1>5. PICK body : body = Body(Running)
  OBVIOUS
<1>6. body = Code[client][e] /\ k \in DOMAIN body /\ Instr = body[k]
  BY <1>1, <1>2, <1>4, <1>5
<1>7. /\ body[k].op \in Spawns => e = "main" /\ body[k].entry # "main"
      /\ body[k].op = "sleep" => e # "main" /\ body[k].to \subseteq 1 .. INT_MAX - MaxQuanta
      /\ body[k].op = "mask" => body[k].to = BlockedBefore(body, k)
      /\ body[k].op \in Calls => Answers(body[k].op) \subseteq body[k].ok
      /\ body[k].op \notin {"at", "passed", "all", "some", "none", "return"}
      /\ After(body, k) \subseteq DOMAIN body
      /\ body[k].op \in Jumps =>
           Before(body, k, Spawns \cup {"sigprocmask"})
             = Before(body, k - body[k].back, Spawns \cup {"sigprocmask"})
  <2>1. Rests(e, body, k)
    BY <1>4, <1>6 DEF RestsOnLibrary
  <2> QED
    BY <2>1 DEF Rests
<1> QED
  BY <1>1, <1>3, <1>5, <1>6, <1>7, Zenon

\* Whether it stays, goes on or jumps, it is in its function, and what that has
\* blocked and spawned so far has grown by the instruction alone.
LEMMA MoveFacts ==
  ASSUME Inv, ClientInv, client # "any", process = "up", RestsOnLibrary(client), RestsAt(Running),
         NEW k, k = local[Running].pc, NEW j,
         \/ j = k /\ Instr.op \notin Spawns \cup {"sigprocmask"}
         \/ j = k + 1 /\ k + 1 \in After(Body(Running), k)
         \/ j = k - Instr.back /\ Instr.op \in Jumps
  PROVE  /\ j \in DOMAIN Body(Running)
         /\ Instr.op = "sigprocmask" =>
              BlockedBefore(Body(Running), j) = BlockedBefore(Body(Running), k) \cup Instr.to
         /\ Instr.op # "sigprocmask" =>
              BlockedBefore(Body(Running), j) = BlockedBefore(Body(Running), k)
         /\ Instr.op \in Spawns =>
              Before(Body(Running), j, Spawns) = Before(Body(Running), k, Spawns) \cup {k}
         /\ Instr.op \notin Spawns =>
              Before(Body(Running), j, Spawns) = Before(Body(Running), k, Spawns)
<1>1. /\ k \in DOMAIN Body(Running) /\ Instr = Body(Running)[k]
      /\ After(Body(Running), k) \subseteq DOMAIN Body(Running)
      /\ Instr.op \in Jumps =>
           Before(Body(Running), k, Spawns \cup {"sigprocmask"})
             = Before(Body(Running), k - Instr.back, Spawns \cup {"sigprocmask"})
  BY RestsFacts
<1>2. PICK e \in DOMAIN Code[client] : Body(Running) = Code[client][e]
  BY InstrFacts
<1>3. client \in DOMAIN Code
  BY DEF ClientInv
<1>4. CASE j = k /\ Instr.op \notin Spawns \cup {"sigprocmask"}
  BY <1>1, <1>4
<1>5. CASE j = k + 1 /\ k + 1 \in After(Body(Running), k)
  <2>1. /\ Instr.op \in Spawns =>
             Before(Body(Running), j, Spawns) = Before(Body(Running), k, Spawns) \cup {k}
        /\ Instr.op \notin Spawns =>
             Before(Body(Running), j, Spawns) = Before(Body(Running), k, Spawns)
    BY <1>1, <1>2, <1>3, <1>5, BeforeNext
  <2>2. /\ Instr.op = "sigprocmask" =>
             Before(Body(Running), j, {"sigprocmask"})
               = Before(Body(Running), k, {"sigprocmask"}) \cup {k}
        /\ Instr.op # "sigprocmask" =>
             Before(Body(Running), j, {"sigprocmask"}) = Before(Body(Running), k, {"sigprocmask"})
    BY <1>1, <1>2, <1>3, <1>5, BeforeNext
  <2>3. /\ Instr.op = "sigprocmask" =>
             BlockedBefore(Body(Running), j) = BlockedBefore(Body(Running), k) \cup Instr.to
        /\ Instr.op # "sigprocmask" =>
             BlockedBefore(Body(Running), j) = BlockedBefore(Body(Running), k)
    BY <1>1, <2>2 DEF BlockedBefore
  <2> QED
    BY <1>1, <1>5, <2>1, <2>3
<1>6. CASE j = k - Instr.back /\ Instr.op \in Jumps
  <2>1. j \in After(Body(Running), k)
    BY <1>1, <1>6 DEF After
  <2>2. Before(Body(Running), k, Spawns) = Before(Body(Running), j, Spawns)
    BY <1>1, <1>6, BeforeSubset
  <2>3. Before(Body(Running), k, {"sigprocmask"}) = Before(Body(Running), j, {"sigprocmask"})
    BY <1>1, <1>6, BeforeSubset
  <2>4. Instr.op \notin Spawns \cup {"sigprocmask"}
    BY <1>6 DEF Jumps, Spawns
  <2> QED
    BY <1>1, <2>1, <2>2, <2>3, <2>4 DEF BlockedBefore
<1> QED
  BY <1>4, <1>5, <1>6

\* A thread that nothing happens to but that time goes by stays where it is.
LEMMA StaysResting ==
  ASSUME NEW t, RestsAt(t), client' = client, local'[t] = local[t], ownMask'[t] = ownMask[t],
         local[t].q \in Int, total_quantum_ \in Int, total_quantum_' \in Int,
         total_quantum_ <= total_quantum_',
         threads_'[t].sleepUntil_ = threads_[t].sleepUntil_
  PROVE  RestsAt(t)'
<1>1. Body(t)' = Body(t)
  BY DEF Body
<1>2. local[t].q <= total_quantum_ => local[t].q <= total_quantum_'
  OBVIOUS
<1> QED
  BY <1>1, <1>2 DEF RestsAt

\* The number of live threads and of spawns.
LEMMA LiveCount ==
  ASSUME Inv, ClientInv
  PROVE  /\ IsFiniteSet(Live) /\ Cardinality(Live) \in Nat
         /\ IsFiniteSet(SpawnsDone) /\ Cardinality(SpawnsDone) \in Nat
<1>1. IsFiniteSet(Tids)
  BY FS_Interval, MaxThreadNumAssumption DEF Tids
<1>2. Live \subseteq Tids
  BY StateFacts
<1>3. client \in DOMAIN Code /\ "main" \in DOMAIN Code[client]
  BY CodeAssumption DEF ClientInv
<1> QED
  BY <1>1, <1>2, <1>3, FS_Subset, FS_CardinalityType, BodyFacts DEF SpawnsDone

\* While no call is under way nothing but time changes.
LEMMA QuietResting ==
  ASSUME Inv, Inv', ClientInv, ClientInv', Resting, SameThreads, client # "any",
         process' = "up" => process = "up",
         UNCHANGED <<client, local, ownMask>>,
         total_quantum_' \in {total_quantum_, total_quantum_ + 1}
  PROVE  Resting'
<1>1. SpawnsDone' = SpawnsDone /\ Live' = Live
  BY DEF SpawnsDone, SameThreads
<1>2. total_quantum_ \in Int
  BY DEF Inv, TypeOK
<1>3. ASSUME NEW t \in Live, RestsAt(t) PROVE RestsAt(t)'
  <2>1. local[t] \in Locals
    BY StateFacts DEF ClientInv
  <2>2. local[t].q \in Int
    BY <2>1, LocalsType
  <2>3. threads_'[t].sleepUntil_ = threads_[t].sleepUntil_
    BY DEF SameThreads
  <2> QED
    BY <1>2, <1>3, <2>2, <2>3, StaysResting
<1> QED
  BY <1>1, <1>3 DEF Resting

\* What the calls of such a program answer is among what it expects.
LEMMA AnswerExpected ==
  ASSUME Inv, QuantaInv, ClientInv, client # "any", process = "up", RestsOnLibrary(client),
         Resting, Instr.op \in Calls, NEW arg \in Arguments(Running, Instr)
  PROVE  /\ answer(Instr.op, arg) \in Instr.ok
         /\ Instr.op \in Spawns => ~spawnRefused(TRUE)
<1>0. RestsAt(Running)
  BY InstrFacts DEF Resting
<1>1. Answers(Instr.op) \subseteq Instr.ok
  BY <1>0, RestsFacts
<1>2. ASSUME Instr.op \in Spawns PROVE ~spawnRefused(TRUE)
  <2> DEFINE all == {k \in DOMAIN Code[client]["main"] : Code[client]["main"][k].op \in Spawns}
             here == local[0].pc
  <2>1. /\ Running = 0 /\ local[0].entry = "main"
        /\ here \in DOMAIN Code[client]["main"] /\ Instr = Code[client]["main"][here]
    BY <1>0, <1>2, RestsFacts, InstrFacts DEF RestsAt
  <2>2. client \in DOMAIN Code /\ "main" \in DOMAIN Code[client]
    BY CodeAssumption DEF ClientInv
  <2>3. SpawnsDone \cup {here} \subseteq all
    BY <1>2, <2>1 DEF SpawnsDone, Before
  <2>4. here \notin SpawnsDone
    BY <2>1, <2>2, BeforeNext DEF SpawnsDone
  <2>5. IsFiniteSet(all)
    <3>1. PICK n \in Nat : DOMAIN Code[client]["main"] = 1 .. n
      BY <2>2, InstructionsAssumption
    <3>2. IsFiniteSet(1 .. n) /\ all \subseteq 1 .. n
      BY <3>1, FS_Interval
    <3> QED
      BY <3>2, FS_Subset
  <2>6. Cardinality(all) < MAX_THREAD_NUM /\ Cardinality(all) \in Nat
    BY <2>5, FS_CardinalityType DEF RestsOnLibrary
  <2> HIDE DEF all, here
  <2>7. /\ IsFiniteSet(SpawnsDone) /\ Cardinality(SpawnsDone) \in Nat /\ Cardinality(Live) \in Nat
    BY LiveCount
  <2>8. Cardinality(SpawnsDone \cup {here}) = Cardinality(SpawnsDone) + 1
    BY <2>4, <2>7, FS_AddElement
  <2>9. Cardinality(SpawnsDone \cup {here}) <= Cardinality(all)
    BY <2>3, <2>5, FS_Subset
  <2>10. Cardinality(Live) < MAX_THREAD_NUM
    BY <2>6, <2>7, <2>8, <2>9, MaxThreadNumAssumption DEF Resting
  <2> QED
    BY <2>10, RoomForOne
<1>3. answer(Instr.op, arg) \in Answers(Instr.op)
  <2>1. CASE Instr.op \in Spawns
    <3>1. ~spawnRefused(TRUE) /\ answer(Instr.op, arg) = getLowestAvailableId(DOMAIN Remaining)
      BY <1>2, <2>1, AnswerFacts
    <3>2. answer(Instr.op, arg) \in Tids \ {0}
      BY <3>1, LowestIdFacts DEF spawnRefused
    <3>3. Tids \ {0} = 1 .. MAX_THREAD_NUM - 1
      BY MaxThreadNumAssumption DEF Tids
    <3>4. Answers(Instr.op) = 1 .. MAX_THREAD_NUM - 1
      BY <2>1 DEF Answers, Spawns
    <3> QED
      BY <3>2, <3>3, <3>4, Zenon
  <2>2. CASE Instr.op \in {"terminate", "block", "resume"}
    BY <2>2, AnswerFacts DEF Answers, Spawns
  <2>3. CASE Instr.op = "sleep"
    <3>1. Running # 0 /\ arg \in 1 .. INT_MAX - MaxQuanta
      BY <1>0, <2>3, RestsFacts, InstrArguments
    <3>2. answer(Instr.op, arg) = 0
      <4>1. ~(arg <= 0)
        BY <3>1, IntMaxAssumption, MaxQuantaAssumption
      <4> QED
        BY <2>3, <3>1, <4>1, AnswerFacts
    <3> QED
      BY <2>3, <3>2 DEF Answers, Spawns
  <2>4. CASE Instr.op \notin Spawns \cup {"terminate", "block", "resume", "sleep"}
    <3>1. answer(Instr.op, arg) \in -1 .. MaxQuanta
      BY <2>4, AnswerFacts
    <3>2. Answers(Instr.op) = -1 .. MaxQuanta
      BY <2>4 DEF Answers
    <3> QED
      BY <3>1, <3>2
  <2> QED
    BY <2>1, <2>2, <2>3, <2>4
<1> QED
  BY <1>1, <1>2, <1>3

\* Its own steps.
LEMMA OwnResting ==
  ASSUME SInv, UInv, ClientInv, Inv', RestsOnLibrary(client), Resting, ownCode
  PROVE  /\ Resting'
         /\ outcome = "ok" => outcome' = "ok"
<1>0. client # "any" /\ process = "up" /\ Inv /\ inside[Running] = "code"
  BY DEF ownCode, SInv
<1>1. PICK l : OwnStep(l)
  BY OwnSteps
<1>2. /\ Running \in Live /\ Live \subseteq Tids /\ local[Running] \in Locals /\ Instr.back \in Int
      /\ local[Running].entry \in DOMAIN Code[client]
  BY <1>0, InstrFacts, InstrArguments
<1>3. RestsAt(Running)
  BY <1>0, <1>2 DEF Resting
<1>4. PICK k : k = local[Running].pc
  OBVIOUS
<1>5. PICK j : j = l.pc
  OBVIOUS
<1>6. /\ l.entry = local[Running].entry /\ l.q = local[Running].q
      /\ \/ j = k /\ Instr.op = "halt"
         \/ j = k + 1 /\ k + 1 \in After(Body(Running), k)
         \/ j = k - Instr.back /\ Instr.op \in Jumps
  <2>1. Instr = Body(Running)[k] /\ Instr.op # "return"
    BY <1>0, <1>3, <1>4, RestsFacts
  <2>2. CASE Instr.op \in {"halt", "return"} /\ l = local[Running]
    BY <1>4, <1>5, <2>1, <2>2
  <2>3. CASE Instr.op \notin {"goto", "halt"} /\ l = Onward(local[Running])
    <3>1. Instr.op # "terminate"
      BY <1>1 DEF OwnStep, Calls
    <3>2. k + 1 \in After(Body(Running), k)
      BY <2>1, <2>3, <3>1 DEF After
    <3> QED
      BY <1>2, <1>4, <1>5, <2>3, <3>2, OnwardFacts
  <2>4. CASE Instr.op \in Jumps /\ l = Back(local[Running])
    BY <1>2, <1>4, <1>5, <2>4, BackFacts
  <2> QED
    BY <1>1, <2>2, <2>3, <2>4 DEF OwnStep
<1>7. /\ UNCHANGED vars /\ client' = client /\ Instr.op \notin Spawns
      /\ local' = [local EXCEPT ![Running] = l]
  BY <1>1 DEF OwnStep, goOn, Calls, Spawns
<1>8. /\ local'[Running] = l /\ \A t \in Live \ {Running} : local'[t] = local[t]
  BY <1>2, <1>7 DEF ClientInv
<1>9. /\ Live' = Live /\ total_quantum_' = total_quantum_ /\ total_quantum_ \in Int
      /\ \A t \in Live : threads_'[t].sleepUntil_ = threads_[t].sleepUntil_
  BY <1>0, <1>7 DEF vars, Live, Inv, TypeOK
<1>10. /\ \A t \in Live \ {Running} : ownMask'[t] = ownMask[t]
       /\ Instr.op = "sigprocmask" => ownMask'[Running] = ownMask[Running] \cup Instr.to
       /\ Instr.op # "sigprocmask" => ownMask'[Running] = ownMask[Running]
  <2>1. ownMask \in [Tids -> SUBSET (Signals \ {SIGVTALRM})]
    BY DEF UInv, UTypeOK
  <2>2. CASE blockSignals
    BY <1>2, <2>1, <2>2 DEF blockSignals, sigprocmask
  <2>3. CASE (loop \/ note \/ check) /\ Instr.op # "sigprocmask"
    BY <2>3 DEF loop, note, check, uvars, maskVars
  <2> QED
    BY <2>2, <2>3 DEF ownCode, loop, note, check
<1>11. /\ j \in DOMAIN Body(Running)
       /\ Instr.op = "sigprocmask" =>
            BlockedBefore(Body(Running), j) = BlockedBefore(Body(Running), k) \cup Instr.to
       /\ Instr.op # "sigprocmask" =>
            BlockedBefore(Body(Running), j) = BlockedBefore(Body(Running), k)
       /\ Before(Body(Running), j, Spawns) = Before(Body(Running), k, Spawns)
  <2>1. Instr.op = "halt" => Instr.op \notin Spawns \cup {"sigprocmask"}
    BY DEF Spawns
  <2> QED
    BY <1>0, <1>3, <1>4, <1>6, <1>7, <2>1, MoveFacts
<1>12. Body(Running)' = Body(Running)
  BY <1>6, <1>7, <1>8 DEF Body, Running, vars
<1>13. ASSUME NEW t \in Live PROVE RestsAt(t)'
  <2>1. RestsAt(t)
    BY <1>0, <1>13 DEF Resting
  <2>2. CASE t = Running
    <3>1. Body(t)' = Body(t)
      BY <1>6, <1>7, <1>8, <2>2 DEF Body
    <3>2. local'[t].pc = j /\ local[t].pc = k /\ local'[t].q = local[t].q
          /\ local'[t].entry = local[t].entry
      BY <1>4, <1>5, <1>6, <1>8, <2>2
    <3>3. ownMask'[t] = BlockedBefore(Body(t), j)
      BY <1>10, <1>11, <2>1, <2>2, <3>2 DEF RestsAt
    <3> QED
      BY <1>9, <1>11, <2>1, <2>2, <3>1, <3>2, <3>3 DEF RestsAt
  <2>3. CASE t # Running
    <3>1. local[t] \in Locals
      BY <1>2 DEF ClientInv
    <3> QED
      BY <1>7, <1>8, <1>9, <1>10, <2>1, <2>3, <3>1, LocalsType, StaysResting
  <2> QED
    BY <2>2, <2>3
<1>14. Cardinality(SpawnsDone') = Cardinality(SpawnsDone)
  <2>1. CASE Running = 0
    <3>1. Body(0) = Code[client]["main"]
      BY <1>3, <2>1 DEF RestsAt, Body
    <3> QED
      BY <1>4, <1>5, <1>7, <1>8, <1>11, <2>1, <3>1 DEF SpawnsDone
  <2>2. CASE Running # 0
    BY <1>0, <1>7, <1>8, <2>2, StateFacts DEF SpawnsDone
  <2> QED
    BY <2>1, <2>2
<1>15. Resting'
  BY <1>0, <1>7, <1>9, <1>13, <1>14 DEF Resting, vars
<1>16. ASSUME outcome = "ok" PROVE outcome' = "ok"
  <2>1. CASE check
    <3>1. /\ Instr.op \notin {"at", "passed", "all", "some", "none", "return"}
          /\ Instr.op = "mask" => Instr.to = BlockedBefore(Body(Running), k)
      BY <1>0, <1>3, <1>4, RestsFacts
    <3>2. CASE Instr.op = "slept"
      <4>1. threads_[Running].sleepUntil_ <= total_quantum_
        BY DEF SInv, AwakeIsDue, Running
      <4>2. local[Running].q \in Int /\ threads_[Running].sleepUntil_ \in Int
        BY <1>0, <1>2, LocalsType DEF Inv, TypeOK, Thread, Live
      <4>3. total_quantum_ >= local[Running].q
        BY <1>3, <1>9, <4>1, <4>2 DEF RestsAt
      <4> QED
        BY <1>16, <2>1, <3>2, <4>3 DEF check, expect
    <3>3. CASE Instr.op = "mask"
      <4>1. sigmask = ownMask[Running]
        BY <1>0 DEF UInv, MaskInv, MaskAt
      <4>2. sigmask = Instr.to
        BY <1>3, <1>4, <3>1, <3>3, <4>1 DEF RestsAt
      <4> QED
        BY <1>16, <2>1, <3>3, <4>2 DEF check, expect
    <3> QED
      BY <2>1, <3>1, <3>2, <3>3 DEF check
  <2>2. CASE loop \/ note \/ blockSignals
    BY <1>16, <2>2 DEF loop, note, blockSignals
  <2> QED
    BY <2>1, <2>2 DEF ownCode
<1> QED
  BY <1>15, <1>16

\* Its calls.
LEMMA CallResting ==
  ASSUME SInv, UInv, QuantaInv, ClientInv, Inv', ClientInv', client # "any", process = "up",
         RestsOnLibrary(client), Resting, clientCall
  PROVE  /\ Resting'
         /\ outcome = "ok" => outcome' = "ok"
<1>0. Inv
  BY DEF SInv
<1>1. PICK arg \in Arguments(Running, Instr) :
        LET result == answer(Instr.op, arg)
        IN  /\ forward(method(Instr.op, arg))
            /\ local' = [t \in Tids |->
                 CASE Instr.op \in {"spawn", "keep"} /\ t = result -> Start(Instr.entry)
                   [] Instr.op = "terminate" /\ t = arg -> Blank
                   [] t = Running -> answered(local[t], arg, result)
                   [] OTHER -> local[t]]
            /\ outcome' = IF result \in Instr.ok /\ ~missedQuantum(arg, result)
                          THEN outcome ELSE "ERROR"
  BY DEF clientCall
<1>2. PICK result : result = answer(Instr.op, arg)
  OBVIOUS
<1>3. /\ Instr.op \in Calls /\ client' = client /\ method(Instr.op, arg)
      /\ jump(Running, "returning")
      /\ local' = [t \in Tids |->
               CASE Instr.op \in {"spawn", "keep"} /\ t = result -> Start(Instr.entry)
                 [] Instr.op = "terminate" /\ t = arg -> Blank
                 [] t = Running -> answered(local[t], arg, result)
                 [] OTHER -> local[t]]
      /\ outcome' = IF result \in Instr.ok /\ ~missedQuantum(arg, result) THEN outcome ELSE "ERROR"
  BY <1>1, <1>2 DEF clientCall, forward
<1>4. result \in Int /\ ThreadsAfter(arg, result)
  BY <1>0, <1>2, <1>3, AnswerFacts, CallThreads
<1>5. /\ Running \in Live /\ Live \subseteq Tids /\ local[Running] \in Locals
      /\ RestsAt(Running) /\ local[Running].entry \in DOMAIN Code[client]
  BY <1>0, InstrFacts DEF Resting
<1>6. PICK k : k = local[Running].pc
  OBVIOUS
<1>7. /\ Instr = Body(Running)[k]
      /\ Instr.op \in Spawns => Running = 0 /\ Instr.entry # "main"
      /\ Instr.op = "sleep" => Running # 0 /\ Instr.to \subseteq 1 .. INT_MAX - MaxQuanta
      /\ Instr.op \notin {"at", "passed", "all", "some", "none", "return"}
  BY <1>0, <1>5, <1>6, RestsFacts
<1>8. /\ result \in Instr.ok
      /\ Instr.op \in Spawns =>
           /\ result \in Tids \ ({0} \cup Live) /\ Live' = Live \cup {result}
           /\ \A t \in Live : threads_'[t].sleepUntil_ = threads_[t].sleepUntil_
  BY <1>0, <1>2, <1>3, <1>4, AnswerExpected DEF ThreadsAfter
<1>9. outcome = "ok" => outcome' = "ok"
  BY <1>3, <1>7, <1>8 DEF missedQuantum
<1>10. /\ total_quantum_ \in Int /\ total_quantum_' \in Int
       /\ total_quantum_' \in {total_quantum_, total_quantum_ + 1}
  <2>1. AnyCall \/ getter
    BY <1>0, <1>3, MethodFits
  <2>2. getter => total_quantum_' = total_quantum_
    BY DEF getter, vars
  <2> QED
    BY <1>0, <2>1, <2>2, MethodFacts DEF Inv, TypeOK
<1>11. total_quantum_ <= total_quantum_'
  BY <1>10
<1> DEFINE after == answered(local[Running], arg, result)
<1>12. /\ after \in Locals /\ after.entry = local[Running].entry
       /\ after.pc \in {k, k + 1} \/ (Instr.op = "total" /\ after.pc = k - Instr.back)
       /\ Instr.op = "mark" => after.q = result
       /\ Instr.op = "sleep" => after.q = total_quantum_ + arg
       /\ Instr.op \notin {"mark", "sleep"} => after.q = local[Running].q
       /\ Instr.op \notin {"changed", "passed", "at", "total"} => after.pc = k + 1
  BY <1>0, <1>4, <1>5, <1>6, AnsweredFacts
<1> HIDE DEF after
\* It is still in its function, if it is still there.
<1>13. ASSUME process' = "up", Running \in Live'
       PROVE  /\ after.pc \in DOMAIN Body(Running)
              /\ BlockedBefore(Body(Running), after.pc) = BlockedBefore(Body(Running), k)
              /\ Instr.op \in Spawns =>
                   Before(Body(Running), after.pc, Spawns)
                     = Before(Body(Running), k, Spawns) \cup {k}
              /\ Instr.op \notin Spawns =>
                   Before(Body(Running), after.pc, Spawns) = Before(Body(Running), k, Spawns)
  <2>1. k + 1 \in After(Body(Running), k)
    <3>1. ASSUME Instr.op = "terminate", Instr.to \in {{Self}, {0}} PROVE FALSE
      <4>1. arg # 0 /\ arg # Running
        BY <1>4, <1>13, <3>1 DEF ThreadsAfter
      <4>2. PICK a \in Instr.to : arg = CASE a = Self -> Running
                                       [] a = NextTid -> (Running + 1) % 4
                                       [] a < Kept(0) -> local[Running].kept[Kept(0) - a]
                                       [] OTHER -> a
        BY DEF Arguments
      <4>3. CASE a = Self
        BY <4>1, <4>2, <4>3 DEF Self, NextTid, Kept
      <4>4. CASE a = 0
        BY <4>1, <4>2, <4>4 DEF Self, NextTid, Kept
      <4> QED
        BY <3>1, <4>2, <4>3, <4>4
    <3>2. Instr.op \notin {"goto", "halt"}
      BY <1>3 DEF Calls
    <3> QED
      BY <1>7, <3>1, <3>2 DEF After
  <2>2. Instr.op # "sigprocmask" /\ (Instr.op = "total" => Instr.op \in Jumps)
    BY <1>3 DEF Calls, Jumps
  <2>3. after.pc = k => Instr.op \notin Spawns \cup {"sigprocmask"} \/ after.pc = k + 1
    BY <1>12, <2>2 DEF Spawns
  <2> QED
    BY <1>0, <1>5, <1>6, <1>12, <2>1, <2>2, <2>3, MoveFacts
<1>14. ASSUME process' = "up", NEW t \in Live' PROVE RestsAt(t)'
  <2>0. \/ Instr.op \in Spawns /\ t = result /\ t \notin Live /\ local'[t] = Start(Instr.entry)
        \/ t \in Live /\ t = Running /\ local'[t] = after
        \/ t \in Live /\ t # Running /\ local'[t] = local[t]
    BY <1>0, <1>3, <1>4, <1>14, CallLocals DEF after
  <2>1. t \in Tids
    BY DEF Live, Inv, TypeOK
  <2>2. ownMask'[t] = IF t \in Live THEN ownMask[t] ELSE {}
    BY <1>3, <1>14, <2>1 DEF jump, Spawned
  <2>3. CASE Instr.op \in Spawns /\ t = result /\ t \notin Live /\ local'[t] = Start(Instr.entry)
    <3>1. PICK e \in DOMAIN Code[client] : e = Instr.entry /\ e # "main"
      BY <1>0, <1>7, <2>3, InstrArguments DEF Spawns
    <3>2. local'[t].entry = e /\ local'[t].pc = 1 /\ local'[t].q = 0
      BY <2>3, <3>1, StartFacts
    <3>3. Body(t)' = Code[client][e]
      BY <1>3, <3>2 DEF Body
    <3>4. 1 \in DOMAIN Code[client][e] /\ BlockedBefore(Code[client][e], 1) = {}
      <4>1. client \in DOMAIN Code /\ 1 \in DOMAIN Code[client][e]
        BY <3>1 DEF ClientInv, RestsOnLibrary
      <4>2. Before(Code[client][e], 1, {"sigprocmask"}) = {}
        BY <3>1, <4>1, BodyFacts
      <4> QED
        BY <4>1, <4>2 DEF BlockedBefore
    <3>5. t # 0 /\ ownMask'[t] = {}
      BY <1>0, <2>2, <2>3, StateFacts
    <3>6. 0 <= total_quantum_'
      BY DEF Inv, TypeOK
    <3> QED
      BY <3>1, <3>2, <3>3, <3>4, <3>5, <3>6 DEF RestsAt
  <2>4. CASE t \in Live /\ t = Running /\ local'[t] = after
    <3>1. Body(t)' = Body(Running)
      BY <1>3, <1>12, <2>4 DEF Body
    <3>2. /\ after.pc \in DOMAIN Body(Running)
          /\ ownMask'[t] = BlockedBefore(Body(Running), after.pc)
      BY <1>5, <1>6, <1>13, <1>14, <2>2, <2>4 DEF RestsAt
    <3>3. after.entry = "main" <=> t = 0
      BY <1>5, <1>12, <2>4 DEF RestsAt
    <3>4. after.q <= total_quantum_' \/ after.q <= threads_'[t].sleepUntil_
      <4>1. CASE Instr.op = "mark"
        <5>1. answer(Instr.op, arg) = Quantums(arg)
          BY <4>1 DEF answer
        <5>2. Quantums(arg) <= total_quantum_
          <6>1. CASE arg \in Live
            BY <1>0, <6>1, StateFacts DEF Quantums, QuantaInv
          <6>2. CASE arg \notin Live
            BY <1>0, <6>2, StateFacts DEF Quantums, Inv, TypeOK
          <6> QED
            BY <6>1, <6>2
        <5> QED
          BY <1>2, <1>4, <1>10, <1>12, <4>1, <5>1, <5>2
      <4>2. CASE Instr.op = "sleep"
        <5>1. Running # 0 /\ arg \in 1 .. INT_MAX - MaxQuanta
          BY <1>0, <1>7, <4>2, InstrArguments
        <5>2. arg \in Int /\ arg > 0
          BY <5>1, IntMaxAssumption, MaxQuantaAssumption
        <5>3. threads_'[t].sleepUntil_ = total_quantum_ + arg
          BY <1>0, <1>4, <1>5, <2>4, <4>2, <5>1, <5>2, SleepFits DEF ThreadsAfter
        <5> QED
          BY <1>10, <1>12, <4>2, <5>2, <5>3
      <4>3. CASE Instr.op \notin {"mark", "sleep"}
        <5>1. threads_'[t].sleepUntil_ = threads_[t].sleepUntil_
          BY <1>4, <1>8, <1>14, <2>4, <4>3 DEF ThreadsAfter, SameThreads
        <5>2. local[Running].q \in Int
          BY <1>5, LocalsType
        <5> QED
          BY <1>5, <1>10, <1>12, <2>4, <4>3, <5>1, <5>2 DEF RestsAt
      <4> QED
        BY <4>1, <4>2, <4>3
    <3> QED
      BY <2>4, <3>1, <3>2, <3>3, <3>4 DEF RestsAt
  <2>5. CASE t \in Live /\ t # Running /\ local'[t] = local[t]
    <3>1. RestsAt(t) /\ local[t].q \in Int
      BY <2>1, <2>5, LocalsType DEF Resting, ClientInv
    <3>2. threads_'[t].sleepUntil_ = threads_[t].sleepUntil_
      BY <1>4, <1>8, <1>14, <2>5 DEF ThreadsAfter, SameThreads
    <3>3. ownMask'[t] = ownMask[t]
      BY <2>2, <2>5
    <3> QED
      BY <1>3, <1>10, <1>11, <2>5, <3>1, <3>2, <3>3, StaysResting
  <2> QED
    BY <2>0, <2>3, <2>4, <2>5
<1>15. ASSUME process' = "up" PROVE Cardinality(Live') <= 1 + Cardinality(SpawnsDone')
  <2>1. /\ IsFiniteSet(Live) /\ Cardinality(Live) \in Nat
        /\ IsFiniteSet(SpawnsDone) /\ Cardinality(SpawnsDone) \in Nat
        /\ Cardinality(Live) <= 1 + Cardinality(SpawnsDone)
    BY <1>0, LiveCount DEF Resting
  <2>2. 0 \in Live'
    BY DEF Inv, OnePlace, MainSchedulable
  <2>3. \/ Running = 0 /\ local'[0] = after
        \/ Running # 0 /\ local'[0] = local[0]
    <3>1. 0 \in Live
      BY <1>0, StateFacts
    <3> QED
      BY <1>0, <1>3, <1>4, <1>15, <2>2, <3>1, CallLocals DEF after
  <2>4. Running = 0 => Body(Running) = Code[client]["main"]
    BY <1>5 DEF RestsAt, Body
  <2>5. CASE Instr.op \in Spawns
    <3>1. SpawnsDone' = SpawnsDone \cup {k}
      BY <1>3, <1>6, <1>7, <1>13, <1>15, <2>2, <2>3, <2>4, <2>5 DEF SpawnsDone
    <3>2. k \notin SpawnsDone
      <4>1. k \in DOMAIN Code[client]["main"] /\ client \in DOMAIN Code /\ "main" \in DOMAIN Code[client]
        BY <1>5, <1>6, <1>7, <2>4, <2>5, CodeAssumption DEF RestsAt, ClientInv
      <4> QED
        BY <1>6, <1>7, <2>5, <4>1, BeforeNext DEF SpawnsDone
    <3>3. Cardinality(SpawnsDone') = Cardinality(SpawnsDone) + 1
      BY <2>1, <3>1, <3>2, FS_AddElement
    <3>4. Cardinality(Live') = Cardinality(Live) + 1
      BY <1>8, <2>1, <2>5, FS_AddElement
    <3> QED
      BY <2>1, <3>3, <3>4
  <2>6. CASE Instr.op \notin Spawns
    <3>1. SpawnsDone' = SpawnsDone
      BY <1>3, <1>6, <1>13, <1>15, <2>2, <2>3, <2>4, <2>6 DEF SpawnsDone
    <3>2. Live' \subseteq Live
      BY <1>4, <1>15, <2>6 DEF ThreadsAfter, SameThreads
    <3>3. Cardinality(Live') <= Cardinality(Live) /\ Cardinality(Live') \in Nat
      BY <2>1, <3>2, FS_Subset, FS_CardinalityType
    <3> QED
      BY <2>1, <3>1, <3>3
  <2> QED
    BY <2>5, <2>6
<1> QED
  BY <1>9, <1>14, <1>15 DEF Resting

\* A program that rests on the library's promises has not met an answer, a mask
\* or an end of a sleep that it does not expect.
RestInv == RestsOnLibrary(client) => outcome = "ok" /\ (client # "any" => Resting)

\* Neither its calls, nor its own code, nor the timer, nor time brings it there.
LEMMA RestNext == PInv /\ RestInv /\ [PNext]_pvars => RestInv'
<1> SUFFICES ASSUME PInv, RestInv, [PNext]_pvars PROVE RestInv'
  OBVIOUS
<1>1. Inv /\ SInv /\ UInv /\ QuantaInv /\ ClientInv /\ Inv' /\ ClientInv'
  BY PNextInv DEF PInv, UInv
<1>2. client' = client
  BY DEF PNext, libraryCall, clientCall, ownCode, loop, note, check, blockSignals, timerStep,
         anyClient, clientVars, pvars
<1> SUFFICES ASSUME client # "any", RestsOnLibrary(client), Resting, outcome = "ok"
             PROVE  Resting' /\ outcome' = "ok"
  <2>1. ASSUME client = "any", outcome = "ok" PROVE outcome' = "ok"
    BY <2>1 DEF PNext, libraryCall, ownCode, timerStep, anyClient, clientVars, pvars
  <2>2. RestsOnLibrary(client)' <=> RestsOnLibrary(client)
    BY <1>2 DEF RestsOnLibrary
  <2> QED
    BY <1>2, <2>1, <2>2 DEF RestInv
<1>3. CASE clientCall /\ process = "up"
  BY <1>1, <1>3, CallResting
<1>4. CASE ownCode
  BY <1>1, <1>4, OwnResting
<1>5. ASSUME UNCHANGED <<vars, ownMask, client, local, outcome>> PROVE Resting' /\ outcome' = "ok"
  <2>1. SameThreads /\ process' = process /\ total_quantum_' = total_quantum_
    BY <1>5 DEF vars, SameThreads, Live
  <2> QED
    BY <1>1, <1>5, <2>1, QuietResting
<1>6. CASE timerStep
  <2>1. SameThreads /\ process = "up" /\ UNCHANGED <<client, local, outcome>>
    BY <1>1, <1>6, TimerStepFacts
  <2>2. CASE timerHandlerGlobal
    <3>1. total_quantum_' \in {total_quantum_, total_quantum_ + 1}
      BY <1>1, <2>2, MethodFacts DEF timerHandlerGlobal
    <3>2. ownMask' = ownMask
      <4>1. ownMask \in [Tids -> SUBSET (Signals \ {SIGVTALRM})]
        BY <1>1 DEF UInv, UTypeOK
      <4>2. Spawned = {}
        BY <2>1 DEF Spawned, SameThreads
      <4>3. ownMask' = [u \in Tids |-> IF u \in Spawned THEN {} ELSE ownMask[u]]
        BY <2>2 DEF timerHandlerGlobal, jump
      <4> QED
        BY <4>1, <4>2, <4>3
    <3> QED
      BY <1>1, <2>1, <3>1, <3>2, QuietResting
  <2>3. CASE timerExpires \/ deliver \/ sigreturn
    BY <1>5, <2>1, <2>3 DEF timerExpires, deliver, sigreturn
  <2> QED
    BY <1>6, <2>2, <2>3 DEF timerStep
<1>7. CASE (SigMask \/ SigMaskEnd) /\ UNCHANGED <<client, local, outcome>>
  BY <1>5, <1>7 DEF SigMask, SigMaskEnd
<1>8. CASE UNCHANGED pvars
  BY <1>5, <1>8 DEF pvars, uvars, maskVars, clientVars
<1> QED
  BY <1>3, <1>4, <1>6, <1>7, <1>8 DEF PNext, over, libraryCall, anyClient

\* Main begins with its first instruction, an empty mask and no spawns.
LEMMA RestInit == PInit => RestInv
<1> SUFFICES ASSUME PInit, RestsOnLibrary(client)
             PROVE  Resting /\ outcome = "ok"
  BY DEF RestInv
<1>1. Inv /\ Init /\ ClientInv
  BY PInitInv DEF PInv, UInv, PInit, UInit
<1>2. Live = {0} /\ total_quantum_ = 1 /\ 0 \in Tids
  BY <1>1, MaxThreadNumAssumption DEF Init, Live, NoTid, Tids
<1>3. client \in DOMAIN Code /\ "main" \in DOMAIN Code[client]
  BY <1>1, CodeAssumption DEF ClientInv
<1>4. local[0] = Start("main") /\ ownMask[0] = {}
  BY <1>2 DEF PInit, UInit
<1>5. local[0].entry = "main" /\ local[0].pc = 1 /\ local[0].q = 0
  BY <1>4, StartFacts
<1>6. 1 \in DOMAIN Code[client]["main"] /\ Before(Code[client]["main"], 1, {"sigprocmask"}) = {}
  BY <1>3, BodyFacts DEF RestsOnLibrary
<1>7. RestsAt(0)
  BY <1>2, <1>4, <1>5, <1>6 DEF RestsAt, Body, BlockedBefore
<1>8. Cardinality(Live) <= 1 + Cardinality(SpawnsDone)
  <2>1. Cardinality(Live) = 1
    BY <1>2, FS_Singleton
  <2>2. Cardinality(SpawnsDone) \in Nat
    BY <1>1, LiveCount
  <2> QED
    BY <2>1, <2>2
<1> QED
  BY <1>2, <1>7, <1>8 DEF Resting, PInit

\* A program that rests on the library's promises alone gets every id, error, mask
\* and end of a sleep it expects, however long a quantum is and whatever order its
\* threads run in (the test programs of Project-Ex2/submission).
THEOREM LibraryMeetsExpectations == PSpec => [](RestsOnLibrary(client) => ExpectedResults)
<1>1. PInit => PInv /\ RestInv
  BY PInitInv, RestInit
<1>2. PInv /\ RestInv /\ [PNext]_pvars => PInv' /\ RestInv'
  BY PNextInv, RestNext
<1>3. RestInv => (RestsOnLibrary(client) => ExpectedResults)
  BY DEF RestInv, ExpectedResults
<1> QED
  BY <1>1, <1>2, <1>3, PTL DEF PSpec
=============================================================================
