------------------------------ MODULE MCPrograms ------------------------------
(***************************************************************************)
(* For TLC: the test programs and the client of any calls, each with the   *)
(* steps it needs of a quantum (0: the timer may expire at any instant)    *)
(* and the quanta it is followed for. All but "any" reach their end.       *)
(***************************************************************************)
EXTENDS Programs, UnitTests

Tests == [
  jona1 |-> jona1, jona2 |-> jona2, jona3 |-> jona3, jona4 |-> jona4,
  jona5 |-> jona5, jona6 |-> jona6,
  test1 |-> test1, test2 |-> test2, test3 |-> test3, test4 |-> test4, test7 |-> test7,
  blockItself |-> test_thread_block_itself,
  terminateItself |-> test_thread_terminate_itself,
  sleepAndBlock |-> test_sleep_and_block, blockAndSleep |-> test_block_and_sleep,
  sleep |-> test_sleep, blockResume |-> test_regular_block_resume,
  switch4 |-> test_switch_4_threads, switch |-> test_switch_thread]

GTests == [
  Test1 |-> BasicFunctionality, Test2 |-> ThreadSchedulingWithTermination,
  Test3 |-> ThreadExecutionOrder, Test4 |-> StressTestAndThreadCreationOrder,
  Test6 |-> BasicSleep, Test7 |-> SleepingCantBeResumed, Test8 |-> SleepingBlocked,
  Test9 |-> SleepingBlockedResumed, Test10 |-> BasicTwoSleep, Test11 |-> BasicTwoSleep2,
  Test12 |-> TwoSleepOneBlocked, Test13 |-> TwoSleepTwoBlocked,
  Test14 |-> TwoSleepOneBlockedResumed, Test15 |-> TwoSleepTwoBlockedResumed,
  Test16 |-> BasicSleepTerminated]

MCCode == [any |-> [main |-> <<>>]] @@ Tests @@ GTests

MCMinSteps == [p \in DOMAIN MCCode |->
  CASE p = "jona1" -> 1 [] p = "jona2" -> 3 [] p = "jona3" -> 10 [] p = "jona4" -> 8
    [] p = "jona5" -> 4 [] p = "jona6" -> 4 [] p = "test1" -> 7 [] p = "test3" -> 32
    [] p = "test4" -> 3 [] p = "switch4" -> 11
    [] p = "Test1" -> 17 [] p = "Test2" -> 11 [] p = "Test3" -> 20 [] p = "Test4" -> 8
    [] p = "Test6" -> 7 [] p = "Test8" -> 12 [] p = "Test9" -> 10
    [] p \in {"Test7", "Test10", "Test11", "Test12", "Test13", "Test14"} -> 8
    [] p = "Test15" -> 14 [] p = "Test16" -> 6
    [] OTHER -> 0]

MCHorizon == [p \in DOMAIN MCCode |->
  CASE p = "any" -> 5 [] p = "jona1" -> 14 [] p = "jona2" -> 16 [] p = "jona3" -> 18
    [] p = "jona4" -> 5 [] p = "jona5" -> 50 [] p = "jona6" -> 14 [] p = "test1" -> 45
    [] p = "test2" -> 6 [] p = "test3" -> 4 [] p = "test4" -> 11 [] p = "test7" -> 7
    [] p = "switch4" -> 10 [] p \in DOMAIN GTests \ {"Test4"} -> 50 [] p = "Test4" -> 12
    [] OTHER -> 9]

\* What is proved of the programs that rest on the library's promises covers these.
ASSUME RestingOnLibrary ==
  \A p \in {"jona2", "jona3", "jona4", "jona6", "test4", "blockItself", "sleepAndBlock",
            "blockAndSleep", "sleep", "blockResume", "switch"} : RestsOnLibrary(p)

MCSignalSets == {set1}
=============================================================================
