--------------------------- MODULE ContainerProofs ---------------------------
(***************************************************************************)
(* For every set of launches, whichever of their calls fail: a program that *)
(* runs is restricted, and a parent that exits leaves nothing behind.       *)
(***************************************************************************)
EXTENDS Container, FiniteSetTheorems, TLAPS

Both == {"parent", "child"}
AfterBarrier == {"waiting", "destroy", "wait", "umount", "rmdir", "exited", "failed"}
ParentPlaces == {"clone", "mkdir", "open", "procs", "max", "barrier"} \union AfterBarrier
ChildPlaces == {"none", "setup", "barrier", "waiting", "execve", "program", "gone", "reaped"}

\* Type invariant, of what the proofs need.
CTypeOK ==
  /\ parent \in [Launches -> ParentPlaces]
  /\ child \in [Launches -> ChildPlaces]
  /\ arrived \in [Launches -> SUBSET Both]
  /\ files \in [Launches -> SUBSET CgroupFiles]
  /\ cgroup \in [exists : BOOLEAN, procs : SUBSET Launches, max : Launches \union {NoLimit}]

Over(l) == child[l] \in {"gone", "reaped"}
Joined(l) == l \notin lost => Over(l) \/ l \in cgroup.procs
Limited(l) == l \notin lost => Over(l) \/ cgroup.max # NoLimit

\* What the parent has achieved when it is past a write that was not lost. The
\* limit stays because rmdir fails while the child is in the cgroup.
Restricting(l) ==
  /\ parent[l] \in {"max", "barrier"} => Joined(l)
  /\ parent[l] = "barrier" => Limited(l)
  /\ "parent" \in arrived[l] => Joined(l) /\ Limited(l) /\ parent[l] \in AfterBarrier

\* The child is past the barrier only when the parent has come to it.
Released(l) == child[l] \in {"execve", "program"} => "parent" \in arrived[l]

\* What the parent has undone of the launch on its way out.
CleaningUp(l) ==
  /\ parent[l] \in {"umount", "rmdir", "exited"} => child[l] = "reaped"
  /\ parent[l] \in {"rmdir", "exited"} => l \notin mounted
  /\ parent[l] = "exited" => l \notin cgroup.procs
  /\ child[l] = "reaped" => parent[l] \in {"umount", "rmdir", "exited", "failed"}

Kept(l) == Restricting(l) /\ Released(l) /\ CleaningUp(l)
CInv == CTypeOK /\ \A l \in Launches : Kept(l)

\* Two processes are at the barrier only when the parent is one of them.
LEMMA ReleasedByParent ==
  ASSUME CTypeOK, NEW l \in Launches, released(l)
  PROVE  "parent" \in arrived[l]
<1>1. SUFFICES ASSUME "parent" \notin arrived[l] PROVE FALSE
  OBVIOUS
<1>2. arrived[l] \subseteq {"child"}
  BY <1>1 DEF CTypeOK, Both
<1>3. IsFiniteSet({"child"}) /\ Cardinality({"child"}) = 1
  BY FS_Singleton
<1>4. Cardinality(arrived[l]) <= 1 /\ Cardinality(arrived[l]) \in Nat
  BY <1>2, <1>3, FS_Subset, FS_CardinalityType
<1> QED BY <1>4 DEF released, n_procs_in_barrier

\* Before clone there is nothing to keep.
LEMMA CInitial == Init => CInv
<1> SUFFICES ASSUME Init PROVE CInv
  OBVIOUS
<1>1. CTypeOK
  BY DEF Init, CTypeOK, Both, CgroupFiles, ParentPlaces, AfterBarrier, ChildPlaces, NoCgroup
<1>2. ASSUME NEW l \in Launches PROVE Kept(l)
  BY DEF Init, NoCgroup, Kept, Restricting, Released, CleaningUp, Joined, Limited
<1> QED BY <1>1, <1>2 DEF CInv

\* What a step of another launch may do to l: give the cgroup another limit, or
\* take the limit away while l is not in it.
Undisturbed(l) ==
  /\ parent'[l] = parent[l] /\ child'[l] = child[l] /\ arrived'[l] = arrived[l]
  /\ l \in mounted' <=> l \in mounted
  /\ l \in lost' <=> l \in lost
  /\ l \in cgroup'.procs <=> l \in cgroup.procs
  /\ cgroup'.max = NoLimit => cgroup.max = NoLimit \/ l \notin cgroup.procs

\* What is kept of a launch the steps of the others do not disturb.
LEMMA Frame ==
  ASSUME NEW l \in Launches, Kept(l), Undisturbed(l)
  PROVE  Kept(l)'
  BY DEF Kept, Restricting, Released, CleaningUp, Joined, Limited, Over, Undisturbed

\* Every step of a parent, of a child or of the kernel keeps the invariant.
LEMMA CStep ==
  ASSUME CInv, [Next]_vars PROVE CInv'
<1> USE LaunchesAssumption
<1>1. CASE UNCHANGED vars
  <2>1. CTypeOK'
    BY <1>1 DEF CInv, CTypeOK, vars
  <2>2. ASSUME NEW l \in Launches PROVE Undisturbed(l)
    BY <1>1 DEF Undisturbed, vars
  <2> QED BY <2>1, <2>2, Frame DEF CInv
<1>2. ASSUME NEW k \in Launches, childStep(k) PROVE CInv'
  <2>1. CASE setContainerNS(k)
    <3>1. CTypeOK'
      BY <2>1 DEF CInv, CTypeOK, Both, CgroupFiles, ParentPlaces, AfterBarrier, ChildPlaces, setContainerNS, childAt, endChild
    <3>2. ASSUME NEW l \in Launches, l # k PROVE Undisturbed(l)
      BY <3>2, <2>1 DEF CInv, CTypeOK, Undisturbed, setContainerNS, childAt, endChild
    <3>3. Kept(k)'
      BY <2>1 DEF CInv, CTypeOK, Kept, Restricting, Released, CleaningUp, Joined, Limited,
         Over, AfterBarrier, setContainerNS, childAt, endChild
    <3> QED BY <3>1, <3>2, <3>3, Frame DEF CInv
  <2>2. CASE childArrives(k)
    <3>1. CTypeOK'
      BY <2>2 DEF CInv, CTypeOK, Both, CgroupFiles, ParentPlaces, AfterBarrier, ChildPlaces, childArrives, childAt, arrive
    <3>2. ASSUME NEW l \in Launches, l # k PROVE Undisturbed(l)
      BY <3>2, <2>2 DEF CInv, CTypeOK, Undisturbed, childArrives, childAt, arrive
    <3>3. Kept(k)'
      BY <2>2 DEF CInv, CTypeOK, Kept, Restricting, Released, CleaningUp, Joined, Limited,
         Over, AfterBarrier, childArrives, childAt, arrive
    <3> QED BY <3>1, <3>2, <3>3, Frame DEF CInv
  <2>3. CASE childLeaves(k)
    <3>0. "parent" \in arrived[k]
      BY <2>3, ReleasedByParent DEF CInv, childLeaves
    <3>1. CTypeOK'
      BY <2>3 DEF CInv, CTypeOK, Both, CgroupFiles, ParentPlaces, AfterBarrier, ChildPlaces, childLeaves, childAt
    <3>2. ASSUME NEW l \in Launches, l # k PROVE Undisturbed(l)
      BY <3>2, <2>3 DEF CInv, CTypeOK, Undisturbed, childLeaves, childAt
    <3>3. Kept(k)'
      BY <3>0, <2>3 DEF CInv, CTypeOK, Kept, Restricting, Released, CleaningUp, Joined, Limited,
         Over, AfterBarrier, childLeaves, childAt
    <3> QED BY <3>1, <3>2, <3>3, Frame DEF CInv
  <2>4. CASE execve(k)
    <3>1. CTypeOK'
      BY <2>4 DEF CInv, CTypeOK, Both, CgroupFiles, ParentPlaces, AfterBarrier, ChildPlaces, execve, childAt, endChild
    <3>2. ASSUME NEW l \in Launches, l # k PROVE Undisturbed(l)
      BY <3>2, <2>4 DEF CInv, CTypeOK, Undisturbed, execve, childAt, endChild
    <3>3. Kept(k)'
      BY <2>4 DEF CInv, CTypeOK, Kept, Restricting, Released, CleaningUp, Joined, Limited,
         Over, AfterBarrier, execve, childAt, endChild
    <3> QED BY <3>1, <3>2, <3>3, Frame DEF CInv
  <2>5. CASE programEnds(k)
    <3>1. CTypeOK'
      BY <2>5 DEF CInv, CTypeOK, Both, CgroupFiles, ParentPlaces, AfterBarrier, ChildPlaces, programEnds, childAt, endChild
    <3>2. ASSUME NEW l \in Launches, l # k PROVE Undisturbed(l)
      BY <3>2, <2>5 DEF CInv, CTypeOK, Undisturbed, programEnds, childAt, endChild
    <3>3. Kept(k)'
      BY <2>5 DEF CInv, CTypeOK, Kept, Restricting, Released, CleaningUp, Joined, Limited,
         Over, AfterBarrier, programEnds, childAt, endChild
    <3> QED BY <3>1, <3>2, <3>3, Frame DEF CInv
  <2> QED BY <1>2, <2>1, <2>2, <2>3, <2>4, <2>5 DEF childStep
<1>3. ASSUME NEW k \in Launches, parentStep(k) PROVE CInv'
  <2>1. CASE clone(k)
    <3>1. CTypeOK'
      BY <2>1 DEF CInv, CTypeOK, Both, CgroupFiles, ParentPlaces, AfterBarrier, ChildPlaces, clone, parentAt, childAt, panic
    <3>2. ASSUME NEW l \in Launches, l # k PROVE Undisturbed(l)
      BY <3>2, <2>1 DEF CInv, CTypeOK, Undisturbed, clone, parentAt, childAt, panic
    <3>3. Kept(k)'
      BY <2>1 DEF CInv, CTypeOK, Kept, Restricting, Released, CleaningUp, Joined, Limited,
         Over, AfterBarrier, clone, parentAt, childAt, panic
    <3> QED BY <3>1, <3>2, <3>3, Frame DEF CInv
  <2>2. CASE mkdir(k)
    <3>1. CTypeOK'
      BY <2>2 DEF CInv, CTypeOK, Both, CgroupFiles, ParentPlaces, AfterBarrier, ChildPlaces, mkdir, parentAt, panic
    <3>2. ASSUME NEW l \in Launches, l # k PROVE Undisturbed(l)
      BY <3>2, <2>2 DEF CInv, CTypeOK, Undisturbed, mkdir, parentAt, panic
    <3>3. Kept(k)'
      BY <2>2 DEF CInv, CTypeOK, Kept, Restricting, Released, CleaningUp, Joined, Limited,
         Over, AfterBarrier, mkdir, parentAt, panic
    <3> QED BY <3>1, <3>2, <3>3, Frame DEF CInv
  <2>3. CASE openFiles(k)
    <3>1. CTypeOK'
      BY <2>3 DEF CInv, CTypeOK, Both, CgroupFiles, ParentPlaces, AfterBarrier, ChildPlaces, openFiles, parentAt
    <3>2. ASSUME NEW l \in Launches, l # k PROVE Undisturbed(l)
      BY <3>2, <2>3 DEF CInv, CTypeOK, Undisturbed, openFiles, parentAt
    <3>3. Kept(k)'
      BY <2>3 DEF CInv, CTypeOK, Kept, Restricting, Released, CleaningUp, Joined, Limited,
         Over, AfterBarrier, openFiles, parentAt
    <3> QED BY <3>1, <3>2, <3>3, Frame DEF CInv
  <2>4. CASE writeProcs(k)
    <3>1. CTypeOK'
      BY <2>4 DEF CInv, CTypeOK, Both, CgroupFiles, ParentPlaces, AfterBarrier, ChildPlaces, writeProcs, parentAt, write
    <3>2. ASSUME NEW l \in Launches, l # k PROVE Undisturbed(l)
      BY <3>2, <2>4 DEF CInv, CTypeOK, Undisturbed, writeProcs, parentAt, write
    <3>3. Kept(k)'
      BY <2>4 DEF CInv, CTypeOK, Kept, Restricting, Released, CleaningUp, Joined, Limited,
         Over, AfterBarrier, writeProcs, parentAt, write
    <3> QED BY <3>1, <3>2, <3>3, Frame DEF CInv
  <2>5. CASE writeMax(k)
    <3>1. CTypeOK'
      BY <2>5 DEF CInv, CTypeOK, Both, CgroupFiles, ParentPlaces, AfterBarrier, ChildPlaces, writeMax, parentAt, write
    <3>2. ASSUME NEW l \in Launches, l # k PROVE Undisturbed(l)
      BY <3>2, <2>5 DEF CInv, CTypeOK, Undisturbed, writeMax, parentAt, write
    <3>3. Kept(k)'
      BY <2>5 DEF CInv, CTypeOK, Kept, Restricting, Released, CleaningUp, Joined, Limited,
         Over, AfterBarrier, writeMax, parentAt, write
    <3> QED BY <3>1, <3>2, <3>3, Frame DEF CInv
  <2>6. CASE parentArrives(k)
    <3>1. CTypeOK'
      BY <2>6 DEF CInv, CTypeOK, Both, CgroupFiles, ParentPlaces, AfterBarrier, ChildPlaces, parentArrives, parentAt, arrive
    <3>2. ASSUME NEW l \in Launches, l # k PROVE Undisturbed(l)
      BY <3>2, <2>6 DEF CInv, CTypeOK, Undisturbed, parentArrives, parentAt, arrive
    <3>3. Kept(k)'
      BY <2>6 DEF CInv, CTypeOK, Kept, Restricting, Released, CleaningUp, Joined, Limited,
         Over, AfterBarrier, parentArrives, parentAt, arrive
    <3> QED BY <3>1, <3>2, <3>3, Frame DEF CInv
  <2>7. CASE parentLeaves(k)
    <3>1. CTypeOK'
      BY <2>7 DEF CInv, CTypeOK, Both, CgroupFiles, ParentPlaces, AfterBarrier, ChildPlaces, parentLeaves, parentAt
    <3>2. ASSUME NEW l \in Launches, l # k PROVE Undisturbed(l)
      BY <3>2, <2>7 DEF CInv, CTypeOK, Undisturbed, parentLeaves, parentAt
    <3>3. Kept(k)'
      BY <2>7 DEF CInv, CTypeOK, Kept, Restricting, Released, CleaningUp, Joined, Limited,
         Over, AfterBarrier, parentLeaves, parentAt
    <3> QED BY <3>1, <3>2, <3>3, Frame DEF CInv
  <2>8. CASE barrierDestroy(k)
    <3>1. CTypeOK'
      BY <2>8 DEF CInv, CTypeOK, Both, CgroupFiles, ParentPlaces, AfterBarrier, ChildPlaces, barrierDestroy, parentAt, panic
    <3>2. ASSUME NEW l \in Launches, l # k PROVE Undisturbed(l)
      BY <3>2, <2>8 DEF CInv, CTypeOK, Undisturbed, barrierDestroy, parentAt, panic
    <3>3. Kept(k)'
      BY <2>8 DEF CInv, CTypeOK, Kept, Restricting, Released, CleaningUp, Joined, Limited,
         Over, AfterBarrier, barrierDestroy, parentAt, panic
    <3> QED BY <3>1, <3>2, <3>3, Frame DEF CInv
  <2>9. CASE wait(k)
    <3>1. CTypeOK'
      BY <2>9 DEF CInv, CTypeOK, Both, CgroupFiles, ParentPlaces, AfterBarrier, ChildPlaces, wait, parentAt, childAt
    <3>2. ASSUME NEW l \in Launches, l # k PROVE Undisturbed(l)
      BY <3>2, <2>9 DEF CInv, CTypeOK, Undisturbed, wait, parentAt, childAt
    <3>3. Kept(k)'
      BY <2>9 DEF CInv, CTypeOK, Kept, Restricting, Released, CleaningUp, Joined, Limited,
         Over, AfterBarrier, wait, parentAt, childAt
    <3> QED BY <3>1, <3>2, <3>3, Frame DEF CInv
  <2>10. CASE umount(k)
    <3>1. CTypeOK'
      BY <2>10 DEF CInv, CTypeOK, Both, CgroupFiles, ParentPlaces, AfterBarrier, ChildPlaces, umount, parentAt, panic
    <3>2. ASSUME NEW l \in Launches, l # k PROVE Undisturbed(l)
      BY <3>2, <2>10 DEF CInv, CTypeOK, Undisturbed, umount, parentAt, panic
    <3>3. Kept(k)'
      BY <2>10 DEF CInv, CTypeOK, Kept, Restricting, Released, CleaningUp, Joined, Limited,
         Over, AfterBarrier, umount, parentAt, panic
    <3> QED BY <3>1, <3>2, <3>3, Frame DEF CInv
  <2>11. CASE cleanupCgroups(k)
    <3>1. cgroup' \in [exists : BOOLEAN, procs : SUBSET Launches, max : Launches \union {NoLimit}]
      <4>1. cgroup' = cgroup \/ cgroup' = NoCgroup
        BY <2>11 DEF cleanupCgroups, panic
      <4>2. NoCgroup \in [exists : BOOLEAN, procs : SUBSET Launches, max : Launches \union {NoLimit}]
        BY DEF NoCgroup
      <4> QED BY <4>1, <4>2, Zenon DEF CInv, CTypeOK
    <3>2. files' \in [Launches -> SUBSET CgroupFiles]
      BY <2>11 DEF CInv, CTypeOK, cleanupCgroups, parentAt, panic, NoCgroup
    <3>3. parent' \in [Launches -> ParentPlaces] /\ UNCHANGED <<child, arrived>>
      BY <2>11 DEF CInv, CTypeOK, ParentPlaces, AfterBarrier, cleanupCgroups, parentAt, panic, NoCgroup
    <3>4. CTypeOK'
      BY <3>1, <3>2, <3>3 DEF CInv, CTypeOK
    <3>5. ASSUME NEW l \in Launches, l # k PROVE Undisturbed(l)
      BY <3>5, <2>11 DEF CInv, CTypeOK, Undisturbed, cleanupCgroups, parentAt, panic, NoCgroup
    <3>6. Kept(k)'
      BY <2>11 DEF CInv, CTypeOK, Kept, Restricting, Released, CleaningUp, Joined, Limited,
         Over, AfterBarrier, cleanupCgroups, parentAt, panic, NoCgroup
    <3> QED BY <3>4, <3>5, <3>6, Frame DEF CInv
  <2> QED BY <1>3, <2>1, <2>2, <2>3, <2>4, <2>5, <2>6, <2>7, <2>8, <2>9, <2>10, <2>11
         DEF parentStep, configureCgroups
<1> QED BY <1>1, <1>2, <1>3 DEF Next

\* container.cpp at any number of launches: the inductive invariant.
THEOREM ContainerInvariant == Spec => []CInv
  BY CInitial, CStep, PTL DEF Spec

\* A program runs only when its parent is past configureCgroups, and in the
\* cgroup and under a limit unless a write of its parent was lost.
THEOREM ProgramsAreRestricted == Spec => []RunsRestricted
<1>1. CInv => RunsRestricted
  BY DEF CInv, Kept, RunsRestricted, Restricting, Released, Joined, Limited, Over, AfterBarrier
<1> QED BY <1>1, ContainerInvariant, PTL

\* A parent that returns 0 has reaped its child, which has left the cgroup, and
\* has unmounted its proc.
THEOREM ExitIsClean == Spec => []CleanExit
<1>1. CInv => CleanExit
  BY DEF CInv, Kept, CleanExit, CleaningUp
<1> QED BY <1>1, ContainerInvariant, PTL
=============================================================================
