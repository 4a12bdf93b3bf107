---------------------------- MODULE WorkloadProofs ----------------------------
(***************************************************************************)
(* Theorems about WorkloadResources for every set of Instances, whatever   *)
(* shared resources they use, and every value of the bounds.               *)
(***************************************************************************)
EXTENDS WorkloadResources, WindowProofs, TLAPS

-----------------------------------------------------------------------------
(* Type correctness. *)

StoreType ==
    /\ wl \in Window(WorkloadVersion)
    /\ inst \in [Instances -> Window(InstanceVersion)]
    /\ res \in [Resources -> Window(ResourceVersion)]
    /\ faults \in Nat

WType == wqueue \in BOOLEAN /\ wpc \in WLabels /\ wstale \in BOOLEAN

IType == iqueue \subseteq Instances /\ pc \in Labels /\ key \in Instances

LEMMA TypeParts == TypeOK <=> StoreType /\ WType /\ IType
  BY DEF TypeOK, StoreType, WType, IType, Window

LEMMA ResourceNames ==
    /\ Resources = {"firewall", "sa", "anchor", "secret"}
    /\ \A k \in DOMAIN Stages : Stages[k] \in Resources
  BY DEF Resources, Stages, Range

\* The stages, one by one and by their number.
LEMMA InstanceSteps ==
    InstanceStep <=> \/ LoadOwners \/ CreateRefused \/ UpdateStatus
                     \/ \E k \in DOMAIN Stages : Ensure(k)
<1>1. DOMAIN Stages = {1, 2} \cup {3, 4}
  BY DEF Stages
<1> QED
  BY <1>1 DEF InstanceStep, EnsureFirewalls, EnsureServiceAccount, EnsureSecrets

LEMMA StoredVersions ==
    ASSUME StoreType
    PROVE  /\ Current(wl) \in WorkloadVersion /\ Cached(wl) \in WorkloadVersion
           /\ \A i \in Instances : Current(inst[i]) \in InstanceVersion
           /\ \A x \in Resources : Current(res[x]) \in ResourceVersion
  BY RelistWindow DEF StoreType

\* The versions that are written are versions.
LEMMA WorkloadVersions ==
    ASSUME NEW v \in WorkloadVersion
    PROVE  /\ \A F \in SUBSET {gcpInfraFinalizer} : [v EXCEPT !.fins = F] \in WorkloadVersion
           /\ Settled(v) \in WorkloadVersion /\ AfterDelete(v) \in WorkloadVersion
  BY DEF WorkloadVersion, Settled, AfterDelete, Phases

LEMMA InstanceVersions ==
    ASSUME NEW v \in InstanceVersion
    PROVE  /\ [v EXCEPT !.phase = "gone"] \in InstanceVersion
           /\ [v EXCEPT !.rev = 1 - @] \in InstanceVersion
  BY DEF InstanceVersion, Phases

LEMMA ResourceVersions ==
    /\ NoResource \in ResourceVersion /\ [phase |-> "live"] \in ResourceVersion
    /\ \A x \in Resources, v \in ResourceVersion : Deleted(x, v) \in ResourceVersion
  BY DEF NoResource, ResourceVersion, Deleted

LEMMA FirstVersions ==
    /\ NoWorkload \in WorkloadVersion /\ NoInstance \in InstanceVersion
    /\ [NoWorkload EXCEPT !.phase = "live"] \in WorkloadVersion
    /\ [NoInstance EXCEPT !.phase = "live"] \in InstanceVersion
    /\ [NoInstance EXCEPT !.phase = "deleting"] \in InstanceVersion
  BY DEF NoWorkload, NoInstance, WorkloadVersion, InstanceVersion, Phases

\* A write changes one window and leaves the others.
LEMMA WriteWlType ==
    ASSUME StoreType, NEW v \in WorkloadVersion, WriteWl(v)
    PROVE  wl' \in Window(WorkloadVersion) /\ Current(wl') = v
  BY WriteWindow DEF StoreType, WriteWl

LEMMA WriteInstType ==
    ASSUME StoreType, NEW i \in Instances, NEW v \in InstanceVersion, WriteInst(i, v)
    PROVE  inst' \in [Instances -> Window(InstanceVersion)]
<1>1. Write(inst[i], v) \in Window(InstanceVersion)
  BY WriteWindow DEF StoreType
<1> QED
  BY <1>1 DEF StoreType, WriteInst

LEMMA WriteResType ==
    ASSUME StoreType, NEW x \in Resources, NEW v \in ResourceVersion, WriteRes(x, v)
    PROVE  /\ res' \in [Resources -> Window(ResourceVersion)]
           /\ Current(res'[x]) = v
           /\ \A y \in Resources : y # x => res'[y] = res[y]
<1>1. Write(res[x], v) \in Window(ResourceVersion) /\ Current(Write(res[x], v)) = v
  BY WriteWindow DEF StoreType
<1>2. res' = [res EXCEPT ![x] = Write(res[x], v)]
  BY DEF WriteRes
<1> QED
  BY <1>1, <1>2 DEF StoreType

LEMMA WWorkerMoves ==
    ASSUME WType
    PROVE  /\ \A e : WReturn(e) => WType'
           /\ \A l \in WLabels : WGoto(l) => WType'
           /\ \A l \in WLabels : WLoad(l) => WType'
<1>1. ASSUME NEW e, WReturn(e) PROVE WType'
  <2>1. (wqueue \/ e = "error") \in BOOLEAN /\ "idle" \in WLabels
    BY DEF WLabels
  <2> QED
    BY <1>1, <2>1 DEF WType, WReturn, WIdle
<1>2. ASSUME NEW l \in WLabels, WLoad(l) PROVE WType'
  <2>1. Undelivered(wl) \in BOOLEAN
    BY DEF Undelivered
  <2> QED
    BY <1>2, <2>1 DEF WType, WLoad
<1>3. ASSUME NEW l \in WLabels, WGoto(l) PROVE WType'
  BY <1>3 DEF WType, WGoto
<1> QED
  BY <1>1, <1>2, <1>3

LEMMA IWorkerMoves ==
    ASSUME IType
    PROVE  /\ \A e : Return(e) => IType'
           /\ \A l \in Labels : Goto(l) => IType'
<1>1. "idle" \in Labels
  BY DEF Labels
<1> QED
  BY <1>1 DEF IType, Return, Goto

LEMMA InitType == Init => TypeOK
<1> SUFFICES ASSUME Init PROVE StoreType /\ WType /\ IType
  BY TypeParts
<1>1. StoreType
  <2>1. faults \in Nat
    BY DEF Init
  <2> QED
    BY <2>1, FirstVersions, ResourceVersions, OneVersion DEF Init, StoreType
<1>2. WType /\ IType
  BY DEF Init, WType, WLabels, IType, Labels
<1> QED
  BY <1>1, <1>2

\* One step keeps every variable in its type.
LEMMA NextType == TypeOK /\ [Next]_vars => TypeOK'
<1> SUFFICES ASSUME StoreType, WType, IType, [Next]_vars
             PROVE  StoreType' /\ WType' /\ IType'
  BY DEF TypeOK, StoreType, WType, IType, Window
<1>1. /\ Current(wl) \in WorkloadVersion
      /\ \A i \in Instances : Current(inst[i]) \in InstanceVersion
      /\ \A x \in Resources : Current(res[x]) \in ResourceVersion
      /\ key \in Instances
  BY StoredVersions DEF IType
<1>2. /\ {"anchor", "sa", "secret", "firewall", "addFinalizer", "removeFinalizer"} \subseteq WLabels
      /\ {"owners", "updateStatus"} \subseteq Labels /\ Resources \subseteq Labels
      /\ {"anchor", "sa", "secret", "firewall"} \subseteq Resources
  BY ResourceNames DEF WLabels, Labels
<1>3. Fault => faults' \in Nat
  BY DEF Fault, StoreType
\* The InstanceReconciler.
<1>4. ASSUME NEW i \in Instances, InstanceWorker(i)
      PROVE  StoreType' /\ WType' /\ IType'
  <2>1. CASE ReconcileSkips(i)
    BY <2>1 DEF ReconcileSkips, StoreType, WType, IType, apiVars, wWork, iWork
  <2>2. CASE FinalizesInstance(i)
    <3>1. inst' \in [Instances -> Window(InstanceVersion)]
      BY <1>1, <2>2, InstanceVersions, WriteInstType DEF FinalizesInstance
    <3> QED
      BY <2>2, <3>1 DEF FinalizesInstance, StoreType, WType, IType, wWork, iWork
  <2>3. CASE ReconcileProvisions(i)
    BY <1>2, <2>3 DEF ReconcileProvisions, StoreType, WType, IType, apiVars, wWork
  <2> QED
    BY <1>4, <2>1, <2>2, <2>3 DEF InstanceWorker
<1>5. CASE LoadOwners
  <2>1. (\E k \in After(0) : Goto(Stages[k])) \/ Return("error")
    BY <1>5 DEF LoadOwners
  <2>2. \A k \in After(0) : Stages[k] \in Labels
    BY <1>2, ResourceNames DEF After
  <2>3. IType'
    BY <2>1, <2>2, IWorkerMoves
  <2> QED
    BY <1>5, <2>3 DEF LoadOwners, StoreType, WType, apiVars, wWork
<1>6. ASSUME NEW k \in DOMAIN Stages, Ensure(k)
      PROVE  StoreType' /\ WType' /\ IType'
  <2>1. res' \in [Resources -> Window(ResourceVersion)]
    BY <1>6, ResourceNames, ResourceVersions, WriteResType DEF Ensure, StoreType
  <2>2. Proceed(k)
    BY <1>6 DEF Ensure
  <2>3. \A j \in After(k) : Stages[j] \in Labels
    BY <1>2, ResourceNames DEF After
  <2>4. IType'
    BY <1>2, <2>2, <2>3, IWorkerMoves DEF Proceed
  <2> QED
    BY <1>6, <2>1, <2>4 DEF Ensure, StoreType, WType, wWork
<1>7. CASE CreateRefused
  BY <1>2, <1>7, IWorkerMoves DEF CreateRefused, StoreType, WType, apiVars, wWork
<1>8. CASE UpdateStatus
  <2>1. inst' \in [Instances -> Window(InstanceVersion)]
    BY <1>1, <1>8, InstanceVersions, WriteInstType DEF UpdateStatus, StoreType
  <2>2. IType'
    BY <1>8, IWorkerMoves DEF UpdateStatus
  <2> QED
    BY <1>8, <2>1, <2>2 DEF UpdateStatus, StoreType, WType, wWork
<1>9. CASE CallFails
  <2>1. IType'
    BY <1>2, <1>9, IWorkerMoves DEF CallFails
  <2> QED
    BY <1>3, <1>9, <2>1 DEF CallFails, StoreType, WType, apiVars, wWork
\* The WorkloadReconciler.
<1>10. CASE WorkloadSkips
  BY <1>10 DEF WorkloadSkips, StoreType, WType, IType, apiVars, wWork, iWork
<1>11. CASE WorkloadAddsFinalizer \/ WorkloadFinalizes
  <2>1. PICK l \in WLabels : WLoad(l)
    BY <1>2, <1>11 DEF WorkloadAddsFinalizer, WorkloadFinalizes
  <2> QED
    BY <2>1, WWorkerMoves DEF WLoad, StoreType, IType, apiVars, iWork
\* A deletion stores what Delete leaves, or nothing.
<1>12. ASSUME NEW x \in Resources,
              WriteRes(x, Deleted(x, Current(res[x]))) \/ UNCHANGED res
       PROVE  res' \in [Resources -> Window(ResourceVersion)]
  <2> DEFINE v == Deleted(x, Current(res[x]))
  <2>1. v \in ResourceVersion /\ (WriteRes(x, v) \/ UNCHANGED res)
    BY <1>1, <1>12, ResourceVersions
  <2> HIDE DEF v
  <2> QED
    BY <2>1, WriteResType DEF StoreType
<1>13. CASE DeleteAnchor
  <2>1. res' \in [Resources -> Window(ResourceVersion)]
    BY <1>2, <1>12, <1>13 DEF DeleteAnchor
  <2>2. WType'
    BY <1>2, <1>13, WWorkerMoves DEF DeleteAnchor
  <2> QED
    BY <1>13, <2>1, <2>2 DEF DeleteAnchor, StoreType, IType, iWork
<1>14. ASSUME NEW x \in Resources, NEW l \in WLabels, DeleteByName(x, l)
       PROVE  StoreType' /\ WType' /\ IType'
  <2>1. res' \in [Resources -> Window(ResourceVersion)]
    BY <1>12, <1>14 DEF DeleteByName
  <2>2. WType'
    BY <1>14, WWorkerMoves DEF DeleteByName
  <2> QED
    BY <1>14, <2>1, <2>2 DEF DeleteByName, StoreType, IType, iWork
<1>15. CASE DeleteFirewalls
  <2>1. res' \in [Resources -> Window(ResourceVersion)]
    BY <1>2, <1>12, <1>15 DEF DeleteFirewalls
  <2>2. WType'
    BY <1>2, <1>15, WWorkerMoves DEF DeleteFirewalls
  <2> QED
    BY <1>15, <2>1, <2>2 DEF DeleteFirewalls, StoreType, IType, iWork
<1>16. CASE WorkloadUpdate
  <2>1. wl' \in Window(WorkloadVersion)
    <3> DEFINE F == IF wpc = "addFinalizer" THEN {gcpInfraFinalizer} ELSE {}
               v == Settled([Current(wl) EXCEPT !.fins = F])
    <3>1. [Current(wl) EXCEPT !.fins = F] \in WorkloadVersion
      BY <1>1 DEF WorkloadVersion
    <3>2. v \in WorkloadVersion
      BY <3>1, WorkloadVersions
    <3>3. WriteWl(v) \/ UNCHANGED wl
      BY <1>16 DEF WorkloadUpdate
    <3> HIDE DEF v
    <3> QED
      BY <3>2, <3>3, WriteWlType DEF StoreType
  <2>2. WType'
    BY <1>16, WWorkerMoves DEF WorkloadUpdate
  <2> QED
    BY <1>16, <2>1, <2>2 DEF WorkloadUpdate, StoreType, IType, iWork
<1>17. CASE WorkloadCallFails
  BY <1>3, <1>17, WWorkerMoves DEF WorkloadCallFails, StoreType, IType, apiVars, iWork
\* Everything else.
<1>18. CASE Restart
  <2>1. /\ wl' \in Window(WorkloadVersion)
        /\ inst' \in [Instances -> Window(InstanceVersion)]
        /\ res' \in [Resources -> Window(ResourceVersion)]
    BY <1>18, RelistWindow DEF Restart, StoreType
  <2>2. WType'
    BY <1>18 DEF Restart, WIdle, WType, WLabels
  <2>3. IType'
    BY <1>18 DEF Restart, IType, Labels
  <2> QED
    BY <1>3, <1>18, <2>1, <2>2, <2>3 DEF Restart, StoreType
<1>19. CASE DeliverWorkload
  BY <1>19, TailWindow DEF DeliverWorkload, StoreType, WType, IType, wWork, iWork
<1>20. ASSUME NEW i \in Instances, DeliverInstance(i)
       PROVE  StoreType' /\ WType' /\ IType'
  <2>1. inst' \in [Instances -> Window(InstanceVersion)]
    BY <1>20, TailWindow DEF DeliverInstance, StoreType
  <2> QED
    BY <1>20, <2>1 DEF DeliverInstance, StoreType, WType, IType, wWork, iWork
<1>21. ASSUME NEW i \in Instances, DeliverInstanceDropped(i)
       PROVE  StoreType' /\ WType' /\ IType'
  <2>1. inst' \in [Instances -> Window(InstanceVersion)]
    BY <1>21, TailWindow DEF DeliverInstanceDropped, StoreType
  <2> QED
    BY <1>3, <1>21, <2>1 DEF DeliverInstanceDropped, StoreType, WType, IType, wWork, iWork
<1>22. ASSUME NEW x \in Resources, DeliverResource(x)
       PROVE  StoreType' /\ WType' /\ IType'
  <2>1. res' \in [Resources -> Window(ResourceVersion)]
    BY <1>22, TailWindow DEF DeliverResource, StoreType
  <2> QED
    BY <1>22, <2>1 DEF DeliverResource, StoreType, WType, IType, wWork, iWork
<1>23. CASE CreateWorkload \/ DeleteWorkload
  <2>1. PICK v \in WorkloadVersion : StoreWl(v)
    BY <1>1, <1>23, FirstVersions, WorkloadVersions DEF CreateWorkload, DeleteWorkload
  <2>2. wl' \in Window(WorkloadVersion)
    BY <2>1, WriteWlType DEF StoreWl
  <2>3. wstale' \in BOOLEAN
    BY <2>1 DEF StoreWl, WType
  <2> QED
    BY <2>1, <2>2, <2>3 DEF StoreWl, StoreType, WType, IType, iWork
<1>24. ASSUME NEW i \in Instances, CreateInstance(i) \/ DeleteInstance(i)
       PROVE  StoreType' /\ WType' /\ IType'
  <2>1. PICK v \in InstanceVersion : StoreInst(i, v)
    BY <1>24, FirstVersions DEF CreateInstance, DeleteInstance
  <2>2. inst' \in [Instances -> Window(InstanceVersion)]
    BY <2>1, WriteInstType DEF StoreInst
  <2> QED
    BY <2>1, <2>2 DEF StoreInst, StoreType, WType, IType, wWork, iWork
<1>25. ASSUME NEW x \in Resources, XPReleases(x)
       PROVE  StoreType' /\ WType' /\ IType'
  <2>1. res' \in [Resources -> Window(ResourceVersion)]
    BY <1>25, ResourceVersions, WriteResType DEF XPReleases, StoreRes
  <2> QED
    BY <1>25, <2>1 DEF XPReleases, StoreRes, StoreType, WType, IType, wWork, iWork
<1>26. CASE UNCHANGED vars
  BY <1>26 DEF vars, StoreType, WType, IType, apiVars, wWork, iWork
<1> QED
  BY <1>2, <1>4, <1>5, <1>6, <1>7, <1>8, <1>9, <1>10, <1>11, <1>13, <1>14, <1>15, <1>16, <1>17,
     InstanceSteps, <1>18, <1>19, <1>20, <1>21, <1>22, <1>23, <1>24, <1>25, <1>26
  DEF Next, WorkloadWorker

\* Every variable keeps its type in every behaviour of the two reconcilers,
\* their informers, the users and Crossplane.
THEOREM TypeCorrect == Spec => []TypeOK
  BY InitType, NextType, PTL DEF Spec
-----------------------------------------------------------------------------
(* The WorkloadReconciler: when the shared resources are torn down. *)

\* Where the WorkloadReconciler is while it deletes.
Finalizing == {"anchor", "sa", "secret", "firewall", "removeFinalizer"}

\* It finalizes because a read of the cache found the Workload being deleted,
\* and a Workload being deleted is not taken back.
EarlyInv ==
    /\ Ordered(wl)
    /\ wpc \in Finalizing => Current(wl).phase \in Leaving

LEMMA VersionPhases == \A v \in WorkloadVersion : v.phase \in Phases
  BY DEF WorkloadVersion

\* The phase of the Workload only advances.
WlAdvances == Ordered(wl') /\ Current(wl').phase \in Leads(Current(wl).phase)

LEMMA WlWrite ==
    ASSUME StoreType, Ordered(wl), NEW v \in WorkloadVersion, WriteWl(v),
           v.phase \in Leads(Current(wl).phase)
    PROVE  WlAdvances
<1>1. wl \in Window(WorkloadVersion) /\ wl' = Write(wl, v)
  BY DEF StoreType, WriteWl
<1>2. Ordered(wl') /\ Current(wl') = v
  BY <1>1, OrderedWrite, VersionPhases, WriteWindow
<1> QED
  BY <1>2 DEF WlAdvances

LEMMA WlStep == TypeOK /\ Ordered(wl) /\ [Next]_vars => WlAdvances
<1> SUFFICES ASSUME StoreType, Ordered(wl), [Next]_vars PROVE WlAdvances
  BY TypeParts
<1> DEFINE c == Current(wl)
<1>1. /\ wl \in Window(WorkloadVersion) /\ c \in WorkloadVersion /\ c.phase \in Phases
      /\ c.phase \in Leads(c.phase)
  BY StoredVersions, VersionPhases, LeadsOrder DEF StoreType
<1>2. CASE UNCHANGED wl
  BY <1>1, <1>2 DEF WlAdvances
<1>3. CASE WorkloadUpdate
  <2> DEFINE F == IF wpc = "addFinalizer" THEN {gcpInfraFinalizer} ELSE {}
             v == Settled([c EXCEPT !.fins = F])
  <2>1. [c EXCEPT !.fins = F] \in WorkloadVersion /\ [c EXCEPT !.fins = F].phase = c.phase
    BY <1>1 DEF WorkloadVersion
  <2>2. v \in WorkloadVersion
    BY <2>1, WorkloadVersions
  <2>3. v.phase \in Leads(c.phase)
    <3>1. v.phase = c.phase \/ (c.phase = "deleting" /\ v.phase = "gone")
      BY <1>1, <2>1 DEF Settled, WorkloadVersion
    <3> QED
      BY <1>1, <3>1, LeadsOrder
  <2>4. WriteWl(v) \/ UNCHANGED wl
    BY <1>3 DEF WorkloadUpdate
  <2> HIDE DEF v
  <2> QED
    BY <1>2, <2>2, <2>3, <2>4, WlWrite
<1>4. CASE CreateWorkload
  <2>1. /\ "live" \in Leads("none") /\ [NoWorkload EXCEPT !.phase = "live"].phase = "live"
    BY DEF Leads, Phases, NoWorkload
  <2> QED
    BY <1>4, <2>1, FirstVersions, WlWrite DEF CreateWorkload, StoreWl
<1>5. CASE DeleteWorkload
  <2> DEFINE v == AfterDelete(c)
  <2>1. v \in WorkloadVersion /\ v.phase \in {"deleting", "gone"}
    BY <1>1, WorkloadVersions DEF AfterDelete, Settled, WorkloadVersion
  <2>2. WriteWl(v) /\ c.phase = "live"
    BY <1>5 DEF DeleteWorkload, StoreWl
  <2>3. v.phase \in Leads(c.phase)
    BY <1>1, <2>1, <2>2, LeadsOrder
  <2> HIDE DEF v
  <2> QED
    BY <2>1, <2>2, <2>3, WlWrite
<1>6. CASE Restart
  <2>1. wl' = <<c>> /\ Current(<<c>>) = c
    BY <1>6, OneVersion DEF Restart
  <2>2. Ordered(<<c>>)
    BY <1>1, OrderedRelist, VersionPhases
  <2> QED
    BY <1>1, <2>1, <2>2 DEF WlAdvances
<1>7. CASE DeliverWorkload
  <2>1. Undelivered(wl) /\ wl' = Tail(wl)
    BY <1>7 DEF DeliverWorkload
  <2>2. Ordered(Tail(wl)) /\ Current(Tail(wl)) = c
    BY <1>1, <2>1, OrderedTail, TailWindow
  <2> QED
    BY <1>1, <2>1, <2>2 DEF WlAdvances
<1>8. CASE InstanceStep \/ CallFails \/ WorkloadCallFails \/ UNCHANGED vars
  <2>1. UNCHANGED wl
    BY <1>8, InstanceSteps DEF LoadOwners, CreateRefused, UpdateStatus, Ensure, CallFails,
                WorkloadCallFails, vars, apiVars
  <2> QED
    BY <1>2, <2>1
<1>9. CASE WorkloadWorker /\ ~WorkloadUpdate
  <2>1. UNCHANGED wl
    BY <1>9 DEF WorkloadWorker, WorkloadSkips, WorkloadAddsFinalizer, WorkloadFinalizes, WLoad,
                DeleteAnchor, DeleteByName, DeleteFirewalls, apiVars
  <2> QED
    BY <1>2, <2>1
<1>10. ASSUME NEW i \in Instances,
              \/ InstanceWorker(i) \/ DeliverInstance(i) \/ DeliverInstanceDropped(i)
              \/ CreateInstance(i) \/ DeleteInstance(i)
       PROVE  WlAdvances
  <2>1. UNCHANGED wl
    BY <1>10 DEF InstanceWorker, ReconcileSkips, FinalizesInstance, ReconcileProvisions,
                 DeliverInstance, DeliverInstanceDropped, CreateInstance, DeleteInstance,
                 StoreInst, apiVars
  <2> QED
    BY <1>2, <2>1
<1>11. ASSUME NEW x \in Resources, DeliverResource(x) \/ XPReleases(x) PROVE WlAdvances
  <2>1. UNCHANGED wl
    BY <1>11 DEF DeliverResource, XPReleases, StoreRes
  <2> QED
    BY <1>2, <2>1
<1> QED
  BY <1>3, <1>4, <1>5, <1>6, <1>7, <1>8, <1>9, <1>10, <1>11 DEF Next

LEMMA InitEarly == Init => EarlyInv
<1> SUFFICES ASSUME Init PROVE EarlyInv
  OBVIOUS
<1>1. Current(wl) = NoWorkload /\ \A n \in 1..Len(wl) : wl[n] = NoWorkload
  BY OneVersion DEF Init
<1>2. NoWorkload.phase \in Leads(NoWorkload.phase)
  BY DEF NoWorkload, Leads, Phases
<1> QED
  BY <1>1, <1>2 DEF EarlyInv, Ordered, Init, Finalizing

LEMMA NextEarly == TypeOK /\ EarlyInv /\ [Next]_vars => EarlyInv'
<1> SUFFICES ASSUME TypeOK, EarlyInv, [Next]_vars PROVE EarlyInv'
  OBVIOUS
<1>1. StoreType /\ Ordered(wl)
  BY TypeParts DEF EarlyInv
\* Once the Workload is on its way out it stays so.
<1>2. Ordered(wl') /\ (Current(wl).phase \in Leaving => Current(wl').phase \in Leaving)
  BY <1>1, WlStep, LeavingLeads DEF WlAdvances
<1>3. CASE wpc \in Finalizing
  BY <1>2, <1>3 DEF EarlyInv
<1>4. CASE WorkloadFinalizes
  <2>1. 1 \in 1..Len(wl) /\ Len(wl) \in 1..Len(wl) /\ 1 <= Len(wl)
    BY <1>1, RelistWindow DEF StoreType, Window
  <2>2. Current(wl).phase \in Leads("deleting")
    BY <1>1, <1>4, <2>1 DEF WorkloadFinalizes, Ordered, Cached, Current
  <2>3. Current(wl).phase \in Leaving
    BY <2>2 DEF Leads, Leaving
  <2> QED
    BY <1>2, <2>3 DEF EarlyInv
<1>5. CASE wpc \notin Finalizing /\ ~WorkloadFinalizes
  <2>1. wpc' \notin Finalizing
    BY <1>5, InstanceSteps
    DEF Finalizing, Next, LoadOwners, CreateRefused, UpdateStatus, Ensure,
        CallFails, WorkloadWorker, WorkloadSkips, WorkloadAddsFinalizer, WLoad, DeleteAnchor,
        DeleteByName, DeleteFirewalls, WorkloadUpdate, WReturn, WIdle, WorkloadCallFails,
        Restart, DeliverWorkload, CreateWorkload, DeleteWorkload, StoreWl, InstanceWorker,
        ReconcileSkips, FinalizesInstance, ReconcileProvisions, DeliverInstance,
        DeliverInstanceDropped, CreateInstance, DeleteInstance, StoreInst, DeliverResource,
        XPReleases, StoreRes, vars, wWork
  <2> QED
    BY <1>2, <2>1 DEF EarlyInv
<1> QED
  BY <1>3, <1>4, <1>5

\* What takes a resource from the server: a step of the WorkloadReconciler that
\* deletes, or Crossplane, which lets go of what is being deleted already.
LEMMA StepDeletes ==
    ASSUME TypeOK, EarlyInv, [Next]_vars, NEW x \in Resources,
           Current(res[x]).phase = "live", Current(res'[x]).phase # "live"
    PROVE  Current(wl).phase \in {"deleting", "gone"}
<1>1. StoreType /\ res \in [Resources -> Window(ResourceVersion)] /\ key \in Instances
  BY TypeParts DEF StoreType, IType
<1>2. SUFFICES wpc \in Finalizing
  BY DEF EarlyInv, Leaving
<1>3. \A y \in Resources : <<Current(res[y])>> \in Window(ResourceVersion)
                           /\ Current(<<Current(res[y])>>) = Current(res[y])
  BY <1>1, RelistWindow
<1>4. CASE UNCHANGED res
  BY <1>4
<1>5. ASSUME NEW k \in DOMAIN Stages, Ensure(k) PROVE wpc \in Finalizing
  <2> DEFINE y == Stages[k]
             v == [phase |-> "live"]
  <2>1. y \in Resources /\ v \in ResourceVersion /\ v.phase = "live"
    BY ResourceNames, ResourceVersions
  <2>2. WriteRes(y, v) \/ UNCHANGED res
    BY <1>5 DEF Ensure
  <2> HIDE DEF y, v
  <2> QED
    BY <1>1, <1>4, <2>1, <2>2, WriteResType
<1>6. ASSUME NEW y \in Resources, XPReleases(y) PROVE wpc \in Finalizing
  <2>1. NoResource \in ResourceVersion /\ WriteRes(y, NoResource)
    BY <1>6, ResourceVersions DEF XPReleases, StoreRes
  <2>2. y # x
    BY <1>6 DEF XPReleases
  <2> QED
    BY <1>1, <2>1, <2>2, WriteResType
<1>7. CASE Restart
  BY <1>1, <1>3, <1>7 DEF Restart
<1>8. ASSUME NEW y \in Resources, DeliverResource(y) PROVE wpc \in Finalizing
  <2>1. res' = [res EXCEPT ![y] = Tail(@)] /\ Undelivered(res[y])
    BY <1>8 DEF DeliverResource
  <2>2. Current(Tail(res[y])) = Current(res[y])
    BY <1>1, <2>1, TailWindow
  <2> QED
    BY <1>1, <2>1, <2>2
<1>9. CASE DeleteAnchor \/ DeleteByName("sa", "secret") \/ DeleteByName("secret", "firewall")
           \/ DeleteFirewalls
  BY <1>9 DEF DeleteAnchor, DeleteByName, DeleteFirewalls, Finalizing
<1>10. CASE InstanceStep /\ ~\E k \in DOMAIN Stages : Ensure(k)
  BY <1>4, <1>10, InstanceSteps DEF LoadOwners, CreateRefused, UpdateStatus, apiVars
<1>11. CASE \/ CallFails \/ WorkloadCallFails \/ DeliverWorkload \/ CreateWorkload
            \/ DeleteWorkload \/ UNCHANGED vars
  BY <1>4, <1>11 DEF CallFails, WorkloadCallFails, DeliverWorkload, CreateWorkload,
                     DeleteWorkload, StoreWl, vars, apiVars
<1>12. CASE WorkloadSkips \/ WorkloadAddsFinalizer \/ WorkloadFinalizes \/ WorkloadUpdate
  BY <1>4, <1>12 DEF WorkloadSkips, WorkloadAddsFinalizer, WorkloadFinalizes, WLoad,
                     WorkloadUpdate, apiVars
<1>13. ASSUME NEW i \in Instances,
              \/ InstanceWorker(i) \/ DeliverInstance(i) \/ DeliverInstanceDropped(i)
              \/ CreateInstance(i) \/ DeleteInstance(i)
       PROVE  wpc \in Finalizing
  BY <1>4, <1>13 DEF InstanceWorker, ReconcileSkips, FinalizesInstance, ReconcileProvisions,
                     DeliverInstance, DeliverInstanceDropped, CreateInstance, DeleteInstance,
                     StoreInst, apiVars
<1> QED
  BY <1>5, <1>6, <1>7, <1>8, <1>9, <1>10, <1>11, <1>12, <1>13 DEF Next, WorkloadWorker

\* The firewall, the service account, the anchor and the secret of a Workload
\* are taken down only when its deletion has been stored: the reconciler
\* decides by a cache that may lag, but not about something that is undone.
THEOREM NeverDeletedEarlyHolds == Spec => NeverDeletedEarly
<1>1. Init => TypeOK /\ EarlyInv
  BY InitType, InitEarly
<1>2. TypeOK /\ EarlyInv /\ [Next]_vars => (TypeOK /\ EarlyInv)'
  BY NextType, NextEarly
<1>3. TypeOK /\ EarlyInv /\ [Next]_vars =>
         [\A x \in Resources :
             Current(res[x]).phase = "live" /\ Current(res'[x]).phase # "live"
                 => Current(wl).phase \in {"deleting", "gone"}]_vars
  BY StepDeletes
<1> QED
  BY <1>1, <1>2, <1>3, PTL DEF Spec, NeverDeletedEarly
=============================================================================
