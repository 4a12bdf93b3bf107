---------------------------- MODULE InstanceProofs ----------------------------
(***************************************************************************)
(* Theorems about InstanceController for every set of Instances and every  *)
(* value of the bounds.                                                    *)
(***************************************************************************)
EXTENDS InstanceRefinement, WindowProofs, TLAPS

-----------------------------------------------------------------------------
(* The inductive invariant. *)

Claims(v) == v.phase = "live" /\ GCPFinalizer \in v.fins

\* What the stored objects keep to.
StoredInv ==
    \A i \in Instances :
        /\ Ordered(up[i])
        /\ Ordered(dn[i])
        \* A cached version that lets a reconcile provision is no illusion.
        /\ \A n \in 1..Len(up[i]) : Claims(up[i][n]) => Held(i)
        /\ \A n \in 1..Len(dn[i]) : Exists(dn[i][n]) => GCPFinalizer \in dn[i][n].fins
        \* A GCP Instance goes only for an Instance known to be leaving.
        /\ Current(dn[i]).phase = "gone" =>
              \A n \in 1..Len(up[i]) : up[i][n].phase \in Leaving

Building == {"owners"} \cup Provisioning

\* What the worker knows in each place.
WorkerInv ==
    /\ pc # "idle" /\ "inst" \notin stale =>
          inst.phase = Current(up[key]).phase /\ inst.fins = Current(up[key]).fins
    /\ pc = "addFinalizer" => inst.phase = "live"
    /\ pc \in Building =>
          Claims(inst) /\ Held(key) /\ Current(dn[key]).phase # "gone"
    /\ pc \in Finalizing =>
          inst.phase = "deleting" /\ \A n \in 1..Len(up[key]) : up[key][n].phase \in Leaving
    /\ Exists(gcp) => GCPFinalizer \in gcp.fins
    /\ pc \in {"createOrPatch", "retryCreate", "fzDelete", "fzRelease"} /\ "gcp" \notin stale =>
          gcp = Current(dn[key])
    /\ pc = "fzDelete" => gcp.phase = "live"
    /\ pc = "fzRelease" =>
          XPFinalizer \notin gcp.fins /\ (gcp.phase = "live" => "gcp" \in stale)

SafeInv == TypeOK /\ StoredInv /\ WorkerInv /\ MachineOnRecord

\* A GCP Instance that Finalize has seen is gone when the Instance is let go.
SeenInv == pc = "fzRemove" /\ Exists(gcp) => ~Exists(Current(dn[key]))

-----------------------------------------------------------------------------
(* Type correctness. *)

\* The part of TypeOK the servers hold, and the part the worker holds.
StoreType ==
    /\ up \in [Instances -> Window(UpVersion)]
    /\ dn \in [Instances -> Window(DnVersion)]
    /\ readyAt \in [Instances -> SUBSET Nat]

EnvType ==
    /\ vm \in [Instances -> Statuses \cup {"absent"}]
    /\ loc \in {"ours", "foreign", "missing"}
    /\ prereq \in [Instances -> {"unprepared", "waiting", "failed", "ready"}]
    /\ faults \in Nat

WorkType ==
    /\ queue \subseteq Instances /\ key \in Instances
    /\ pc \in Labels
    /\ inst \in UpVersion /\ gcp \in DnVersion /\ stale \subseteq {"inst", "gcp"}
    /\ cond \in ProgReasons /\ err \in {"ok", "error"}

LEMMA TypeParts == TypeOK <=> StoreType /\ EnvType /\ WorkType
  BY DEF TypeOK, StoreType, EnvType, WorkType, Window

\* WriteUp and WriteDn keep the windows well formed.
LEMMA WriteUpType ==
    ASSUME StoreType, NEW i \in Instances, NEW v \in UpVersion, WriteUp(i, v)
    PROVE  /\ up' \in [Instances -> Window(UpVersion)]
           /\ up'[i] = Write(up[i], v)
           /\ \A j \in Instances : j # i => up'[j] = up[j]
<1>1. Write(up[i], v) \in Window(UpVersion)
  BY WriteWindow DEF StoreType
<1> QED
  BY <1>1 DEF StoreType, WriteUp

LEMMA WriteDnType ==
    ASSUME StoreType, NEW i \in Instances, NEW v \in DnVersion, WriteDn(i, v)
    PROVE  /\ dn' \in [Instances -> Window(DnVersion)]
           /\ dn'[i] = Write(dn[i], v)
           /\ \A j \in Instances : j # i => dn'[j] = dn[j]
<1>1. Write(dn[i], v) \in Window(DnVersion)
  BY WriteWindow DEF StoreType
<1> QED
  BY <1>1 DEF StoreType, WriteDn

LEMMA StoredVersions ==
    ASSUME StoreType, NEW i \in Instances
    PROVE  /\ Current(up[i]) \in UpVersion /\ Cached(up[i]) \in UpVersion
           /\ Current(dn[i]) \in DnVersion /\ Cached(dn[i]) \in DnVersion
  BY RelistWindow DEF StoreType

\* The versions the reconcile writes are versions.
LEMMA VersionTypes ==
    ASSUME NEW v \in UpVersion, NEW d \in DnVersion
    PROVE  /\ \A F \in SUBSET Finalizers : [v EXCEPT !.fins = F] \in UpVersion
           /\ \A p \in Phases : [v EXCEPT !.phase = p] \in UpVersion
           /\ \A r \in RunReasons : [v EXCEPT !.run = r, !.rgen = v.gen] \in UpVersion
           /\ \A c \in ProgReasons : [v EXCEPT !.prog = c, !.pgen = v.gen] \in UpVersion
           /\ [v EXCEPT !.observed = v.gen] \in UpVersion
           /\ \A F \in SUBSET Finalizers : [d EXCEPT !.fins = F] \in DnVersion
           /\ \A p \in Phases : [d EXCEPT !.phase = p] \in DnVersion
  BY DEF UpVersion, DnVersion

LEMMA SettledType ==
    ASSUME NEW v, v \in UpVersion \/ v \in DnVersion
    PROVE  /\ v \in UpVersion => Settled(v) \in UpVersion /\ AfterDelete(v) \in UpVersion
           /\ v \in DnVersion => Settled(v) \in DnVersion /\ AfterDelete(v) \in DnVersion
  BY DEF UpVersion, DnVersion, Settled, AfterDelete, Phases

LEMMA PowerType ==
    ASSUME NEW v \in UpVersion, NEW c
    PROVE  WithPower(v, c) \in UpVersion
<1>1. RunningReason(v.phase, c) \in RunReasons
  BY DEF RunningReason, RunReasons
<1> QED
  BY <1>1, VersionTypes DEF WithPower, UpVersion

\* Steps of the worker that end or leave a reconcile.
LEMMA WorkerMoves ==
    ASSUME WorkType
    PROVE  /\ \A e : Return(e) => WorkType'
           /\ \A l \in Labels : Goto(l) =>
                 queue' \subseteq Instances /\ key' \in Instances /\ pc' \in Labels
           /\ \A c \in ProgReasons, e \in {"ok", "error"} : Leave(c, e) =>
                 /\ queue' \subseteq Instances /\ key' \in Instances /\ pc' \in Labels
                 /\ gcp' \in DnVersion /\ cond' \in ProgReasons /\ err' \in {"ok", "error"}
<1>1. NoInstance \in UpVersion /\ NoGCPInstance \in DnVersion
  BY DEF NoInstance, NoGCPInstance, UpVersion, DnVersion, Phases, ProgReasons,
         RunReasons, Finalizers
<1>2. "idle" \in Labels /\ "updateStatus" \in Labels /\ "Unset" \in ProgReasons
  BY DEF Labels, Provisioning, ProgReasons
<1> QED
  BY <1>1, <1>2 DEF WorkType, Return, Idle, Goto, Leave

LEMMA InitType == Init => TypeOK
<1> SUFFICES ASSUME Init PROVE TypeOK
  OBVIOUS
<1>1. NoInstance \in UpVersion /\ NoGCPInstance \in DnVersion
  BY DEF NoInstance, NoGCPInstance, UpVersion, DnVersion, Phases, ProgReasons,
         RunReasons, Finalizers
<1>2. StoreType
  BY <1>1 DEF Init, StoreType, Window
<1>3. EnvType
  BY DEF Init, EnvType
<1>4. WorkType
  BY <1>1 DEF Init, WorkType, Labels, ProgReasons
<1> QED
  BY <1>2, <1>3, <1>4, TypeParts

\* One step keeps every variable in its type.
LEMMA NextType == TypeOK /\ [Next]_vars => TypeOK'
<1> SUFFICES ASSUME StoreType, EnvType, WorkType, [Next]_vars
             PROVE  StoreType' /\ EnvType' /\ WorkType'
  BY DEF TypeOK, StoreType, EnvType, WorkType, Window
<1>1. /\ key \in Instances /\ inst \in UpVersion /\ gcp \in DnVersion
      /\ Current(up[key]) \in UpVersion
      /\ Current(dn[key]) \in DnVersion /\ Cached(dn[key]) \in DnVersion
      /\ cond \in ProgReasons /\ err \in {"ok", "error"}
  BY StoredVersions DEF WorkType
<1>2. {"prereqs", "getInstance", "createOrPatch", "retryCreate", "syncPower",
       "writePower", "conclude", "fzDelete", "fzStopping", "fzRelease", "fzRemove"}
         \subseteq Labels
  BY DEF Labels, Provisioning, Finalizing
<1>3. /\ [inst EXCEPT !.fins = @ \cup {GCPFinalizer}] \in UpVersion
      /\ Settled([inst EXCEPT !.fins = @ \ {GCPFinalizer}]) \in UpVersion
      /\ Reported(inst) \in UpVersion
      /\ WithPower(inst, gcp.cur) \in UpVersion
      /\ [inst EXCEPT !.observed = inst.gen] \in UpVersion
  <2>1. inst.fins \in SUBSET Finalizers
    BY <1>1 DEF UpVersion
  <2>2. /\ inst.fins \cup {GCPFinalizer} \in SUBSET Finalizers
        /\ inst.fins \ {GCPFinalizer} \in SUBSET Finalizers
    BY <2>1 DEF Finalizers
  <2> QED
    BY <1>1, <2>2, VersionTypes, SettledType, PowerType DEF Reported
<1>4. /\ NewGCPInstance \in DnVersion
      /\ Patched(Current(dn[key])) \in DnVersion
      /\ Settled([gcp EXCEPT !.fins = @ \ {GCPFinalizer}]) \in DnVersion
      /\ AfterDelete(Current(dn[key])) \in DnVersion
      /\ \A s \in Nat : [gcp EXCEPT !.retry = s] \in DnVersion
  <2>1. inst.gen \in Nat /\ gcp.fins \in SUBSET Finalizers
    BY <1>1 DEF UpVersion, DnVersion
  <2>2. NewGCPInstance \in DnVersion
    BY <2>1 DEF NewGCPInstance, NoGCPInstance, DnVersion, Phases, Finalizers
  <2>3. Patched(Current(dn[key])) \in DnVersion
    BY <1>1, <2>1 DEF Patched, DnVersion, Finalizers
  <2>4. gcp.fins \ {GCPFinalizer} \in SUBSET Finalizers
    BY <2>1
  <2>5. \A s \in Nat : [gcp EXCEPT !.retry = s] \in DnVersion
    BY <1>1 DEF DnVersion
  <2> QED
    BY <1>1, <2>2, <2>3, <2>4, <2>5, VersionTypes, SettledType
<1>5. ASSUME NEW i \in Instances, Worker(i)
      PROVE  StoreType' /\ EnvType' /\ WorkType'
  <2>1. Cached(up[i]) \in UpVersion
    BY StoredVersions
  <2>2. {"fzGet", "addFinalizer", "owners"} \subseteq Labels
    BY DEF Labels, Finalizing
  <2>3. \A l \in Labels : Load(i, l) => StoreType' /\ EnvType' /\ WorkType'
    BY <2>1 DEF Load, StoreType, EnvType, WorkType, apiVars, dnVars, envVars
  <2>4. ReconcileSkips(i) => StoreType' /\ EnvType' /\ WorkType'
    BY DEF ReconcileSkips, StoreType, EnvType, WorkType, apiVars, dnVars, envVars, workVars
  <2> QED
    BY <1>5, <2>2, <2>3, <2>4
    DEF Worker, ReconcileFinalizes, ReconcileAddsFinalizer, ReconcileProvisions
<1>6. CASE AddFinalizer
  <2>1. UNCHANGED <<dnVars, envVars>> /\ WorkType'
    BY WorkerMoves, <1>6 DEF AddFinalizer
  <2>2. up' \in [Instances -> Window(UpVersion)]
    BY <1>1, <1>3, <1>6, WriteUpType DEF AddFinalizer, StoreType
  <2> QED
    BY <2>1, <2>2 DEF StoreType, EnvType, dnVars, envVars
<1>7. CASE LoadOwners
  <2>1. UNCHANGED <<apiVars, envVars>>
    BY <1>7 DEF LoadOwners
  <2>2. CASE \E e \in {"ok", "error"} : Return(e)
    BY <1>1, <1>2, <2>1, <2>2, WorkerMoves
    DEF StoreType, EnvType, WorkType, apiVars, dnVars, envVars
  <2>3. CASE Goto("prereqs") /\ cond' = "PendingProgramming" /\ UNCHANGED <<inst, gcp, stale, err>>
    BY <1>1, <1>2, <2>1, <2>3, WorkerMoves
    DEF StoreType, EnvType, WorkType, ProgReasons, Labels, apiVars, dnVars, envVars
  <2> QED
    BY <1>7, <2>2, <2>3 DEF LoadOwners
<1>8. CASE Prerequisites
  <2>1. UNCHANGED <<apiVars, envVars, inst, stale>>
    BY <1>8 DEF Prerequisites
  <2>2. {"ProvisioningPrerequisite", "PrerequisiteFailed"} \subseteq ProgReasons
    BY DEF ProgReasons
  <2>3. /\ queue' \subseteq Instances /\ key' \in Instances /\ pc' \in Labels
        /\ gcp' \in DnVersion /\ cond' \in ProgReasons /\ err' \in {"ok", "error"}
    BY <1>1, <1>2, <1>8, <2>2, WorkerMoves DEF Prerequisites
  <2> QED
    BY <2>1, <2>3 DEF StoreType, EnvType, WorkType, apiVars, dnVars, envVars
<1>9. CASE GetGCPInstance
  BY <1>1, <1>2, <1>9, WorkerMoves
  DEF GetGCPInstance, GetGCP, StoreType, EnvType, WorkType, apiVars, dnVars, envVars
<1>10. CASE CreateGCPInstance
  <2>1. dn' \in [Instances -> Window(DnVersion)] /\ readyAt' \in [Instances -> SUBSET Nat]
    BY <1>1, <1>4, <1>10, WriteDnType DEF CreateGCPInstance, StoreType
  <2>2. queue' \subseteq Instances /\ key' \in Instances /\ pc' \in Labels
    BY <1>2, <1>10, WorkerMoves DEF CreateGCPInstance, Processed
  <2> QED
    BY <1>4, <1>10, <2>1, <2>2
    DEF CreateGCPInstance, Processed, StoreType, EnvType, WorkType, envVars
<1>11. CASE PatchGCPInstance
  <2>1. dn' \in [Instances -> Window(DnVersion)] /\ readyAt' \in [Instances -> SUBSET Nat]
    BY <1>1, <1>4, <1>11, WriteDnType DEF PatchGCPInstance, StoreType, dnVars
  <2>2. queue' \subseteq Instances /\ key' \in Instances /\ pc' \in Labels
    BY <1>2, <1>11, WorkerMoves DEF PatchGCPInstance, Processed
  <2>3. gcp' \in DnVersion
    BY <1>1, <1>4, <1>11 DEF PatchGCPInstance, Processed
  <2> QED
    BY <1>11, <2>1, <2>2, <2>3
    DEF PatchGCPInstance, Processed, StoreType, EnvType, WorkType, envVars
<1>12. CASE CreateOrPatchRefused
  BY <1>1, <1>12, WorkerMoves
  DEF CreateOrPatchRefused, StoreType, EnvType, WorkType, apiVars, dnVars, envVars
<1>13. CASE RetryCreate
  <2>1. gcp.retry \in Nat
    BY <1>1 DEF DnVersion
  <2>2. \A s \in {gcp.retry, gcp.retry + 1} \ {0} : s \in Nat
    BY <2>1
  <2>3. dn' \in [Instances -> Window(DnVersion)] /\ readyAt' \in [Instances -> SUBSET Nat]
    <3>1. UNCHANGED readyAt
      BY <1>13 DEF RetryCreate
    <3>2. CASE UNCHANGED dn
      BY <1>1, <3>1, <3>2 DEF StoreType
    <3>3. CASE \E s \in {gcp.retry, gcp.retry + 1} \ {0} : WriteDn(key, [gcp EXCEPT !.retry = s])
      BY <1>1, <1>4, <2>2, <3>1, <3>3, WriteDnType DEF StoreType
    <3> QED
      BY <1>13, <3>2, <3>3 DEF RetryCreate
  <2> QED
    BY <1>1, <1>13, <2>3, WorkerMoves
    DEF RetryCreate, StoreType, EnvType, WorkType, envVars
<1>14. CASE SyncPower
  BY <1>2, <1>3, <1>14, WorkerMoves
  DEF SyncPower, StoreType, EnvType, WorkType, apiVars, dnVars, envVars
<1>15. CASE WritePower
  <2>1. up' \in [Instances -> Window(UpVersion)]
    BY <1>1, <1>15, WriteUpType DEF WritePower, StoreType
  <2>2. /\ queue' \subseteq Instances /\ key' \in Instances /\ pc' \in Labels
        /\ gcp' \in DnVersion /\ cond' \in ProgReasons /\ err' \in {"ok", "error"}
    BY <1>1, <1>2, <1>15, WorkerMoves DEF WritePower
  <2> QED
    BY <1>15, <2>1, <2>2 DEF WritePower, StoreType, EnvType, WorkType, dnVars, envVars
<1>16. CASE Conclude
  <2>1. {"Programmed", "ProvisioningProviderInstance"} \subseteq ProgReasons
    BY DEF ProgReasons
  <2>2. inst' \in UpVersion
    BY <1>1, <1>3, <1>16 DEF Conclude
  <2>3. /\ queue' \subseteq Instances /\ key' \in Instances /\ pc' \in Labels
        /\ gcp' \in DnVersion /\ cond' \in ProgReasons /\ err' \in {"ok", "error"}
    BY <1>16, <2>1, WorkerMoves DEF Conclude
  <2> QED
    BY <1>16, <2>2, <2>3 DEF Conclude, StoreType, EnvType, WorkType, apiVars, dnVars, envVars
<1>17. CASE UpdateStatus
  <2>1. UNCHANGED <<dnVars, envVars>> /\ WorkType'
    BY WorkerMoves, <1>17 DEF UpdateStatus
  <2>2. up' \in [Instances -> Window(UpVersion)]
    BY <1>1, <1>3, <1>17, WriteUpType DEF UpdateStatus, StoreType
  <2> QED
    BY <2>1, <2>2 DEF StoreType, EnvType, dnVars, envVars
<1>18. CASE FinalizeStopping
  <2>1. UNCHANGED <<dnVars, envVars>> /\ WorkType'
    BY WorkerMoves, <1>18 DEF FinalizeStopping
  <2>2. up' \in [Instances -> Window(UpVersion)]
    BY <1>1, <1>3, <1>18, WriteUpType DEF FinalizeStopping, StoreType
  <2> QED
    BY <2>1, <2>2 DEF StoreType, EnvType, dnVars, envVars
<1>19. CASE FinalizeRemove
  <2>1. UNCHANGED <<dnVars, envVars>> /\ WorkType'
    BY WorkerMoves, <1>19 DEF FinalizeRemove
  <2>2. up' \in [Instances -> Window(UpVersion)]
    BY <1>1, <1>3, <1>19, WriteUpType DEF FinalizeRemove, StoreType
  <2> QED
    BY <2>1, <2>2 DEF StoreType, EnvType, dnVars, envVars
<1>20. CASE FinalizeGet
  <2>1. AfterDeleteCall(gcp') \in Labels /\ "fzDelete" \in Labels
    BY <1>2 DEF AfterDeleteCall
  <2> QED
    BY <1>1, <1>20, <2>1, WorkerMoves
    DEF FinalizeGet, GetGCP, StoreType, EnvType, WorkType, apiVars, dnVars, envVars
<1>21. CASE FinalizeDelete
  <2>1. AfterDeleteCall(gcp) \in Labels
    BY <1>2 DEF AfterDeleteCall
  <2>2. dn' \in [Instances -> Window(DnVersion)] /\ readyAt' \in [Instances -> SUBSET Nat]
    BY <1>1, <1>4, <1>21, WriteDnType DEF FinalizeDelete, StoreType, dnVars
  <2>3. WorkType'
    BY <1>21, <2>1, WorkerMoves DEF FinalizeDelete, Outdates, WorkType
  <2> QED
    BY <1>21, <2>2, <2>3 DEF FinalizeDelete, StoreType, EnvType, envVars
<1>22. CASE FinalizeRelease
  <2>1. dn' \in [Instances -> Window(DnVersion)] /\ readyAt' \in [Instances -> SUBSET Nat]
    BY <1>1, <1>4, <1>22, WriteDnType DEF FinalizeRelease, StoreType, dnVars
  <2>2. WorkType'
    BY <1>2, <1>22, WorkerMoves DEF FinalizeRelease, WorkType
  <2> QED
    BY <1>22, <2>1, <2>2 DEF FinalizeRelease, StoreType, EnvType, envVars
<1>23. CASE CallFails
  <2>1. faults' \in Nat
    BY <1>23 DEF CallFails, Fault, EnvType
  <2>2. WorkType'
    BY <1>1, <1>23, WorkerMoves DEF CallFails, WorkType
  <2> QED
    BY <1>23, <2>1, <2>2 DEF CallFails, StoreType, EnvType, apiVars, dnVars
<1>24. CASE PowerAnswerLost
  <2>1. faults' \in Nat
    BY <1>24 DEF PowerAnswerLost, Fault, EnvType
  <2>2. WorkType'
    BY <1>1, <1>24, WorkerMoves DEF PowerAnswerLost, WorkType, Outdates
  <2>3. up' \in [Instances -> Window(UpVersion)]
    BY <1>1, <1>24, WriteUpType DEF PowerAnswerLost
  <2> QED
    BY <1>24, <2>1, <2>2, <2>3 DEF PowerAnswerLost, StoreType, EnvType, dnVars
<1>25. CASE Restart
  <2>1. /\ up' \in [Instances -> Window(UpVersion)]
        /\ dn' \in [Instances -> Window(DnVersion)]
    BY <1>25, RelistWindow DEF Restart, StoreType
  <2>2. WorkType'
    <3>1. NoInstance \in UpVersion /\ NoGCPInstance \in DnVersion
      BY DEF NoInstance, NoGCPInstance, UpVersion, DnVersion, Phases, ProgReasons,
             RunReasons, Finalizers
    <3> QED
      BY <1>25, <3>1 DEF Restart, Idle, WorkType, Labels, ProgReasons
  <2> QED
    BY <1>25, <2>1, <2>2 DEF Restart, Fault, StoreType, EnvType
<1>26. CASE LocationChanges
  BY <1>26 DEF LocationChanges, Fault, StoreType, EnvType, WorkType, apiVars, dnVars, workVars
<1>27. ASSUME NEW i \in Instances, User(i)
      PROVE  StoreType' /\ EnvType' /\ WorkType'
  <2>1. Current(up[i]) \in UpVersion
    BY StoredVersions
  <2>2. ASSUME NEW v \in UpVersion, StoreUp(i, v)
        PROVE  StoreType' /\ EnvType' /\ WorkType'
    <3>1. up' \in [Instances -> Window(UpVersion)]
      BY <2>2, WriteUpType DEF StoreUp
    <3> QED
      BY <2>2, <3>1
      DEF StoreUp, Outdates, StoreType, EnvType, WorkType, dnVars, envVars, workVars
  <2>3. \A g \in Nat :
           [NoInstance EXCEPT !.phase = "live", !.gates = g, !.gen = 1] \in UpVersion
    BY DEF NoInstance, UpVersion, Phases, ProgReasons, RunReasons, Finalizers
  <2>4. /\ Current(up[i]).gates > 0 => [Current(up[i]) EXCEPT !.gates = @ - 1] \in UpVersion
        /\ [Current(up[i]) EXCEPT !.gen = @ + 1] \in UpVersion
        /\ AfterDelete(Current(up[i])) \in UpVersion
    BY <2>1, SettledType DEF UpVersion
  <2>5. CreateInstance(i) => StoreType' /\ EnvType' /\ WorkType'
    <3>1. 0..MaxGates \subseteq Nat
      BY InstanceAssumption
    <3> QED
      BY <2>2, <2>3, <3>1 DEF CreateInstance
  <2>6. RemoveGate(i) => StoreType' /\ EnvType' /\ WorkType'
    BY <2>2, <2>4 DEF RemoveGate
  <2>7. UpdateTemplate(i) => StoreType' /\ EnvType' /\ WorkType'
    BY <2>2, <2>4 DEF UpdateTemplate
  <2>8. DeleteInstance(i) => StoreType' /\ EnvType' /\ WorkType'
    BY <2>2, <2>4 DEF DeleteInstance
  <2> QED
    BY <1>27, <2>5, <2>6, <2>7, <2>8 DEF User
<1>28. ASSUME NEW i \in Instances, Crossplane(i)
      PROVE  StoreType' /\ EnvType' /\ WorkType'
  <2>1. Current(dn[i]) \in DnVersion
    BY StoredVersions
  <2>2. ASSUME NEW v \in DnVersion, StoreDn(i, v), readyAt' \in [Instances -> SUBSET Nat],
               vm' \in [Instances -> Statuses \cup {"absent"}]
        PROVE  StoreType' /\ EnvType' /\ WorkType'
    <3>1. dn' \in [Instances -> Window(DnVersion)]
      BY <2>2, WriteDnType DEF StoreDn
    <3> QED
      BY <2>2, <3>1 DEF StoreDn, Outdates, StoreType, EnvType, WorkType, workVars
  <2>3. XPAddsFinalizer(i) => StoreType' /\ EnvType' /\ WorkType'
    <3>1. [Current(dn[i]) EXCEPT !.fins = @ \cup {XPFinalizer}] \in DnVersion
      BY <2>1 DEF DnVersion, Finalizers
    <3> QED
      BY <2>2, <3>1 DEF XPAddsFinalizer, EnvType, StoreType
  <2>4. XPCreates(i) => StoreType' /\ EnvType' /\ WorkType'
    <3>1. [Current(dn[i]) EXCEPT !.ready = FALSE] \in DnVersion
      BY <2>1 DEF DnVersion
    <3> QED
      BY <2>2, <3>1 DEF XPCreates, EnvType, StoreType, Statuses
  <2>5. XPObserves(i) => StoreType' /\ EnvType' /\ WorkType'
    <3>1. vm[i] # "absent" =>
             [Current(dn[i]) EXCEPT !.ready = TRUE, !.cur = vm[i]] \in DnVersion
      BY <2>1 DEF DnVersion, EnvType
    <3>2. Current(dn[i]).gen \in Nat
      BY <2>1 DEF DnVersion
    <3>3. XPObserves(i) => readyAt' \in [Instances -> SUBSET Nat]
      BY <3>2 DEF XPObserves, StoreType
    <3> QED
      BY <2>2, <3>1, <3>3 DEF XPObserves, EnvType
  <2>6. XPDeletes(i) => StoreType' /\ EnvType' /\ WorkType'
    BY DEF XPDeletes, MachineChanges, StoreType, EnvType, WorkType, apiVars, dnVars, workVars
  <2>7. XPReleases(i) => StoreType' /\ EnvType' /\ WorkType'
    <3>1. Current(dn[i]).fins \ {XPFinalizer} \in SUBSET Finalizers
      BY <2>1 DEF DnVersion
    <3>2. Settled([Current(dn[i]) EXCEPT !.fins = @ \ {XPFinalizer}]) \in DnVersion
      <4>1. [Current(dn[i]) EXCEPT !.fins = @ \ {XPFinalizer}] \in DnVersion
        BY <2>1, <3>1 DEF DnVersion
      <4> QED
        BY <4>1, SettledType
    <3> QED
      BY <2>2, <3>2 DEF XPReleases, EnvType, StoreType
  <2> QED
    BY <1>28, <2>3, <2>4, <2>5, <2>6, <2>7 DEF Crossplane
<1>29. ASSUME NEW i \in Instances, DeliverUpstream(i)
      PROVE  StoreType' /\ EnvType' /\ WorkType'
  <2>1. up' \in [Instances -> Window(UpVersion)]
    BY <1>29, TailWindow DEF DeliverUpstream, StoreType
  <2> QED
    BY <1>29, <2>1
    DEF DeliverUpstream, StoreType, EnvType, WorkType, dnVars, envVars, workVars
<1>30. ASSUME NEW i \in Instances, DeliverDownstream(i)
      PROVE  StoreType' /\ EnvType' /\ WorkType'
  <2>1. dn' \in [Instances -> Window(DnVersion)]
    BY <1>30, TailWindow DEF DeliverDownstream, StoreType
  <2> QED
    BY <1>30, <2>1
    DEF DeliverDownstream, StoreType, EnvType, WorkType, envVars, workVars
<1>31. ASSUME NEW i \in Instances, PrereqReady(i)
      PROVE  StoreType' /\ EnvType' /\ WorkType'
  BY <1>31 DEF PrereqReady, StoreType, EnvType, WorkType, apiVars, dnVars, workVars
<1>32. ASSUME NEW i \in Instances, PrereqRegresses(i)
      PROVE  StoreType' /\ EnvType' /\ WorkType'
  BY <1>32 DEF PrereqRegresses, Fault, StoreType, EnvType, WorkType, apiVars, dnVars, workVars
<1>33. ASSUME NEW i \in Instances, VMSettles(i)
      PROVE  StoreType' /\ EnvType' /\ WorkType'
  BY <1>33 DEF VMSettles, MachineChanges, StoreType, EnvType, WorkType, Statuses,
              apiVars, dnVars, workVars
<1>34. ASSUME NEW i \in Instances, VMDisturbed(i)
      PROVE  StoreType' /\ EnvType' /\ WorkType'
  BY <1>34, InstanceAssumption DEF VMDisturbed, MachineChanges, Fault, StoreType, EnvType,
              WorkType, Statuses, apiVars, dnVars, workVars
<1>35. CASE UNCHANGED vars
  BY <1>35 DEF vars, StoreType, EnvType, WorkType, apiVars, dnVars, envVars, workVars
<1> QED
  BY <1>5, <1>6, <1>7, <1>8, <1>9, <1>10, <1>11, <1>12, <1>13, <1>14, <1>15, <1>16, <1>17, <1>18, <1>19, <1>20, <1>21, <1>22, <1>23, <1>24, <1>25, <1>26, <1>27, <1>28, <1>29, <1>30, <1>31, <1>32, <1>33, <1>34, <1>35 DEF Next, Step

\* Every variable keeps its type in every behaviour of the reconciler, its
\* informers, Crossplane and GCP.
THEOREM TypeCorrect == Spec => []TypeOK
  BY InitType, NextType, PTL DEF Spec
-----------------------------------------------------------------------------
(* The order of phases. *)

LEMMA VersionPhases ==
    ASSUME NEW v, v \in UpVersion \/ v \in DnVersion
    PROVE  v.phase \in Phases
  BY DEF UpVersion, DnVersion

-----------------------------------------------------------------------------
(* How the stored objects change. *)

ObjectInv(u, d) ==
    /\ Ordered(u)
    /\ Ordered(d)
    /\ \A n \in 1..Len(u) : Claims(u[n]) =>
          Exists(Current(u)) /\ GCPFinalizer \in Current(u).fins
    /\ \A n \in 1..Len(d) : Exists(d[n]) => GCPFinalizer \in d[n].fins
    /\ Current(d).phase = "gone" => \A n \in 1..Len(u) : u[n].phase \in Leaving

LEMMA StoredObjects == StoredInv <=> \A i \in Instances : ObjectInv(up[i], dn[i])
  BY DEF StoredInv, ObjectInv, Held

\* A new version of the Instance that is a successor of the current one and
\* gives the finalizer up only if nothing in the window claims it.
LEMMA ObjectUpWrite ==
    ASSUME NEW u \in Window(UpVersion), NEW d \in Window(DnVersion), ObjectInv(u, d),
           NEW v \in UpVersion, v.phase \in Leads(Current(u).phase),
           \/ Exists(v) /\ GCPFinalizer \in v.fins
           \/ \A n \in 1..Len(u) : ~Claims(u[n])
    PROVE  ObjectInv(Write(u, v), d)
<1>1. Ordered(Write(u, v))
  BY OrderedWrite, VersionPhases DEF ObjectInv
<1>2. /\ Current(Write(u, v)) = v
      /\ \A n \in 1..Len(Write(u, v)) :
            Write(u, v)[n] = v \/ (n \in 1..Len(u) /\ Write(u, v)[n] = u[n])
  BY WriteWindow
<1>3. ASSUME NEW n \in 1..Len(Write(u, v)), Claims(Write(u, v)[n])
      PROVE  Exists(v) /\ GCPFinalizer \in v.fins
  BY <1>2, <1>3 DEF Claims, Exists
<1>4. ASSUME Current(d).phase = "gone", NEW n \in 1..Len(Write(u, v))
      PROVE  Write(u, v)[n].phase \in Leaving
  <2>1. Len(u) \in 1..Len(u) /\ Current(u) \in UpVersion
    BY RelistWindow
  <2>2. Current(u).phase \in Leaving
    BY <1>4, <2>1 DEF ObjectInv, Current
  <2>3. v.phase \in Leaving
    BY <2>1, <2>2, LeavingLeads
  <2> QED
    BY <1>2, <1>4, <2>3 DEF ObjectInv
<1> QED
  BY <1>1, <1>2, <1>3, <1>4 DEF ObjectInv

LEMMA ObjectDnWrite ==
    ASSUME NEW u \in Window(UpVersion), NEW d \in Window(DnVersion), ObjectInv(u, d),
           NEW v \in DnVersion, v.phase \in Leads(Current(d).phase),
           Exists(v) => GCPFinalizer \in v.fins,
           v.phase = "gone" => \A n \in 1..Len(u) : u[n].phase \in Leaving
    PROVE  ObjectInv(u, Write(d, v))
<1>1. Ordered(Write(d, v))
  BY OrderedWrite, VersionPhases DEF ObjectInv
<1>2. /\ Current(Write(d, v)) = v
      /\ \A n \in 1..Len(Write(d, v)) :
            Write(d, v)[n] = v \/ (n \in 1..Len(d) /\ Write(d, v)[n] = d[n])
  BY WriteWindow
<1> QED
  BY <1>1, <1>2 DEF ObjectInv

LEMMA ObjectUpTail ==
    ASSUME NEW u \in Window(UpVersion), NEW d \in Window(DnVersion), ObjectInv(u, d),
           Undelivered(u)
    PROVE  ObjectInv(Tail(u), d)
<1>1. Ordered(Tail(u))
  BY OrderedTail DEF ObjectInv
<1> QED
  BY <1>1, TailWindow DEF ObjectInv

LEMMA ObjectDnTail ==
    ASSUME NEW u \in Window(UpVersion), NEW d \in Window(DnVersion), ObjectInv(u, d),
           Undelivered(d)
    PROVE  ObjectInv(u, Tail(d))
<1>1. Ordered(Tail(d))
  BY OrderedTail DEF ObjectInv
<1> QED
  BY <1>1, TailWindow DEF ObjectInv

LEMMA ObjectRelist ==
    ASSUME NEW u \in Window(UpVersion), NEW d \in Window(DnVersion), ObjectInv(u, d)
    PROVE  ObjectInv(<<Current(u)>>, <<Current(d)>>)
<1>1. Ordered(<<Current(u)>>) /\ Ordered(<<Current(d)>>)
  BY OrderedRelist, VersionPhases
<1>2. Len(u) \in 1..Len(u) /\ Len(d) \in 1..Len(d)
  BY RelistWindow
<1>3. \A n \in 1..1 : n = 1
  OBVIOUS
<1>4. /\ Len(<<Current(u)>>) = 1 /\ <<Current(u)>>[1] = Current(u)
      /\ Current(<<Current(u)>>) = Current(u)
      /\ Len(<<Current(d)>>) = 1 /\ <<Current(d)>>[1] = Current(d)
      /\ Current(<<Current(d)>>) = Current(d)
  BY RelistWindow
<1>5. /\ Current(u) = u[Len(u)] /\ Current(d) = d[Len(d)]
  BY DEF Current
<1>6. /\ Claims(Current(u)) => Exists(Current(u)) /\ GCPFinalizer \in Current(u).fins
      /\ Exists(Current(d)) => GCPFinalizer \in Current(d).fins
      /\ Current(d).phase = "gone" => Current(u).phase \in Leaving
  BY <1>2, <1>5 DEF ObjectInv
<1> QED
  BY <1>1, <1>3, <1>4, <1>6 DEF ObjectInv
-----------------------------------------------------------------------------
(* How a step changes the stored objects. *)

\* Facts about the current versions that follow from StoredInv.
LEMMA CurrentFacts ==
    ASSUME StoreType, StoredInv, NEW i \in Instances
    PROVE  /\ Current(up[i]).phase \in Phases /\ Current(dn[i]).phase \in Phases
           /\ Claims(Cached(up[i])) => Held(i)
           /\ Cached(up[i]).phase \in Leaving =>
                 \A n \in 1..Len(up[i]) : up[i][n].phase \in Leaving
           /\ Cached(up[i]).phase = "live" => Current(dn[i]).phase # "gone"
           /\ Exists(Current(dn[i])) => GCPFinalizer \in Current(dn[i]).fins
           /\ Exists(Cached(dn[i])) => GCPFinalizer \in Cached(dn[i]).fins
           /\ ~Undelivered(up[i]) => Cached(up[i]) = Current(up[i])
           /\ ~Undelivered(dn[i]) => Cached(dn[i]) = Current(dn[i])
<1>1. /\ Len(up[i]) \in Nat \ {0} /\ Len(dn[i]) \in Nat \ {0}
      /\ 1 \in 1..Len(up[i]) /\ Len(up[i]) \in 1..Len(up[i])
      /\ 1 \in 1..Len(dn[i]) /\ Len(dn[i]) \in 1..Len(dn[i])
  BY DEF StoreType, Window
<1>2. Current(up[i]).phase \in Phases /\ Current(dn[i]).phase \in Phases
  BY StoredVersions, VersionPhases
<1>3. Claims(Cached(up[i])) => Held(i)
  BY <1>1 DEF StoredInv, Cached
<1>4. Cached(up[i]).phase \in Leaving =>
         \A n \in 1..Len(up[i]) : up[i][n].phase \in Leaving
  <2>1. \A n \in 1..Len(up[i]) : 1 <= n /\ up[i][n].phase \in Leads(Cached(up[i]).phase)
    BY <1>1 DEF StoredInv, Ordered, Cached
  <2>2. Cached(up[i]).phase \in Phases
    BY StoredVersions, VersionPhases
  <2> QED
    BY <2>1, <2>2, LeavingLeads
<1>5. Cached(up[i]).phase = "live" => Current(dn[i]).phase # "gone"
  BY <1>1 DEF StoredInv, Cached, Leaving
<1>6. /\ Exists(Current(dn[i])) => GCPFinalizer \in Current(dn[i]).fins
      /\ Exists(Cached(dn[i])) => GCPFinalizer \in Cached(dn[i]).fins
  BY <1>1 DEF StoredInv, Current, Cached
<1>7. /\ ~Undelivered(up[i]) => Cached(up[i]) = Current(up[i])
      /\ ~Undelivered(dn[i]) => Cached(dn[i]) = Current(dn[i])
  <2>0. \A k \in Nat \ {0} : ~(k > 1) => k = 1
    OBVIOUS
  <2>1. /\ ~Undelivered(up[i]) => Len(up[i]) = 1
        /\ ~Undelivered(dn[i]) => Len(dn[i]) = 1
    BY <1>1, <2>0 DEF Undelivered
  <2> QED
    BY <2>1 DEF Cached, Current
<1> QED
  BY <1>2, <1>3, <1>4, <1>5, <1>6, <1>7

LEMMA KeepStored ==
    ASSUME StoredInv, UNCHANGED <<up, dn>>
    PROVE  StoredInv'
  BY DEF StoredInv, Held

LEMMA KeepMachine ==
    ASSUME MachineOnRecord, UNCHANGED <<dn, vm>>
    PROVE  MachineOnRecord'
  BY DEF MachineOnRecord

\* The Instance gets a successor that keeps the finalizer, or gives it up
\* when the informer has no version left that claims it.
LEMMA StoredUp ==
    ASSUME StoreType, StoredInv, NEW i \in Instances, NEW v \in UpVersion,
           WriteUp(i, v), UNCHANGED dn, v.phase \in Leads(Current(up[i]).phase),
           \/ Exists(v) /\ GCPFinalizer \in v.fins
           \/ \A n \in 1..Len(up[i]) : ~Claims(up[i][n])
    PROVE  /\ StoredInv'
           /\ Current(up'[i]) = v
           /\ \A j \in Instances : j # i => up'[j] = up[j]
           /\ (\A n \in 1..Len(up[i]) : up[i][n].phase \in Leaving) =>
                 \A n \in 1..Len(up'[i]) : up'[i][n].phase \in Leaving
<1>1. /\ up[i] \in Window(UpVersion) /\ dn[i] \in Window(DnVersion)
      /\ up'[i] = Write(up[i], v) /\ \A j \in Instances : j # i => up'[j] = up[j]
  BY WriteUpType DEF StoreType
<1>2. \A j \in Instances : ObjectInv(up[j], dn[j])
  BY StoredObjects
<1>3. ObjectInv(up'[i], dn'[i])
  BY <1>1, <1>2, ObjectUpWrite
<1>4. \A j \in Instances : ObjectInv(up'[j], dn'[j])
  BY <1>1, <1>2, <1>3
<1>5. StoredInv'
  BY <1>4 DEF StoredInv, ObjectInv, Held
<1>6. /\ Current(Write(up[i], v)) = v
      /\ \A n \in 1..Len(Write(up[i], v)) :
            \/ Write(up[i], v)[n] = v
            \/ n \in 1..Len(up[i]) /\ Write(up[i], v)[n] = up[i][n]
  BY <1>1, WriteWindow
<1>7. ASSUME \A n \in 1..Len(up[i]) : up[i][n].phase \in Leaving
      PROVE  \A n \in 1..Len(up'[i]) : up'[i][n].phase \in Leaving
  <2>1. Current(up[i]).phase \in Leaving
    BY <1>1, <1>7, RelistWindow DEF Current
  <2>2. v.phase \in Leaving
    BY <2>1, LeavingLeads, CurrentFacts
  <2> QED
    BY <1>1, <1>6, <1>7, <2>2
<1> QED
  BY <1>1, <1>5, <1>6, <1>7

LEMMA StoredDn ==
    ASSUME StoreType, StoredInv, NEW i \in Instances, NEW v \in DnVersion,
           WriteDn(i, v), UNCHANGED up, v.phase \in Leads(Current(dn[i]).phase),
           Exists(v) => GCPFinalizer \in v.fins,
           v.phase = "gone" => \A n \in 1..Len(up[i]) : up[i][n].phase \in Leaving
    PROVE  /\ StoredInv'
           /\ Current(dn'[i]) = v
           /\ Cached(dn'[i]) = Cached(dn[i])
           /\ \A j \in Instances : j # i => dn'[j] = dn[j]
<1>1. /\ up[i] \in Window(UpVersion) /\ dn[i] \in Window(DnVersion)
      /\ dn'[i] = Write(dn[i], v) /\ \A j \in Instances : j # i => dn'[j] = dn[j]
  BY WriteDnType DEF StoreType
<1>2. \A j \in Instances : ObjectInv(up[j], dn[j])
  BY StoredObjects
<1>3. ObjectInv(up'[i], dn'[i])
  BY <1>1, <1>2, ObjectDnWrite
<1>4. \A j \in Instances : ObjectInv(up'[j], dn'[j])
  BY <1>1, <1>2, <1>3
<1>5. StoredInv'
  BY <1>4 DEF StoredInv, ObjectInv, Held
<1>6. Current(Write(dn[i], v)) = v /\ Cached(Write(dn[i], v)) = Cached(dn[i])
  BY <1>1, WriteWindow
<1> QED
  BY <1>1, <1>5, <1>6

LEMMA StoredUpTail ==
    ASSUME StoreType, StoredInv, NEW i \in Instances, DeliverUpstream(i)
    PROVE  /\ StoredInv'
           /\ \A j \in Instances : Current(up'[j]) = Current(up[j])
           /\ \A j \in Instances : (\A n \in 1..Len(up[j]) : up[j][n].phase \in Leaving) =>
                 \A n \in 1..Len(up'[j]) : up'[j][n].phase \in Leaving
<1>1. /\ up[i] \in Window(UpVersion) /\ dn[i] \in Window(DnVersion) /\ Undelivered(up[i])
      /\ up'[i] = Tail(up[i]) /\ \A j \in Instances : j # i => up'[j] = up[j]
      /\ dn' = dn
  BY DEF StoreType, DeliverUpstream, dnVars
<1>2. \A j \in Instances : ObjectInv(up[j], dn[j])
  BY StoredObjects
<1>3. ObjectInv(up'[i], dn'[i])
  BY <1>1, <1>2, ObjectUpTail
<1>4. \A j \in Instances : ObjectInv(up'[j], dn'[j])
  BY <1>1, <1>2, <1>3
<1>5. StoredInv'
  BY <1>4 DEF StoredInv, ObjectInv, Held
<1>6. /\ Current(up'[i]) = Current(up[i])
      /\ (\A n \in 1..Len(up[i]) : up[i][n].phase \in Leaving) =>
            \A n \in 1..Len(up'[i]) : up'[i][n].phase \in Leaving
  BY <1>1, TailWindow
<1> QED
  BY <1>1, <1>5, <1>6

LEMMA StoredDnTail ==
    ASSUME StoreType, StoredInv, NEW i \in Instances, DeliverDownstream(i)
    PROVE  /\ StoredInv'
           /\ \A j \in Instances : Current(dn'[j]) = Current(dn[j])
<1>1. /\ up[i] \in Window(UpVersion) /\ dn[i] \in Window(DnVersion) /\ Undelivered(dn[i])
      /\ dn'[i] = Tail(dn[i]) /\ \A j \in Instances : j # i => dn'[j] = dn[j]
      /\ up' = up
  BY DEF StoreType, DeliverDownstream
<1>2. \A j \in Instances : ObjectInv(up[j], dn[j])
  BY StoredObjects
<1>3. ObjectInv(up'[i], dn'[i])
  BY <1>1, <1>2, ObjectDnTail
<1>4. \A j \in Instances : ObjectInv(up'[j], dn'[j])
  BY <1>1, <1>2, <1>3
<1>5. StoredInv'
  BY <1>4 DEF StoredInv, ObjectInv, Held
<1> QED
  BY <1>1, <1>5, TailWindow

LEMMA StoredRelist ==
    ASSUME StoreType, StoredInv, Restart
    PROVE  /\ StoredInv'
           /\ \A j \in Instances : /\ Current(up'[j]) = Current(up[j])
                                   /\ Current(dn'[j]) = Current(dn[j])
<1>1. \A j \in Instances : /\ up[j] \in Window(UpVersion) /\ dn[j] \in Window(DnVersion)
                           /\ up'[j] = <<Current(up[j])>> /\ dn'[j] = <<Current(dn[j])>>
                           /\ ObjectInv(up[j], dn[j])
  BY StoredObjects DEF StoreType, Restart
<1>2. \A j \in Instances : ObjectInv(up'[j], dn'[j])
  BY <1>1, ObjectRelist
<1>3. StoredInv'
  BY <1>2 DEF StoredInv, ObjectInv, Held
<1> QED
  BY <1>1, <1>3, RelistWindow
-----------------------------------------------------------------------------
(* The safety invariant is inductive. *)

LEMMA WorkerIdle ==
    ASSUME Idle
    PROVE  WorkerInv'
  BY DEF Idle, WorkerInv, NoGCPInstance, Building, Provisioning, Finalizing, Exists

\* Someone else stores a version of an Instance.
LEMMA UpEnv ==
    ASSUME TypeOK, StoredInv, WorkerInv, MachineOnRecord, NEW i \in Instances,
           NEW v \in UpVersion, StoreUp(i, v), UNCHANGED vm,
           v.phase \in Leads(Current(up[i]).phase),
           Held(i) => Exists(v) /\ GCPFinalizer \in v.fins
    PROVE  StoredInv' /\ WorkerInv' /\ MachineOnRecord'
<1>1. StoreType /\ WorkType
  BY TypeParts
<1>2. /\ WriteUp(i, v) /\ stale' = Outdates("inst", i, up[i], v)
      /\ UNCHANGED <<dn, pc, key, inst, gcp>>
  BY DEF StoreUp, dnVars, workVars
<1>3. /\ StoredInv' /\ Current(up'[i]) = v
      /\ \A j \in Instances : j # i => up'[j] = up[j]
      /\ (\A n \in 1..Len(up[i]) : up[i][n].phase \in Leaving) =>
            \A n \in 1..Len(up'[i]) : up'[i][n].phase \in Leaving
  <2>1. CASE Held(i)
    BY <1>1, <1>2, <2>1, StoredUp
  <2>2. CASE ~Held(i)
    <3>1. \A n \in 1..Len(up[i]) : ~Claims(up[i][n])
      BY <2>2 DEF StoredInv
    <3> QED
      BY <1>1, <1>2, <3>1, StoredUp
  <2> QED
    BY <2>1, <2>2
<1>4. \A j \in Instances : Held(j) => Held(j)'
  BY <1>2, <1>3 DEF Held
<1>5. key \in Instances
  BY <1>1 DEF WorkType
<1>6. "inst" \notin stale' => "inst" \notin stale /\ Current(up'[key]) = Current(up[key])
  BY <1>2, <1>3, <1>5 DEF Outdates
<1>7. "gcp" \notin stale' => "gcp" \notin stale
  BY <1>2 DEF Outdates
<1>8. "gcp" \in stale => "gcp" \in stale'
  BY <1>2 DEF Outdates
<1>9. (\A n \in 1..Len(up[key]) : up[key][n].phase \in Leaving) =>
         \A n \in 1..Len(up'[key]) : up'[key][n].phase \in Leaving
  BY <1>3, <1>5
<1>10. WorkerInv'
  BY <1>2, <1>4, <1>5, <1>6, <1>7, <1>8, <1>9 DEF WorkerInv
<1> QED
  BY <1>2, <1>3, <1>10, KeepMachine

\* Crossplane stores a version of a GCP Instance.
LEMMA DnEnv ==
    ASSUME TypeOK, StoredInv, WorkerInv, NEW i \in Instances,
           NEW v \in DnVersion, StoreDn(i, v),
           v.phase \in Leads(Current(dn[i]).phase), v.phase # "gone",
           Exists(v) => GCPFinalizer \in v.fins
    PROVE  /\ StoredInv' /\ WorkerInv'
           /\ Current(dn'[i]) = v /\ \A j \in Instances : j # i => dn'[j] = dn[j]
<1>1. StoreType /\ WorkType
  BY TypeParts
<1>2. /\ WriteDn(i, v) /\ stale' = Outdates("gcp", i, dn[i], v)
      /\ UNCHANGED <<up, pc, key, inst, gcp>>
  BY DEF StoreDn, workVars
<1>3. /\ StoredInv' /\ Current(dn'[i]) = v
      /\ \A j \in Instances : j # i => dn'[j] = dn[j]
  BY <1>1, <1>2, StoredDn
<1>4. key \in Instances
  BY <1>1 DEF WorkType
<1>5. "gcp" \notin stale' => "gcp" \notin stale /\ Current(dn'[key]) = Current(dn[key])
  BY <1>2, <1>3, <1>4 DEF Outdates
<1>6. "inst" \notin stale' => "inst" \notin stale
  BY <1>2 DEF Outdates
<1>7. "gcp" \in stale => "gcp" \in stale'
  BY <1>2 DEF Outdates
<1>8. Current(dn[key]).phase # "gone" => Current(dn'[key]).phase # "gone"
  BY <1>3, <1>4
<1>9. Held(key) => Held(key)'
  BY <1>2 DEF Held
<1>10. WorkerInv'
  BY <1>2, <1>4, <1>5, <1>6, <1>7, <1>8, <1>9 DEF WorkerInv
<1> QED
  BY <1>3, <1>10

\* A worker's Update of the Instance in hand: the copy is the current version
\* up to its status.
LEMMA OwnUpdate ==
    ASSUME TypeOK, StoredInv, WorkerInv, pc # "idle", InstUpToDate, UNCHANGED dn,
           NEW v \in UpVersion, WriteUp(key, v),
           v.phase \in Leads(inst.phase),
           \/ Exists(v) /\ GCPFinalizer \in v.fins
           \/ pc \in Finalizing
    PROVE  /\ StoredInv' /\ Current(up'[key]) = v
           /\ \A j \in Instances : j # key => up'[j] = up[j]
<1>1. StoreType /\ key \in Instances
  BY TypeParts DEF WorkType
<1>2. inst.phase = Current(up[key]).phase
  BY DEF WorkerInv, InstUpToDate
<1>3. pc \in Finalizing => \A n \in 1..Len(up[key]) : ~Claims(up[key][n])
  BY DEF WorkerInv, Claims, Leaving
<1> QED
  BY <1>1, <1>2, <1>3, StoredUp

LEMMA InitSafe == Init => SafeInv
<1> SUFFICES ASSUME Init PROVE SafeInv
  OBVIOUS
<1>1. TypeOK
  BY InitType
<1>2. ASSUME NEW i \in Instances
      PROVE  /\ up[i] = <<NoInstance>> /\ dn[i] = <<NoGCPInstance>>
             /\ Current(up[i]) = NoInstance /\ Current(dn[i]) = NoGCPInstance
             /\ \A n \in 1..Len(up[i]) : up[i][n] = NoInstance
             /\ \A n \in 1..Len(dn[i]) : dn[i][n] = NoGCPInstance
  <2>1. up[i] = <<NoInstance>> /\ dn[i] = <<NoGCPInstance>>
    BY <1>2 DEF Init
  <2>2. \A x : Len(<<x>>) = 1 /\ <<x>>[1] = x
    OBVIOUS
  <2>3. \A n \in 1..1 : n = 1
    OBVIOUS
  <2> QED
    BY <2>1, <2>2, <2>3 DEF Current
<1>3. NoInstance.phase = "none" /\ NoGCPInstance.phase = "none" /\ "none" \in Leads("none")
  BY DEF NoInstance, NoGCPInstance, Leads, Phases
<1>4. StoredInv
  BY <1>2, <1>3 DEF StoredInv, Ordered, Claims, Exists
<1>5. WorkerInv
  BY DEF Init, WorkerInv, Building, Provisioning, Finalizing, NoGCPInstance, Exists
<1>6. MachineOnRecord
  BY DEF Init, MachineOnRecord
<1> QED
  BY <1>1, <1>4, <1>5, <1>6 DEF SafeInv

\* Every step keeps the safety invariant.
LEMMA NextSafe == SafeInv /\ [Next]_vars => SafeInv'
<1> SUFFICES ASSUME TypeOK, StoredInv, WorkerInv, MachineOnRecord, [Next]_vars
             PROVE  StoredInv' /\ WorkerInv' /\ MachineOnRecord'
  BY NextType DEF SafeInv
<1>1. /\ StoreType /\ EnvType /\ WorkType
      /\ key \in Instances /\ inst \in UpVersion /\ gcp \in DnVersion
      /\ Current(up[key]) \in UpVersion
      /\ Current(dn[key]) \in DnVersion /\ Cached(dn[key]) \in DnVersion
  BY TypeParts, StoredVersions DEF WorkType
<1>2. /\ inst.phase \in Phases /\ inst.phase \in Leads(inst.phase)
      /\ Current(dn[key]).phase \in Phases
      /\ Current(dn[key]).phase \in Leads(Current(dn[key]).phase)
  BY <1>1, LeadsOrder, VersionPhases
<1>3. ASSUME Idle, UNCHANGED <<up, dn, vm>>
      PROVE  StoredInv' /\ WorkerInv' /\ MachineOnRecord'
  BY <1>3, WorkerIdle, KeepStored, KeepMachine
<1>4. ASSUME NEW i \in Instances, Worker(i)
      PROVE  StoredInv' /\ WorkerInv' /\ MachineOnRecord'
  <2>1. UNCHANGED <<up, dn, vm, gcp>>
    BY <1>4 DEF Worker, ReconcileSkips, ReconcileFinalizes, ReconcileAddsFinalizer,
                ReconcileProvisions, Load, apiVars, dnVars, envVars, workVars
  <2>2. ReconcileSkips(i) => WorkerInv'
    BY <2>1 DEF ReconcileSkips, WorkerInv, Held, workVars
  <2>3. ASSUME NEW l, Load(i, l)
        PROVE  /\ pc' = l /\ key' = i /\ inst' = Cached(up[i])
               /\ "inst" \notin stale' => inst' = Current(up'[i])
               /\ Exists(gcp') => GCPFinalizer \in gcp'.fins
    BY <1>1, <2>1, <2>3, CurrentFacts DEF Load, WorkerInv
  <2>4. ReconcileFinalizes(i) => WorkerInv'
    <3> SUFFICES ASSUME ReconcileFinalizes(i) PROVE WorkerInv'
      OBVIOUS
    <3>1. Load(i, "fzGet") /\ Cached(up[i]).phase = "deleting"
      BY DEF ReconcileFinalizes
    <3>2. \A n \in 1..Len(up[i]) : up[i][n].phase \in Leaving
      BY <1>1, <3>1, CurrentFacts DEF Leaving
    <3> QED
      BY <2>1, <2>3, <3>1, <3>2
      DEF WorkerInv, Building, Provisioning, Finalizing
  <2>5. ReconcileAddsFinalizer(i) => WorkerInv'
    <3> SUFFICES ASSUME ReconcileAddsFinalizer(i) PROVE WorkerInv'
      OBVIOUS
    <3>1. Load(i, "addFinalizer") /\ Cached(up[i]).phase = "live"
      BY DEF ReconcileAddsFinalizer, NeedsFinalizer
    <3> QED
      BY <2>1, <2>3, <3>1 DEF WorkerInv, Building, Provisioning, Finalizing
  <2>6. ReconcileProvisions(i) => WorkerInv'
    <3> SUFFICES ASSUME ReconcileProvisions(i) PROVE WorkerInv'
      OBVIOUS
    <3>1. Load(i, "owners") /\ Claims(Cached(up[i]))
      BY DEF ReconcileProvisions, NeedsFinalizer, Claims
    <3>2. Held(i) /\ Current(dn[i]).phase # "gone"
      BY <1>1, <3>1, CurrentFacts DEF Claims
    <3>3. Held(i)'
      BY <2>1, <3>2 DEF Held
    <3> QED
      BY <2>1, <2>3, <3>1, <3>2, <3>3 DEF WorkerInv, Building, Provisioning, Finalizing
  <2>7. WorkerInv'
    BY <1>4, <2>2, <2>4, <2>5, <2>6 DEF Worker
  <2> QED
    BY <2>1, <2>7, KeepStored, KeepMachine
<1>5. CASE AddFinalizer
  <2>1. UNCHANGED <<dn, vm>> /\ Idle
    BY <1>5 DEF AddFinalizer, Return, dnVars, envVars
  <2>2. CASE UNCHANGED up
    BY <1>3, <2>1, <2>2
  <2>3. CASE InstUpToDate /\ WriteUp(key, [inst EXCEPT !.fins = @ \cup {GCPFinalizer}])
    <3> DEFINE v == [inst EXCEPT !.fins = @ \cup {GCPFinalizer}]
    <3>1. v \in UpVersion /\ v.phase \in Leads(inst.phase) /\ Exists(v) /\ GCPFinalizer \in v.fins
      BY <1>1, <1>2, <1>5 DEF AddFinalizer, WorkerInv, UpVersion, Finalizers, Exists
    <3>9. StoredInv'
      BY <1>1, <1>5, <2>1, <2>3, <3>1, OwnUpdate DEF AddFinalizer, Finalizing
    <3> QED
      BY <2>1, <3>9, WorkerIdle, KeepMachine
  <2> QED
    BY <1>5, <2>2, <2>3 DEF AddFinalizer
<1>6. CASE LoadOwners
  <2>1. UNCHANGED <<up, dn, vm>> /\ pc = "owners"
    BY <1>6 DEF LoadOwners, apiVars, dnVars, envVars
  <2>2. ASSUME NEW e, Return(e) PROVE WorkerInv'
    BY <2>2, WorkerIdle DEF Return
  <2>3. ASSUME pc' = "prereqs", UNCHANGED <<inst, gcp, stale, key>> PROVE WorkerInv'
    BY <2>1, <2>3 DEF WorkerInv, Building, Provisioning, Finalizing, Held
  <2>4. WorkerInv'
    BY <1>6, <2>2, <2>3 DEF LoadOwners, Goto
  <2> QED
    BY <2>1, <2>4, KeepStored, KeepMachine
<1>7. CASE Prerequisites
  <2>1. /\ UNCHANGED <<up, dn, vm, inst, gcp, stale, key>>
        /\ pc = "prereqs" /\ pc' \in {"getInstance", "updateStatus"}
    BY <1>7 DEF Prerequisites, Goto, Leave, apiVars, dnVars, envVars
  <2>2. WorkerInv'
    BY <2>1 DEF WorkerInv, Building, Provisioning, Finalizing, Held
  <2> QED
    BY <2>1, <2>2, KeepStored, KeepMachine
<1>8. CASE GetGCPInstance
  <2>1. /\ UNCHANGED <<up, dn, vm, inst, key>>
        /\ pc = "getInstance" /\ pc' = "createOrPatch"
        /\ gcp' = Cached(dn[key])
    BY <1>8 DEF GetGCPInstance, GetGCP, Goto, apiVars, dnVars, envVars
  <2>2. /\ "gcp" \notin stale' => gcp' = Current(dn[key])
        /\ "inst" \in stale => "inst" \in stale'
    BY <1>1, <1>8, <2>1, CurrentFacts DEF GetGCPInstance, GetGCP
  <2>3. Exists(gcp') => GCPFinalizer \in gcp'.fins
    BY <1>1, <2>1, CurrentFacts
  <2>4. WorkerInv'
    BY <2>1, <2>2, <2>3 DEF WorkerInv, Building, Provisioning, Finalizing, Held
  <2> QED
    BY <2>1, <2>4, KeepStored, KeepMachine
<1>9. CASE CreateGCPInstance
  <2> DEFINE v == NewGCPInstance
  <2>1. /\ UNCHANGED <<up, vm, inst, key>> /\ WriteDn(key, v) /\ ~Exists(Current(dn[key]))
        /\ pc = "createOrPatch" /\ pc' \in {"retryCreate", "syncPower"}
        /\ gcp' = v /\ stale' = stale \ {"gcp"}
    BY <1>9 DEF CreateGCPInstance, Processed, Goto, envVars
  <2>2. /\ v \in DnVersion /\ v.phase = "live" /\ GCPFinalizer \in v.fins
    BY <1>1 DEF NewGCPInstance, NoGCPInstance, DnVersion, UpVersion, Phases, Finalizers
  <2>3. Current(dn[key]).phase = "none"
    BY <1>2, <2>1 DEF WorkerInv, Building, Provisioning, Finalizing, Exists, Phases
  <2>4. v.phase \in Leads(Current(dn[key]).phase)
    BY <2>2, <2>3 DEF Leads, Phases
  <2>5. /\ StoredInv' /\ Current(dn'[key]) = v
        /\ \A j \in Instances : j # key => dn'[j] = dn[j]
    BY <1>1, <2>1, <2>2, <2>4, StoredDn
  <2>6. WorkerInv'
    BY <2>1, <2>2, <2>5 DEF WorkerInv, Building, Provisioning, Finalizing, Held
  <2>7. vm[key] = "absent"
    BY <1>1, <2>1 DEF MachineOnRecord
  <2>8. MachineOnRecord'
    BY <2>1, <2>5, <2>7 DEF MachineOnRecord
  <2> QED
    BY <2>5, <2>6, <2>8
<1>10. CASE PatchGCPInstance
  <2>1. /\ UNCHANGED <<up, vm, inst, key>> /\ Exists(gcp)
        /\ pc = "createOrPatch" /\ pc' \in {"retryCreate", "syncPower"}
    BY <1>10 DEF PatchGCPInstance, Processed, Goto, envVars
  <2>2. CASE UNCHANGED <<dn, gcp, stale>>
    <3>1. WorkerInv'
      BY <2>1, <2>2 DEF WorkerInv, Building, Provisioning, Finalizing, Held
    <3> QED
      BY <2>1, <2>2, <3>1, KeepStored, KeepMachine
  <2>3. CASE /\ Exists(Current(dn[key])) /\ WriteDn(key, Patched(Current(dn[key])))
             /\ gcp' = Patched(Current(dn[key])) /\ stale' = stale \ {"gcp"}
    <3> DEFINE v == Patched(Current(dn[key]))
    <3>1. GCPFinalizer \in gcp.fins /\ inst.gen \in Nat
      BY <1>1, <2>1 DEF WorkerInv, UpVersion
    <3>2. /\ v \in DnVersion /\ v.phase = Current(dn[key]).phase
          /\ v.fins = Current(dn[key]).fins
      BY <1>1, <3>1 DEF Patched, DnVersion
    <3>3. GCPFinalizer \in v.fins
      BY <1>1, <2>3, <3>2, CurrentFacts
    <3>4. Exists(v) /\ v.phase # "gone" /\ v.phase \in Leads(Current(dn[key]).phase)
      BY <1>2, <2>3, <3>2 DEF Exists
    <3>5. /\ StoredInv' /\ Current(dn'[key]) = v
          /\ \A j \in Instances : j # key => dn'[j] = dn[j]
      BY <1>1, <2>1, <2>3, <3>2, <3>3, <3>4, StoredDn
    <3>6. WorkerInv'
      BY <2>1, <2>3, <3>3, <3>4, <3>5 DEF WorkerInv, Building, Provisioning, Finalizing, Held
    <3>7. MachineOnRecord'
      BY <2>1, <3>2, <3>4, <3>5 DEF MachineOnRecord
    <3> QED
      BY <3>5, <3>6, <3>7
  <2> QED
    BY <1>10, <2>2, <2>3 DEF PatchGCPInstance, Processed, dnVars
<1>11. CASE CreateOrPatchRefused
  <2>1. /\ UNCHANGED <<up, dn, vm, inst, gcp, stale, key>>
        /\ pc = "createOrPatch" /\ pc' = "updateStatus"
    BY <1>11 DEF CreateOrPatchRefused, Leave, apiVars, dnVars, envVars
  <2>2. WorkerInv'
    BY <2>1 DEF WorkerInv, Building, Provisioning, Finalizing, Held
  <2> QED
    BY <2>1, <2>2, KeepStored, KeepMachine
<1>12. CASE RetryCreate
  <2>1. /\ UNCHANGED <<up, vm, inst, gcp, stale, key>>
        /\ pc = "retryCreate" /\ pc' = "updateStatus"
    BY <1>12 DEF RetryCreate, Leave, envVars
  <2>2. CASE UNCHANGED dn
    <3>1. WorkerInv'
      BY <2>1, <2>2 DEF WorkerInv, Building, Provisioning, Finalizing, Held
    <3> QED
      BY <2>1, <2>2, <3>1, KeepStored, KeepMachine
  <2>3. CASE GcpUpToDate /\ \E s \in {gcp.retry, gcp.retry + 1} \ {0} :
                                WriteDn(key, [gcp EXCEPT !.retry = s])
    <3>1. PICK s \in {gcp.retry, gcp.retry + 1} \ {0} : WriteDn(key, [gcp EXCEPT !.retry = s])
      BY <2>3
    <3> DEFINE v == [gcp EXCEPT !.retry = s]
    <3>2. gcp = Current(dn[key]) /\ Exists(gcp)
      BY <2>1, <2>3 DEF WorkerInv, GcpUpToDate
    <3>3. s \in Nat
      <4>1. gcp.retry \in Nat
        BY <1>1 DEF DnVersion
      <4> QED
        BY <3>1, <4>1
    <3>4. v \in DnVersion /\ v.phase = gcp.phase /\ v.fins = gcp.fins
      BY <1>1, <3>3 DEF DnVersion
    <3>5. GCPFinalizer \in v.fins /\ Exists(v) /\ v.phase # "gone"
      BY <3>2, <3>4 DEF WorkerInv, Exists
    <3>6. v.phase \in Leads(Current(dn[key]).phase)
      BY <1>2, <3>2, <3>4
    <3>7. /\ StoredInv' /\ Current(dn'[key]) = v
          /\ \A j \in Instances : j # key => dn'[j] = dn[j]
      BY <1>1, <2>1, <3>1, <3>4, <3>5, <3>6, StoredDn
    <3>8. WorkerInv'
      BY <2>1, <3>5, <3>7 DEF WorkerInv, Building, Provisioning, Finalizing, Held
    <3>9. MachineOnRecord'
      BY <2>1, <3>2, <3>4, <3>5, <3>7 DEF MachineOnRecord
    <3> QED
      BY <3>7, <3>8, <3>9
  <2> QED
    BY <1>12, <2>2, <2>3 DEF RetryCreate, dnVars
<1>13. CASE SyncPower
  <2>1. /\ UNCHANGED <<up, dn, vm, gcp, stale, key>> /\ inst' = WithPower(inst, gcp.cur)
        /\ pc = "syncPower" /\ pc' \in {"conclude", "writePower"}
    BY <1>13 DEF SyncPower, Goto, apiVars, dnVars, envVars
  <2>2. inst'.phase = inst.phase /\ inst'.fins = inst.fins
    BY <1>1, <2>1 DEF WithPower, UpVersion
  <2>3. WorkerInv'
    BY <2>1, <2>2 DEF WorkerInv, Building, Provisioning, Finalizing, Held, Claims
  <2> QED
    BY <2>1, <2>3, KeepStored, KeepMachine
<1>14. CASE WritePower
  <2>1. /\ UNCHANGED <<dn, vm, inst, gcp, stale, key>>
        /\ pc = "writePower" /\ pc' \in {"conclude", "updateStatus"}
    BY <1>14 DEF WritePower, Goto, Leave, dnVars, envVars
  <2>2. CASE UNCHANGED up
    <3>1. WorkerInv'
      BY <2>1, <2>2 DEF WorkerInv, Building, Provisioning, Finalizing, Held
    <3> QED
      BY <2>1, <2>2, <3>1, KeepStored, KeepMachine
  <2>3. CASE InstUpToDate /\ WriteUp(key, inst)
    <3>1. Claims(inst)
      BY <2>1 DEF WorkerInv, Building, Provisioning, Finalizing
    <3>2. StoredInv' /\ Current(up'[key]) = inst
      BY <1>1, <1>2, <2>1, <2>3, <3>1, OwnUpdate DEF Claims, Exists
    <3>3. Held(key)'
      BY <2>1, <3>1, <3>2 DEF Held, Claims, Exists
    <3>4. WorkerInv'
      BY <2>1, <3>2, <3>3 DEF WorkerInv, Building, Provisioning, Finalizing
    <3> QED
      BY <2>1, <3>2, <3>4, KeepMachine
  <2> QED
    BY <1>14, <2>2, <2>3 DEF WritePower
<1>15. CASE Conclude
  <2>1. /\ UNCHANGED <<up, dn, vm, gcp, stale, key>>
        /\ pc = "conclude" /\ pc' = "updateStatus"
    BY <1>15 DEF Conclude, Leave, apiVars, dnVars, envVars
  <2>2. inst'.phase = inst.phase /\ inst'.fins = inst.fins
    BY <1>1, <1>15 DEF Conclude, UpVersion
  <2>3. WorkerInv'
    BY <2>1, <2>2 DEF WorkerInv, Building, Provisioning, Finalizing, Held, Claims
  <2> QED
    BY <2>1, <2>3, KeepStored, KeepMachine
<1>16. CASE UpdateStatus
  <2>1. UNCHANGED <<dn, vm>> /\ Idle
    BY <1>16 DEF UpdateStatus, Return, dnVars, envVars
  <2>2. CASE UNCHANGED up
    BY <1>3, <2>1, <2>2
  <2>3. CASE InstUpToDate /\ WriteUp(key, Reported(inst))
    <3> DEFINE v == Reported(inst)
    <3>1. v \in UpVersion /\ v.phase \in Leads(inst.phase) /\ Exists(v) /\ GCPFinalizer \in v.fins
      <4>1. Claims(inst)
        BY <1>16 DEF UpdateStatus, WorkerInv, Building, Provisioning
      <4>2. v \in UpVersion /\ v.phase = inst.phase /\ v.fins = inst.fins
        BY <1>1 DEF Reported, UpVersion, WorkType
      <4> QED
        BY <1>2, <4>1, <4>2 DEF Claims, Exists
    <3>9. StoredInv'
      BY <1>1, <1>16, <2>1, <2>3, <3>1, OwnUpdate DEF UpdateStatus, Finalizing
    <3> QED
      BY <2>1, <3>9, WorkerIdle, KeepMachine
  <2> QED
    BY <1>16, <2>2, <2>3 DEF UpdateStatus
<1>17. CASE FinalizeStopping
  <2>1. UNCHANGED <<dn, vm>> /\ Idle
    BY <1>17 DEF FinalizeStopping, Return, dnVars, envVars
  <2>2. CASE UNCHANGED up
    BY <1>3, <2>1, <2>2
  <2>3. CASE InstUpToDate /\ WriteUp(key, WithPower(inst, gcp.cur))
    <3> DEFINE v == WithPower(inst, gcp.cur)
    <3>1. v \in UpVersion /\ v.phase \in Leads(inst.phase)
      <4>1. v.phase = inst.phase
        BY <1>1 DEF WithPower, UpVersion
      <4> QED
        BY <1>1, <1>2, <4>1, PowerType
    <3>9. StoredInv'
      BY <1>1, <1>17, <2>1, <2>3, <3>1, OwnUpdate DEF FinalizeStopping, Finalizing
    <3> QED
      BY <2>1, <3>9, WorkerIdle, KeepMachine
  <2> QED
    BY <1>17, <2>2, <2>3 DEF FinalizeStopping
<1>18. CASE FinalizeRemove
  <2>1. UNCHANGED <<dn, vm>> /\ Idle
    BY <1>18 DEF FinalizeRemove, Return, dnVars, envVars
  <2>2. CASE UNCHANGED up
    BY <1>3, <2>1, <2>2
  <2>3. CASE InstUpToDate /\ WriteUp(key, Settled([inst EXCEPT !.fins = @ \ {GCPFinalizer}]))
    <3> DEFINE x == [inst EXCEPT !.fins = @ \ {GCPFinalizer}]
               v == Settled(x)
    <3>1. v \in UpVersion /\ v.phase \in Leads(inst.phase)
      <4>1. x \in UpVersion /\ x.phase = inst.phase
        BY <1>1 DEF UpVersion
      <4>2. v \in UpVersion
        BY <4>1, SettledType
      <4>3. inst.phase = "deleting"
        BY <1>18 DEF FinalizeRemove, WorkerInv, Finalizing
      <4>4. v.phase \in {"deleting", "gone"}
        BY <4>1, <4>3 DEF Settled, UpVersion
      <4> QED
        BY <4>2, <4>3, <4>4 DEF Leads
    <3>9. StoredInv'
      BY <1>1, <1>18, <2>1, <2>3, <3>1, OwnUpdate DEF FinalizeRemove, Finalizing
    <3> QED
      BY <2>1, <3>9, WorkerIdle, KeepMachine
  <2> QED
    BY <1>18, <2>2, <2>3 DEF FinalizeRemove
<1>19. CASE FinalizeGet
  <2>1. /\ UNCHANGED <<up, dn, vm, inst, key>>
        /\ pc = "fzGet" /\ gcp' = Cached(dn[key])
        /\ pc' = IF gcp'.phase = "live" THEN "fzDelete" ELSE AfterDeleteCall(gcp')
    BY <1>19 DEF FinalizeGet, GetGCP, Goto, apiVars, dnVars, envVars
  <2>2. /\ "gcp" \notin stale' => gcp' = Current(dn[key])
        /\ "inst" \in stale => "inst" \in stale'
    BY <1>1, <1>19, <2>1, CurrentFacts DEF FinalizeGet, GetGCP
  <2>3. Exists(gcp') => GCPFinalizer \in gcp'.fins
    BY <1>1, <2>1, CurrentFacts
  <2>4. /\ pc' \in {"fzDelete", "fzStopping", "fzRelease", "fzRemove"}
        /\ pc' = "fzDelete" => gcp'.phase = "live"
        /\ pc' = "fzRelease" => XPFinalizer \notin gcp'.fins /\ gcp'.phase # "live"
    BY <2>1 DEF AfterDeleteCall, TornDown
  <2>5. WorkerInv'
    BY <2>1, <2>2, <2>3, <2>4 DEF WorkerInv, Building, Provisioning, Finalizing
  <2> QED
    BY <2>1, <2>5, KeepStored, KeepMachine
<1>20. CASE FinalizeDelete
  <2>1. UNCHANGED <<up, vm>> /\ pc = "fzDelete"
    BY <1>20 DEF FinalizeDelete, envVars
  <2>2. CASE UNCHANGED dn /\ Idle
    BY <1>3, <2>1, <2>2
  <2> DEFINE v == AfterDelete(Current(dn[key]))
  <2>3. CASE /\ Exists(Current(dn[key])) /\ WriteDn(key, v)
             /\ stale' = Outdates("gcp", key, dn[key], v)
             /\ pc' = AfterDeleteCall(gcp) /\ UNCHANGED <<inst, gcp, key>>
    <3>1. GCPFinalizer \in Current(dn[key]).fins
      BY <1>1, <2>3, CurrentFacts
    <3>2. v \in DnVersion /\ v.phase = "deleting" /\ v.fins = Current(dn[key]).fins
      BY <1>1, <3>1 DEF AfterDelete, Settled, DnVersion, Phases
    <3>3. v.phase \in Leads(Current(dn[key]).phase)
      BY <2>3, <3>2 DEF Exists, Leads
    <3>4. /\ StoredInv' /\ Current(dn'[key]) = v
          /\ \A j \in Instances : j # key => dn'[j] = dn[j]
      BY <1>1, <2>1, <2>3, <3>1, <3>2, <3>3, StoredDn
    <3>5. "gcp" \in stale'
      <4>1. "gcp" \notin stale => v # Current(dn[key])
        BY <2>1, <3>2 DEF WorkerInv
      <4> QED
        BY <2>3, <4>1 DEF Outdates
    <3>6. gcp.phase = "live" /\ Exists(gcp) /\ GCPFinalizer \in gcp.fins
      BY <2>1 DEF WorkerInv, Exists
    <3>7. /\ pc' \in {"fzStopping", "fzRelease"}
          /\ pc' = "fzRelease" => XPFinalizer \notin gcp.fins
      BY <2>3, <3>6 DEF AfterDeleteCall, TornDown
    <3>8. "inst" \notin stale' => "inst" \notin stale
      BY <2>3 DEF Outdates
    <3>9. WorkerInv'
      BY <2>1, <2>3, <3>5, <3>6, <3>7, <3>8 DEF WorkerInv, Building, Provisioning, Finalizing
    <3>10. MachineOnRecord'
      BY <2>1, <3>2, <3>4 DEF MachineOnRecord, Exists
    <3> QED
      BY <3>4, <3>9, <3>10
  <2> QED
    BY <1>20, <2>2, <2>3 DEF FinalizeDelete, Return, Goto, dnVars
<1>21. CASE FinalizeRelease
  <2>1. UNCHANGED <<up, vm>> /\ pc = "fzRelease"
    BY <1>21 DEF FinalizeRelease, envVars
  <2>2. CASE UNCHANGED dn /\ Idle
    BY <1>3, <2>1, <2>2
  <2> DEFINE x == [gcp EXCEPT !.fins = @ \ {GCPFinalizer}]
             v == Settled(x)
  <2>3. CASE /\ GcpUpToDate /\ WriteDn(key, v)
             /\ pc' = "fzRemove" /\ UNCHANGED <<inst, gcp, stale, key>>
    <3>1. /\ gcp = Current(dn[key]) /\ gcp.phase = "deleting" /\ XPFinalizer \notin gcp.fins
      BY <2>1, <2>3 DEF WorkerInv, GcpUpToDate, Exists
    <3>2. x \in DnVersion /\ x.phase = "deleting" /\ x.fins = {}
      BY <1>1, <3>1 DEF DnVersion, Finalizers
    <3>3. v \in DnVersion /\ v.phase = "gone"
      BY <3>2 DEF Settled, DnVersion, Phases
    <3>4. \A n \in 1..Len(up[key]) : up[key][n].phase \in Leaving
      BY <2>1 DEF WorkerInv, Finalizing
    <3>5. v.phase \in Leads(Current(dn[key]).phase) /\ ~Exists(v)
      BY <3>1, <3>3 DEF Leads, Exists
    <3>6. /\ StoredInv' /\ Current(dn'[key]) = v
          /\ \A j \in Instances : j # key => dn'[j] = dn[j]
      BY <1>1, <2>1, <2>3, <3>3, <3>4, <3>5, StoredDn
    <3>7. WorkerInv'
      BY <2>1, <2>3 DEF WorkerInv, Building, Provisioning, Finalizing
    <3>8. vm[key] = "absent"
      BY <1>1, <3>1 DEF MachineOnRecord, Finalizers
    <3>9. MachineOnRecord'
      BY <2>1, <3>6, <3>8 DEF MachineOnRecord
    <3> QED
      BY <3>6, <3>7, <3>9
  <2> QED
    BY <1>21, <2>2, <2>3 DEF FinalizeRelease, Return, Goto, dnVars
<1>22. CASE CallFails
  <2>1. UNCHANGED <<up, dn, vm>>
    BY <1>22 DEF CallFails, apiVars, dnVars
  <2>2. CASE Idle
    BY <1>3, <2>1, <2>2
  <2>3. CASE /\ pc \in Provisioning /\ pc' = "updateStatus"
             /\ UNCHANGED <<inst, gcp, stale, key>>
    <3>1. WorkerInv'
      BY <2>1, <2>3 DEF WorkerInv, Building, Provisioning, Finalizing, Held
    <3> QED
      BY <2>1, <3>1, KeepStored, KeepMachine
  <2> QED
    BY <1>22, <2>2, <2>3 DEF CallFails, Leave, Return
<1>23. CASE PowerAnswerLost
  <2>1. /\ UNCHANGED <<dn, vm, inst, gcp, key>> /\ InstUpToDate /\ WriteUp(key, inst)
        /\ pc = "writePower" /\ pc' = "updateStatus"
        /\ stale' = Outdates("inst", key, up[key], inst)
    BY <1>23 DEF PowerAnswerLost, Leave, dnVars
  <2>2. Claims(inst)
    BY <2>1 DEF WorkerInv, Building, Provisioning, Finalizing
  <2>3. StoredInv' /\ Current(up'[key]) = inst
    BY <1>1, <1>2, <2>1, <2>2, OwnUpdate DEF Claims, Exists
  <2>4. Held(key)'
    BY <2>1, <2>2, <2>3 DEF Held, Claims, Exists
  <2>5. WorkerInv'
    BY <2>1, <2>2, <2>3, <2>4 DEF WorkerInv, Building, Provisioning, Finalizing
  <2> QED
    BY <2>1, <2>3, <2>5, KeepMachine
<1>24. CASE Restart
  <2>1. WorkerInv'
    BY <1>24, WorkerIdle DEF Restart
  <2>2. StoredInv' /\ \A j \in Instances : Current(dn'[j]) = Current(dn[j])
    BY <1>1, <1>24, StoredRelist
  <2>3. MachineOnRecord'
    BY <1>24, <2>2 DEF Restart, MachineOnRecord
  <2> QED
    BY <2>1, <2>2, <2>3
<1>25. CASE LocationChanges
  <2>1. UNCHANGED <<up, dn, pc, inst, gcp, key, stale>>
    BY <1>25 DEF LocationChanges, apiVars, dnVars, workVars
  <2>2. StoredInv' /\ WorkerInv'
    BY <2>1, KeepStored DEF WorkerInv, Held
  <2> QED
    BY <1>25, <2>1, <2>2, KeepMachine DEF LocationChanges
<1>26. ASSUME NEW i \in Instances, User(i)
      PROVE  StoredInv' /\ WorkerInv' /\ MachineOnRecord'
  <2>1. Current(up[i]) \in UpVersion /\ Current(up[i]).phase \in Phases
    BY <1>1, StoredVersions, CurrentFacts
  <2> DEFINE c == Current(up[i])
  <2>2. ASSUME CreateInstance(i)
        PROVE  StoredInv' /\ WorkerInv' /\ MachineOnRecord'
    <3>1. PICK g \in 0..MaxGates :
             StoreUp(i, [NoInstance EXCEPT !.phase = "live", !.gates = g, !.gen = 1])
      BY <2>2 DEF CreateInstance
    <3> DEFINE v == [NoInstance EXCEPT !.phase = "live", !.gates = g, !.gen = 1]
    <3>2. g \in Nat
      BY InstanceAssumption
    <3>3. v \in UpVersion /\ v.phase = "live"
      BY <3>2 DEF NoInstance, UpVersion, Phases, ProgReasons, RunReasons, Finalizers
    <3>4. c.phase = "none" /\ ~Held(i)
      BY <2>2 DEF CreateInstance, Held, Exists
    <3>5. v.phase \in Leads(c.phase)
      BY <3>3, <3>4 DEF Leads, Phases
    <3>6. UNCHANGED vm
      BY <3>1 DEF StoreUp, envVars
    <3> QED
      BY <3>1, <3>3, <3>4, <3>5, <3>6, UpEnv
  <2>3. ASSUME NEW v \in UpVersion, StoreUp(i, v), v.fins = c.fins, v.phase = c.phase
        PROVE  StoredInv' /\ WorkerInv' /\ MachineOnRecord'
    <3>1. v.phase \in Leads(c.phase) /\ (Held(i) => Exists(v) /\ GCPFinalizer \in v.fins)
      BY <2>1, <2>3, LeadsOrder DEF Held, Exists
    <3>2. UNCHANGED vm
      BY <2>3 DEF StoreUp, envVars
    <3> QED
      BY <2>3, <3>1, <3>2, UpEnv
  <2>4. ASSUME RemoveGate(i)
        PROVE  StoredInv' /\ WorkerInv' /\ MachineOnRecord'
    <3> DEFINE v == [c EXCEPT !.gates = @ - 1]
    <3>1. c.gates \in Nat /\ c.gates > 0 /\ StoreUp(i, v)
      BY <2>1, <2>4 DEF RemoveGate, UpVersion
    <3>2. c.gates - 1 \in Nat
      BY <3>1
    <3>3. v \in UpVersion /\ v.fins = c.fins /\ v.phase = c.phase
      BY <2>1, <3>2 DEF UpVersion
    <3> QED
      BY <2>3, <3>1, <3>3
  <2>5. ASSUME UpdateTemplate(i)
        PROVE  StoredInv' /\ WorkerInv' /\ MachineOnRecord'
    <3> DEFINE v == [c EXCEPT !.gen = @ + 1]
    <3>1. v \in UpVersion /\ v.fins = c.fins /\ v.phase = c.phase
      BY <2>1 DEF UpVersion
    <3> QED
      BY <2>3, <2>5, <3>1 DEF UpdateTemplate
  <2>6. ASSUME DeleteInstance(i)
        PROVE  StoredInv' /\ WorkerInv' /\ MachineOnRecord'
    <3> DEFINE v == AfterDelete(c)
    <3>1. StoreUp(i, v) /\ c.phase = "live" /\ UNCHANGED vm
      BY <2>6 DEF DeleteInstance, StoreUp, envVars
    <3>2. /\ v \in UpVersion /\ v.phase \in {"deleting", "gone"} /\ v.fins = c.fins
          /\ GCPFinalizer \in c.fins => v.phase = "deleting"
      BY <2>1 DEF AfterDelete, Settled, UpVersion, Phases
    <3>3. v.phase \in Leads(c.phase)
      BY <3>1, <3>2 DEF Leads
    <3>4. Held(i) => Exists(v) /\ GCPFinalizer \in v.fins
      BY <3>2 DEF Held, Exists
    <3> QED
      BY <3>1, <3>2, <3>3, <3>4, UpEnv
  <2> QED
    BY <1>26, <2>2, <2>4, <2>5, <2>6 DEF User
<1>27. ASSUME NEW i \in Instances, Crossplane(i)
      PROVE  StoredInv' /\ WorkerInv' /\ MachineOnRecord'
  <2> DEFINE c == Current(dn[i])
  <2>1. c \in DnVersion /\ c.phase \in Phases /\ c.phase \in Leads(c.phase)
    BY <1>1, StoredVersions, CurrentFacts, LeadsOrder
  <2>2. Exists(c) => GCPFinalizer \in c.fins
    BY <1>1, CurrentFacts
  <2>3. ASSUME XPAddsFinalizer(i)
        PROVE  StoredInv' /\ WorkerInv' /\ MachineOnRecord'
    <3> DEFINE v == [c EXCEPT !.fins = @ \cup {XPFinalizer}]
    <3>1. StoreDn(i, v) /\ c.phase = "live" /\ UNCHANGED vm
      BY <2>3 DEF XPAddsFinalizer
    <3>2. /\ v \in DnVersion /\ v.phase = "live" /\ v.fins = c.fins \cup {XPFinalizer}
      BY <2>1, <3>1 DEF DnVersion, Finalizers
    <3>3. /\ StoredInv' /\ WorkerInv'
          /\ Current(dn'[i]) = v /\ \A j \in Instances : j # i => dn'[j] = dn[j]
      BY <2>1, <2>2, <3>1, <3>2, DnEnv DEF Exists
    <3>4. MachineOnRecord'
      BY <3>1, <3>2, <3>3 DEF MachineOnRecord, Exists
    <3> QED
      BY <3>3, <3>4
  <2>4. ASSUME XPCreates(i)
        PROVE  StoredInv' /\ WorkerInv' /\ MachineOnRecord'
    <3> DEFINE v == [c EXCEPT !.ready = FALSE]
    <3>1. /\ StoreDn(i, v) /\ c.phase = "live" /\ XPFinalizer \in c.fins
          /\ vm' = [vm EXCEPT ![i] = "PROVISIONING"]
      BY <2>4 DEF XPCreates, Managed
    <3>2. v \in DnVersion /\ v.phase = "live" /\ v.fins = c.fins
      BY <2>1, <3>1 DEF DnVersion
    <3>3. /\ StoredInv' /\ WorkerInv'
          /\ Current(dn'[i]) = v /\ \A j \in Instances : j # i => dn'[j] = dn[j]
      BY <2>1, <2>2, <3>1, <3>2, DnEnv DEF Exists
    <3>4. \A j \in Instances : j # i => vm'[j] = vm[j]
      BY <1>1, <3>1 DEF EnvType
    <3>5. MachineOnRecord'
      <4>1. Exists(v) /\ Finalizers \subseteq v.fins
        BY <2>2, <3>1, <3>2 DEF Exists, Finalizers
      <4> QED
        BY <3>3, <3>4, <4>1 DEF MachineOnRecord
    <3> QED
      BY <3>3, <3>5
  <2>5. ASSUME XPObserves(i)
        PROVE  StoredInv' /\ WorkerInv' /\ MachineOnRecord'
    <3> DEFINE v == [c EXCEPT !.ready = TRUE, !.cur = vm[i]]
    <3>1. StoreDn(i, v) /\ c.phase = "live" /\ UNCHANGED vm /\ vm[i] # "absent"
      BY <2>5 DEF XPObserves
    <3>2. v \in DnVersion /\ v.phase = "live" /\ v.fins = c.fins
      BY <1>1, <2>1, <3>1 DEF DnVersion, EnvType
    <3>3. /\ StoredInv' /\ WorkerInv'
          /\ Current(dn'[i]) = v /\ \A j \in Instances : j # i => dn'[j] = dn[j]
      BY <2>1, <2>2, <3>1, <3>2, DnEnv DEF Exists
    <3>4. MachineOnRecord'
      BY <3>1, <3>2, <3>3 DEF MachineOnRecord, Exists
    <3> QED
      BY <3>3, <3>4
  <2>6. ASSUME XPDeletes(i)
        PROVE  StoredInv' /\ WorkerInv' /\ MachineOnRecord'
    <3>1. UNCHANGED <<up, dn, pc, inst, gcp, key, stale>> /\ vm' = [vm EXCEPT ![i] = "absent"]
      BY <2>6 DEF XPDeletes, MachineChanges, apiVars, dnVars, workVars
    <3>2. StoredInv' /\ WorkerInv'
      BY <3>1, KeepStored DEF WorkerInv, Held
    <3>3. MachineOnRecord'
      BY <1>1, <3>1 DEF MachineOnRecord, EnvType
    <3> QED
      BY <3>2, <3>3
  <2>7. ASSUME XPReleases(i)
        PROVE  StoredInv' /\ WorkerInv' /\ MachineOnRecord'
    <3> DEFINE x == [c EXCEPT !.fins = @ \ {XPFinalizer}]
               v == Settled(x)
    <3>1. StoreDn(i, v) /\ c.phase = "deleting" /\ UNCHANGED vm /\ vm[i] = "absent"
      BY <2>7 DEF XPReleases
    <3>2. /\ x \in DnVersion /\ x.phase = "deleting" /\ GCPFinalizer \in x.fins
      BY <2>1, <2>2, <3>1 DEF DnVersion, Exists, GCPFinalizer, XPFinalizer
    <3>3. v = x
      BY <3>2 DEF Settled
    <3>4. /\ StoredInv' /\ WorkerInv'
          /\ Current(dn'[i]) = v /\ \A j \in Instances : j # i => dn'[j] = dn[j]
      BY <2>1, <3>1, <3>2, <3>3, DnEnv
    <3>5. MachineOnRecord'
      BY <3>1, <3>4 DEF MachineOnRecord
    <3> QED
      BY <3>4, <3>5
  <2> QED
    BY <1>27, <2>3, <2>4, <2>5, <2>6, <2>7 DEF Crossplane
<1>28. ASSUME NEW i \in Instances, DeliverUpstream(i)
      PROVE  StoredInv' /\ WorkerInv' /\ MachineOnRecord'
  <2>1. UNCHANGED <<dn, vm, pc, inst, gcp, key, stale>>
    BY <1>28 DEF DeliverUpstream, dnVars, envVars, workVars
  <2>2. /\ StoredInv'
        /\ Current(up'[key]) = Current(up[key])
        /\ (\A n \in 1..Len(up[key]) : up[key][n].phase \in Leaving) =>
              \A n \in 1..Len(up'[key]) : up'[key][n].phase \in Leaving
    BY <1>1, <1>28, StoredUpTail
  <2>3. WorkerInv'
    BY <2>1, <2>2 DEF WorkerInv, Held
  <2> QED
    BY <2>1, <2>2, <2>3, KeepMachine
<1>29. ASSUME NEW i \in Instances, DeliverDownstream(i)
      PROVE  StoredInv' /\ WorkerInv' /\ MachineOnRecord'
  <2>1. UNCHANGED <<up, vm, pc, inst, gcp, key, stale>>
    BY <1>29 DEF DeliverDownstream, envVars, workVars
  <2>2. StoredInv' /\ \A j \in Instances : Current(dn'[j]) = Current(dn[j])
    BY <1>1, <1>29, StoredDnTail
  <2>3. WorkerInv'
    BY <1>1, <2>1, <2>2 DEF WorkerInv, Held
  <2>4. MachineOnRecord'
    BY <2>1, <2>2 DEF MachineOnRecord
  <2> QED
    BY <2>2, <2>3, <2>4
<1>30. ASSUME NEW i \in Instances, PrereqReady(i)
      PROVE  StoredInv' /\ WorkerInv' /\ MachineOnRecord'
  <2>1. UNCHANGED <<up, dn, pc, inst, gcp, key, stale>>
    BY <1>30 DEF PrereqReady, apiVars, dnVars, workVars
  <2>2. StoredInv' /\ WorkerInv'
    BY <2>1, KeepStored DEF WorkerInv, Held
  <2> QED
    BY <1>30, <2>1, <2>2, KeepMachine DEF PrereqReady
<1>31. ASSUME NEW i \in Instances, PrereqRegresses(i)
      PROVE  StoredInv' /\ WorkerInv' /\ MachineOnRecord'
  <2>1. UNCHANGED <<up, dn, pc, inst, gcp, key, stale>>
    BY <1>31 DEF PrereqRegresses, apiVars, dnVars, workVars
  <2>2. StoredInv' /\ WorkerInv'
    BY <2>1, KeepStored DEF WorkerInv, Held
  <2> QED
    BY <1>31, <2>1, <2>2, KeepMachine DEF PrereqRegresses
<1>32. ASSUME NEW i \in Instances, VMSettles(i)
      PROVE  StoredInv' /\ WorkerInv' /\ MachineOnRecord'
  <2>1. UNCHANGED <<up, dn, pc, inst, gcp, key, stale>>
    BY <1>32 DEF VMSettles, MachineChanges, apiVars, dnVars, workVars
  <2>2. StoredInv' /\ WorkerInv'
    BY <2>1, KeepStored DEF WorkerInv, Held
  <2>3. \E m : vm[i] # "absent" /\ vm' = [vm EXCEPT ![i] = m]
    BY <1>32 DEF VMSettles, MachineChanges
  <2>4. MachineOnRecord'
    BY <1>1, <2>1, <2>3 DEF MachineOnRecord, EnvType
  <2> QED
    BY <2>2, <2>4
<1>33. ASSUME NEW i \in Instances, VMDisturbed(i)
      PROVE  StoredInv' /\ WorkerInv' /\ MachineOnRecord'
  <2>1. UNCHANGED <<up, dn, pc, inst, gcp, key, stale>>
    BY <1>33 DEF VMDisturbed, MachineChanges, apiVars, dnVars, workVars
  <2>2. StoredInv' /\ WorkerInv'
    BY <2>1, KeepStored DEF WorkerInv, Held
  <2>3. \E m : vm[i] # "absent" /\ vm' = [vm EXCEPT ![i] = m]
    BY <1>33 DEF VMDisturbed, MachineChanges
  <2>4. MachineOnRecord'
    BY <1>1, <2>1, <2>3 DEF MachineOnRecord, EnvType
  <2> QED
    BY <2>2, <2>4
<1>34. CASE UNCHANGED vars
  <2>1. UNCHANGED <<up, dn, vm, pc, inst, gcp, key, stale>>
    BY <1>34 DEF vars, apiVars, dnVars, envVars, workVars
  <2> QED
    BY <2>1, KeepStored, KeepMachine DEF WorkerInv, Held
<1> QED
  BY <1>4, <1>5, <1>6, <1>7, <1>8, <1>9, <1>10, <1>11, <1>12, <1>13, <1>14, <1>15, <1>16, <1>17, <1>18, <1>19, <1>20, <1>21, <1>22, <1>23, <1>24, <1>25, <1>26, <1>27, <1>28, <1>29, <1>30, <1>31, <1>32, <1>33, <1>34 DEF Next, Step

LEMMA SafeInvariant == Spec => []SafeInv
  BY InitSafe, NextSafe, PTL DEF Spec

\* While a machine runs at GCP its GCP Instance is stored with Crossplane's and
\* the provider's finalizers, whatever conflicts, failures and stale reads the
\* reconciler meets.
THEOREM MachineOnRecordHolds == Spec => []MachineOnRecord
<1>1. SafeInv => MachineOnRecord
  BY DEF SafeInv
<1> QED
  BY <1>1, SafeInvariant, PTL

\* A step that brings a GCP Instance into being is the worker's Create.
LEMMA CreateStep ==
    ASSUME SafeInv, Next, NEW i \in Instances,
           ~Exists(Current(dn[i])), Exists(Current(dn'[i]))
    PROVE  CreateGCPInstance /\ i = key /\ Held(i)
<1>0. TypeOK /\ StoredInv /\ WorkerInv
  BY DEF SafeInv
<1>1. StoreType /\ WorkType /\ key \in Instances /\ dn' # dn
  BY <1>0, TypeParts DEF WorkType
<1>2. CASE CreateGCPInstance
  <2>1. pc = "createOrPatch" /\ WriteDn(key, NewGCPInstance)
    BY <1>2 DEF CreateGCPInstance
  <2>2. i = key
    BY <1>1, <2>1 DEF WriteDn, StoreType
  <2> QED
    BY <1>0, <1>2, <2>1, <2>2 DEF WorkerInv, Building, Provisioning
<1>3. PatchGCPInstance => FALSE
  <2> SUFFICES ASSUME PatchGCPInstance PROVE FALSE
    OBVIOUS
  <2>1. /\ Exists(Current(dn[key]))
        /\ dn' = [dn EXCEPT ![key] = Write(dn[key], Patched(Current(dn[key])))]
    BY <1>1 DEF PatchGCPInstance, dnVars, WriteDn
  <2> QED
    BY <1>1, <2>1 DEF StoreType
<1>4. RetryCreate => FALSE
  BY <1>1 DEF RetryCreate, GcpUpToDate, WriteDn, dnVars, StoreType
<1>5. FinalizeDelete => FALSE
  BY <1>1 DEF FinalizeDelete, WriteDn, dnVars, StoreType
<1>6. FinalizeRelease => FALSE
  BY <1>1 DEF FinalizeRelease, GcpUpToDate, WriteDn, dnVars, StoreType
<1>7. \A j \in Instances : ~Crossplane(j)
  BY <1>1 DEF Crossplane, XPAddsFinalizer, XPCreates, XPObserves, XPDeletes, XPReleases,
              StoreDn, WriteDn, MachineChanges, Exists, StoreType, apiVars, dnVars
<1>8. \A j \in Instances : ~DeliverDownstream(j)
  <2> SUFFICES ASSUME NEW j \in Instances, DeliverDownstream(j) PROVE FALSE
    OBVIOUS
  <2>1. Current(dn'[i]) = Current(dn[i])
    BY <1>0, <1>1, StoredDnTail
  <2> QED
    BY <2>1
<1>9. Restart => FALSE
  <2> SUFFICES ASSUME Restart PROVE FALSE
    OBVIOUS
  <2>1. Current(dn'[i]) = Current(dn[i])
    BY <1>0, <1>1, StoredRelist
  <2> QED
    BY <2>1
<1>10. \A j \in Instances : ~Worker(j) /\ ~User(j) /\ ~DeliverUpstream(j)
                           /\ ~PrereqReady(j) /\ ~PrereqRegresses(j)
                           /\ ~VMSettles(j) /\ ~VMDisturbed(j)
  BY <1>1 DEF Worker, ReconcileSkips, ReconcileFinalizes, ReconcileAddsFinalizer,
              ReconcileProvisions, Load, User, CreateInstance, RemoveGate, UpdateTemplate,
              DeleteInstance, StoreUp, DeliverUpstream, PrereqReady, PrereqRegresses,
              VMSettles, VMDisturbed, MachineChanges, apiVars, dnVars
<1>11. ~CallFails /\ ~PowerAnswerLost /\ ~LocationChanges
  BY <1>1 DEF CallFails, PowerAnswerLost, LocationChanges, apiVars, dnVars
<1>12. Step => CreateGCPInstance \/ PatchGCPInstance \/ RetryCreate
                 \/ FinalizeDelete \/ FinalizeRelease
  BY <1>1 DEF Step, AddFinalizer, LoadOwners, Prerequisites, GetGCPInstance,
              CreateOrPatchRefused, SyncPower, WritePower, Conclude, UpdateStatus,
              FinalizeGet, FinalizeStopping, FinalizeRemove, apiVars, dnVars
<1> QED
  BY <1>2, <1>3, <1>4, <1>5, <1>6, <1>7, <1>8, <1>9, <1>10, <1>11, <1>12 DEF Next

\* A GCP Instance is created only while the Instance on the server exists and
\* holds the provider's finalizer, however stale the caches are.
THEOREM CreateGuardedHolds == Spec => CreateGuarded
<1>1. SafeInv /\ [Next]_vars =>
         [\A i \in Instances :
            ~Exists(Current(dn[i])) /\ Exists(Current(dn'[i])) => Held(i)]_vars
  BY CreateStep
<1> QED
  BY <1>1, SafeInvariant, PTL DEF Spec, CreateGuarded
-----------------------------------------------------------------------------
(* What lets an Instance go. *)

\* The finalizer leaves an Instance in one place only.
LEMMA HeldStep ==
    ASSUME SafeInv, [Next]_vars, NEW i \in Instances, Held(i), ~Held(i)'
    PROVE  FinalizeRemove /\ i = key
<1>1. /\ TypeOK /\ StoredInv /\ WorkerInv /\ StoreType /\ WorkType
      /\ key \in Instances /\ inst \in UpVersion
  BY TypeParts DEF SafeInv, WorkType
<1>2. up' # up /\ Current(up'[i]) # Current(up[i])
  BY DEF Held
<1>3. ASSUME NEW j \in Instances, NEW v \in UpVersion, WriteUp(j, v),
             Held(j) => Exists(v) /\ GCPFinalizer \in v.fins
      PROVE  FALSE
  <2>1. up'[j] = Write(up[j], v) /\ \A k \in Instances : k # j => up'[k] = up[k]
    BY <1>1, <1>3, WriteUpType
  <2>2. Current(up'[j]) = v
    BY <1>1, <2>1, WriteWindow DEF StoreType
  <2> QED
    BY <1>2, <1>3, <2>1, <2>2 DEF Held
<1>4. ASSUME pc # "idle", InstUpToDate, NEW v \in UpVersion, WriteUp(key, v),
             v.phase = inst.phase, inst.fins \subseteq v.fins
      PROVE  FALSE
  <2>1. inst.phase = Current(up[key]).phase /\ inst.fins = Current(up[key]).fins
    BY <1>1, <1>4 DEF WorkerInv, InstUpToDate
  <2>2. Held(key) => Exists(v) /\ GCPFinalizer \in v.fins
    BY <1>4, <2>1 DEF Held, Exists
  <2> QED
    BY <1>1, <1>3, <1>4, <2>2
<1>5. AddFinalizer => FALSE
  <2>1. LET v == [inst EXCEPT !.fins = @ \cup {GCPFinalizer}] IN
        v \in UpVersion /\ v.phase = inst.phase /\ inst.fins \subseteq v.fins
    BY <1>1 DEF UpVersion, Finalizers
  <2> QED
    BY <1>2, <1>4, <2>1 DEF AddFinalizer
<1>6. WritePower \/ PowerAnswerLost => FALSE
  BY <1>1, <1>2, <1>4 DEF WritePower, PowerAnswerLost
<1>7. UpdateStatus => FALSE
  <2>1. Reported(inst) \in UpVersion /\ Reported(inst).phase = inst.phase
        /\ inst.fins \subseteq Reported(inst).fins
    BY <1>1 DEF Reported, UpVersion, WorkType
  <2> QED
    BY <1>2, <1>4, <2>1 DEF UpdateStatus
<1>8. FinalizeStopping => FALSE
  <2> DEFINE v == WithPower(inst, gcp.cur)
  <2>1. v \in UpVersion
    BY <1>1, PowerType
  <2>2. v.phase = inst.phase /\ inst.fins \subseteq v.fins
    BY <1>1 DEF WithPower, UpVersion
  <2> QED
    BY <1>2, <1>4, <2>1, <2>2 DEF FinalizeStopping
<1>9. FinalizeRemove => i = key
  BY <1>1, <1>2 DEF FinalizeRemove, WriteUp, StoreType
<1>10. ASSUME NEW j \in Instances, User(j) PROVE FALSE
  <2> DEFINE c == Current(up[j])
  <2>1. c \in UpVersion
    BY <1>1, StoredVersions
  <2>2. CreateInstance(j) => FALSE
    <3> SUFFICES ASSUME CreateInstance(j) PROVE FALSE
      OBVIOUS
    <3>1. PICK g \in 0..MaxGates :
             WriteUp(j, [NoInstance EXCEPT !.phase = "live", !.gates = g, !.gen = 1])
      BY DEF CreateInstance, StoreUp
    <3>2. g \in Nat
      BY InstanceAssumption
    <3>3. [NoInstance EXCEPT !.phase = "live", !.gates = g, !.gen = 1] \in UpVersion
      BY <3>2 DEF NoInstance, UpVersion, Phases, ProgReasons, RunReasons, Finalizers
    <3>4. ~Held(j)
      BY DEF CreateInstance, Held, Exists
    <3> QED
      BY <1>3, <3>1, <3>3, <3>4
  <2>3. RemoveGate(j) => FALSE
    <3> SUFFICES ASSUME RemoveGate(j) PROVE FALSE
      OBVIOUS
    <3> DEFINE v == [c EXCEPT !.gates = @ - 1]
    <3>1. c.gates \in Nat /\ c.gates > 0 /\ WriteUp(j, v)
      BY <2>1 DEF RemoveGate, StoreUp, UpVersion
    <3>2. c.gates - 1 \in Nat
      BY <3>1
    <3>3. v \in UpVersion /\ v.fins = c.fins /\ v.phase = c.phase
      BY <2>1, <3>2 DEF UpVersion
    <3> QED
      BY <1>3, <3>1, <3>3 DEF Held, Exists
  <2>4. UpdateTemplate(j) => FALSE
    <3> SUFFICES ASSUME UpdateTemplate(j) PROVE FALSE
      OBVIOUS
    <3> DEFINE v == [c EXCEPT !.gen = @ + 1]
    <3>1. v \in UpVersion /\ v.fins = c.fins /\ v.phase = c.phase
      BY <2>1 DEF UpVersion
    <3> QED
      BY <1>3, <3>1 DEF Held, Exists, UpdateTemplate, StoreUp
  <2>5. DeleteInstance(j) => FALSE
    <3> SUFFICES ASSUME DeleteInstance(j) PROVE FALSE
      OBVIOUS
    <3> DEFINE v == AfterDelete(c)
    <3>1. /\ v \in UpVersion /\ v.fins = c.fins
          /\ GCPFinalizer \in c.fins => v.phase = "deleting"
      BY <2>1 DEF AfterDelete, Settled, UpVersion, Phases
    <3> QED
      BY <1>3, <3>1 DEF Held, Exists, DeleteInstance, StoreUp
  <2> QED
    BY <1>10, <2>2, <2>3, <2>4, <2>5 DEF User
<1>11. \A j \in Instances : ~DeliverUpstream(j)
  BY <1>1, <1>2, StoredUpTail
<1>12. ~Restart
  BY <1>1, <1>2, StoredRelist
<1>13. \A j \in Instances : ~Worker(j) /\ ~Crossplane(j) /\ ~DeliverDownstream(j)
                           /\ ~PrereqReady(j) /\ ~PrereqRegresses(j)
                           /\ ~VMSettles(j) /\ ~VMDisturbed(j)
  BY <1>2 DEF Worker, ReconcileSkips, ReconcileFinalizes, ReconcileAddsFinalizer,
              ReconcileProvisions, Load, Crossplane, XPAddsFinalizer, XPCreates, XPObserves,
              XPDeletes, XPReleases, StoreDn, DeliverDownstream, PrereqReady,
              PrereqRegresses, VMSettles, VMDisturbed, MachineChanges, apiVars
<1>14. ~CallFails /\ ~LocationChanges /\ ~UNCHANGED vars
  BY <1>2 DEF CallFails, LocationChanges, apiVars, vars
<1>15. Step => AddFinalizer \/ WritePower \/ UpdateStatus \/ FinalizeStopping \/ FinalizeRemove
  BY <1>2 DEF Step, LoadOwners, Prerequisites, GetGCPInstance, CreateGCPInstance,
              PatchGCPInstance, CreateOrPatchRefused, RetryCreate, SyncPower, Conclude,
              FinalizeGet, FinalizeDelete, FinalizeRelease, apiVars
<1> QED
  BY <1>5, <1>6, <1>7, <1>8, <1>9, <1>10, <1>11, <1>12, <1>13, <1>14, <1>15 DEF Next

\* In a finalizing reconcile the GCP Instance does not come into being.
LEMMA FinalizingStep ==
    ASSUME SafeInv, Next, pc \in Finalizing, Exists(Current(dn'[key]))
    PROVE  Exists(Current(dn[key]))
<1>1. key \in Instances
  BY TypeParts DEF SafeInv, WorkType
<1> QED
  BY <1>1, CreateStep DEF CreateGCPInstance, Finalizing

LEMMA NextSeen ==
    ASSUME SafeInv, SeenInv, [Next]_vars
    PROVE  SeenInv'
<1>1. /\ TypeOK /\ StoredInv /\ WorkerInv /\ StoreType /\ WorkType /\ key \in Instances
  BY TypeParts DEF SafeInv, WorkType
<1>2. CASE UNCHANGED vars
  BY <1>2 DEF vars, apiVars, dnVars, workVars, SeenInv
<1>3. CASE Next
  <2> SUFFICES ASSUME pc' = "fzRemove", Exists(gcp') PROVE ~Exists(Current(dn'[key']))
    BY DEF SeenInv
  <2>1. ASSUME pc' = pc, key' = key, gcp' = gcp
        PROVE  ~Exists(Current(dn'[key']))
    BY <1>3, <2>1, FinalizingStep DEF SeenInv, Finalizing
  <2>2. FinalizeGet => FALSE
    <3> SUFFICES ASSUME FinalizeGet PROVE FALSE
      OBVIOUS
    <3>1. /\ gcp' = Cached(dn[key])
          /\ pc' = IF gcp'.phase = "live" THEN "fzDelete" ELSE AfterDeleteCall(gcp')
      BY DEF FinalizeGet, GetGCP, Goto
    <3>2. GCPFinalizer \in gcp'.fins
      BY <1>1, <3>1, CurrentFacts
    <3> QED
      BY <3>1, <3>2 DEF AfterDeleteCall, TornDown
  <2>3. FinalizeDelete => FALSE
    <3>1. pc = "fzDelete" => gcp.phase = "live" /\ Exists(gcp) /\ GCPFinalizer \in gcp.fins
      BY <1>1 DEF WorkerInv, Exists
    <3> QED
      BY <3>1 DEF FinalizeDelete, AfterDeleteCall, Return, Idle, Goto
  <2>4. ASSUME FinalizeRelease PROVE ~Exists(Current(dn'[key']))
    <3> DEFINE x == [gcp EXCEPT !.fins = @ \ {GCPFinalizer}]
               v == Settled(x)
    <3>1. GcpUpToDate /\ WriteDn(key, v) /\ key' = key /\ pc = "fzRelease" /\ gcp \in DnVersion
      BY <1>1, <2>4 DEF FinalizeRelease, Return, Idle, Goto, WorkType
    <3>2. gcp.phase = "deleting" /\ XPFinalizer \notin gcp.fins
      BY <1>1, <3>1 DEF WorkerInv, GcpUpToDate, Exists
    <3>3. x \in DnVersion /\ x.phase = "deleting" /\ x.fins = {}
      BY <3>1, <3>2 DEF DnVersion, Finalizers
    <3>4. v \in DnVersion /\ v.phase = "gone"
      BY <3>3 DEF Settled, DnVersion, Phases
    <3>5. Current(dn'[key]) = v
      BY <1>1, <3>1, <3>4, WriteDnType, WriteWindow DEF StoreType
    <3> QED
      BY <3>1, <3>4, <3>5 DEF Exists
  <2>5. Step => FinalizeGet \/ FinalizeDelete \/ FinalizeRelease
    BY DEF Step, AddFinalizer, LoadOwners, Prerequisites, GetGCPInstance,
           CreateGCPInstance, PatchGCPInstance, CreateOrPatchRefused, RetryCreate,
           SyncPower, WritePower, Conclude, UpdateStatus, FinalizeStopping,
           FinalizeRemove, Return, Idle, Leave, Goto, Processed
  <2>6. ~Restart /\ ~CallFails /\ ~PowerAnswerLost
    BY DEF Restart, CallFails, PowerAnswerLost, Return, Idle, Leave
  <2>7. \A i \in Instances : Worker(i) => UNCHANGED <<pc, key, gcp>>
    BY DEF Worker, ReconcileSkips, ReconcileFinalizes, ReconcileAddsFinalizer,
           ReconcileProvisions, Load, workVars
  <2>8. \A j \in Instances : User(j) \/ Crossplane(j) \/ DeliverUpstream(j)
           \/ DeliverDownstream(j) \/ PrereqReady(j) \/ PrereqRegresses(j)
           \/ VMSettles(j) \/ VMDisturbed(j) => UNCHANGED <<pc, key, gcp>>
    BY DEF User, CreateInstance, RemoveGate, UpdateTemplate, DeleteInstance, StoreUp,
           Crossplane, XPAddsFinalizer, XPCreates, XPObserves, XPDeletes, XPReleases,
           StoreDn, DeliverUpstream, DeliverDownstream, PrereqReady, PrereqRegresses,
           VMSettles, VMDisturbed, MachineChanges, workVars
  <2>9. LocationChanges => UNCHANGED <<pc, key, gcp>>
    BY DEF LocationChanges, workVars
  <2> QED
    BY <1>3, <2>1, <2>2, <2>3, <2>4, <2>5, <2>6, <2>7, <2>8, <2>9 DEF Next
<1> QED
  BY <1>2, <1>3

LEMMA SeenInvariant == Spec => [](SafeInv /\ SeenInv)
<1>1. Init => SafeInv /\ SeenInv
  BY InitSafe DEF Init, SeenInv
<1>2. SafeInv /\ SeenInv /\ [Next]_vars => (SafeInv /\ SeenInv)'
  BY NextSafe, NextSeen
<1> QED
  BY <1>1, <1>2, PTL DEF Spec

\* Finalize lets an Instance go while its GCP Instance is stored only if its own
\* Get found none: nothing that happens between the five calls of Finalize, and
\* no other step, makes it let go of one that it has seen.
THEOREM LetGoOnlyUnseenHolds == Spec => LetGoOnlyUnseen
<1>1. SafeInv /\ SeenInv /\ [Next]_vars =>
         [\A i \in Instances :
             Held(i) /\ ~Held(i)' /\ Exists(Current(dn[i]))
                => key = i /\ pc = "fzRemove" /\ ~Exists(gcp)]_vars
  <2> SUFFICES ASSUME SafeInv, SeenInv, [Next]_vars, NEW i \in Instances,
                      Held(i), ~Held(i)', Exists(Current(dn[i]))
               PROVE  key = i /\ pc = "fzRemove" /\ ~Exists(gcp)
    OBVIOUS
  <2>1. FinalizeRemove /\ i = key
    BY HeldStep
  <2> QED
    BY <2>1 DEF FinalizeRemove, SeenInv
<1> QED
  BY <1>1, SeenInvariant, PTL DEF Spec, LetGoOnlyUnseen
=============================================================================
