-------------------------- MODULE InstanceController --------------------------
(***************************************************************************)
(* InstanceReconciler (internal/controller/instance_controller.go): the    *)
(* life of an upstream Instance and of the Crossplane GCP Instance that    *)
(* stands for it downstream, named instance-<UID>.                         *)
(*                                                                         *)
(* One worker takes keys from the work queue.  A reconcile is cut at every *)
(* API call, so that users, the informers, Crossplane, GCP and a crash of  *)
(* the process can step in between two calls.  Reads come from informer    *)
(* caches; writes go to the API servers (module ApiObject).                *)
(*                                                                         *)
(* The workload's shared resources (service account, secrets, firewalls)   *)
(* appear here as prereq[i], the outcome of that stage of the reconcile;   *)
(* InstanceBuild and WorkloadResources have the stage itself.              *)
(***************************************************************************)
EXTENDS ApiObject

CONSTANTS
    Instances,        \* upstream Instances; each stands for one UID
    MaxGen,           \* bound: spec generations of an Instance
    MaxRetry,         \* bound: distinct retry-create time stamps
    MaxGates,         \* bound: scheduling gates of a new Instance
    MaxLag,           \* bound: versions by which an informer may lag behind
    MaxFaults,        \* bound: crashes, failed calls and other disturbances
    Disturbances,     \* statuses a machine may take on by itself at GCP
    ReadYourWrites    \* TRUE: a reconcile starts only once the downstream
                      \* informer has delivered the worker's own Create

ASSUME InstanceAssumption ==
    /\ Instances # {}
    /\ MaxGen \in Nat /\ MaxGates \in Nat /\ MaxFaults \in Nat
    /\ MaxRetry \in Nat \ {0} /\ MaxLag \in Nat \ {0}
    /\ Disturbances \subseteq {"PROVISIONING", "STAGING", "RUNNING", "STOPPING",
                              "SUSPENDING", "SUSPENDED", "REPAIRING", "TERMINATED"}
    /\ ReadYourWrites \in BOOLEAN

VARIABLES
    up,        \* up[i]: the upstream Instance, a window (ApiObject)
    dn,        \* dn[i]: the downstream GCP Instance, a window
    readyAt,   \* readyAt[i]: generations of dn[i] that Crossplane has reported
               \* Ready (history variable; written by XPObserves only)
    vm,        \* vm[i]: the virtual machine at GCP
    loc,       \* the Location: "ours", "foreign" (of another class, or none
               \* is set), "missing"
    prereq,    \* prereq[i]: outcome of what precedes the GCP Instance:
               \* "unprepared" (the runtime functions return before there is
               \* a status to report), then that of the workload's resources
    queue,     \* keys waiting to be reconciled
    pc,        \* where the worker is in Reconcile or Finalize
    key,       \* the key it works on
    inst,      \* its copy of the Instance
    gcp,       \* its copy of the GCP Instance
    stale,     \* which of the two the server has replaced by a newer version
    cond,      \* reason of the Programmed condition it will report
    err,       \* "ok" or "error", what the reconcile will return
    faults     \* disturbances so far

dnVars == <<dn, readyAt>>
apiVars == <<up, dnVars>>
envVars == <<vm, loc, prereq, faults>>
workVars == <<pc, key, inst, gcp, cond, err>>
vars == <<apiVars, envVars, queue, workVars, stale>>

-----------------------------------------------------------------------------
(* Versions of the two objects. *)

GCPFinalizer == "compute.datumapis.com/infra-provider-gcp"
XPFinalizer  == "finalizer.managedresource.crossplane.io"
Finalizers   == {GCPFinalizer, XPFinalizer}

\* status.currentStatus of a GCP instance; "" is nil.
Statuses == {"PROVISIONING", "STAGING", "RUNNING", "STOPPING",
             "SUSPENDING", "SUSPENDED", "REPAIRING", "TERMINATED"}

ProgReasons == {"Unset", "PendingProgramming", "ProvisioningPrerequisite",
                "PrerequisiteFailed", "ProvisioningProviderInstance", "Programmed"}
RunReasons  == {"Unset", "Starting", "Running", "Stopping", "Stopped"}

\* An Instance: prog/pgen are reason and observedGeneration of Programmed,
\* run/rgen those of Running, observed is status.controller's template hash.
UpVersion == [phase : Phases, fins : SUBSET Finalizers, gates : Nat, gen : Nat,
              prog : ProgReasons, pgen : Nat, run : RunReasons, rgen : Nat,
              observed : Nat]

\* A GCP Instance: gen is the Instance generation its spec was built from,
\* ready its Ready condition, cur its currentStatus, retry the annotation.
DnVersion == [phase : Phases, fins : SUBSET Finalizers, gen : Nat,
              ready : BOOLEAN, cur : Statuses \cup {""}, retry : Nat]

NoInstance == [phase |-> "none", fins |-> {}, gates |-> 0, gen |-> 0,
               prog |-> "Unset", pgen |-> 0, run |-> "Unset", rgen |-> 0,
               observed |-> 0]
NoGCPInstance == [phase |-> "none", fins |-> {}, gen |-> 0, ready |-> FALSE,
                  cur |-> "", retry |-> 0]

Provisioning == {"prereqs", "getInstance", "createOrPatch", "retryCreate",
                 "syncPower", "writePower", "conclude", "updateStatus"}
Finalizing == {"fzGet", "fzDelete", "fzStopping", "fzRelease", "fzRemove"}
Labels == {"idle", "addFinalizer", "owners"} \cup Provisioning \cup Finalizing
-----------------------------------------------------------------------------
Init ==
    /\ up = [i \in Instances |-> <<NoInstance>>]
    /\ dn = [i \in Instances |-> <<NoGCPInstance>>]
    /\ readyAt = [i \in Instances |-> {}]
    /\ vm = [i \in Instances |-> "absent"]
    /\ loc = "ours"
    /\ prereq = [i \in Instances |-> "waiting"]
    /\ queue = {}
    /\ pc = "idle" /\ key \in Instances
    /\ inst = NoInstance /\ gcp = NoGCPInstance /\ stale = {}
    /\ cond = "Unset" /\ err = "ok"
    /\ faults = 0

Fault == faults < MaxFaults /\ faults' = faults + 1

-----------------------------------------------------------------------------
(* Writes that reach the servers, and what they do to the copies in hand.   *)

Outdates(copy, i, w, v) ==
    IF i = key /\ v # Current(w) THEN stale \cup {copy} ELSE stale

WriteUp(i, v) == Len(up[i]) <= MaxLag /\ up' = [up EXCEPT ![i] = Write(@, v)]

WriteDn(i, v) == Len(dn[i]) <= MaxLag /\ dn' = [dn EXCEPT ![i] = Write(@, v)]

\* The optimistic concurrency checks of an Update.
InstUpToDate == "inst" \notin stale /\ Exists(Current(up[key]))
GcpUpToDate  == "gcp" \notin stale /\ Exists(Current(dn[key]))

(* The worker returns to the queue; an error puts the key back.             *)

Idle ==
    /\ pc' = "idle" /\ cond' = "Unset" /\ err' = "ok"
    /\ inst' = NoInstance /\ gcp' = NoGCPInstance /\ stale' = {}
    /\ UNCHANGED key

\* Mutation: a failed reconcile is not put back.
ReturnForgets(e) == Idle /\ UNCHANGED queue

Return(e) ==
    /\ Idle
    /\ queue' = IF e = "error" THEN queue \cup {key} ELSE queue

\* reconcileInstance returns early: its deferred function still runs.
Leave(c, e) ==
    /\ pc' = "updateStatus" /\ cond' = c /\ err' = e
    /\ UNCHANGED <<queue, key, gcp>>

Goto(l) == pc' = l /\ UNCHANGED <<queue, key>>
-----------------------------------------------------------------------------
(* Reconcile: reads the Instance from the cache and dispatches.  A Location *)
(* that cannot be read is an error before anything else is looked at: the   *)
(* key is retried and nothing changes, so that case has no action.          *)

\* The downstream informer has delivered the creation of i's GCP Instance.
CreateObserved(i) == Exists(Current(dn[i])) => Exists(Cached(dn[i]))

Take(i) ==
    /\ pc = "idle" /\ i \in queue
    /\ ReadYourWrites => CreateObserved(i)

Load(i, l) ==
    /\ queue' = queue \ {i} /\ key' = i /\ pc' = l
    /\ inst' = Cached(up[i])
    /\ stale' = IF Undelivered(up[i]) THEN {"inst"} ELSE {}
    /\ UNCHANGED <<apiVars, envVars, gcp, cond, err>>

\* The Instance has a Location, of the class that this provider serves.
Processable(i) == Exists(Cached(up[i])) /\ loc = "ours"

\* Mutation: the Instance is provisioned without a finalizer of its own.
NeedsFinalizerIfGated(v) == v.phase = "live" /\ GCPFinalizer \notin v.fins /\ v.gates > 0

NeedsFinalizer(v) == v.phase = "live" /\ GCPFinalizer \notin v.fins

\* The early returns of Reconcile.
ReconcileSkips(i) ==
    /\ Take(i)
    /\ LET v == Cached(up[i]) IN
       \/ ~Exists(v)
       \/ Exists(v) /\ loc = "foreign"
       \/ Processable(i) /\ v.phase = "deleting" /\ GCPFinalizer \notin v.fins
       \/ Processable(i) /\ v.phase = "live" /\ ~NeedsFinalizer(v) /\ v.gates > 0
    /\ queue' = queue \ {i}
    /\ UNCHANGED <<apiVars, envVars, workVars, stale>>

ReconcileFinalizes(i) ==
    /\ Take(i) /\ Processable(i)
    /\ Cached(up[i]).phase = "deleting" /\ GCPFinalizer \in Cached(up[i]).fins
    /\ Load(i, "fzGet")

ReconcileAddsFinalizer(i) ==
    /\ Take(i) /\ Processable(i)
    /\ NeedsFinalizer(Cached(up[i]))
    /\ Load(i, "addFinalizer")

ReconcileProvisions(i) ==
    /\ Take(i) /\ Processable(i)
    /\ Cached(up[i]).phase = "live" /\ ~NeedsFinalizer(Cached(up[i]))
    /\ Cached(up[i]).gates = 0
    /\ Load(i, "owners")

AddFinalizer ==
    /\ pc = "addFinalizer"
    /\ \/ /\ InstUpToDate
          /\ WriteUp(key, [inst EXCEPT !.fins = @ \cup {GCPFinalizer}])
          /\ Return("ok")
       \/ ~InstUpToDate /\ UNCHANGED up /\ Return("error")
    /\ UNCHANGED <<dnVars, envVars>>

\* The WorkloadDeployment and the Workload are read; CallFails has the error.
\* An Instance without a runtime, or with one that is refused, ends here, with
\* or without an error and before the status is looked at.
LoadOwners ==
    /\ pc = "owners"
    /\ \/ /\ prereq[key] # "unprepared"
          /\ Goto("prereqs") /\ cond' = "PendingProgramming"
          /\ UNCHANGED <<inst, gcp, stale, err>>
       \/ prereq[key] = "unprepared" /\ \E e \in {"ok", "error"} : Return(e)
    /\ UNCHANGED <<apiVars, envVars>>
-----------------------------------------------------------------------------
(* reconcileInstance. *)

Prerequisites ==
    /\ pc = "prereqs"
    /\ \/ prereq[key] = "ready" /\ Goto("getInstance") /\ UNCHANGED <<gcp, cond, err>>
       \/ prereq[key] = "waiting" /\ Leave("ProvisioningPrerequisite", "ok")
       \/ prereq[key] = "failed" /\ Leave("PrerequisiteFailed", "error")
    /\ UNCHANGED <<apiVars, envVars, inst, stale>>

\* A Get of the GCP Instance, from the cache.
GetGCP ==
    /\ gcp' = Cached(dn[key])
    /\ stale' = IF Undelivered(dn[key]) THEN stale \cup {"gcp"} ELSE stale \ {"gcp"}

\* CreateOrPatch, first half.
GetGCPInstance ==
    /\ pc = "getInstance"
    /\ GetGCP /\ Goto("createOrPatch")
    /\ UNCHANGED <<apiVars, envVars, inst, cond, err>>

NewGCPInstance ==
    [NoGCPInstance EXCEPT !.phase = "live", !.fins = {GCPFinalizer}, !.gen = inst.gen]

\* The copy already has everything the mutate function sets.
NothingToPatch == GCPFinalizer \in gcp.fins /\ gcp.gen = inst.gen

\* Mutation: the spec is built from the generation last reported.
PatchedFromStatus(v) ==
    [v EXCEPT !.gen = inst.observed,
              !.fins = IF GCPFinalizer \in gcp.fins THEN @ ELSE gcp.fins \cup {GCPFinalizer}]

\* A merge patch carries the finalizer list only if the copy's was changed.
Patched(v) ==
    [v EXCEPT !.gen = inst.gen,
              !.fins = IF GCPFinalizer \in gcp.fins THEN @ ELSE gcp.fins \cup {GCPFinalizer}]

CreatedStopping(v) == v.ready /\ v.cur = "STOPPING"

\* Success of CreateOrPatch with v as the object it leaves in hand.
Processed(v) ==
    /\ Goto(IF CreatedStopping(v) THEN "retryCreate" ELSE "syncPower")
    /\ gcp' = v
    /\ UNCHANGED <<inst, cond, err>>

CreateGCPInstance ==
    /\ pc = "createOrPatch" /\ ~Exists(gcp)
    /\ ~Exists(Current(dn[key]))
    /\ WriteDn(key, NewGCPInstance)
    /\ Processed(NewGCPInstance) /\ stale' = stale \ {"gcp"}
    /\ UNCHANGED <<up, readyAt, envVars>>

PatchGCPInstance ==
    /\ pc = "createOrPatch" /\ Exists(gcp)
    /\ \/ /\ NothingToPatch
          /\ Processed(gcp)
          /\ UNCHANGED <<dn, stale>>
       \/ /\ ~NothingToPatch /\ Exists(Current(dn[key]))
          /\ LET v == Patched(Current(dn[key])) IN WriteDn(key, v) /\ Processed(v)
          /\ stale' = stale \ {"gcp"}
    /\ UNCHANGED <<up, readyAt, envVars>>

\* AlreadyExists for the Create, NotFound for the Patch: the copy was stale.
CreateOrPatchRefused ==
    /\ pc = "createOrPatch"
    /\ \/ ~Exists(gcp) /\ Exists(Current(dn[key]))
       \/ Exists(gcp) /\ ~NothingToPatch /\ ~Exists(Current(dn[key]))
    /\ Leave(cond, "error")
    /\ UNCHANGED <<apiVars, envVars, inst, stale>>

\* The retry annotation is a time stamp in seconds: two writes within one
\* second are the same write, and 0 stands for none.
RetryCreate ==
    /\ pc = "retryCreate"
    /\ \/ /\ GcpUpToDate
          /\ \E s \in {gcp.retry, gcp.retry + 1} \ {0} :
                s <= MaxRetry /\ WriteDn(key, [gcp EXCEPT !.retry = s])
       \/ ~GcpUpToDate /\ UNCHANGED dn
    /\ Leave(cond, "error")
    /\ UNCHANGED <<up, readyAt, envVars, inst, stale>>
-----------------------------------------------------------------------------
(* syncInstancePowerState. *)

\* Mutation: the condition starts without a reason.
RunningReasonUnset(phase, cur) ==
    IF phase # "live" THEN "Stopping"
    ELSE CASE cur \in {"", "PROVISIONING", "STAGING"} -> "Starting"
           [] cur = "RUNNING"  -> "Running"
           [] cur = "STOPPING" -> "Stopping"
           [] OTHER            -> ""

RunningReason(phase, cur) ==
    IF phase # "live" THEN "Stopping"
    ELSE CASE cur \in {"", "PROVISIONING", "STAGING"} -> "Starting"
           [] cur = "RUNNING"  -> "Running"
           [] cur = "STOPPING" -> "Stopping"
           [] OTHER            -> "Stopped"

WithPower(v, cur) ==
    [v EXCEPT !.run = RunningReason(v.phase, cur), !.rgen = v.gen]

SyncPower ==
    /\ pc = "syncPower"
    /\ inst' = WithPower(inst, gcp.cur)
    /\ Goto(IF inst' = inst THEN "conclude" ELSE "writePower")
    /\ UNCHANGED <<apiVars, envVars, gcp, stale, cond, err>>

\* Status().Update; on success the copy is the stored version.
WritePower ==
    /\ pc = "writePower"
    /\ \/ InstUpToDate /\ WriteUp(key, inst) /\ Goto("conclude") /\ UNCHANGED <<gcp, cond, err>>
       \/ ~InstUpToDate /\ UNCHANGED up /\ Leave(cond, "error")
    /\ UNCHANGED <<dnVars, envVars, inst, stale>>

\* Mutation: the Ready condition is not looked at.
ConcludeUnready ==
    /\ pc = "conclude"
    /\ Leave("Programmed", "ok") /\ inst' = [inst EXCEPT !.observed = inst.gen]
    /\ UNCHANGED <<apiVars, envVars, stale>>

\* The Ready check and the status fields set with Programmed.
Conclude ==
    /\ pc = "conclude"
    /\ \/ gcp.ready /\ Leave("Programmed", "ok") /\ inst' = [inst EXCEPT !.observed = inst.gen]
       \/ ~gcp.ready /\ Leave("ProvisioningProviderInstance", "ok") /\ UNCHANGED inst
    /\ UNCHANGED <<apiVars, envVars, stale>>

\* The deferred function: the status is written only if Programmed changed.
Reported(v) == [v EXCEPT !.prog = cond, !.pgen = v.gen]

ConditionChanged == inst.prog # cond \/ inst.pgen # inst.gen

UpdateStatus ==
    /\ pc = "updateStatus"
    /\ \/ ~ConditionChanged /\ UNCHANGED up /\ Return(err)
       \/ ConditionChanged /\ InstUpToDate /\ WriteUp(key, Reported(inst)) /\ Return(err)
       \/ ConditionChanged /\ ~InstUpToDate /\ UNCHANGED up /\ Return("error")
    /\ UNCHANGED <<dnVars, envVars>>
-----------------------------------------------------------------------------
(* Finalize. *)

\* Mutation: a deletionTimestamp is taken for the end of the deletion.
TornDownOnDelete(v) == v.phase # "live" \/ XPFinalizer \notin v.fins

\* Crossplane has let go of the object: "the best we've got" for gone at GCP.
TornDown(v) == ~Exists(v) \/ XPFinalizer \notin v.fins

\* Mutation: Finalize does not wait for Crossplane.
AfterDeleteCallGoesOn(v) ==
    IF v.phase = "deleting" /\ XPFinalizer \notin v.fins THEN "fzRelease" ELSE "fzRemove"

AfterDeleteCall(v) ==
    IF ~TornDown(v) THEN "fzStopping"
    ELSE IF Exists(v) /\ GCPFinalizer \in v.fins THEN "fzRelease" ELSE "fzRemove"

FinalizeGet ==
    /\ pc = "fzGet"
    /\ GetGCP
    /\ Goto(IF gcp'.phase = "live" THEN "fzDelete" ELSE AfterDeleteCall(gcp'))
    /\ UNCHANGED <<apiVars, envVars, inst, cond, err>>

\* Delete goes by name; NotFound is not ignored here.  The copy stays as read.
FinalizeDelete ==
    /\ pc = "fzDelete"
    /\ \/ /\ Exists(Current(dn[key]))
          /\ LET v == AfterDelete(Current(dn[key])) IN
             WriteDn(key, v) /\ stale' = Outdates("gcp", key, dn[key], v)
          /\ Goto(AfterDeleteCall(gcp))
          /\ UNCHANGED <<inst, gcp, cond, err>>
       \/ ~Exists(Current(dn[key])) /\ UNCHANGED dn /\ Return("error")
    /\ UNCHANGED <<up, readyAt, envVars>>

FinalizeStopping ==
    /\ pc = "fzStopping"
    /\ LET v == WithPower(inst, gcp.cur) IN
       \/ v = inst /\ UNCHANGED up /\ Return("ok")
       \/ v # inst /\ InstUpToDate /\ WriteUp(key, v) /\ Return("ok")
       \/ v # inst /\ ~InstUpToDate /\ UNCHANGED up /\ Return("error")
    /\ UNCHANGED <<dnVars, envVars>>

\* The provider's finalizer leaves the GCP Instance, which may remove it.
FinalizeRelease ==
    /\ pc = "fzRelease"
    /\ \/ /\ GcpUpToDate
          /\ WriteDn(key, Settled([gcp EXCEPT !.fins = @ \ {GCPFinalizer}]))
          /\ Goto("fzRemove")
          /\ UNCHANGED <<inst, gcp, stale, cond, err>>
       \/ ~GcpUpToDate /\ UNCHANGED dn /\ Return("error")
    /\ UNCHANGED <<up, readyAt, envVars>>

FinalizeRemove ==
    /\ pc = "fzRemove"
    /\ \/ /\ InstUpToDate
          /\ WriteUp(key, Settled([inst EXCEPT !.fins = @ \ {GCPFinalizer}]))
          /\ Return("ok")
       \/ ~InstUpToDate /\ UNCHANGED up /\ Return("error")
    /\ UNCHANGED <<dnVars, envVars>>
-----------------------------------------------------------------------------
(* Any call of a reconcile may fail; inside reconcileInstance the deferred  *)
(* status update still runs.  A write that was carried out but whose answer *)
(* was lost is the write followed by CallFails, except in WritePower, where *)
(* the copy then keeps the old resourceVersion.                             *)

CallFails ==
    /\ pc \notin {"idle", "conclude"} /\ Fault
    /\ IF pc \in Provisioning \ {"updateStatus"}
         THEN Leave(cond, "error") /\ UNCHANGED <<inst, stale>>
         ELSE Return("error")
    /\ UNCHANGED <<apiVars, vm, loc, prereq>>

PowerAnswerLost ==
    /\ pc = "writePower" /\ Fault
    /\ InstUpToDate /\ WriteUp(key, inst)
    /\ stale' = Outdates("inst", key, up[key], inst)
    /\ Leave(cond, "error")
    /\ UNCHANGED <<dnVars, vm, loc, prereq, inst>>

\* The process dies and starts again: the informers list everything anew and
\* every listed object yields an event.
Restart ==
    /\ Fault
    /\ Idle
    /\ up' = [i \in Instances |-> <<Current(up[i])>>]
    /\ dn' = [i \in Instances |-> <<Current(dn[i])>>]
    /\ queue' = {i \in Instances : Exists(Current(up[i])) \/ Exists(Current(dn[i]))}
    /\ UNCHANGED <<readyAt, vm, loc, prereq>>

\* Watches of SetupWithManager: an event of either object enqueues the key.
DeliverUpstream(i) ==
    /\ Undelivered(up[i])
    /\ up' = [up EXCEPT ![i] = Tail(@)]
    /\ queue' = queue \cup {i}
    /\ UNCHANGED <<dnVars, envVars, workVars, stale>>

\* Mutation: the GCP Instances are not watched.
DeliverDownstreamUnwatched(i) ==
    /\ Undelivered(dn[i])
    /\ dn' = [dn EXCEPT ![i] = Tail(@)]
    /\ UNCHANGED <<up, readyAt, envVars, queue, workVars, stale>>

DeliverDownstream(i) ==
    /\ Undelivered(dn[i])
    /\ dn' = [dn EXCEPT ![i] = Tail(@)]
    /\ queue' = queue \cup {i}
    /\ UNCHANGED <<up, readyAt, envVars, workVars, stale>>
-----------------------------------------------------------------------------
(* Users and the workload-operator (external). *)

StoreUp(i, v) ==
    /\ WriteUp(i, v) /\ stale' = Outdates("inst", i, up[i], v)
    /\ UNCHANGED <<dnVars, envVars, queue, workVars>>

CreateInstance(i) ==
    /\ Current(up[i]).phase = "none"
    /\ \E g \in 0..MaxGates :
          StoreUp(i, [NoInstance EXCEPT !.phase = "live", !.gates = g, !.gen = 1])

RemoveGate(i) ==
    /\ Current(up[i]).phase = "live" /\ Current(up[i]).gates > 0
    /\ StoreUp(i, [Current(up[i]) EXCEPT !.gates = @ - 1])

UpdateTemplate(i) ==
    /\ Current(up[i]).phase = "live" /\ Current(up[i]).gen < MaxGen
    /\ StoreUp(i, [Current(up[i]) EXCEPT !.gen = @ + 1])

DeleteInstance(i) ==
    /\ Current(up[i]).phase = "live"
    /\ StoreUp(i, AfterDelete(Current(up[i])))

\* A Location is edited or removed; nothing watches it.
LocationChanges ==
    /\ Fault
    /\ loc' \in {"ours", "foreign", "missing"} \ {loc}
    /\ UNCHANGED <<apiVars, vm, prereq, queue, workVars, stale>>

\* The template is mended or the workload's resources become ready; an event
\* enqueues i.
PrereqReady(i) ==
    /\ prereq[i] # "ready"
    /\ prereq' = [prereq EXCEPT ![i] = "ready"]
    /\ queue' = queue \cup {i}
    /\ UNCHANGED <<apiVars, vm, loc, faults, workVars, stale>>

PrereqRegresses(i) ==
    /\ Fault
    /\ \E p \in {"unprepared", "waiting", "failed"} : prereq' = [prereq EXCEPT ![i] = p]
    /\ queue' = queue \cup {i}
    /\ UNCHANGED <<apiVars, vm, loc, workVars, stale>>
-----------------------------------------------------------------------------
(* Crossplane and GCP (external), as the comments of reconcileGCPInstance,  *)
(* syncInstancePowerState and Finalize describe them.                       *)

StoreDn(i, v) ==
    /\ WriteDn(i, v) /\ stale' = Outdates("gcp", i, dn[i], v)
    /\ UNCHANGED <<up, loc, prereq, faults, queue, workVars>>

MachineChanges(i, s) ==
    /\ vm' = [vm EXCEPT ![i] = s]
    /\ UNCHANGED <<apiVars, loc, prereq, queue, workVars, stale>>

Managed(i) == XPFinalizer \in Current(dn[i]).fins

XPAddsFinalizer(i) ==
    /\ Current(dn[i]).phase = "live" /\ ~Managed(i)
    /\ StoreDn(i, [Current(dn[i]) EXCEPT !.fins = @ \cup {XPFinalizer}])
    /\ UNCHANGED <<readyAt, vm>>

XPCreates(i) ==
    /\ Current(dn[i]).phase = "live" /\ Managed(i) /\ vm[i] = "absent"
    /\ vm' = [vm EXCEPT ![i] = "PROVISIONING"]
    /\ StoreDn(i, [Current(dn[i]) EXCEPT !.ready = FALSE])
    /\ UNCHANGED readyAt

\* Crossplane reports on the machine it finds, for the spec of this version.
XPObserves(i) ==
    /\ Current(dn[i]).phase = "live" /\ Managed(i)
    /\ vm[i] \notin {"absent", "PROVISIONING"}
    /\ StoreDn(i, [Current(dn[i]) EXCEPT !.ready = TRUE, !.cur = vm[i]])
    /\ readyAt' = [readyAt EXCEPT ![i] = @ \cup {Current(dn[i]).gen}]
    /\ UNCHANGED vm

XPDeletes(i) ==
    /\ Current(dn[i]).phase = "deleting" /\ Managed(i) /\ vm[i] # "absent"
    /\ MachineChanges(i, "absent") /\ UNCHANGED faults

XPReleases(i) ==
    /\ Current(dn[i]).phase = "deleting" /\ Managed(i) /\ vm[i] = "absent"
    /\ StoreDn(i, Settled([Current(dn[i]) EXCEPT !.fins = @ \ {XPFinalizer}]))
    /\ UNCHANGED <<readyAt, vm>>

\* A new machine boots; a stopping one disappears.
VMSettles(i) ==
    /\ \/ vm[i] = "PROVISIONING" /\ MachineChanges(i, "RUNNING")
       \/ vm[i] = "STOPPING" /\ MachineChanges(i, "absent")
    /\ UNCHANGED faults

VMDisturbed(i) ==
    /\ vm[i] # "absent" /\ Fault
    /\ \E s \in Disturbances : MachineChanges(i, s)
-----------------------------------------------------------------------------
Worker(i) ==
    \/ ReconcileSkips(i) \/ ReconcileFinalizes(i)
    \/ ReconcileAddsFinalizer(i) \/ ReconcileProvisions(i)

Step ==
    \/ AddFinalizer \/ LoadOwners \/ Prerequisites \/ GetGCPInstance
    \/ CreateGCPInstance \/ PatchGCPInstance \/ CreateOrPatchRefused
    \/ RetryCreate \/ SyncPower \/ WritePower \/ Conclude \/ UpdateStatus
    \/ FinalizeGet \/ FinalizeDelete \/ FinalizeStopping
    \/ FinalizeRelease \/ FinalizeRemove

User(i) ==
    \/ CreateInstance(i) \/ RemoveGate(i) \/ UpdateTemplate(i) \/ DeleteInstance(i)

Crossplane(i) ==
    \/ XPAddsFinalizer(i) \/ XPCreates(i) \/ XPObserves(i)
    \/ XPDeletes(i) \/ XPReleases(i)

Next ==
    \/ Step \/ CallFails \/ PowerAnswerLost \/ Restart \/ LocationChanges
    \/ \E i \in Instances :
          \/ Worker(i) \/ User(i) \/ Crossplane(i)
          \/ DeliverUpstream(i) \/ DeliverDownstream(i)
          \/ PrereqReady(i) \/ PrereqRegresses(i)
          \/ VMSettles(i) \/ VMDisturbed(i)

Spec == Init /\ [][Next]_vars

\* controller-runtime runs the worker and the informers; Crossplane, GCP and
\* the resources of the workload make progress.  Users and faults need not.
FairSpec ==
    /\ Spec
    /\ WF_vars(Step)
    /\ \A i \in Instances :
          /\ WF_vars(Worker(i))
          /\ WF_vars(DeliverUpstream(i)) /\ WF_vars(DeliverDownstream(i))
          /\ WF_vars(PrereqReady(i))
          /\ WF_vars(Crossplane(i)) /\ WF_vars(VMSettles(i))
-----------------------------------------------------------------------------
(* Properties. *)

TypeOK ==
    /\ up \in [Instances -> Seq(UpVersion) \ {<<>>}]
    /\ dn \in [Instances -> Seq(DnVersion) \ {<<>>}]
    /\ readyAt \in [Instances -> SUBSET Nat]
    /\ vm \in [Instances -> Statuses \cup {"absent"}]
    /\ loc \in {"ours", "foreign", "missing"}
    /\ prereq \in [Instances -> {"unprepared", "waiting", "failed", "ready"}]
    /\ queue \subseteq Instances /\ key \in Instances
    /\ pc \in Labels
    /\ inst \in UpVersion /\ gcp \in DnVersion /\ stale \subseteq {"inst", "gcp"}
    /\ cond \in ProgReasons /\ err \in {"ok", "error"}
    /\ faults \in Nat

\* The Instance is stored and still holds this provider's finalizer.
Held(i) == Exists(Current(up[i])) /\ GCPFinalizer \in Current(up[i]).fins

\* A GCP Instance never outlives the finalizer of the Instance it stands for:
\* Finalize lets the Instance go only after the downstream object is gone.
NoOrphanInstance ==
    \A i \in Instances : Exists(Current(dn[i])) => Held(i)

\* What holds however old the caches are: an Instance is let go while its GCP
\* Instance is stored only by a Finalize whose own Get found none.  No conflict,
\* crash or finalizer that Crossplane adds late makes Finalize let go of one it
\* has seen.
LetGoOnlyUnseen ==
    [][\A i \in Instances :
          Held(i) /\ ~Held(i)' /\ Exists(Current(dn[i]))
             => key = i /\ pc = "fzRemove" /\ ~Exists(gcp)]_vars

\* A machine at GCP is always on record: the GCP Instance with Crossplane's
\* finalizer is stored, and so is the provider's own finalizer on it, which
\* Finalize removes only once Crossplane has let go.
MachineOnRecord ==
    \A i \in Instances :
        vm[i] # "absent" => Exists(Current(dn[i])) /\ Finalizers \subseteq Current(dn[i]).fins

\* CreateOrPatch creates a GCP Instance only for an Instance that still holds
\* the finalizer on the server, however old the copy the reconcile works on.
CreateGuarded ==
    [][\A i \in Instances :
          ~Exists(Current(dn[i])) /\ Exists(Current(dn'[i])) => Held(i)]_vars

\* The spec that CreateOrPatch writes never goes back to an older generation.
SpecNeverRegresses ==
    [][\A i \in Instances :
          Exists(Current(dn[i])) /\ Exists(Current(dn'[i]))
             => Current(dn'[i]).gen >= Current(dn[i]).gen]_vars

\* An Instance reported Programmed at a generation reports that generation's
\* template; while its GCP Instance is stored, that has the spec of the
\* generation or of a later one; and Crossplane has reported it Ready with a spec
\* that was not newer.  Not: with this very spec.  A patch leaves the Ready
\* condition of the old spec, which the same reconcile may read and report.
ProgrammedMeansReady ==
    \A i \in Instances :
        LET v == Current(up[i]) IN
        v.prog = "Programmed" =>
            /\ v.observed = v.pgen
            /\ Exists(Current(dn[i])) => Current(dn[i]).gen >= v.pgen
            /\ \E g \in readyAt[i] : g <= v.pgen

\* While its Location is the provider's, a deleted Instance goes away: no
\* conflict, failed call or restart makes Finalize stop short.
DeletionCompletes ==
    [](loc = "ours") =>
        \A i \in Instances :
            Current(up[i]).phase = "deleting" ~> Current(up[i]).phase = "gone"

\* While its Location is the provider's, an Instance without gates is at some
\* time reported Programmed at its current generation, unless it is deleted.
ProgrammingCompletes ==
    [](loc = "ours") =>
        \A i \in Instances :
            (Current(up[i]).phase = "live" /\ Current(up[i]).gates = 0) ~>
                LET v == Current(up[i]) IN
                v.phase # "live" \/ (v.prog = "Programmed" /\ v.pgen = v.gen)
=============================================================================
