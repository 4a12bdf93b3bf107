-------------------------- MODULE WorkloadResources --------------------------
(***************************************************************************)
(* The downstream resources that the Instances of one Workload share and   *)
(* that the Workload's deletion removes: firewall, service account, the    *)
(* anchor ConfigMap and the Secret Manager secret.  What these own comes   *)
(* and goes with them: the aggregated Kubernetes Secret with the anchor,   *)
(* version and IAM member with the secret.                                 *)
(*                                                                         *)
(* The InstanceReconciler creates them on the way to a GCP Instance        *)
(* (reconcileInstance, reconcileNetworkInterfaceNetworkPolicies and        *)
(* reconcileSecrets of instance_controller.go); the WorkloadReconciler     *)
(* (workload_controller.go) deletes them with the Workload.  Each has one  *)
(* worker.  This module is about the race of the two: what GCP makes of a  *)
(* resource, and so whether a reconcile waits or goes on, is left open.    *)
(* InstanceBuild has the creating side in full.                            *)
(*                                                                         *)
(* A Get of a resource reads the cache, which may lag already: it is taken *)
(* together with the call that follows it.                                 *)
(***************************************************************************)
EXTENDS ApiObject, FiniteSets, Functions

CONSTANTS
    Instances,    \* the Instances of the Workload
    Used,         \* the shared resources that the Instances use
    MaxLag,       \* bound: downstream objects whose latest version is undelivered
    MaxFaults     \* bound: crashes, failed calls, lost events

ASSUME WorkloadAssumption ==
    /\ Instances # {}
    /\ "sa" \in Used /\ Used \subseteq {"firewall", "sa", "anchor", "secret"}
    /\ MaxLag \in Nat \ {0} /\ MaxFaults \in Nat

VARIABLES
    wl,       \* the Workload, a window (ApiObject)
    inst,     \* inst[i]: the Instance, a window
    res,      \* res[x]: the shared resource x, a window
    wqueue,   \* TRUE: the Workload waits to be reconciled
    wpc,      \* where the WorkloadReconciler is
    wstale,   \* TRUE: the server has replaced its copy of the Workload
    iqueue,   \* the Instances that wait to be reconciled
    pc,       \* where the InstanceReconciler is
    key,      \* the Instance it works on
    faults    \* disturbances so far

apiVars == <<wl, inst, res>>
wWork == <<wpc, wstale>>
iWork == <<pc, key>>
vars == <<apiVars, wqueue, wWork, iqueue, iWork, faults>>

gcpInfraFinalizer == "compute.datumapis.com/infra-provider-gcp"

\* In the order in which reconcileInstance gets to them.
Stages == <<"firewall", "sa", "anchor", "secret">>
Resources == Range(Stages)

\* The stage behind stage k, if there is one: what is not used is passed over.
After(k) ==
    {j \in DOMAIN Stages : /\ j > k /\ Stages[j] \in Used
                           /\ \A m \in k + 1..j - 1 : Stages[m] \notin Used}

\* Crossplane holds these for a while when the WorkloadReconciler deletes them.
ManagedResources == {"firewall", "sa", "secret"}

\* rev: the last bit of a count of status updates.
WorkloadVersion == [phase : Phases, fins : SUBSET {gcpInfraFinalizer}]
InstanceVersion == [phase : Phases, rev : 0..1]
ResourceVersion == [phase : {"none", "live", "deleting"}]

NoWorkload == [phase |-> "none", fins |-> {}]
NoInstance == [phase |-> "none", rev |-> 0]
NoResource == [phase |-> "none"]

Labels == {"idle", "owners", "updateStatus"} \cup Resources
WLabels == {"idle", "addFinalizer", "anchor", "sa", "secret", "firewall", "removeFinalizer"}
-----------------------------------------------------------------------------
Init ==
    /\ wl = <<NoWorkload>>
    /\ inst = [i \in Instances |-> <<NoInstance>>]
    /\ res = [x \in Resources |-> <<NoResource>>]
    /\ wqueue = FALSE /\ wpc = "idle" /\ wstale = FALSE
    /\ iqueue = {} /\ pc = "idle" /\ key \in Instances
    /\ faults = 0

Fault == faults < MaxFaults /\ faults' = faults + 1

WriteWl(v) == Len(wl) <= MaxLag /\ wl' = Write(wl, v)
WriteInst(i, v) == Len(inst[i]) <= MaxLag /\ inst' = [inst EXCEPT ![i] = Write(@, v)]
WriteRes(x, v) ==
    /\ ~Undelivered(res[x])
    /\ Cardinality({y \in Resources : Undelivered(res[y])}) < MaxLag
    /\ res' = [res EXCEPT ![x] = Write(@, v)]

\* Crossplane's finalizer keeps a managed resource until GCP is done.
Deleted(x, v) == IF x \in ManagedResources THEN [v EXCEPT !.phase = "deleting"] ELSE NoResource
-----------------------------------------------------------------------------
(* InstanceReconciler. *)

Return(e) ==
    /\ pc' = "idle" /\ UNCHANGED key
    /\ iqueue' = IF e = "error" THEN iqueue \cup {key} ELSE iqueue

Goto(l) == pc' = l /\ UNCHANGED <<iqueue, key>>

ReconcileSkips(i) ==
    /\ pc = "idle" /\ i \in iqueue /\ ~Exists(Cached(inst[i]))
    /\ iqueue' = iqueue \ {i}
    /\ UNCHANGED <<apiVars, wqueue, wWork, iWork, faults>>

\* Finalize of the Instance, which InstanceController has in full.
FinalizesInstance(i) ==
    /\ pc = "idle" /\ i \in iqueue /\ Cached(inst[i]).phase = "deleting"
    /\ WriteInst(i, [Current(inst[i]) EXCEPT !.phase = "gone"])
    /\ iqueue' = iqueue \ {i}
    /\ UNCHANGED <<wl, res, wqueue, wWork, iWork, faults>>

ReconcileProvisions(i) ==
    /\ pc = "idle" /\ i \in iqueue /\ Cached(inst[i]).phase = "live"
    /\ iqueue' = iqueue \ {i} /\ key' = i /\ pc' = "owners"
    /\ UNCHANGED <<apiVars, wqueue, wWork, faults>>

\* The Workload must exist; whether it is being deleted is not asked.
LoadOwners ==
    /\ pc = "owners"
    /\ \/ Exists(Cached(wl)) /\ \E k \in After(0) : Goto(Stages[k])
       \/ ~Exists(Cached(wl)) /\ Return("error")
    /\ UNCHANGED <<apiVars, wqueue, wWork, faults>>

Found(x) == Exists(Cached(res[x]))

\* Behind stage k: the next one or, as GCP has it, the end of reconcileInstance,
\* whose deferred function still runs.
Proceed(k) ==
    \/ \E j \in After(k) : Goto(Stages[j])
    \/ (After(k) = {} \/ Stages[k] \in {"sa", "secret"}) /\ Goto("updateStatus")

\* The Get finds the resource, or it is created.
Ensure(k) ==
    LET x == Stages[k] IN
    /\ pc = x
    /\ \/ Found(x) /\ UNCHANGED res
       \/ /\ ~Found(x) /\ ~Exists(Current(res[x]))
          /\ WriteRes(x, [phase |-> "live"])
    /\ Proceed(k)
    /\ UNCHANGED <<wl, inst, wqueue, wWork, faults>>

EnsureFirewalls == Ensure(1)
EnsureServiceAccount == Ensure(2)

\* The anchor, made for the aggregated Secret, and the Secret Manager secret.
EnsureSecrets == \E k \in {3, 4} : Ensure(k)

\* AlreadyExists: the cache had not heard of the resource.
CreateRefused ==
    /\ pc \in Resources /\ ~Found(pc) /\ Exists(Current(res[pc]))
    /\ Goto("updateStatus")
    /\ UNCHANGED <<apiVars, wqueue, wWork, faults>>

\* The deferred function stores the status unless there is nothing to report
\* or the copy is outdated; an error of it or before it puts the key back.
UpdateStatus ==
    /\ pc = "updateStatus"
    /\ \/ UNCHANGED inst
       \/ /\ Current(inst[key]).phase = "live"
          /\ WriteInst(key, [Current(inst[key]) EXCEPT !.rev = 1 - @])
    /\ \E e \in {"ok", "error"} : Return(e)
    /\ UNCHANGED <<wl, res, wqueue, wWork, faults>>

CallFails ==
    /\ pc # "idle" /\ Fault
    /\ IF pc \in Resources THEN Goto("updateStatus") ELSE Return("error")
    /\ UNCHANGED <<apiVars, wqueue, wWork>>
-----------------------------------------------------------------------------
(* WorkloadReconciler. *)

WIdle == wpc' = "idle" /\ wstale' = FALSE

WReturn(e) == WIdle /\ wqueue' = (wqueue \/ e = "error")

WGoto(l) == wpc' = l /\ UNCHANGED <<wqueue, wstale>>

WLoad(l) ==
    /\ wpc = "idle" /\ wqueue
    /\ wqueue' = FALSE /\ wpc' = l /\ wstale' = Undelivered(wl)
    /\ UNCHANGED <<apiVars, iqueue, iWork, faults>>

WorkloadSkips ==
    /\ wpc = "idle" /\ wqueue
    /\ LET v == Cached(wl) IN
       \/ ~Exists(v)
       \/ v.phase = "deleting" /\ v.fins = {}
       \/ v.phase = "live" /\ v.fins # {}
    /\ wqueue' = FALSE
    /\ UNCHANGED <<apiVars, wWork, iqueue, iWork, faults>>

WorkloadAddsFinalizer ==
    Cached(wl).phase = "live" /\ Cached(wl).fins = {} /\ WLoad("addFinalizer")

\* Mutation: the deletionTimestamp is not looked at.
WorkloadFinalizesAlways == Exists(Cached(wl)) /\ Cached(wl).fins # {} /\ WLoad("anchor")

WorkloadFinalizes ==
    Cached(wl).phase = "deleting" /\ Cached(wl).fins # {} /\ WLoad("anchor")

\* Mutation: that the anchor is gone at the server ends the reconcile.
DeleteAnchorEnds ==
    /\ wpc = "anchor"
    /\ \/ ~Found("anchor") /\ UNCHANGED res /\ WGoto("sa")
       \/ /\ Found("anchor") /\ Exists(Current(res["anchor"]))
          /\ WriteRes("anchor", Deleted("anchor", Current(res["anchor"]))) /\ WGoto("sa")
       \/ Found("anchor") /\ ~Exists(Current(res["anchor"])) /\ UNCHANGED res /\ WReturn("ok")
    /\ UNCHANGED <<wl, inst, iqueue, iWork, faults>>

\* DeleteAnchorForObject: no anchor in the cache is fine, none at the server,
\* after one was found in the cache, is an error.
DeleteAnchor ==
    /\ wpc = "anchor"
    /\ \/ ~Found("anchor") /\ UNCHANGED res /\ WGoto("sa")
       \/ /\ Found("anchor") /\ Exists(Current(res["anchor"]))
          /\ WriteRes("anchor", Deleted("anchor", Current(res["anchor"]))) /\ WGoto("sa")
       \/ Found("anchor") /\ ~Exists(Current(res["anchor"])) /\ UNCHANGED res /\ WReturn("error")
    /\ UNCHANGED <<wl, inst, iqueue, iWork, faults>>

\* Delete by name, where NotFound is no error.
DeleteByName(x, next) ==
    /\ wpc = x
    /\ \/ Exists(Current(res[x])) /\ WriteRes(x, Deleted(x, Current(res[x])))
       \/ ~Exists(Current(res[x])) /\ UNCHANGED res
    /\ WGoto(next)
    /\ UNCHANGED <<wl, inst, iqueue, iWork, faults>>

\* The firewalls are found by a List of the cache.
DeleteFirewalls ==
    /\ wpc = "firewall"
    /\ \/ /\ Found("firewall") /\ Exists(Current(res["firewall"]))
          /\ WriteRes("firewall", Deleted("firewall", Current(res["firewall"])))
       \/ ~(Found("firewall") /\ Exists(Current(res["firewall"]))) /\ UNCHANGED res
    /\ WGoto("removeFinalizer")
    /\ UNCHANGED <<wl, inst, iqueue, iWork, faults>>

\* Mutation: another finalizer is added than the one that is looked for.
WorkloadUpdateMisnamed ==
    /\ wpc \in {"addFinalizer", "removeFinalizer"}
    /\ \/ /\ ~wstale /\ Exists(Current(wl))
          /\ WriteWl(Settled([Current(wl) EXCEPT !.fins =
                 IF wpc = "addFinalizer" THEN {"infra-provider-gcp"} ELSE {}]))
          /\ WReturn("ok")
       \/ (wstale \/ ~Exists(Current(wl))) /\ UNCHANGED wl /\ WReturn("error")
    /\ UNCHANGED <<inst, res, iqueue, iWork, faults>>

\* The Update that adds or removes the finalizer, from the copy read before.
WorkloadUpdate ==
    /\ wpc \in {"addFinalizer", "removeFinalizer"}
    /\ \/ /\ ~wstale /\ Exists(Current(wl))
          /\ WriteWl(Settled([Current(wl) EXCEPT !.fins =
                 IF wpc = "addFinalizer" THEN {gcpInfraFinalizer} ELSE {}]))
          /\ WReturn("ok")
       \/ (wstale \/ ~Exists(Current(wl))) /\ UNCHANGED wl /\ WReturn("error")
    /\ UNCHANGED <<inst, res, iqueue, iWork, faults>>

WorkloadCallFails ==
    /\ wpc # "idle" /\ Fault
    /\ WReturn("error")
    /\ UNCHANGED <<apiVars, iqueue, iWork>>
-----------------------------------------------------------------------------
(* The process and its informers. *)

Restart ==
    /\ Fault /\ pc' = "idle" /\ UNCHANGED key /\ WIdle
    /\ wl' = <<Current(wl)>>
    /\ inst' = [i \in Instances |-> <<Current(inst[i])>>]
    /\ res' = [x \in Resources |-> <<Current(res[x])>>]
    /\ iqueue' = {i \in Instances : Exists(Current(inst[i]))}
    /\ wqueue' = (\E i \in Instances : Exists(Current(inst[i])))

\* Nothing watches Workloads.
DeliverWorkload ==
    /\ Undelivered(wl)
    /\ wl' = Tail(wl)
    /\ UNCHANGED <<inst, res, wqueue, wWork, iqueue, iWork, faults>>

\* An event of an Instance goes to both reconcilers.
DeliverInstance(i) ==
    /\ Undelivered(inst[i])
    /\ inst' = [inst EXCEPT ![i] = Tail(@)]
    /\ iqueue' = iqueue \cup {i} /\ wqueue' = TRUE
    /\ UNCHANGED <<wl, res, wWork, iWork, faults>>

\* The WorkloadReconciler's map function could not read the Location or the
\* WorkloadDeployment: it logs the error and enqueues nothing.
DeliverInstanceDropped(i) ==
    /\ Undelivered(inst[i]) /\ Fault
    /\ inst' = [inst EXCEPT ![i] = Tail(@)]
    /\ iqueue' = iqueue \cup {i}
    /\ UNCHANGED <<wl, res, wqueue, wWork, iWork>>

\* EnqueueInstancesForWorkloadOwnedDownstreamResource, for the kinds that
\* are watched; the others only fill the cache.
DeliverResource(x) ==
    /\ Undelivered(res[x])
    /\ res' = [res EXCEPT ![x] = Tail(@)]
    /\ iqueue' = IF x \in {"sa", "secret"}
                   THEN iqueue \cup {i \in Instances : Exists(Cached(inst[i]))}
                   ELSE iqueue
    /\ UNCHANGED <<wl, inst, wqueue, wWork, iWork, faults>>
-----------------------------------------------------------------------------
(* Users, the workload-operator and Crossplane                              *)
(* (external).                                                              *)

StoreWl(v) ==
    /\ WriteWl(v) /\ wstale' = (wstale \/ wpc # "idle")
    /\ UNCHANGED <<inst, res, wqueue, wpc, iqueue, iWork, faults>>

CreateWorkload == Current(wl).phase = "none" /\ StoreWl([NoWorkload EXCEPT !.phase = "live"])

DeleteWorkload ==
    /\ Current(wl).phase = "live"
    /\ StoreWl(AfterDelete(Current(wl)))

StoreInst(i, v) ==
    /\ WriteInst(i, v)
    /\ UNCHANGED <<wl, res, wqueue, wWork, iqueue, iWork, faults>>

CreateInstance(i) ==
    /\ Current(inst[i]).phase = "none" /\ Current(wl).phase = "live"
    /\ StoreInst(i, [NoInstance EXCEPT !.phase = "live"])

DeleteInstance(i) ==
    /\ Current(inst[i]).phase = "live"
    /\ StoreInst(i, [NoInstance EXCEPT !.phase = "deleting"])

StoreRes(x, v) ==
    /\ WriteRes(x, v)
    /\ UNCHANGED <<wl, inst, wqueue, wWork, iqueue, iWork>>

XPReleases(x) ==
    /\ Current(res[x]).phase = "deleting"
    /\ StoreRes(x, NoResource) /\ UNCHANGED faults

-----------------------------------------------------------------------------
InstanceWorker(i) == ReconcileSkips(i) \/ FinalizesInstance(i) \/ ReconcileProvisions(i)

InstanceStep ==
    \/ LoadOwners \/ CreateRefused \/ UpdateStatus
    \/ EnsureFirewalls \/ EnsureServiceAccount \/ EnsureSecrets

WorkloadWorker ==
    \/ WorkloadSkips \/ WorkloadAddsFinalizer \/ WorkloadFinalizes
    \/ DeleteAnchor \/ DeleteByName("sa", "secret") \/ DeleteByName("secret", "firewall")
    \/ DeleteFirewalls \/ WorkloadUpdate

Next ==
    \/ InstanceStep \/ CallFails \/ WorkloadWorker \/ WorkloadCallFails
    \/ Restart \/ DeliverWorkload \/ CreateWorkload \/ DeleteWorkload
    \/ \E i \in Instances :
          \/ InstanceWorker(i) \/ DeliverInstance(i) \/ DeliverInstanceDropped(i)
          \/ CreateInstance(i) \/ DeleteInstance(i)
    \/ \E x \in Resources : DeliverResource(x) \/ XPReleases(x)

Spec == Init /\ [][Next]_vars

\* Workers, informers and Crossplane make progress.
FairSpec ==
    /\ Spec
    /\ WF_vars(InstanceStep) /\ WF_vars(WorkloadWorker) /\ WF_vars(DeliverWorkload)
    /\ \A i \in Instances : WF_vars(InstanceWorker(i)) /\ WF_vars(DeliverInstance(i))
    /\ \A x \in Resources : WF_vars(DeliverResource(x)) /\ WF_vars(XPReleases(x))
-----------------------------------------------------------------------------
(* Properties. *)

TypeOK ==
    /\ wl \in Seq(WorkloadVersion) \ {<<>>}
    /\ inst \in [Instances -> Seq(InstanceVersion) \ {<<>>}]
    /\ res \in [Resources -> Seq(ResourceVersion) \ {<<>>}]
    /\ wqueue \in BOOLEAN /\ wpc \in WLabels /\ wstale \in BOOLEAN
    /\ iqueue \subseteq Instances /\ pc \in Labels /\ key \in Instances
    /\ faults \in Nat

\* The shared resources are torn down only for a Workload being deleted.
NeverDeletedEarly ==
    [][\A x \in Resources :
          Current(res[x]).phase = "live" /\ Current(res'[x]).phase # "live"
              => Current(wl).phase \in {"deleting", "gone"}]_vars

\* The deletion of a Workload leaves no resource that nobody deletes.
NothingLeftBehind ==
    Current(wl).phase = "gone" =>
        \A x \in {"sa", "secret", "firewall"} : Current(res[x]).phase # "live"

\* Once a reconcile is due that can see the deletion, the Workload goes, as
\* long as there is an Instance that brings it back after a crash.
TeardownCompletes ==
    wqueue /\ Cached(wl).phase = "deleting" ~>
        Current(wl).phase = "gone" \/ \A i \in Instances : ~Exists(Current(inst[i]))
=============================================================================
