---------------------------- MODULE InstanceBuild ----------------------------
(***************************************************************************)
(* InstanceReconciler: how the GCP Instance of an Instance comes about     *)
(* (reconcileInstance, instance_controller.go, with the functions it calls *)
(* and the strategy of mappednamespace.go), from its template (module      *)
(* InstanceSpec) and through the shared resources of the Workload.         *)
(*                                                                         *)
(* The Instance is there, has its finalizer and no scheduling gate, and is *)
(* not deleted: InstanceController and WorkloadResources have the rest of  *)
(* its life and the power state.  Its spec may be changed: it goes through *)
(* the templates of plan, the generation being the index.                  *)
(*                                                                         *)
(* The reconcile is cut at the API calls.  A Get reads a cache, which may  *)
(* lag already: it is taken together with the write that follows it.       *)
(***************************************************************************)
EXTENDS ApiObject, InstanceSpec, Functions

CONSTANTS
    Scenarios    \* set of records with the fields
                 \*   plan       the templates the Instance goes through
                 \*   late       the inputs that turn up later
                 \*   maxLag     bound: downstream objects with undelivered versions
                 \*   maxFaults  bound: crashes, failed calls, failures at GCP

VARIABLES
    scenario,  \* the scenario, which never changes
    dep,       \* the one that the WorkloadDeployment has, as the cache shows it
    avail,     \* the inputs that exist upstream
    up,        \* the Instance, a window (ApiObject)
    fw,        \* fw[s]: the firewall of the rule s, a window
    res,       \* res[x]: the resource x of the Workload, a window
    gcp,       \* the GCP Instance, a window
    queued,    \* TRUE: the Instance waits to be reconciled
    pc,        \* where the worker is
    inst,      \* its copy of the Instance
    wd,        \* the template of its copy of the WorkloadDeployment
    stale,     \* TRUE: the server has replaced that copy
    outdated,  \* TRUE: the same of its copy of the GCP Instance, before RetryCreate
    todo,      \* steps of the network policies left
    hand,      \* the objects in its hands that are ready
    cond,      \* reason of the Programmed condition it will report
    err,       \* what the reconcile will return
    faults     \* disturbances so far

upstream == <<scenario, dep, avail>>
downstream == <<fw, res, gcp>>
work == <<pc, inst, wd, stale, outdated, todo, hand, cond, err>>
vars == <<upstream, up, downstream, queued, work, faults>>
-----------------------------------------------------------------------------
\* The Namespace, the anchor and the aggregated Secret are Kubernetes' own,
\* the others managed resources.
Resources == {"ns", "anchor", "agg", "sa", "secret", "version", "iam"}

Reasons == {"Unset", "PendingProgramming", "ServiceAccountFailedToCreate",
            "ProvisioningSecret", "ProvisioningSecretVersion",
            "ProvisioningSecretIAMMember", "ProvisioningServiceAccount",
            "ProvisioningProviderInstance", "Programmed"}

plan == scenario.plan

Templates == UNION {Range(c.plan) : c \in Scenarios}
AllRules == UNION {Rules(t) : t \in Templates}
AllSecrets == UNION {Secrets(t) : t \in Templates}

\* <deployment>-net-<index>, with the context, network and subnet behind it.
Binding == <<"net-0", "net-1">>
InputsOf(t) == ConfigMaps(t) \cup Secrets(t) \cup {Binding[k] : k \in DOMAIN t.interfaces}
Inputs(c) == UNION {InputsOf(t) : t \in Range(c.plan)}

ASSUME BuildAssumption ==
    /\ Scenarios # {}
    /\ \A c \in Scenarios :
          /\ c.plan \in Seq(Range(c.plan)) \ {<<>>} /\ c.late \subseteq Inputs(c)
          /\ c.maxLag \in Nat \ {0} /\ c.maxFaults \in Nat
    /\ \A t \in Templates :
          /\ t.attachments \in Seq(Range(t.attachments))
          /\ \A p \in ConfigVolumes(t) : IsFiniteSet(Keys[p[2]])

\* reason and obs: the Programmed condition and its observedGeneration; hash:
\* the generation that the observed template hash is of.
InstanceVersion == [gen : Nat, reason : Reasons, obs : Nat, hash : Nat]

\* state: whether it is at GCP, or has failed (AsyncCreateFailure); issued: the
\* service account has the annotation external-create-succeeded, which only
\* means that its creation was asked for; holds: the Secrets that the
\* aggregated Secret has, or that Secret Manager serves.
ResourceVersion ==
    [phase : Phases, state : {"new", "ready", "failed"}, issued : BOOLEAN, holds : SUBSET AllSecrets]

NoInstance == [gen |-> 1, reason |-> "Unset", obs |-> 0, hash |-> 0]
NoResource == [phase |-> "none", state |-> "new", issued |-> FALSE, holds |-> {}]
NewResource == [NoResource EXCEPT !.phase = "live"]

\* ready: Crossplane takes the machine for created; stopping: its status is
\* STOPPING; retry: the annotation retry-create asks Crossplane to look again.
NoGCPInstance ==
    [phase |-> "none", ready |-> FALSE, stopping |-> FALSE, retry |-> FALSE, spec |-> NoGCPSpec]

Labels == {"idle", "policies", "createAnchor", "createAgg", "gcp", "retryCreate", "updateStatus"}
              \cup (Resources \ {"ns"})
-----------------------------------------------------------------------------
Init ==
    /\ scenario \in Scenarios /\ dep = 1
    /\ avail = Inputs(scenario) \ scenario.late
    /\ up = <<NoInstance>> /\ gcp = <<NoGCPInstance>>
    /\ fw = [s \in AllRules |-> <<NoResource>>]
    /\ res = [x \in Resources |-> <<NoResource>>]
    /\ queued = TRUE /\ faults = 0
    /\ pc = "idle" /\ inst = NoInstance /\ wd = 1 /\ stale = FALSE
    /\ outdated = FALSE /\ todo = {} /\ hand = {} /\ cond = "Unset" /\ err = "ok"

Fault == faults < scenario.maxFaults /\ faults' = faults + 1

\* A downstream write waits until the informers are less than maxLag behind.
InStep ==
    Cardinality({x \in Resources : Undelivered(res[x])})
      + Cardinality({s \in AllRules : Undelivered(fw[s])})
      + (Len(gcp) - 1) < scenario.maxLag

WriteUp(v) == Len(up) = 1 /\ up' = Write(up, v)
WriteRes(x, v) ==
    InStep /\ ~Undelivered(res[x]) /\ res' = [res EXCEPT ![x] = Write(@, v)]
WriteFw(s, v) == InStep /\ fw' = [fw EXCEPT ![s] = Write(@, v)]
WriteGcp(v) == InStep /\ gcp' = Write(gcp, v)

Found(x) == Exists(Cached(res[x]))
-----------------------------------------------------------------------------
(* The frame of a reconcile. *)

Idle ==
    /\ pc' = "idle" /\ inst' = NoInstance /\ wd' = 1 /\ stale' = FALSE
    /\ outdated' = FALSE /\ todo' = {} /\ hand' = {} /\ cond' = "Unset" /\ err' = "ok"

\* Mutation: a reconcile always asks for another.
ReturnRequeues(e) == Idle /\ queued' = TRUE

Return(e) == Idle /\ queued' = (queued \/ e = "error")

\* reconcileInstance returns or panics: its deferred function still runs.
Leave(c, e) ==
    /\ pc' = "updateStatus" /\ cond' = c /\ err' = e /\ outdated' = FALSE
    /\ UNCHANGED <<queued, inst, wd, stale, todo, hand>>

Goto(l) == pc' = l /\ UNCHANGED <<queued, inst, wd, stale, outdated, cond, err>>

\* The template in hand.
template == plan[inst.gen]

\* Reconcile and the function of the runtime, up to reconcileInstance.
Reconcile ==
    /\ pc = "idle" /\ queued
    /\ LET t == plan[Cached(up).gen] IN
       \/ /\ Preparation(t) = "ok"
          /\ pc' = "policies" /\ inst' = Cached(up) /\ wd' = dep /\ stale' = Undelivered(up)
          /\ todo' = PolicySteps(plan[dep]) /\ cond' = "PendingProgramming"
          /\ queued' = FALSE /\ UNCHANGED <<outdated, hand, err>>
       \/ /\ Preparation(t) # "ok"
          /\ queued' = (Preparation(t) = "error") /\ UNCHANGED work
    /\ UNCHANGED <<upstream, up, downstream, faults>>

-----------------------------------------------------------------------------
(* reconcileNetworkInterfaceNetworkPolicies, with the template of the        *)
(* WorkloadDeployment: a loop over interfaces and rules.                     *)

\* The steps at which something is to be done: a binding that is not there, or
\* a rule whose firewall the cache does not have.
Pending ==
    {s \in todo : IF s[2] = 0 THEN Binding[s[1]] \notin avail ELSE ~Exists(Cached(fw[s]))}

First(s) == s \in Pending /\ \A u \in Pending \ {s} : Precedes(s, u)

\* The end of the loop, or the return at a named port.
PoliciesDone ==
    /\ pc = "policies"
    /\ \/ Pending = {}
       \/ \E s \in Pending : First(s) /\ s[2] > 0 /\ NamedPort(plan[wd], s)
    /\ Goto("sa") /\ todo' = {} /\ UNCHANGED hand
    /\ UNCHANGED <<upstream, up, downstream, faults>>

\* Mutation: an interface whose binding cannot be read is passed over.
PolicyPassesOver ==
    /\ pc = "policies"
    /\ \E s \in Pending :
          /\ First(s)
          /\ \/ s[2] = 0 /\ Goto("sa") /\ todo' = {} /\ UNCHANGED hand
             \/ s[2] > 0 /\ ~NamedPort(plan[wd], s) /\ Exists(Current(fw[s])) /\ Leave(cond, "error")
    /\ UNCHANGED <<upstream, up, downstream, faults>>

\* The binding cannot be read, or the cache had not heard of the firewall.
PolicyFails ==
    /\ pc = "policies"
    /\ \E s \in Pending :
          /\ First(s)
          /\ \/ s[2] = 0
             \/ s[2] > 0 /\ ~NamedPort(plan[wd], s) /\ Exists(Current(fw[s]))
    /\ Leave(cond, "error")
    /\ UNCHANGED <<upstream, up, downstream, faults>>

CreateFirewall(s) ==
    /\ pc = "policies" /\ First(s) /\ s[2] > 0 /\ ~NamedPort(plan[wd], s)
    /\ ~Exists(Current(fw[s])) /\ WriteFw(s, NewResource)
    /\ Goto("policies") /\ todo' = {u \in todo : Precedes(s, u)} /\ UNCHANGED hand
    /\ UNCHANGED <<upstream, up, res, gcp, faults>>
-----------------------------------------------------------------------------
(* The shared resources. *)

\* The Get finds the resource, or it is created.
Ensure(x) ==
    /\ \/ Found(x) /\ UNCHANGED res
       \/ ~Found(x) /\ ~Exists(Current(res[x])) /\ WriteRes(x, NewResource)
    /\ UNCHANGED <<upstream, up, fw, gcp, todo, faults>>

\* State of the object that Ensure leaves in hand.
StateOf(x) == IF Found(x) THEN Cached(res[x]).state ELSE "new"

Remember(x, good) == hand' = IF good THEN hand \cup {x} ELSE hand

\* What is created at a label; a Namespace comes before a namespaced object.
Created == [sa |-> "sa", secret |-> "secret", version |-> "version", iam |-> "iam",
            anchor |-> "ns", createAnchor |-> "anchor", agg |-> "ns", createAgg |-> "agg"]

\* AlreadyExists: the cache had not heard of the resource.
CreateRefused ==
    /\ pc \in DOMAIN Created /\ Exists(Current(res[Created[pc]]))
    /\ pc \in {"createAnchor", "createAgg"} \/ ~Found(Created[pc])
    /\ pc \in {"anchor", "agg"} => ~Found(pc)
    /\ Leave(cond, "error")
    /\ UNCHANGED <<upstream, up, downstream, faults>>

\* Behind the service account: buildConfigMaps and the upstream Secrets are
\* read, then, if there are Secrets, the aggregated Secret is reconciled.
InputsRead == (ConfigMaps(template) \cup Secrets(template)) \subseteq avail

\* Whether its creation has been issued, in that object.
Issued == Found("sa") /\ Cached(res["sa"]).issued

\* Mutation: the annotation is not waited for.
EnsureAccountAnyway ==
    /\ pc = "sa" /\ Ensure("sa")
    /\ \/ /\ StateOf("sa") = "failed"
          /\ Leave("ServiceAccountFailedToCreate", "error")
       \/ StateOf("sa") # "failed" /\ ~InputsRead /\ Leave(cond, "error")
       \/ /\ StateOf("sa") # "failed" /\ InputsRead /\ Remember("sa", TRUE)
          /\ Goto(IF Secrets(template) = {} THEN "gcp" ELSE "anchor")

\* Mutation: the reason of the failed operation is handed on.
EnsureAccountHandsOn ==
    /\ pc = "sa" /\ Ensure("sa")
    /\ \/ StateOf("sa") = "failed" /\ Leave("AsyncCreateFailure", "error")
       \/ StateOf("sa") # "failed" /\ ~InputsRead /\ Leave(cond, "error")
       \/ /\ StateOf("sa") # "failed" /\ InputsRead /\ Remember("sa", Issued)
          /\ Goto(IF Secrets(template) = {} THEN "gcp" ELSE "anchor")

\* The failure is looked for first, then the annotation, issued or not.
EnsureServiceAccount ==
    /\ pc = "sa" /\ Ensure("sa")
    /\ \/ /\ StateOf("sa") = "failed"
          /\ Leave("ServiceAccountFailedToCreate", "error")
       \/ StateOf("sa") # "failed" /\ ~InputsRead /\ Leave(cond, "error")
       \/ /\ StateOf("sa") # "failed" /\ InputsRead /\ Remember("sa", Issued)
          /\ Goto(IF Secrets(template) = {} THEN "gcp" ELSE "anchor")

\* The namespaced objects: Create of the mapped client sees to the Namespace.
\* SetControllerReference first looks for the anchor.
EnsureNamespace ==
    /\ \/ pc = "anchor" /\ ~Found("anchor") /\ Goto("createAnchor")
       \/ pc = "agg" /\ ~Found("agg") /\ Goto("createAgg")
    /\ Ensure("ns") /\ UNCHANGED hand

FindAnchor ==
    /\ pc = "anchor" /\ Found("anchor")
    /\ Goto("agg") /\ UNCHANGED <<upstream, up, downstream, todo, hand, faults>>

CreateAnchor ==
    /\ pc = "createAnchor" /\ ~Exists(Current(res["anchor"]))
    /\ WriteRes("anchor", NewResource) /\ Goto("agg")
    /\ UNCHANGED <<upstream, up, fw, gcp, todo, hand, faults>>

\* CreateOrUpdate of the aggregated Secret: the Secrets of this template.
Aggregated == [NewResource EXCEPT !.holds = Secrets(template)]

CreateAggregated ==
    /\ pc = "createAgg" /\ ~Exists(Current(res["agg"]))
    /\ WriteRes("agg", Aggregated) /\ Goto("secret")
    /\ UNCHANGED <<upstream, up, fw, gcp, todo, hand, faults>>

UpdateAggregated ==
    /\ pc = "agg" /\ Found("agg")
    /\ \/ Cached(res["agg"]) = Aggregated /\ UNCHANGED res /\ Goto("secret")
       \/ /\ Cached(res["agg"]) # Aggregated /\ ~Undelivered(res["agg"])
          /\ WriteRes("agg", Aggregated) /\ Goto("secret")
       \/ /\ Cached(res["agg"]) # Aggregated /\ Undelivered(res["agg"])
          /\ UNCHANGED res /\ Leave(cond, "error")
    /\ UNCHANGED <<upstream, up, fw, gcp, todo, hand, faults>>

EnsureSecret ==
    /\ pc = "secret" /\ Ensure("secret")
    /\ \/ StateOf("secret") = "ready" /\ Goto("version") /\ UNCHANGED hand
       \/ StateOf("secret") # "ready" /\ Leave("ProvisioningSecret", "ok")

\* CreateOrPatch; the version names the aggregated Secret, not its content.
EnsureVersion ==
    /\ pc = "version" /\ Ensure("version")
    /\ Remember("version", StateOf("version") = "ready") /\ Goto("iam")

\* Only the reconcile that creates the IAM member waits for it and for the
\* version: the new object is never Ready.
EnsureIAMMember ==
    /\ pc = "iam" /\ Ensure("iam")
    /\ \/ Found("iam") /\ Goto("gcp") /\ UNCHANGED hand
       \/ ~Found("iam") /\ "version" \notin hand /\ Leave("ProvisioningSecretVersion", "ok")
       \/ ~Found("iam") /\ "version" \in hand /\ Leave("ProvisioningSecretIAMMember", "ok")
-----------------------------------------------------------------------------
(* The GCP Instance. *)

AwaitAccount ==
    /\ pc = "gcp" /\ "sa" \notin hand
    /\ Leave("ProvisioningServiceAccount", "ok")
    /\ UNCHANGED <<upstream, up, downstream, faults>>

Building == pc = "gcp" /\ "sa" \in hand

\* The mutate function fails, or panics, which controller-runtime turns into
\* an error.  The index is out of range only behind the bindings in front.
BuildImpossible ==
    \/ Unbuildable(template)
    \/ \E k \in DOMAIN template.interfaces : Binding[k] \notin avail
    \/ Overruns(template, Cached(gcp).spec.nics)

BuildFails ==
    /\ Building
    /\ \/ BuildImpossible
       \/ ~Exists(Cached(gcp)) /\ Exists(Current(gcp))
    /\ Leave(cond, "error")
    /\ UNCHANGED <<upstream, up, downstream, faults>>

CreateGCPInstance ==
    /\ Building /\ ~BuildImpossible /\ ~Exists(Cached(gcp)) /\ ~Exists(Current(gcp))
    /\ \E s \in GCPSpecs(template, NoGCPSpec) :
          WriteGcp([NoGCPInstance EXCEPT !.phase = "live", !.spec = s])
    /\ Leave("ProvisioningProviderInstance", "ok")
    /\ UNCHANGED <<upstream, up, fw, res, faults>>

\* Mutation: a machine that is STOPPING is a machine.
ExamineReady(v, old) ==
    \/ v.ready /\ Leave("Programmed", "ok")
    \/ ~v.ready /\ Leave("ProvisioningProviderInstance", "ok")

\* The status of the object in hand decides on what is reported.  One that is
\* Ready and STOPPING was created before its service account was there.
Examine(v, old) ==
    \/ v.ready /\ ~v.stopping /\ Leave("Programmed", "ok")
    \/ ~v.ready /\ Leave("ProvisioningProviderInstance", "ok")
    \/ /\ v.ready /\ v.stopping /\ pc' = "retryCreate" /\ outdated' = old
       /\ UNCHANGED <<queued, inst, wd, stale, todo, hand, cond, err>>

\* A merge patch of what differs from the cached copy: no resourceVersion is
\* checked, and what the copy has already is not sent.
Patch(new, old, v) ==
    [f \in DOMAIN new |-> IF new[f] = old[f] THEN v[f] ELSE new[f]]

PatchGCPInstance ==
    /\ Building /\ ~BuildImpossible /\ Exists(Cached(gcp))
    /\ LET c == Cached(gcp) IN
       \E s \in GCPSpecs(template, c.spec) :
          \/ s = c.spec /\ UNCHANGED gcp /\ Examine(c, Undelivered(gcp))
          \/ /\ s # c.spec
             /\ WriteGcp([Current(gcp) EXCEPT !.spec = Patch(s, c.spec, @)])
             /\ Examine(Current(gcp), FALSE)
    /\ UNCHANGED <<upstream, up, fw, res, faults>>

\* An Update of the copy, which must be the server's; an error in any case.
RetryCreate ==
    /\ pc = "retryCreate" /\ Leave(cond, "error")
    /\ \/ outdated /\ UNCHANGED gcp
       \/ ~outdated /\ WriteGcp([Current(gcp) EXCEPT !.retry = TRUE])
    /\ UNCHANGED <<upstream, up, fw, res, faults>>

\* Mutation: a patch of the status, which reports on the generation it meets.
UpdateStatusLatest ==
    /\ pc = "updateStatus"
    /\ WriteUp([Current(up) EXCEPT !.reason = cond, !.obs = Current(up).gen,
                   !.hash = IF cond = "Programmed" THEN Current(up).gen ELSE @])
    /\ Return(err)
    /\ UNCHANGED <<upstream, downstream, faults>>

\* The deferred function.  SetStatusCondition says whether anything changed;
\* the template hash set on the way is stored only then.
UpdateStatus ==
    /\ pc = "updateStatus"
    /\ LET v == [inst EXCEPT !.reason = cond, !.obs = inst.gen,
                             !.hash = IF cond = "Programmed" THEN inst.gen ELSE @]
           changed == <<inst.reason, inst.obs>> # <<cond, inst.gen>>
       IN  \/ ~changed /\ UNCHANGED up /\ Return(err)
           \/ changed /\ ~stale /\ WriteUp(v) /\ Return(err)
           \/ changed /\ stale /\ UNCHANGED up /\ Return("error")
    /\ UNCHANGED <<upstream, downstream, faults>>

CallFails ==
    /\ pc # "idle" /\ Fault
    /\ IF pc = "updateStatus" THEN Return("error") ELSE Leave(cond, "error")
    /\ UNCHANGED <<upstream, up, downstream>>
-----------------------------------------------------------------------------
(* The process and its informers. *)

Restart ==
    /\ Fault /\ Idle /\ queued' = TRUE
    /\ up' = <<Current(up)>> /\ gcp' = <<Current(gcp)>>
    /\ fw' = [s \in AllRules |-> <<Current(fw[s])>>]
    /\ res' = [x \in Resources |-> <<Current(res[x])>>]
    /\ UNCHANGED upstream

DeliverInstance ==
    /\ Undelivered(up) /\ up' = Tail(up) /\ queued' = TRUE
    /\ UNCHANGED <<upstream, downstream, work, faults>>

DeliverGCPInstance ==
    /\ Undelivered(gcp) /\ gcp' = Tail(gcp) /\ queued' = TRUE
    /\ UNCHANGED <<upstream, up, fw, res, work, faults>>

\* Mutation: the service account is not watched.
WatchedLess == {"secret", "version"}

\* EnqueueInstancesForWorkloadOwnedDownstreamResource.  The IAM member and
\* what is Kubernetes' own only fill the cache.
Watched == {"sa", "secret", "version"}

DeliverResource(x) ==
    /\ Undelivered(res[x]) /\ res' = [res EXCEPT ![x] = Tail(@)]
    /\ queued' = (queued \/ x \in Watched)
    /\ UNCHANGED <<upstream, up, fw, gcp, work, faults>>

DeliverFirewall(s) ==
    /\ Undelivered(fw[s]) /\ fw' = [fw EXCEPT ![s] = Tail(@)]
    /\ UNCHANGED <<upstream, up, res, gcp, queued, work, faults>>
-----------------------------------------------------------------------------
(* Users, the workload-operator and Crossplane (external). *)

\* Of the WorkloadDeployment only the network policies are read.
UpdateDeployment ==
    /\ dep < Len(plan) /\ PolicySteps(plan[dep]) # PolicySteps(plan[dep + 1])
    /\ dep' = dep + 1
    /\ UNCHANGED <<scenario, avail, up, downstream, queued, work, faults>>

UpdateInstance ==
    /\ Current(up).gen < Len(plan) /\ WriteUp([Current(up) EXCEPT !.gen = @ + 1])
    /\ stale' = (pc # "idle")
    /\ UNCHANGED <<upstream, downstream, queued, pc, inst, wd, outdated, todo, hand, cond, err, faults>>

Provide(x) ==
    /\ x \notin avail /\ avail' = avail \cup {x}
    /\ UNCHANGED <<scenario, dep, up, downstream, queued, work, faults>>

\* The version and the IAM member refer to the secret.
Provisionable(x) ==
    /\ Exists(Current(res[x])) /\ Current(res[x]).state # "ready"
    /\ x = "sa" => Current(res["sa"]).issued
    /\ x \in {"version", "iam"} => Current(res["secret"]).state = "ready"
    /\ x = "iam" => Current(res["sa"]).state = "ready"

\* The version takes the aggregated Secret as it finds it, and keeps it.
XPSucceeds(x) ==
    /\ Provisionable(x)
    /\ WriteRes(x, [Current(res[x]) EXCEPT !.state = "ready",
                       !.holds = IF x = "version" THEN Current(res["agg"]).holds ELSE {}])
    /\ UNCHANGED <<upstream, up, fw, gcp, queued, work, faults>>

\* The creation of the service account is asynchronous: the annotation says
\* that it was issued, and it may still turn out to have failed; another
\* attempt then succeeds.
XPIssuesAccount ==
    /\ Exists(Current(res["sa"])) /\ ~Current(res["sa"]).issued
    /\ WriteRes("sa", [Current(res["sa"]) EXCEPT !.issued = TRUE])
    /\ UNCHANGED <<upstream, up, fw, gcp, queued, work, faults>>

XPFailsAccount ==
    /\ Exists(Current(res["sa"])) /\ Current(res["sa"]).state = "new" /\ Fault
    /\ WriteRes("sa", [Current(res["sa"]) EXCEPT !.state = "failed"])
    /\ UNCHANGED <<upstream, up, fw, gcp, queued, work>>

AccountThere == Exists(Current(res["sa"])) /\ Current(res["sa"]).state = "ready"

\* Without its service account GCP tears the machine down again, while
\* Crossplane takes it for created.
XPCreatesMachine ==
    /\ Exists(Current(gcp)) /\ ~Current(gcp).ready
    /\ WriteGcp([Current(gcp) EXCEPT !.ready = TRUE, !.stopping = ~AccountThere])
    /\ UNCHANGED <<upstream, up, fw, res, queued, work, faults>>

\* Crossplane processes it once more, to the same end if it is too early.
XPRetriesMachine ==
    /\ Exists(Current(gcp)) /\ Current(gcp).retry
    /\ WriteGcp([Current(gcp) EXCEPT !.retry = FALSE, !.stopping = @ /\ ~AccountThere])
    /\ outdated' = (pc = "retryCreate")
    /\ UNCHANGED <<upstream, up, fw, res, queued, pc, inst, wd, stale, todo, hand, cond, err, faults>>
-----------------------------------------------------------------------------
Managed == {"sa", "secret", "version", "iam"}

Worker ==
    \/ Reconcile \/ PoliciesDone \/ PolicyFails \/ (\E s \in AllRules : CreateFirewall(s))
    \/ CreateRefused \/ EnsureServiceAccount \/ EnsureNamespace \/ FindAnchor \/ CreateAnchor
    \/ CreateAggregated \/ UpdateAggregated \/ EnsureSecret \/ EnsureVersion \/ EnsureIAMMember
    \/ AwaitAccount \/ BuildFails \/ CreateGCPInstance \/ PatchGCPInstance
    \/ RetryCreate \/ UpdateStatus

Next ==
    \/ Worker \/ CallFails \/ Restart \/ DeliverInstance \/ DeliverGCPInstance
    \/ UpdateDeployment \/ UpdateInstance \/ XPIssuesAccount \/ XPFailsAccount
    \/ XPCreatesMachine \/ XPRetriesMachine
    \/ \E x \in Resources : DeliverResource(x)
    \/ \E s \in AllRules : DeliverFirewall(s)
    \/ \E x \in scenario.late : Provide(x)
    \/ \E x \in Managed : XPSucceeds(x)

Spec == Init /\ [][Next]_vars

\* The worker, the informers and Crossplane make progress, and what the
\* template refers to is created in the end.  The bound on the lag may keep
\* disabling Crossplane's writes while the worker retries, hence SF.  Nobody has to
\* grant the IAM member, to change a template, or to fail.
FairSpec ==
    /\ Spec
    /\ WF_vars(Worker) /\ WF_vars(DeliverInstance) /\ WF_vars(DeliverGCPInstance)
    /\ WF_vars(XPIssuesAccount) /\ SF_vars(XPSucceeds("sa"))
    /\ SF_vars(XPCreatesMachine) /\ SF_vars(XPRetriesMachine)
    /\ \A x \in Resources : WF_vars(DeliverResource(x))
    /\ \A s \in AllRules : WF_vars(DeliverFirewall(s))
    /\ WF_vars(\E x \in scenario.late : Provide(x))
    /\ \A x \in {"secret", "version"} : WF_vars(XPSucceeds(x))
-----------------------------------------------------------------------------
(* Properties. *)

TypeOK ==
    /\ scenario \in Scenarios /\ dep \in DOMAIN plan /\ avail \subseteq Inputs(scenario)
    /\ up \in Seq(InstanceVersion) \ {<<>>} /\ inst \in InstanceVersion
    /\ fw \in [AllRules -> Seq(ResourceVersion) \ {<<>>}]
    /\ res \in [Resources -> Seq(ResourceVersion) \ {<<>>}]
    /\ \A k \in DOMAIN gcp : /\ gcp[k].phase \in {"none", "live"} /\ gcp[k].ready \in BOOLEAN
                             /\ gcp[k].stopping \in BOOLEAN /\ gcp[k].retry \in BOOLEAN
    /\ queued \in BOOLEAN /\ pc \in Labels /\ wd \in DOMAIN plan /\ stale \in BOOLEAN
    /\ outdated \in BOOLEAN /\ todo \subseteq UNION {PolicySteps(t) : t \in Templates}
    /\ hand \subseteq Managed /\ cond \in Reasons /\ err \in {"ok", "error"}
    /\ faults \in Nat

Machine == Current(gcp)

\* What a template makes of each field that is patched or updated by comparing
\* it with a copy from the cache.  The interfaces are not changed once made.
Offers(t) ==
    [type |-> {t.instanceType}, user |-> UserData(t), secrets |-> {Secrets(t)},
     bootVolume |-> {BootDisk(t, <<"", "">>)[1]}, bootImage |-> {BootDisk(t, <<"", "">>)[2]}]

Alike(t, r, f) == Offers(t)[f] \cap Offers(r)[f] # {}

\* No field comes back to what it was two templates or more ago, another value
\* having been asked for in between: a cache that lags behind all of them shows
\* the old value as if nothing were to be done.
NoWayBack ==
    \A a, h, k \in DOMAIN plan : \A f \in DOMAIN Offers(plan[a]) :
        a < h /\ h < k /\ Alike(plan[a], plan[k], f) => Alike(plan[a], plan[h], f)

\* A machine is asked for only when the creation of its service account has
\* been issued, not that it succeeded; and, if its template has Secrets, with a
\* Secret Manager secret that is ready, a version, an IAM member and, unless
\* the templates go back to earlier Secrets, these Secrets in the aggregated
\* Secret.
BuiltOnAccountAndSecret ==
    [][~Exists(Machine) /\ Exists(Machine') =>
          /\ Current(res["sa"]).issued
          /\ Secrets(template) # {} =>
                /\ NoWayBack => Secrets(template) \subseteq Current(res["agg"]).holds
                /\ Current(res["secret"]).state = "ready"
                /\ Exists(Current(res["version"])) /\ Exists(Current(res["iam"]))]_vars

\* When there is a machine, the network policies of some template that the
\* WorkloadDeployment has had are in force, up to the first named port.
FirewallsBeforeMachine ==
    Exists(Machine) =>
        \E d \in 1..dep : ReachedRules(plan[d]) \subseteq {s \in AllRules : Exists(Current(fw[s]))}

\* What the guest is told to mount is there: a volume of the pod for every
\* mount, the files of every ConfigMap, the script for the Secrets.
GuestComplete ==
    Exists(Machine) =>
        LET u == Machine.spec.user IN
        \A m \in u.mounts :
            /\ u.pod => \E p \in u.volumes : p[2] = m[2]
            /\ m[2][1] = "configmap" =>
                  \E p \in DOMAIN u.files : p[2] = m[2][2] /\ Range(u.files[p]) = Keys[p[2]]
            /\ m[2][1] = "secret" => u.script

\* An Instance that is reported Programmed, for whatever generation, has a
\* machine that was not torn down for want of its service account.
ProgrammedMeansRunning ==
    Current(up).reason = "Programmed" =>
        Machine.ready /\ ~Machine.stopping /\ AccountThere

\* An Instance that is reported Programmed for its generation has a spec of the
\* machine that is built from this generation, unless its templates go back.
ProgrammedMeansBuilt ==
    LET v == Current(up) IN
    v.reason = "Programmed" /\ v.obs = v.gen /\ NoWayBack =>
        v.hash = v.gen /\ Machine.spec \in GCPSpecs(plan[v.gen], Machine.spec)

Buildable ==
    LET t == plan[Current(up).gen] IN
    Preparation(t) = "ok" /\ ~Unbuildable(t) /\ ~Overruns(t, Machine.spec.nics)

Programmed ==
    LET v == Current(up) IN
    /\ v.reason = "Programmed" /\ v.obs = v.gen /\ v.hash = v.gen
    /\ Machine.ready /\ ~Machine.stopping
    /\ Machine.spec \in GCPSpecs(plan[v.gen], Machine.spec)

\* A template that can be built is built and reported in the end, whatever
\* templates came before it and whatever failed on the way.
SpecFollows == <>[](Buildable => Programmed)

\* The reconciler comes to rest: no status update, patch or event keeps it
\* going, unless the build goes on failing or the user data has no order.
ComesToRest ==
    LET t == plan[Current(up).gen] IN
    <>[](OneOrder(t) /\ (Buildable \/ Preparation(t) = "return") => pc = "idle" /\ ~queued)

\* A machine that mounts Secrets finds them served, and may read them: the
\* guest asks only once.
SecretsServed ==
    LET readable == Current(res["version"]).state = "ready" /\ Current(res["iam"]).state = "ready"
        mounts == {m[2] : m \in Machine.spec.user.mounts}
    IN  Exists(Machine) =>
            {n[2] : n \in {o \in mounts : o[1] = "secret"}}
                \subseteq Populated(readable, Current(res["version"]).holds)
=============================================================================
