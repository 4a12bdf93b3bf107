# A TLA+ model of infra-provider-gcp

The provider turns upstream objects (Workloads, Instances, Networks,
NetworkContexts, Subnets) into Crossplane managed resources of a downstream
cluster; Crossplane turns those into resources at GCP. It is five controllers in
one process. Each has one worker, reads through informer caches, writes to two API
servers, and is woken by watch events and by its own errors. What can go wrong is
between the calls: this project cuts every reconcile at its API calls and lets
users, informers, Crossplane, GCP, the other controllers and a crash step in.

All paths below are relative to `src/`.

## Inventory

| Component | State it keeps | Operations | Interacts with |
|---|---|---|---|
| InstanceReconciler (`internal/controller/instance_controller.go`) | finalizer and status of an Instance; GCP Instance `instance-<UID>` | Reconcile, reconcileInstance, reconcileGCPInstance, syncInstancePowerState, Finalize | Location, Workload, the workload's resources, Crossplane |
| – the machine of an Instance (same file) | spec of the GCP Instance, user data of the guest | runtimes, buildConfigMaps, buildGCPInstance…, network policies | WorkloadDeployment, NetworkBindings, ConfigMaps, Secrets |
| – the resources of a workload (same file) | firewalls, ServiceAccount, aggregated Secret and anchor, Secret, SecretVersion, SecretIAMMember, all `workload-<UID>` | create, wait until ready | WorkloadReconciler, which deletes them |
| WorkloadReconciler (`workload_controller.go`) | finalizer of a Workload | teardown of the above | woken by Instance events only |
| SubnetReconciler (`subnet_controller.go`) | finalizer and status of a Subnet; Subnetwork `subnet-<UID>` | Reconcile, Finalize | network-services-operator writes the same status |
| NetworkReconciler (`network_controller.go`) | finalizer of a Network | deletion of the GCP network | woken by NetworkContext events only |
| NetworkContextReconciler (`networkcontext_controller.go`, `indexers.go`) | status of a NetworkContext; Network `network-<UID of the Network>` | CreateOrPatch, status | shares the GCP network with the NetworkReconciler and with every other context of the Network |
| locationutil | none | GetLocation: error, not ours, ours | called first by every reconcile and by two map functions |
| downstreamclient | anchor ConfigMaps, mapped Namespaces | SetControllerReference, DeleteAnchorForObject, Create | Instance and Workload reconcilers |
| handler | none | enqueue the Instances of a workload | events of three downstream kinds |
| config, cmd, cloudinit, rbac | start-up data, pure functions | – | – |

What makes each correct, and what is hard about it:

* **Instance.** No machine without a record that leads to its deletion; no record
  without the Instance; Programmed only with the spec of the generation written and
  something Ready; every Instance is programmed or deleted in the end. Hard: four objects change independently, each
  copy in hand may be old, Updates conflict, merge patches do not.
* **The machine.** A template that can be built is built, reported, and then left
  alone; the guest is told to mount only what it is given. Hard: the spec is patched
  against a cached copy, a list is written by index, Go maps have no order, and two
  templates (the Instance's and the deployment's) are read from different caches.
* **Workload resources.** Nothing is built before what it needs was asked for, and
  what was built too early is built again; nothing is deleted early; nothing is left. Hard: one controller creates while another
  deletes, and the deleter is woken by somebody else's events.
* **Subnet, Network, NetworkContext.** The same questions, with deletion by name, a
  status shared with another operator, and one downstream object for many contexts.

`PROJECT.json` lists the hazards by source line with the properties that cover them.

## Modules

| Module | What it is |
|---|---|
| `ApiObject` | a Kubernetes object as a *window* of versions: what the cache holds, … , what the server holds. Reads return the first, writes append, the informer drops the first |
| `InstanceController` | InstanceReconciler, with the workload's resources reduced to an outcome `prereq[i]` |
| `ManagedResource` | abstract specification: claim, record, machine, what the owner has noticed, release |
| `InstanceRefinement` | InstanceController under the refinement mapping to ManagedResource |
| `InstanceProofs`, `InstanceStatusProofs`, `RefinementProofs` | theorems about InstanceController: machines and records, status and spec, the refinement |
| `InstanceSpec` | what the reconciler makes of a template: user data, GCP spec, boot disk, interfaces, firewall rules; pure operators |
| `InstanceBuild` | the stage behind `prereq` and the GCP Instance in full: from template to machine, through the workload's resources |
| `MCInstanceBuild` | the templates, their changes and the bounds under which TLC checks `InstanceBuild` |
| `WorkloadResources` | creation of the workload's resources composed with the WorkloadReconciler, which deletes them |
| `SubnetController` | SubnetReconciler |
| `NetworkControllers` | NetworkReconciler and NetworkContextReconciler, composed |
| `InstanceBuildProofs`, `WorkloadProofs`, `SubnetProofs`, `NetworkProofs` | theorems about these modules |
| `WindowProofs` | lemmas on windows, on which all the proofs rest |

### Conventions

* One action per piece of a reconcile between two API calls; `pc` names the next
  call. The worker's copies (`inst`, `gcp`, `subnet`, `down`) are variables; `stale`
  says that the server has moved on since the copy was read, which is what the
  resourceVersion check of an Update asks.
* `Return(e)` ends a reconcile, `e = "error"` puts the key back. Where the code has
  a deferred status update, early returns go to `Leave(c, e)` and through
  `UpdateStatus`.
* `CallFails` fails any call; `Restart` kills the process: queues and copies are
  lost, the informers list everything again. Both, and other disturbances, are
  counted in `faults`.
* Operators under a comment that starts with "Mutation:" are wrong variants of the
  definition that follows them. No specification uses them; they exist to show that
  the properties notice the mistake.
* Data is abstracted: a status is the reason of its conditions, and except in
  `InstanceBuild` a spec is the generation it was built from. The conditions'
  messages are left out.

### Correspondence to the code

`PROJECT.json` maps each definition to the lines it stands for. The larger lines:

* `InstanceController`: `ReconcileSkips/Finalizes/AddsFinalizer/Provisions` are the
  early returns and branches of Reconcile (lines 83-128); `loc = "foreign"` includes
  an Instance without `spec.location` (92). `LoadOwners` reads the WorkloadDeployment
  and the Workload and ends the reconcile if there is no runtime (191) or the runtime
  function returns before there is anything to wait for (471-487, without an error):
  `prereq = "unprepared"`, of which `InstanceBuild` has the cases. `GetGCPInstance`, `CreateGCPInstance`,
  `PatchGCPInstance` and `CreateOrPatchRefused` are controllerutil.CreateOrPatch,
  which is a Get and then a Create, a merge patch or nothing; `RetryCreate` is the
  STOPPING workaround; `SyncPower` and `WritePower` are syncInstancePowerState;
  `Conclude` and `UpdateStatus` end reconcileInstance. `FinalizeGet … FinalizeRemove`
  are the five calls of Finalize.
* `InstanceSpec`: `Preparation` and `UserData` are the two runtime functions with
  buildConfigMaps and the part of reconcileSecrets that writes to the guest;
  `BootDisk`, `Interfaces` and `Unbuildable` are buildGCPInstanceVolumes and
  buildGCPInstanceNetworkInterfaces, which `GCPSpecs` puts together as the mutate
  function of CreateOrPatch does; `PolicySteps` and `NamedPort` are the loops of
  reconcileNetworkInterfaceNetworkPolicies. A list that a loop fills is the set of
  its elements with their places (`Numbered`): it is compared and searched, never
  taken apart. Orders that Go leaves open (the Data of a ConfigMap, an unsorted set)
  are sets of sequences.
* `InstanceRefinement`: the claim is the finalizer of the Instance, the record its
  GCP Instance; the owner has noticed a record that the downstream cache shows, unless
  Finalize has looked before (`Overlooks`).
* `InstanceBuild`: `PoliciesDone … CreateFirewall` are that function between its
  calls, `Ensure…` the Get-or-create pieces of reconcileInstance and
  reconcileSecrets in the order of the code, `EnsureNamespace … UpdateAggregated` the
  CreateOrUpdate of the aggregated Secret with SetControllerReference and
  ensureDownstreamNamespace inside it, `CreateGCPInstance` and `PatchGCPInstance` the
  CreateOrPatch of the machine with the merge patch (`Patch`) it sends. Of the service
  account the annotation external-create-succeeded (`issued`) and what became of the
  account (`state`) are apart, as in the code: the reconciler waits for the first,
  which says only that the creation was issued (262-264), and looks at the second for
  AsyncCreateFailure alone. `Examine` and `RetryCreate` are the STOPPING workaround
  (1105-1127) for a machine that was created while there was no account.
* `WorkloadResources`: `Ensure(k)` is stage `k` of the same functions
  (`EnsureFirewalls`, `EnsureServiceAccount`, `EnsureSecrets`), `Proceed` leaves open whether it waits; `Delete…` are the calls of
  WorkloadReconciler.Reconcile in its order.
* `SubnetController`: finalizer.Finalizers.Finalize changes the copy, `Update` stores
  it. `NetworkControllers`: variables that start with `n` belong to the
  NetworkReconciler, those that start with `c` to the NetworkContextReconciler.

### Assumptions about what is outside src/

* An informer cache lags but never goes back, not even over a restart.
* There is no periodic resync: it comes after ten hours and would only hide a lost
  event for that long. `net_stuck` and `subnet_status` mean "until the next resync
  or restart, if one of those brings an event".
* Crossplane adds its finalizer before it creates anything at GCP, and removes it
  after the resource at GCP is gone. This is what the comment in Finalize relies on.
* The creation of a service account is asynchronous: its annotation appears first;
  then the account is there, or its creation has failed (annotated or not) and a later
  attempt succeeds. An account that is there stays. A machine made without it is torn
  down by GCP, and its object shows Ready and STOPPING until Crossplane processes it
  again, for which the reconciler sets the retry annotation; a creation that GCP
  rejects outright (301-304) is one that has not happened yet.
* A UID is used once: an object that is gone does not come back under the same name.
  A downstream object may be created again under its old name.
* A CreateOrPatch that finds the spec it would write makes no call: defaults that the
  API server fills in are not modelled. `InstanceController` takes each generation for
  a spec of its own; that the spec of an earlier one may come back, and then the cached
  copy decides whether anything is sent, is in `InstanceBuild`. In `NetworkControllers` the spec of the
  downstream Network has no content at all, so that a patch changes nothing but tells
  the worker what the server holds.
* In `InstanceBuild` and `WorkloadResources` a Get is taken together with the call
  that follows it: the cache it reads lags anyway.
* In `InstanceBuild` controller-runtime turns a panic into an error of the reconcile,
  as it does by default; Crossplane makes a secret version from the aggregated Secret
  once; names of volumes are unique, as the API requires.
  A reconcile of the power state, which changes nothing that is built, is left to
  `InstanceController`.
* In `WorkloadResources` what GCP makes of a resource is open: a stage that can wait
  may wait or go on. The aggregated Secret comes and goes with its anchor, version
  and IAM member with their secret, one firewall stands for all. An error of the
  Location is left to `DeliverInstanceDropped` and `CallFails`.

## Runs

Deadlock is not checked in any of them: once everything is deleted or programmed the
system rests, as it should.

| Run | Result | What it shows |
|---|---|---|
| `inst_life` | holds | machine on record, guarded creation, no GCP Instance let go of that Finalize has seen, the refinement of ManagedResource, programming and deletion complete; one fault, a gate, a machine in an odd state, no assumption on the caches |
| `inst_fresh` | holds | no orphan, if a reconcile starts only when the downstream informer has delivered the worker's own Create (`ReadYourWrites`, which nothing in the code sees to); Programmed means written, and Ready of this spec or an older one; the written spec never goes back; two generations, one fault |
| `inst_orphan` | violated | the no-orphan invariant as the code is |
| `subnet_life` | holds | nothing live is left, Programmed means Ready, status never lost, programming and deletion complete; two faults other than the status call |
| `subnet_status` | violated | one failed status update is never retried |
| `net_safety` | holds | no early deletion, Programmed means Ready and is final; one fault |
| `net_live` | holds | contexts get programmed, a deletion that was seen completes; one fault |
| `net_stuck` | violated | see below |
| `build_life` | holds | account issued, Secrets and firewalls before the machine; a guest that is given what it mounts; Programmed means a machine that was not torn down and, unless templates come back, is built from this generation; every buildable template is built and reported in the end, also when the machine was made too early or the account failed; then the reconciler rests |
| `wl_life` | holds | no early deletion, with creation and deletion racing over and over, and a teardown that was seen completes; one fault |
| `build_served`, `wl_leak` | violated | see below |

### What the violations say

* `inst_orphan`: a reconcile creates the GCP Instance; the Instance is deleted; the
  upstream event arrives before the downstream one; Finalize reads "not found" from
  the downstream cache, removes the finalizer, and the GCP Instance stays. Two
  informers of two clusters make no promise about their relative order.
* `subnet_status`: the deferred function assigns `err`, which is not a named result.
* `net_stuck`: no controller watches Networks. A deletion is seen only when an event
  of a NetworkContext follows it.
* `wl_leak`: the Workload is deleted before it has the finalizer and goes at once,
  while the InstanceReconciler, working from the cached Workload, creates a firewall
  that nobody deletes; or an Instance is reconciled between the deletion of the shared
  resources and the end of the Workload, and creates them again.
* `build_served`: the readiness of secret version and IAM member is checked only by
  the reconcile that has just created the IAM member. The next one, which its own
  status update brings, creates the GCP Instance, and the guest asks for its Secrets
  once.

More observations came out of the modelling and have no run of their own:

* `errResourceIsDeleting`, on which the SubnetReconciler would wait, is never returned
  (`subnet_controller.go:73`); `NoLiveLeftover` is what does hold.
* The WorkloadReconciler is woken by Instances only, as the NetworkReconciler is by
  NetworkContexts.
* The contexts of a Network in two projects share the object `network-<UID>` and set
  its project in turn (`networkcontext_controller.go:152`).
* A ConfigMap with two keys, or mounts in two directories of a VM, make user data
  whose order changes from one reconcile to the next (`instance_controller.go:723`,
  `:680`), and each change is a patch, whose event is the next reconcile. `ComesToRest`
  excepts these templates (`OneOrder`); without the exception the run fails on them.
* A template with more interfaces than the machine was made with ends every reconcile
  in a panic (`:1317`); `SpecFollows` excepts it (`Overruns`).
* A reconcile that patches a new spec reads back an object whose Ready condition is
  still that of the old one (`:1028`, `:371`), and may report the new generation
  Programmed on it. `ProgrammedMeansReady` therefore speaks of a Ready that was
  reported of this spec or an older one.
* A template that goes from A to B and back to A may be reported Programmed while the
  machine has B, until the events of that patch arrive: `ProgrammedMeansBuilt` excepts
  templates that go back (`NoWayBack`), `SpecFollows` does not.
* With the same cause the aggregated Secret may lack the Secrets of the template in
  hand: with templates A, B, A the cache may still show the Secret of the first A
  while the server has that of B, and CreateOrUpdate makes no call. That part of
  `BuiltOnAccountAndSecret` has the same exception.
* An image volume of a sandbox replaces the injected boot disk (`:1179`), a
  filesystem volume is mounted but neither attached nor formatted (`:1200`), a firewall
  is never changed (`:1395`), a changed Secret gets no new version (`:868`), and a
  changed ConfigMap is not watched (`:719`).
* The service account's name at GCP is a 32-bit hash of the Workload's UID (`:243`).
* The labels that `enqueue_upstream_owner.go:28` describes are not the ones that are
  written, and nothing uses that handler.

### Bounds

One Instance (or Subnet, Workload) is enough: the objects of two keys share only the
single worker and the queue, in which a key waits no longer than the other's
reconcile; the theorems hold for any number of Instances. One NetworkContext meets
the NetworkReconciler at every point of its reconcile; a second one would add no new
kind of step.

* `MaxFaults` 0 to 2: one crash or failed call at every point of every reconcile.
* `MaxGen` 2 in `inst_fresh`: an old and a new spec. `MaxGates` 1 in `inst_life`: with
  and without a gate. `MaxRetry` 1: the retry annotation of a STOPPING machine is
  written, and written again within the same second.
* `Disturbances`: STOPPING has its own path in the code, SUSPENDED stands for the
  statuses that reach the end of the switch.
* `MaxLag` is the number of versions by which a cache may be behind: 2 for Instances,
  1 for Networks; Subnets have no such bound. In `WorkloadResources` and
  `InstanceBuild` (`maxLag`) it is the number of downstream objects with something
  undelivered. It limits the runs; the theorems hold for every value.
* `Lasting` names NetworkContexts that nobody deletes: for liveness, where otherwise
  the run's property would hold through deletion alone.
* `Used`: the shared resources that the Instances need. `wl_life` leaves the Secret
  Manager secret out, which is deleted by name exactly like the service account.
* `Scenarios`: each is one case that the code treats differently, with the templates
  an Instance goes through (`plan`), inputs that turn up late, a lag and a number of
  faults. There are an instance type that is not mapped, and after it one that is and
  a Secret more; a named port between two rules; an interface more, an interface less
  and back again; a ConfigMap with two keys and two mount directories; templates that
  are refused at each of the returns, and a disk that names no size, each followed by
  one that can be built. A failed call, a crash or an account that fails is tried in
  two of them, a lag of two downstream objects where the template loses an interface;
  Crossplane may make the machine before the account in every one. Faults and longer
  lags with Secrets are left to the theorems, which cover all
  the safety properties of the run.
* `StatusCallFails` lets the status update of `SubnetController` fail; `subnet_life`
  sets it to FALSE, `subnet_status` shows what happens otherwise.

### Fairness

Workers and informers are weakly fair: controller-runtime runs them until the
process ends. The worker's steps are fair as a whole, the choice of the next key is
fair per key, as in its queue. Crossplane, GCP and the allocator of Subnets are weakly
fair where a property waits for them. In `InstanceBuild` the inputs of a template
turn up in the end, the IAM member need never be granted, and Crossplane's writes to
the machine and its success with the service account are strongly fair: the bound on
the lag, not anything in the program, disables them again and again while other
objects change. Users, failed
calls, restarts and changes of a Location are not fair. A retried key is not delayed
by the rate limiter; it is only retried at some time. `DeletionCompletes` and
`ProgrammingCompletes` of Instances and Subnets are promised while the Location
stays the provider's: the code looks the Location up before anything else, and
without one it neither programs nor finalizes.

## Proofs

Every safety invariant and action property of a run that holds is also a theorem,
proved with TLAPS for every value of the constants (any number of Instances, Subnets
or NetworkContexts, any templates, faults and lags), with one exception:
`NoOrphanInstance`, which the code does not have, is only checked by TLC under the
assumption that it needs.

| Module | Theorems | Invariant |
|---|---|---|
| `InstanceProofs` | `TypeCorrect`, `MachineOnRecordHolds`, `CreateGuardedHolds`, `LetGoOnlyUnseenHolds` | `SafeInv`, `SeenInv` |
| `RefinementProofs` | `Refinement`: `Spec => ImplementsManagedResource` | the same, `RecordInv` |
| `InstanceStatusProofs` | `ProgrammedMeansReadyHolds`, `SpecNeverRegressesHolds` | `TruthInv`, `GenInv` |
| `InstanceBuildProofs` | `TypeCorrect`, `FirewallsBeforeMachineHolds`, `BuiltOnAccountAndSecretHolds`, `ProgrammedMeansRunningHolds`, `ProgrammedMeansBuiltHolds`, `GuestCompleteHolds` | `PolicyInv`, `AccountInv`, `AggregatedInv`, `GenInv`, `RunInv`, `SpecInv`, `GuestInv` |
| `WorkloadProofs` | `TypeCorrect`, `NeverDeletedEarlyHolds` | `EarlyInv` |
| `SubnetProofs` | `TypeCorrect`, `NoLiveLeftoverHolds`, `ProgrammedMeansReadyHolds`, `StatusNeverLostHolds` | `SafeInv` |
| `NetworkProofs` | `TypeCorrect`, `NeverDeletedEarlyHolds`, `ProgrammedMeansReadyHolds`, `ProgrammedIsFinalHolds` | `EarlyInv`, `TruthInv`, `FinalInv` |

**Assumptions.** `InstanceAssumption`, `SubnetAssumption`, `NetworkAssumption`,
`WorkloadAssumption` and `BuildAssumption` give the types of the constants (of a
template: that its attachments are a list, and that a ConfigMap has finitely many
keys). No theorem assumes `ReadYourWrites`.

**The common argument.** A property is about the server's state, but the steps that
could break it are decided on copies, read from a cache that lags. So each invariant
has two parts. The first says of the *windows* what every version of an object, the
cached one, those on the way and the server's, have in common, or in which direction
they change: `Ordered` (phases only advance), `Keeps` (what is once true of a version
is true of those behind it), or `w \in Window(S)` (true of all). The second says what
the worker may conclude from its copies in each place of the reconcile. `WindowProofs`
has the lemmas by which a write, a delivery and a new list keep the first part
(`Moves` is any of these three), each proof the lemmas on what is written.

*Machines and records.* `SafeInv` of InstanceController:

* `StoredInv`: phases only advance along a window; a cached version that is live and
  claimed means that the server's version is still held (the finalizer is removed
  only when every version of the window is leaving); every stored GCP Instance has the
  provider's finalizer; one that is gone belongs to an Instance all of whose versions
  are leaving. The last two are why a stale reconcile cannot create a GCP Instance
  twice.
* `WorkerInv`: its copy equals the server's version unless `stale`; while it
  provisions, the Instance is held; while it finalizes, the Instance is leaving; at
  `fzRelease` Crossplane's finalizer is off the copy, so that an Update that goes
  through meets an object without it.

`SeenInv`: at `fzRemove`, a worker that has found a GCP Instance has seen it go. It is
kept because the only worker that creates is busy finalizing, and gives
`LetGoOnlyUnseen`. ManagedResource says the same without the words of the code: a claim
is given up when there is no record or none has been *noticed*, and what has been
noticed is not forgotten while it is there. Noticed is what the cache shows and
Finalize has not overlooked; every action of InstanceController is then one action of
ManagedResource, or none (`Refinement`), and the case of `inst_orphan` is the release
of a claim whose record was not noticed. `RecordInv`, that what has a record has been
claimed, makes the mapping of the claim work.

*What InstanceController reports.* `readyAt` is a history variable, to which only
Crossplane's own report adds the generation that the spec has at that moment.
`TruthInv`: every version that says Programmed says it of a generation whose spec was
written, with some generation that is not newer in `readyAt`, and so does every copy of
a GCP Instance that says Ready; so the status that the worker puts together from two
old copies is true as far as it goes. `GenInv`: generations rise along a window, and a worker that builds has a copy
no older than what any GCP Instance on its way was built from: hence
`SpecNeverRegresses`, although a merge patch checks no resourceVersion.

*Subnets.* A Subnet that claims its Subnetwork is held; a status update that is not
`stale` replaces exactly what it read; at `delete` and `update` of a Subnet being
deleted every version is leaving, so that nothing live can be made behind the deletion
by name.

*Networks, contexts and workloads.* `EarlyInv`: the reconciler finalizes because it
read a deletion, and a deletion is not taken back. `TruthInv` as above. `FinalInv`: a
copy that is not stale has the condition that the server has, so no update takes
Programmed back.

*The machine.* `PolicyInv`: a rule behind which the loop is has its firewall, for the
template the deployment had at the start. `AccountInv`: no resource is taken away,
no annotation is, and no account or secret that was ready becomes unready, so what the
worker saw on its way still holds at the GCP Instance. `RunInv`: a machine that runs
keeps running and has its account; what the worker examined before it reports is one.
`AggregatedInv` and `SpecInv` are about templates that do not go back. Everything that
is stored was made from templates up to the one that the worker goes by (`Reach`), and
what once fits that one or a later one fits it for good, field by field: a value that a
template up to `Reach` and the later one share is, by `NoWayBack`, also that of every
template in between (`Consecutive`), so that the worker writes it again or leaves it
out; a merge patch leaves a field out if the cached copy has it, and then, by `Keeps`,
the server has it too. That two templates which can give the same
user data give the same orders (`UserDataSame`) is what makes this true of the fields
whose content Go's maps leave open. `GuestInv`: the user data of every machine is that
of a template whose volumes the reconciler went through to the end; `PreparedComplete`
is the lemma on `InstanceSpec` that such user data leaves no mount open.

**Only model-checked**: liveness, which rests on fairness and is out of the prover's
reach (`DeletionCompletes`, `ProgrammingCompletes`, `FinalizationCompletes`,
`TeardownCompletes`, `SpecFollows`, `ComesToRest`); `NoOrphanInstance`; and the
properties that are violated. The theorems are about the actions as modelled: the abstractions listed here
are theirs as well.

## Not modelled

* Addresses and interface statuses of an Instance: copied from what GCP reports, and
  of no influence on anything else.
* Fixed fields, names, hashes and annotations of the objects that are built; the
  content of ConfigMaps and Secrets beyond their keys and names; protocols, port
  ranges and source ranges of a rule; the project of a Location.
* `main.go`: command line, scheme, and the start of clusters, provider and manager
  side by side in one errgroup. It fixes what the modules assume: one worker per
  controller, reads through caches, and a downstream cache restricted to objects with
  the managed-resource labels (`main.go:180`), which every Create of the provider
  sets.
* Configuration, RBAC, generated code: declarations. The mapping of
  `sameclusterandnamespace.go` and the handler of `enqueue_upstream_owner.go`: no
  controller uses them.
* More than one worker per controller and more than one upstream cluster: the code
  sets neither option, and keys of two clusters share nothing but the queue.

## Plan

Done so far: the models of the five controllers, the construction of a machine, the
abstract specification of an Instance, and theorems for the safety properties. In
order:

1. Projects in `NetworkControllers`: two contexts that set the project of the shared
   downstream Network in turn.
2. `InstanceBuild` shown to provide what `InstanceController` assumes of `prereq`.
3. Abstract specifications of a Subnet and of a GCP network, and the refinement.
