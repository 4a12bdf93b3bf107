--------------------------- MODULE SubnetController ---------------------------
(***************************************************************************)
(* SubnetReconciler (internal/controller/subnet_controller.go): the life   *)
(* of an upstream Subnet and of the Crossplane Subnetwork subnet-<UID>     *)
(* that stands for it downstream.                                          *)
(*                                                                         *)
(* Unlike the InstanceReconciler it finalizes without reading the          *)
(* Subnetwork: Finalize deletes it by name.  Subnet.spec does not change;  *)
(* its status is shared with the network-services-operator, which sets     *)
(* Allocated.                                                              *)
(***************************************************************************)
EXTENDS ApiObject

CONSTANTS
    Subnets,          \* upstream Subnets; each stands for one UID
    MaxFaults,        \* bound: crashes, failed calls, changes of the Location
    StatusCallFails   \* TRUE: the call that stores the status may fail too

ASSUME SubnetAssumption ==
    Subnets # {} /\ MaxFaults \in Nat /\ StatusCallFails \in BOOLEAN

VARIABLES
    up,        \* up[s]: the Subnet, a window (ApiObject)
    dn,        \* dn[s]: the Subnetwork, a window
    wasReady,  \* the Subnetworks that have been Ready (history variable)
    loc,       \* the Location: "ours", "foreign" (other class), "missing"
    queue,     \* keys waiting to be reconciled
    pc,        \* where the worker is in Reconcile
    key,       \* the key it works on
    subnet,    \* its copy of the Subnet
    stale,     \* TRUE: the server has replaced that copy by a newer version
    ready,     \* the Ready condition of its copy of the Subnetwork
    cond,      \* reason of the Programmed condition it will report
    err,       \* "ok" or "error", what the reconcile will return
    faults     \* disturbances so far

envVars == <<loc, faults>>
workVars == <<pc, key, subnet, ready, cond, err>>
vars == <<up, dn, wasReady, envVars, queue, workVars, stale>>

gcpInfraFinalizer == "compute.datumapis.com/infra-provider-gcp"
XPFinalizer == "finalizer.managedresource.crossplane.io"

ProgReasons == {"Unset", "NotProgrammed", "ProgrammingInProgress", "Programmed"}

SubnetVersion == [phase : Phases, fins : SUBSET {gcpInfraFinalizer},
                  allocated : BOOLEAN, prog : ProgReasons]
SubnetworkVersion == [phase : Phases, fins : SUBSET {XPFinalizer}, ready : BOOLEAN]

NoSubnet == [phase |-> "none", fins |-> {}, allocated |-> FALSE, prog |-> "Unset"]
NoSubnetwork == [phase |-> "none", fins |-> {}, ready |-> FALSE]

Programming == {"owners", "getSubnetwork", "create", "conclude"}
Labels == {"idle", "delete", "update", "updateStatus"} \cup Programming
-----------------------------------------------------------------------------
Init ==
    /\ up = [s \in Subnets |-> <<NoSubnet>>]
    /\ dn = [s \in Subnets |-> <<NoSubnetwork>>]
    /\ wasReady = {}
    /\ loc = "ours" /\ faults = 0
    /\ queue = {}
    /\ pc = "idle" /\ key \in Subnets
    /\ subnet = NoSubnet /\ stale = FALSE /\ ready = FALSE
    /\ cond = "Unset" /\ err = "ok"

Fault == faults < MaxFaults /\ faults' = faults + 1

WriteUp(s, v) == up' = [up EXCEPT ![s] = Write(@, v)]
WriteDn(s, v) == dn' = [dn EXCEPT ![s] = Write(@, v)]

\* The optimistic concurrency check of an Update.
UpToDate == ~stale /\ Exists(Current(up[key]))

Idle ==
    /\ pc' = "idle" /\ subnet' = NoSubnet /\ stale' = FALSE /\ ready' = FALSE
    /\ cond' = "Unset" /\ err' = "ok"
    /\ UNCHANGED key

\* Mutation: a failed reconcile is not put back.
ReturnForgets(e) == Idle /\ UNCHANGED queue

\* An error puts the key back into the queue.
Return(e) ==
    /\ Idle
    /\ queue' = IF e = "error" THEN queue \cup {key} ELSE queue

\* Reconcile returns once its deferred function is set up.
Leave(c, e) ==
    /\ pc' = "updateStatus" /\ cond' = c /\ err' = e
    /\ UNCHANGED <<queue, key, subnet, ready, stale>>

Goto(l) == pc' = l /\ UNCHANGED <<queue, key, subnet, stale, cond, err>>
-----------------------------------------------------------------------------
(* Reconcile, up to the finalizers: the Subnet is read from the cache.  A   *)
(* Location that cannot be read is an error before anything else is looked  *)
(* at; the key is retried and nothing changes, so that case has no action.  *)

Take(s, p) ==
    /\ pc = "idle" /\ s \in queue
    /\ Exists(Cached(up[s])) /\ loc = "ours" /\ Cached(up[s]).phase = p
    /\ queue' = queue \ {s} /\ key' = s
    /\ UNCHANGED <<up, dn, wasReady, envVars, ready, err>>

ReconcileSkips(s) ==
    /\ pc = "idle" /\ s \in queue
    /\ LET v == Cached(up[s]) IN
       \/ ~Exists(v)
       \/ Exists(v) /\ loc = "foreign"
       \/ loc = "ours" /\ v.phase = "deleting" /\ v.fins = {}
       \/ loc = "ours" /\ v.phase = "live" /\ v.fins # {} /\ v.prog = "Programmed"
    /\ queue' = queue \ {s}
    /\ UNCHANGED <<up, dn, wasReady, envVars, workVars, stale>>

\* Finalizers.Finalize changes the copy, which is stored by an Update: it
\* takes the finalizer off a Subnet being deleted, once Finalize has run ...
ReconcileFinalizes(s) ==
    /\ Take(s, "deleting") /\ gcpInfraFinalizer \in Cached(up[s]).fins
    /\ subnet' = [Cached(up[s]) EXCEPT !.fins = @ \ {gcpInfraFinalizer}]
    /\ stale' = Undelivered(up[s])
    /\ pc' = "delete" /\ UNCHANGED cond

\* ... and adds it to any other Subnet that has none.
ReconcileAddsFinalizer(s) ==
    /\ Take(s, "live") /\ gcpInfraFinalizer \notin Cached(up[s]).fins
    /\ subnet' = [Cached(up[s]) EXCEPT !.fins = @ \cup {gcpInfraFinalizer}]
    /\ stale' = Undelivered(up[s])
    /\ pc' = "update" /\ UNCHANGED cond

ReconcilePrograms(s) ==
    /\ Take(s, "live") /\ gcpInfraFinalizer \in Cached(up[s]).fins
    /\ Cached(up[s]).prog # "Programmed"
    /\ subnet' = Cached(up[s]) /\ stale' = Undelivered(up[s])
    /\ cond' = "NotProgrammed"
    /\ pc' = IF Cached(up[s]).allocated THEN "owners" ELSE "updateStatus"

\* Mutation: the finalizer goes whether or not there is a Subnetwork.
FinalizeNothing ==
    /\ pc = "delete"
    /\ Goto("update")
    /\ UNCHANGED <<up, dn, wasReady, envVars, ready>>

\* Finalize: Delete by name, where NotFound is no error.
Finalize ==
    /\ pc = "delete"
    /\ \/ Exists(Current(dn[key])) /\ WriteDn(key, AfterDelete(Current(dn[key])))
       \/ ~Exists(Current(dn[key])) /\ UNCHANGED dn
    /\ Goto("update")
    /\ UNCHANGED <<up, wasReady, envVars, ready>>

Update ==
    /\ pc = "update"
    /\ \/ UpToDate /\ WriteUp(key, Settled(subnet)) /\ Return("ok")
       \/ ~UpToDate /\ UNCHANGED up /\ Return("error")
    /\ UNCHANGED <<dn, wasReady, envVars>>
-----------------------------------------------------------------------------
(* Reconcile, the rest. *)

\* The NetworkContext and the Network are read; CallFails has the error.
LoadOwners ==
    /\ pc = "owners"
    /\ Goto("getSubnetwork")
    /\ UNCHANGED <<up, dn, wasReady, envVars, ready>>

GetSubnetwork ==
    /\ pc = "getSubnetwork"
    /\ ready' = Cached(dn[key]).ready
    /\ Goto(IF Exists(Cached(dn[key])) THEN "conclude" ELSE "create")
    /\ UNCHANGED <<up, dn, wasReady, envVars>>

\* AlreadyExists, when the cache lagged, ends the reconcile with an error.
CreateSubnetwork ==
    /\ pc = "create"
    /\ \/ /\ ~Exists(Current(dn[key]))
          /\ WriteDn(key, [NoSubnetwork EXCEPT !.phase = "live"])
          /\ ready' = FALSE /\ Goto("conclude")
       \/ Exists(Current(dn[key])) /\ UNCHANGED dn /\ Leave(cond, "error")
    /\ UNCHANGED <<up, wasReady, envVars>>

\* Mutation: the Ready condition is not looked at.
ConcludeUnready ==
    /\ pc = "conclude"
    /\ Leave("Programmed", "ok")
    /\ UNCHANGED <<up, dn, wasReady, envVars>>

\* Mutation: the reason of the Ready condition is handed on.
ConcludeHandsOn ==
    /\ pc = "conclude"
    /\ \/ ready /\ Leave("Available", "ok")
       \/ ~ready /\ Leave("Creating", "ok")
    /\ UNCHANGED <<up, dn, wasReady, envVars>>

Conclude ==
    /\ pc = "conclude"
    /\ \/ ready /\ Leave("Programmed", "ok")
       \/ ~ready /\ Leave("ProgrammingInProgress", "ok")
    /\ UNCHANGED <<up, dn, wasReady, envVars>>

\* Mutation: the status is patched over whatever the server holds.
UpdateStatusBlindly ==
    /\ pc = "updateStatus"
    /\ \/ Exists(Current(up[key])) /\ WriteUp(key, [Current(up[key]) EXCEPT !.prog = cond])
       \/ ~Exists(Current(up[key])) /\ UNCHANGED up
    /\ Return(err)
    /\ UNCHANGED <<dn, wasReady, envVars>>

\* The deferred function.  It assigns to a variable that is no result of
\* Reconcile: what the reconcile returns was settled before it ran, so that
\* a failed update is neither reported nor retried.
UpdateStatus ==
    /\ pc = "updateStatus"
    /\ \/ subnet.prog = cond /\ UNCHANGED <<up, faults>>
       \/ /\ subnet.prog # cond /\ UpToDate
          /\ WriteUp(key, [subnet EXCEPT !.prog = cond]) /\ UNCHANGED faults
       \/ subnet.prog # cond /\ ~UpToDate /\ UNCHANGED <<up, faults>>
       \/ StatusCallFails /\ subnet.prog # cond /\ Fault /\ UNCHANGED up
    /\ Return(err)
    /\ UNCHANGED <<dn, wasReady, loc>>
-----------------------------------------------------------------------------
(* Failures, the informers and the queue. *)

CallFails ==
    /\ pc \notin {"idle", "conclude", "updateStatus"} /\ Fault
    /\ IF pc \in Programming THEN Leave(cond, "error") ELSE Return("error")
    /\ UNCHANGED <<up, dn, wasReady, loc>>

\* The process dies and starts again with new lists.
Restart ==
    /\ Fault /\ Idle
    /\ up' = [s \in Subnets |-> <<Current(up[s])>>]
    /\ dn' = [s \in Subnets |-> <<Current(dn[s])>>]
    /\ queue' = {s \in Subnets : Exists(Current(up[s])) \/ Exists(Current(dn[s]))}
    /\ UNCHANGED <<wasReady, loc>>

DeliverSubnet(s) ==
    /\ Undelivered(up[s])
    /\ up' = [up EXCEPT ![s] = Tail(@)]
    /\ queue' = queue \cup {s}
    /\ UNCHANGED <<dn, wasReady, envVars, workVars, stale>>

\* Mutation: the Subnetworks are not watched.
DeliverSubnetworkUnwatched(s) ==
    /\ Undelivered(dn[s])
    /\ dn' = [dn EXCEPT ![s] = Tail(@)]
    /\ UNCHANGED <<up, wasReady, envVars, queue, workVars, stale>>

\* The annotations of a Subnetwork name the Subnet to enqueue.
DeliverSubnetwork(s) ==
    /\ Undelivered(dn[s])
    /\ dn' = [dn EXCEPT ![s] = Tail(@)]
    /\ queue' = queue \cup {s}
    /\ UNCHANGED <<up, wasReady, envVars, workVars, stale>>
-----------------------------------------------------------------------------
(* Users, the network-services-operator and Crossplane (external). *)

StoreUp(s, v) ==
    /\ WriteUp(s, v)
    /\ stale' = (stale \/ (s = key /\ pc # "idle" /\ v # Current(up[s])))
    /\ UNCHANGED <<dn, wasReady, envVars, queue, workVars>>

CreateSubnet(s) ==
    /\ Current(up[s]).phase = "none"
    /\ StoreUp(s, [NoSubnet EXCEPT !.phase = "live"])

Allocate(s) ==
    /\ Current(up[s]).phase = "live"
    /\ StoreUp(s, [Current(up[s]) EXCEPT !.allocated = TRUE])

DeleteSubnet(s) ==
    /\ Current(up[s]).phase = "live"
    /\ StoreUp(s, AfterDelete(Current(up[s])))

LocationChanges ==
    /\ Fault
    /\ loc' \in {"ours", "foreign", "missing"} \ {loc}
    /\ UNCHANGED <<up, dn, wasReady, queue, workVars, stale>>

StoreDn(s, v) ==
    /\ WriteDn(s, v)
    /\ wasReady' = IF v.ready THEN wasReady \cup {s} ELSE wasReady
    /\ UNCHANGED <<up, envVars, queue, workVars, stale>>

XPAddsFinalizer(s) ==
    /\ Current(dn[s]).phase = "live" /\ Current(dn[s]).fins = {}
    /\ StoreDn(s, [Current(dn[s]) EXCEPT !.fins = {XPFinalizer}])

XPReady(s) ==
    /\ Current(dn[s]).phase = "live" /\ Current(dn[s]).fins # {}
    /\ StoreDn(s, [Current(dn[s]) EXCEPT !.ready = TRUE])

XPReleases(s) ==
    /\ Current(dn[s]).phase = "deleting"
    /\ StoreDn(s, Settled([Current(dn[s]) EXCEPT !.fins = {}]))
-----------------------------------------------------------------------------
Worker(s) ==
    \/ ReconcileSkips(s) \/ ReconcileFinalizes(s)
    \/ ReconcileAddsFinalizer(s) \/ ReconcilePrograms(s)

Step ==
    \/ Finalize \/ Update \/ LoadOwners \/ GetSubnetwork
    \/ CreateSubnetwork \/ Conclude \/ UpdateStatus

Crossplane(s) == XPAddsFinalizer(s) \/ XPReady(s) \/ XPReleases(s)

Next ==
    \/ Step \/ CallFails \/ Restart \/ LocationChanges
    \/ \E s \in Subnets :
          \/ Worker(s) \/ Crossplane(s)
          \/ DeliverSubnet(s) \/ DeliverSubnetwork(s)
          \/ CreateSubnet(s) \/ Allocate(s) \/ DeleteSubnet(s)

Spec == Init /\ [][Next]_vars

\* The worker, the informers, the allocator and Crossplane make progress.
FairSpec ==
    /\ Spec
    /\ WF_vars(Step)
    /\ \A s \in Subnets :
          /\ WF_vars(Worker(s)) /\ WF_vars(Crossplane(s))
          /\ WF_vars(DeliverSubnet(s)) /\ WF_vars(DeliverSubnetwork(s))
          /\ WF_vars(Allocate(s))
-----------------------------------------------------------------------------
(* Properties. *)

TypeOK ==
    /\ up \in [Subnets -> Seq(SubnetVersion) \ {<<>>}]
    /\ dn \in [Subnets -> Seq(SubnetworkVersion) \ {<<>>}]
    /\ wasReady \subseteq Subnets
    /\ loc \in {"ours", "foreign", "missing"} /\ faults \in Nat
    /\ queue \subseteq Subnets /\ key \in Subnets /\ pc \in Labels
    /\ subnet \in SubnetVersion /\ stale \in BOOLEAN /\ ready \in BOOLEAN
    /\ cond \in ProgReasons /\ err \in {"ok", "error"}

Held(s) == Exists(Current(up[s])) /\ gcpInfraFinalizer \in Current(up[s]).fins

\* Without the finalizer on its Subnet a Subnetwork is at least being deleted:
\* no order of a lagging cache, a crash and a retry between CreateSubnetwork
\* and Finalize leaves one that nobody will delete.
NoLiveLeftover ==
    \A s \in Subnets : Current(dn[s]).phase = "live" => Held(s)

\* Programmed is reported only of a Subnetwork that was Ready.
ProgrammedMeansReady ==
    \A s \in Subnets : Current(up[s]).prog = "Programmed" => s \in wasReady

\* Once Programmed, a Subnet stays Programmed and keeps its allocation: no
\* reconcile that began before overwrites the status.
StatusNeverLost ==
    [][\A s \in Subnets :
          LET v == Current(up[s])  w == Current(up'[s]) IN
          /\ v.prog = "Programmed" => w.prog = "Programmed"
          /\ v.allocated => w.allocated]_vars

\* A deleted Subnet goes away while its Location is the provider's.
DeletionCompletes ==
    [](loc = "ours") =>
        \A s \in Subnets :
            Current(up[s]).phase = "deleting" ~> Current(up[s]).phase = "gone"

\* A Subnet is reported Programmed, or deleted, while its Location is the
\* provider's.
ProgrammingCompletes ==
    [](loc = "ours") =>
        \A s \in Subnets :
            Current(up[s]).phase = "live" ~>
                (Current(up[s]).phase # "live" \/ Current(up[s]).prog = "Programmed")
=============================================================================
