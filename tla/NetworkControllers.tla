-------------------------- MODULE NetworkControllers --------------------------
(***************************************************************************)
(* NetworkReconciler (internal/controller/network_controller.go) and       *)
(* NetworkContextReconciler (networkcontext_controller.go), which share    *)
(* the Crossplane Network network-<UID> of one upstream Network: the       *)
(* second creates it, on behalf of every NetworkContext of the Network,    *)
(* the first deletes it with the Network.                                  *)
(*                                                                         *)
(* Each reconciler has one worker.  Neither reconciler watches Networks:   *)
(* events of NetworkContexts enqueue the Network.                          *)
(***************************************************************************)
EXTENDS ApiObject

CONSTANTS
    Contexts,    \* NetworkContexts of the Network
    Ours,        \* those whose Location this provider serves
    Lasting,     \* bound: those that nobody deletes
    MaxLag,      \* bound: versions by which an informer may lag behind
    MaxFaults    \* bound: crashes, failed calls, Networks that fail at GCP

ASSUME NetworkAssumption ==
    /\ Ours \subseteq Contexts /\ Ours # {}
    /\ Lasting \subseteq Contexts /\ MaxLag \in Nat \ {0} /\ MaxFaults \in Nat

VARIABLES
    net,        \* the upstream Network, a window (ApiObject)
    ctx,        \* ctx[c]: the NetworkContext, a window
    dn,         \* the downstream Network, a window
    wasReady,   \* TRUE: dn has been Ready (history variable)
    nqueue,     \* TRUE: the Network waits to be reconciled
    npc,        \* where the NetworkReconciler is
    nstale,     \* TRUE: the server has replaced its copy of the Network
    cqueue,     \* the NetworkContexts that wait to be reconciled
    cpc,        \* where the NetworkContextReconciler is
    ckey,       \* the NetworkContext it works on
    reported,   \* the reason of Programmed in its copy of the NetworkContext
    cstale,     \* TRUE: the server has replaced that copy
    down,       \* its copy of the downstream Network
    cond,       \* reason of the Programmed condition it will report
    err,        \* "ok" or "error", what its reconcile will return
    faults      \* disturbances so far

apiVars == <<net, ctx, dn, wasReady>>
nWork == <<npc, nstale>>
cWork == <<cpc, ckey, reported, cstale, down, cond, err>>
vars == <<apiVars, nqueue, nWork, cqueue, cWork, faults>>

gcpInfraFinalizer == "compute.datumapis.com/infra-provider-gcp"
XPFinalizer == "finalizer.managedresource.crossplane.io"

ProgReasons == {"Unset", "NotProgrammed", "NetworkFailedToCreate",
                "ProgrammingInProgress", "Programmed"}

NetworkVersion == [phase : Phases, fins : SUBSET {gcpInfraFinalizer}]
ContextVersion == [phase : Phases, prog : ProgReasons]
DownVersion == [phase : Phases, fins : SUBSET {XPFinalizer},
                ready : BOOLEAN, failed : BOOLEAN]

NoNetwork == [phase |-> "none", fins |-> {}]
NoContext == [phase |-> "none", prog |-> "Unset"]
NoDown == [phase |-> "none", fins |-> {}, ready |-> FALSE, failed |-> FALSE]

Programming == {"getNetwork", "getDownstream", "createOrPatch", "conclude"}
-----------------------------------------------------------------------------
Init ==
    /\ net = <<NoNetwork>>
    /\ ctx = [c \in Contexts |-> <<NoContext>>]
    /\ dn = <<NoDown>> /\ wasReady = FALSE
    /\ nqueue = FALSE /\ npc = "idle" /\ nstale = FALSE
    /\ cqueue = {} /\ cpc = "idle" /\ ckey \in Contexts
    /\ reported = "Unset" /\ cstale = FALSE /\ down = NoDown
    /\ cond = "Unset" /\ err = "ok"
    /\ faults = 0

Fault == faults < MaxFaults /\ faults' = faults + 1

WriteNet(v) == Len(net) <= MaxLag /\ net' = Write(net, v)
WriteCtx(c, v) == Len(ctx[c]) <= MaxLag /\ ctx' = [ctx EXCEPT ![c] = Write(@, v)]
WriteDn(v) == Len(dn) <= MaxLag /\ dn' = Write(dn, v)
-----------------------------------------------------------------------------
(* NetworkReconciler. *)

NIdle == npc' = "idle" /\ nstale' = FALSE

\* Mutation: a failed reconcile is not put back.
NReturnForgets(e) == NIdle /\ UNCHANGED nqueue

NReturn(e) == NIdle /\ nqueue' = (nqueue \/ e = "error")

NLoad(l) ==
    /\ npc = "idle" /\ nqueue
    /\ nqueue' = FALSE /\ npc' = l
    /\ nstale' = Undelivered(net)
    /\ UNCHANGED <<apiVars, cqueue, cWork, faults>>

NetworkSkips ==
    /\ npc = "idle" /\ nqueue
    /\ LET v == Cached(net) IN
       \/ ~Exists(v)
       \/ v.phase = "deleting" /\ v.fins = {}
       \/ v.phase = "live" /\ v.fins # {}
    /\ nqueue' = FALSE
    /\ UNCHANGED <<apiVars, nWork, cqueue, cWork, faults>>

\* Mutation: the deletionTimestamp is not looked at.
NetworkFinalizesAlways == Exists(Cached(net)) /\ Cached(net).fins # {} /\ NLoad("delete")

NetworkFinalizes ==
    /\ Cached(net).phase = "deleting" /\ Cached(net).fins # {}
    /\ NLoad("delete")

NetworkAddsFinalizer ==
    /\ Cached(net).phase = "live" /\ Cached(net).fins = {}
    /\ NLoad("addFinalizer")

\* Delete by name, where NotFound is no error.
NetworkDelete ==
    /\ npc = "delete"
    /\ \/ Exists(Current(dn)) /\ WriteDn(AfterDelete(Current(dn)))
       \/ ~Exists(Current(dn)) /\ UNCHANGED dn
    /\ npc' = "removeFinalizer"
    /\ UNCHANGED <<net, ctx, wasReady, nqueue, nstale, cqueue, cWork, faults>>

\* The Update that adds or removes the finalizer: it goes through if the copy
\* it was computed from is the version the server holds.
NetworkUpdate ==
    /\ npc \in {"addFinalizer", "removeFinalizer"}
    /\ \/ /\ ~nstale /\ Exists(Current(net))
          /\ WriteNet(Settled([Current(net) EXCEPT !.fins =
                 IF npc = "addFinalizer" THEN {gcpInfraFinalizer} ELSE {}]))
          /\ NReturn("ok")
       \/ (nstale \/ ~Exists(Current(net))) /\ UNCHANGED net /\ NReturn("error")
    /\ UNCHANGED <<ctx, dn, wasReady, cqueue, cWork, faults>>

NetworkCallFails ==
    /\ npc # "idle" /\ Fault
    /\ NReturn("error")
    /\ UNCHANGED <<apiVars, cqueue, cWork>>
-----------------------------------------------------------------------------
(* NetworkContextReconciler. *)

CIdle ==
    /\ cpc' = "idle" /\ reported' = "Unset" /\ cstale' = FALSE /\ down' = NoDown
    /\ cond' = "Unset" /\ err' = "ok"
    /\ UNCHANGED ckey

CReturn(e) ==
    /\ CIdle
    /\ cqueue' = IF e = "error" THEN cqueue \cup {ckey} ELSE cqueue

\* Reconcile returns once its deferred function is set up.
CLeave(c, e) ==
    /\ cpc' = "updateStatus" /\ cond' = c /\ err' = e
    /\ down' = NoDown
    /\ UNCHANGED <<cqueue, ckey, reported, cstale>>

CGoto(l) == cpc' = l /\ UNCHANGED <<cqueue, ckey, reported, cstale, cond, err>>

\* A NetworkContext of another class, deleted or already Programmed.
ContextSkips(c) ==
    /\ cpc = "idle" /\ c \in cqueue
    /\ Cached(ctx[c]).phase # "live" \/ c \notin Ours \/ Cached(ctx[c]).prog = "Programmed"
    /\ cqueue' = cqueue \ {c}
    /\ UNCHANGED <<apiVars, nqueue, nWork, cWork, faults>>

ContextPrograms(c) ==
    /\ cpc = "idle" /\ c \in cqueue
    /\ Cached(ctx[c]).phase = "live" /\ c \in Ours /\ Cached(ctx[c]).prog # "Programmed"
    /\ cqueue' = cqueue \ {c} /\ ckey' = c /\ cpc' = "getNetwork"
    /\ reported' = Cached(ctx[c]).prog /\ cstale' = Undelivered(ctx[c])
    /\ cond' = "NotProgrammed"
    /\ UNCHANGED <<apiVars, nqueue, nWork, down, err, faults>>

\* Only the Network's existence is asked for, not whether it is being deleted.
GetNetwork ==
    /\ cpc = "getNetwork"
    /\ \/ Exists(Cached(net)) /\ CGoto("getDownstream") /\ UNCHANGED down
       \/ ~Exists(Cached(net)) /\ CLeave(cond, "error")
    /\ UNCHANGED <<apiVars, nqueue, nWork, faults>>

GetDownstream ==
    /\ cpc = "getDownstream"
    /\ down' = Cached(dn) /\ CGoto("createOrPatch")
    /\ UNCHANGED <<apiVars, nqueue, nWork, faults>>

\* CreateOrPatch: a Create, no call at all, or a merge patch of the spec, which
\* this model does not tell apart; the answer to a patch is the server's version.
CreateOrPatch ==
    /\ cpc = "createOrPatch"
    /\ \/ /\ ~Exists(down) /\ ~Exists(Current(dn))
          /\ down' = [NoDown EXCEPT !.phase = "live"]
          /\ WriteDn(down') /\ CGoto("conclude")
       \/ Exists(down) /\ UNCHANGED <<dn, down>> /\ CGoto("conclude")
       \/ /\ Exists(down) /\ Exists(Current(dn))
          /\ down' = Current(dn) /\ UNCHANGED dn /\ CGoto("conclude")
       \/ Exists(down) # Exists(Current(dn)) /\ UNCHANGED dn /\ CLeave(cond, "error")
    /\ UNCHANGED <<net, ctx, wasReady, nqueue, nWork, faults>>

\* Mutation: Synced is looked at, Ready is not.
ConcludeSynced ==
    /\ cpc = "conclude"
    /\ \/ down.failed /\ CLeave("NetworkFailedToCreate", "error")
       \/ ~down.failed /\ CLeave("Programmed", "ok")
    /\ UNCHANGED <<apiVars, nqueue, nWork, faults>>

\* Mutation: the reason of the Synced condition is handed on.
ConcludeHandsOn ==
    /\ cpc = "conclude"
    /\ \/ down.failed /\ CLeave("ReconcileError", "error")
       \/ ~down.failed /\ down.ready /\ CLeave("Programmed", "ok")
       \/ ~down.failed /\ ~down.ready /\ CLeave("ProgrammingInProgress", "ok")
    /\ UNCHANGED <<apiVars, nqueue, nWork, faults>>

Conclude ==
    /\ cpc = "conclude"
    /\ \/ down.failed /\ CLeave("NetworkFailedToCreate", "error")
       \/ ~down.failed /\ down.ready /\ CLeave("Programmed", "ok")
       \/ ~down.failed /\ ~down.ready /\ CLeave("ProgrammingInProgress", "ok")
    /\ UNCHANGED <<apiVars, nqueue, nWork, faults>>

\* Mutation: the status is patched over whatever the server holds.
ContextStatusBlindly ==
    /\ cpc = "updateStatus"
    /\ \/ Exists(Current(ctx[ckey])) /\ WriteCtx(ckey, [Current(ctx[ckey]) EXCEPT !.prog = cond])
       \/ ~Exists(Current(ctx[ckey])) /\ UNCHANGED ctx
    /\ CReturn(err)
    /\ UNCHANGED <<net, dn, wasReady, nqueue, nWork, faults>>

\* The deferred function joins its error to the one that is returned.
ContextStatus ==
    /\ cpc = "updateStatus"
    /\ \/ reported = cond /\ UNCHANGED ctx /\ CReturn(err)
       \/ /\ reported # cond /\ ~cstale /\ Exists(Current(ctx[ckey]))
          /\ WriteCtx(ckey, [Current(ctx[ckey]) EXCEPT !.prog = cond]) /\ CReturn(err)
       \/ /\ reported # cond /\ (cstale \/ ~Exists(Current(ctx[ckey])))
          /\ UNCHANGED ctx /\ CReturn("error")
    /\ UNCHANGED <<net, dn, wasReady, nqueue, nWork, faults>>

ContextCallFails ==
    /\ cpc \notin {"idle", "conclude"} /\ Fault
    /\ IF cpc \in Programming THEN CLeave(cond, "error") ELSE CReturn("error")
    /\ UNCHANGED <<apiVars, nqueue, nWork>>
-----------------------------------------------------------------------------
(* The process and its informers. *)

Restart ==
    /\ Fault /\ NIdle /\ CIdle
    /\ net' = <<Current(net)>> /\ dn' = <<Current(dn)>>
    /\ ctx' = [c \in Contexts |-> <<Current(ctx[c])>>]
    /\ cqueue' = {c \in Contexts : Exists(Current(ctx[c]))}
    /\ nqueue' = (\E c \in Ours : Exists(Current(ctx[c])))
    /\ UNCHANGED wasReady

\* The informer of the Networks serves reads only.
DeliverNetwork ==
    /\ Undelivered(net)
    /\ net' = Tail(net)
    /\ UNCHANGED <<ctx, dn, wasReady, nqueue, nWork, cqueue, cWork, faults>>

\* An event of a NetworkContext goes to both reconcilers.
DeliverContext(c) ==
    /\ Undelivered(ctx[c])
    /\ ctx' = [ctx EXCEPT ![c] = Tail(@)]
    /\ cqueue' = cqueue \cup {c}
    /\ nqueue' = (nqueue \/ c \in Ours)
    /\ UNCHANGED <<net, dn, wasReady, nWork, cWork, faults>>

\* The NetworkReconciler's map function could not read the Location: it logs
\* the error and enqueues nothing.
DeliverContextDropped(c) ==
    /\ Undelivered(ctx[c]) /\ Fault
    /\ ctx' = [ctx EXCEPT ![c] = Tail(@)]
    /\ cqueue' = cqueue \cup {c}
    /\ UNCHANGED <<net, dn, wasReady, nqueue, nWork, cWork>>

\* Mutation: the downstream Networks are not watched.
DeliverDownstreamUnwatched ==
    /\ Undelivered(dn)
    /\ dn' = Tail(dn)
    /\ UNCHANGED <<net, ctx, wasReady, nqueue, nWork, cqueue, cWork, faults>>

\* networkContextControllerNetworkUIDIndex finds the contexts of the Network.
DeliverDownstream ==
    /\ Undelivered(dn)
    /\ dn' = Tail(dn)
    /\ cqueue' = cqueue \cup {c \in Contexts : Exists(Cached(ctx[c]))}
    /\ UNCHANGED <<net, ctx, wasReady, nqueue, nWork, cWork, faults>>
-----------------------------------------------------------------------------
(* Users, the network-services-operator and Crossplane (external). *)

StoreNet(v) ==
    /\ WriteNet(v) /\ nstale' = (nstale \/ npc # "idle")
    /\ UNCHANGED <<ctx, dn, wasReady, nqueue, npc, cqueue, cWork, faults>>

CreateNetwork == Current(net).phase = "none" /\ StoreNet([NoNetwork EXCEPT !.phase = "live"])

DeleteNetwork == Current(net).phase = "live" /\ StoreNet(AfterDelete(Current(net)))

StoreCtx(c, v) ==
    /\ WriteCtx(c, v) /\ cstale' = (cstale \/ (c = ckey /\ cpc # "idle"))
    /\ UNCHANGED <<net, dn, wasReady, nqueue, nWork, cqueue, faults>>
    /\ UNCHANGED <<cpc, ckey, reported, down, cond, err>>

CreateContext(c) ==
    /\ Current(ctx[c]).phase = "none" /\ Current(net).phase = "live"
    /\ StoreCtx(c, [NoContext EXCEPT !.phase = "live"])

\* Other finalizers may hold a NetworkContext for a while.
DeleteContext(c) ==
    /\ Current(ctx[c]).phase = "live" /\ c \notin Lasting
    /\ \E p \in {"deleting", "gone"} : StoreCtx(c, [Current(ctx[c]) EXCEPT !.phase = p])

ContextRemoved(c) ==
    /\ Current(ctx[c]).phase = "deleting"
    /\ StoreCtx(c, [Current(ctx[c]) EXCEPT !.phase = "gone"])

StoreDn(v) ==
    /\ WriteDn(v)
    /\ wasReady' = (wasReady \/ v.ready)
    /\ UNCHANGED <<net, ctx, nqueue, nWork, cqueue, cWork>>

XPAddsFinalizer ==
    /\ Current(dn).phase = "live" /\ Current(dn).fins = {}
    /\ StoreDn([Current(dn) EXCEPT !.fins = {XPFinalizer}]) /\ UNCHANGED faults

XPReady ==
    /\ Current(dn).phase = "live" /\ Current(dn).fins # {}
    /\ StoreDn([Current(dn) EXCEPT !.ready = TRUE, !.failed = FALSE]) /\ UNCHANGED faults

\* GCP refuses the Network: Synced has the reason ReconcileError.
XPFails ==
    /\ Current(dn).phase = "live" /\ Current(dn).fins # {} /\ Fault
    /\ StoreDn([Current(dn) EXCEPT !.failed = TRUE])

XPReleases ==
    /\ Current(dn).phase = "deleting"
    /\ StoreDn(Settled([Current(dn) EXCEPT !.fins = {}])) /\ UNCHANGED faults
-----------------------------------------------------------------------------
NetworkWorker ==
    \/ NetworkSkips \/ NetworkFinalizes \/ NetworkAddsFinalizer
    \/ NetworkDelete \/ NetworkUpdate

ContextWorker(c) == ContextSkips(c) \/ ContextPrograms(c)

ContextStep == GetNetwork \/ GetDownstream \/ CreateOrPatch \/ Conclude \/ ContextStatus

Crossplane == XPAddsFinalizer \/ XPReady \/ XPReleases

Next ==
    \/ NetworkWorker \/ NetworkCallFails \/ ContextStep \/ ContextCallFails
    \/ Restart \/ DeliverNetwork \/ DeliverDownstream
    \/ CreateNetwork \/ DeleteNetwork \/ Crossplane \/ XPFails
    \/ \E c \in Contexts :
          \/ ContextWorker(c) \/ DeliverContext(c) \/ DeliverContextDropped(c)
          \/ CreateContext(c) \/ DeleteContext(c) \/ ContextRemoved(c)

Spec == Init /\ [][Next]_vars

\* Workers, informers and Crossplane make progress.
FairSpec ==
    /\ Spec
    /\ WF_vars(NetworkWorker) /\ WF_vars(ContextStep)
    /\ WF_vars(DeliverNetwork) /\ WF_vars(DeliverDownstream) /\ WF_vars(Crossplane)
    /\ \A c \in Contexts :
          WF_vars(ContextWorker(c)) /\ WF_vars(DeliverContext(c))
-----------------------------------------------------------------------------
(* Properties. *)

TypeOK ==
    /\ net \in Seq(NetworkVersion) \ {<<>>}
    /\ ctx \in [Contexts -> Seq(ContextVersion) \ {<<>>}]
    /\ dn \in Seq(DownVersion) \ {<<>>}
    /\ wasReady \in BOOLEAN /\ nqueue \in BOOLEAN /\ cqueue \subseteq Contexts
    /\ npc \in {"idle", "delete", "removeFinalizer", "addFinalizer"}
    /\ cpc \in {"idle", "updateStatus"} \cup Programming
    /\ nstale \in BOOLEAN
    /\ ckey \in Contexts /\ reported \in ProgReasons /\ cstale \in BOOLEAN
    /\ down \in DownVersion
    /\ cond \in ProgReasons /\ err \in {"ok", "error"} /\ faults \in Nat

\* The GCP network is torn down only for a Network that is being deleted, with
\* whatever delay the NetworkReconciler sees it.
NeverDeletedEarly ==
    Current(dn).phase \in {"deleting", "gone"} => Current(net).phase \in {"deleting", "gone"}

\* A NetworkContext is reported Programmed only if its network was Ready.
ProgrammedMeansReady ==
    \A c \in Contexts : Current(ctx[c]).prog = "Programmed" => wasReady

\* A Programmed NetworkContext stays Programmed: no reconcile that began before
\* overwrites its status.
ProgrammedIsFinal ==
    [][\A c \in Contexts :
          Current(ctx[c]).prog = "Programmed" => Current(ctx'[c]).prog = "Programmed"]_vars

\* A NetworkContext is reported Programmed unless it or its Network is deleted:
\* no failed call, lost update or restart ends the attempts.
ProgrammingCompletes ==
    \A c \in Ours :
        Current(ctx[c]).phase = "live" ~>
            \/ Current(ctx[c]).phase # "live" \/ Current(ctx[c]).prog = "Programmed"
            \/ Current(net).phase # "live"

\* Once a reconcile is due that can see the deletion, the Network goes, as long
\* as there is a NetworkContext that brings it back after a crash.
FinalizationCompletes ==
    nqueue /\ Cached(net).phase = "deleting" ~>
        Current(net).phase = "gone" \/ \A c \in Ours : ~Exists(Current(ctx[c]))

\* A deleted Network goes away.
DeletionCompletes == Current(net).phase = "deleting" ~> Current(net).phase = "gone"
=============================================================================
