---------------------------- MODULE SubnetProofs ----------------------------
(***************************************************************************)
(* Theorems about SubnetController for every set of Subnets and every      *)
(* value of the bounds.                                                    *)
(***************************************************************************)
EXTENDS SubnetController, WindowProofs, TLAPS

-----------------------------------------------------------------------------
(* Type correctness. *)

StoreType ==
    /\ up \in [Subnets -> Window(SubnetVersion)]
    /\ dn \in [Subnets -> Window(SubnetworkVersion)]
    /\ wasReady \subseteq Subnets

EnvType == loc \in {"ours", "foreign", "missing"} /\ faults \in Nat

WorkType ==
    /\ queue \subseteq Subnets /\ key \in Subnets /\ pc \in Labels
    /\ subnet \in SubnetVersion /\ stale \in BOOLEAN /\ ready \in BOOLEAN
    /\ cond \in ProgReasons /\ err \in {"ok", "error"}

LEMMA TypeParts == TypeOK <=> StoreType /\ EnvType /\ WorkType
  BY DEF TypeOK, StoreType, EnvType, WorkType, Window

\* A write changes one window and leaves the others.
LEMMA WriteUpType ==
    ASSUME StoreType, NEW s \in Subnets, NEW v \in SubnetVersion, WriteUp(s, v)
    PROVE  /\ up' \in [Subnets -> Window(SubnetVersion)]
           /\ up'[s] = Write(up[s], v)
           /\ \A r \in Subnets : r # s => up'[r] = up[r]
<1>1. Write(up[s], v) \in Window(SubnetVersion)
  BY WriteWindow DEF StoreType
<1> QED
  BY <1>1 DEF StoreType, WriteUp

LEMMA WriteDnType ==
    ASSUME StoreType, NEW s \in Subnets, NEW v \in SubnetworkVersion, WriteDn(s, v)
    PROVE  /\ dn' \in [Subnets -> Window(SubnetworkVersion)]
           /\ dn'[s] = Write(dn[s], v)
           /\ \A r \in Subnets : r # s => dn'[r] = dn[r]
<1>1. Write(dn[s], v) \in Window(SubnetworkVersion)
  BY WriteWindow DEF StoreType
<1> QED
  BY <1>1 DEF StoreType, WriteDn

LEMMA StoredVersions ==
    ASSUME StoreType, NEW s \in Subnets
    PROVE  /\ Current(up[s]) \in SubnetVersion /\ Cached(up[s]) \in SubnetVersion
           /\ Current(dn[s]) \in SubnetworkVersion /\ Cached(dn[s]) \in SubnetworkVersion
  BY RelistWindow DEF StoreType

\* The versions the reconciler, the users and Crossplane write are versions.
LEMMA SubnetVersions ==
    ASSUME NEW v \in SubnetVersion
    PROVE  /\ \A F \in SUBSET {gcpInfraFinalizer} : [v EXCEPT !.fins = F] \in SubnetVersion
           /\ \A c \in ProgReasons : [v EXCEPT !.prog = c] \in SubnetVersion
           /\ [v EXCEPT !.allocated = TRUE] \in SubnetVersion
           /\ Settled(v) \in SubnetVersion /\ AfterDelete(v) \in SubnetVersion
  BY DEF SubnetVersion, Settled, AfterDelete, Phases

LEMMA SubnetworkVersions ==
    ASSUME NEW v \in SubnetworkVersion
    PROVE  /\ \A F \in SUBSET {XPFinalizer} : [v EXCEPT !.fins = F] \in SubnetworkVersion
           /\ [v EXCEPT !.ready = TRUE] \in SubnetworkVersion
           /\ Settled(v) \in SubnetworkVersion /\ AfterDelete(v) \in SubnetworkVersion
  BY DEF SubnetworkVersion, Settled, AfterDelete, Phases

LEMMA FirstVersions ==
    /\ NoSubnet \in SubnetVersion /\ NoSubnetwork \in SubnetworkVersion
    /\ [NoSubnet EXCEPT !.phase = "live"] \in SubnetVersion
    /\ [NoSubnetwork EXCEPT !.phase = "live"] \in SubnetworkVersion
  BY DEF NoSubnet, NoSubnetwork, SubnetVersion, SubnetworkVersion, Phases, ProgReasons

LEMMA WorkerMoves ==
    ASSUME WorkType
    PROVE  /\ \A e : Return(e) => WorkType'
           /\ \A l \in Labels : Goto(l) =>
                 /\ queue' \subseteq Subnets /\ key' \in Subnets /\ pc' \in Labels
                 /\ subnet' \in SubnetVersion /\ stale' \in BOOLEAN
                 /\ cond' \in ProgReasons /\ err' \in {"ok", "error"}
           /\ \A c \in ProgReasons, e \in {"ok", "error"} : Leave(c, e) => WorkType'
<1>1. "idle" \in Labels /\ "updateStatus" \in Labels /\ "Unset" \in ProgReasons
  BY DEF Labels, ProgReasons
<1> QED
  BY <1>1, FirstVersions DEF WorkType, Return, Idle, Goto, Leave

LEMMA InitType == Init => TypeOK
<1> SUFFICES ASSUME Init PROVE StoreType /\ EnvType /\ WorkType
  BY TypeParts
<1>1. StoreType /\ EnvType
  BY FirstVersions DEF Init, StoreType, EnvType, Window
<1>2. WorkType
  BY FirstVersions DEF Init, WorkType, Labels, ProgReasons
<1> QED
  BY <1>1, <1>2

\* One step keeps every variable in its type.
LEMMA NextType == TypeOK /\ [Next]_vars => TypeOK'
<1> SUFFICES ASSUME StoreType, EnvType, WorkType, [Next]_vars
             PROVE  StoreType' /\ EnvType' /\ WorkType'
  BY DEF TypeOK, StoreType, EnvType, WorkType, Window
<1>1. /\ Current(up[key]) \in SubnetVersion /\ subnet \in SubnetVersion
      /\ Current(dn[key]) \in SubnetworkVersion /\ Cached(dn[key]) \in SubnetworkVersion
      /\ key \in Subnets /\ cond \in ProgReasons /\ err \in {"ok", "error"}
  BY StoredVersions DEF WorkType
<1>2. /\ {"delete", "update", "updateStatus", "owners", "getSubnetwork", "create", "conclude"}
            \subseteq Labels
      /\ {"Unset", "NotProgrammed", "ProgrammingInProgress", "Programmed"} \subseteq ProgReasons
  BY DEF Labels, Programming, ProgReasons
<1>3. Fault => faults' \in Nat
  BY DEF Fault, EnvType
<1>4. ASSUME NEW s \in Subnets, Worker(s)
      PROVE  StoreType' /\ EnvType' /\ WorkType'
  <2>1. Cached(up[s]) \in SubnetVersion /\ Cached(up[s]).fins \subseteq {gcpInfraFinalizer}
    BY StoredVersions DEF SubnetVersion
  <2>2. /\ [Cached(up[s]) EXCEPT !.fins = @ \ {gcpInfraFinalizer}] \in SubnetVersion
        /\ [Cached(up[s]) EXCEPT !.fins = @ \cup {gcpInfraFinalizer}] \in SubnetVersion
    BY <2>1 DEF SubnetVersion
  <2>3. Undelivered(up[s]) \in BOOLEAN
    BY DEF Undelivered
  <2>4. CASE ReconcileSkips(s)
    BY <2>4 DEF ReconcileSkips, StoreType, EnvType, WorkType, envVars, workVars
  <2>5. CASE ReconcileFinalizes(s)
    BY <1>2, <2>2, <2>3, <2>5
    DEF ReconcileFinalizes, Take, StoreType, EnvType, WorkType, envVars
  <2>6. CASE ReconcileAddsFinalizer(s)
    BY <1>2, <2>2, <2>3, <2>6
    DEF ReconcileAddsFinalizer, Take, StoreType, EnvType, WorkType, envVars
  <2>7. CASE ReconcilePrograms(s)
    BY <1>2, <2>1, <2>3, <2>7
    DEF ReconcilePrograms, Take, StoreType, EnvType, WorkType, envVars
  <2> QED
    BY <1>4, <2>4, <2>5, <2>6, <2>7 DEF Worker
<1>5. CASE Finalize
  <2>1. dn' \in [Subnets -> Window(SubnetworkVersion)]
    BY <1>1, <1>5, SubnetworkVersions, WriteDnType DEF Finalize, StoreType
  <2> QED
    BY <1>2, <1>5, <2>1, WorkerMoves DEF Finalize, StoreType, EnvType, WorkType, envVars
<1>6. CASE Update
  <2>1. up' \in [Subnets -> Window(SubnetVersion)]
    BY <1>1, <1>6, SubnetVersions, WriteUpType DEF Update, StoreType
  <2> QED
    BY <1>6, <2>1, WorkerMoves DEF Update, StoreType, EnvType, envVars
<1>7. CASE LoadOwners
  BY <1>2, <1>7, WorkerMoves DEF LoadOwners, StoreType, EnvType, WorkType, envVars
<1>8. CASE GetSubnetwork
  <2>1. ready' \in BOOLEAN
    BY <1>1, <1>8 DEF GetSubnetwork, SubnetworkVersion
  <2> QED
    BY <1>2, <1>8, <2>1, WorkerMoves DEF GetSubnetwork, StoreType, EnvType, WorkType, envVars
<1>9. CASE CreateSubnetwork
  <2>1. dn' \in [Subnets -> Window(SubnetworkVersion)]
    BY <1>1, <1>9, FirstVersions, WriteDnType DEF CreateSubnetwork, StoreType
  <2>2. WorkType'
    BY <1>1, <1>2, <1>9, WorkerMoves DEF CreateSubnetwork, WorkType
  <2> QED
    BY <1>9, <2>1, <2>2 DEF CreateSubnetwork, StoreType, EnvType, envVars
<1>10. CASE Conclude
  BY <1>2, <1>10, WorkerMoves DEF Conclude, StoreType, EnvType, envVars
<1>11. CASE UpdateStatus
  <2>1. up' \in [Subnets -> Window(SubnetVersion)]
    BY <1>1, <1>11, SubnetVersions, WriteUpType DEF UpdateStatus, StoreType
  <2>2. EnvType'
    BY <1>3, <1>11 DEF UpdateStatus, EnvType
  <2> QED
    BY <1>11, <2>1, <2>2, WorkerMoves DEF UpdateStatus, StoreType
<1>12. CASE CallFails
  BY <1>1, <1>3, <1>12, WorkerMoves DEF CallFails, StoreType, EnvType
<1>13. CASE Restart
  <2>1. /\ up' \in [Subnets -> Window(SubnetVersion)]
        /\ dn' \in [Subnets -> Window(SubnetworkVersion)]
    BY <1>13, RelistWindow DEF Restart, StoreType
  <2>2. WorkType'
    BY <1>2, <1>13, FirstVersions DEF Restart, Idle, WorkType, Labels
  <2> QED
    BY <1>3, <1>13, <2>1, <2>2 DEF Restart, StoreType, EnvType
<1>14. CASE LocationChanges
  BY <1>3, <1>14 DEF LocationChanges, StoreType, EnvType, WorkType, workVars
<1>15. ASSUME NEW s \in Subnets, CreateSubnet(s) \/ Allocate(s) \/ DeleteSubnet(s)
       PROVE  StoreType' /\ EnvType' /\ WorkType'
  <2>1. PICK v \in SubnetVersion : StoreUp(s, v)
    BY <1>15, StoredVersions, SubnetVersions, FirstVersions
    DEF CreateSubnet, Allocate, DeleteSubnet
  <2>2. up' \in [Subnets -> Window(SubnetVersion)]
    BY <2>1, WriteUpType DEF StoreUp
  <2> QED
    BY <2>1, <2>2 DEF StoreUp, StoreType, EnvType, WorkType, envVars, workVars
<1>16. ASSUME NEW s \in Subnets, Crossplane(s)
       PROVE  StoreType' /\ EnvType' /\ WorkType'
  <2>1. PICK v \in SubnetworkVersion : StoreDn(s, v)
    <3>1. /\ {} \in SUBSET {XPFinalizer} /\ {XPFinalizer} \in SUBSET {XPFinalizer}
          /\ Current(dn[s]) \in SubnetworkVersion
      BY StoredVersions
    <3>2. XPReleases(s) => \E v \in SubnetworkVersion : StoreDn(s, v)
      <4>1. [Current(dn[s]) EXCEPT !.fins = {}] \in SubnetworkVersion
        BY <3>1, SubnetworkVersions
      <4> QED
        BY <4>1, SubnetworkVersions DEF XPReleases
    <3> QED
      BY <1>16, <3>1, <3>2, SubnetworkVersions DEF Crossplane, XPAddsFinalizer, XPReady
  <2>2. dn' \in [Subnets -> Window(SubnetworkVersion)]
    BY <2>1, WriteDnType DEF StoreDn
  <2> QED
    BY <2>1, <2>2 DEF StoreDn, StoreType, EnvType, WorkType, envVars, workVars
<1>17. ASSUME NEW s \in Subnets, DeliverSubnet(s)
       PROVE  StoreType' /\ EnvType' /\ WorkType'
  <2>1. up' \in [Subnets -> Window(SubnetVersion)]
    BY <1>17, TailWindow DEF DeliverSubnet, StoreType
  <2> QED
    BY <1>17, <2>1 DEF DeliverSubnet, StoreType, EnvType, WorkType, envVars, workVars
<1>18. ASSUME NEW s \in Subnets, DeliverSubnetwork(s)
       PROVE  StoreType' /\ EnvType' /\ WorkType'
  <2>1. dn' \in [Subnets -> Window(SubnetworkVersion)]
    BY <1>18, TailWindow DEF DeliverSubnetwork, StoreType
  <2> QED
    BY <1>18, <2>1 DEF DeliverSubnetwork, StoreType, EnvType, WorkType, envVars, workVars
<1>19. CASE UNCHANGED vars
  BY <1>19 DEF vars, StoreType, EnvType, WorkType, envVars, workVars
<1> QED
  BY <1>4, <1>5, <1>6, <1>7, <1>8, <1>9, <1>10, <1>11, <1>12, <1>13, <1>14, <1>15, <1>16,
     <1>17, <1>18, <1>19 DEF Next, Step

\* Every variable keeps its type in every behaviour of the SubnetReconciler,
\* its informers, the users, the allocator and Crossplane.
THEOREM TypeCorrect == Spec => []TypeOK
  BY InitType, NextType, PTL DEF Spec
-----------------------------------------------------------------------------
(* The inductive invariant. *)

AllLeaving(w) == \A n \in 1..Len(w) : w[n].phase \in Leaving

\* The finalizer of this provider is on an object that exists.
HeldBy(v) == Exists(v) /\ gcpInfraFinalizer \in v.fins

Claims(v) == v.phase = "live" /\ gcpInfraFinalizer \in v.fins

\* A Subnet, given whether its Subnetwork has been Ready.  A cached version
\* that lets a reconcile create the Subnetwork is no illusion: the finalizer
\* is still there.
UpInv(w, was) ==
    /\ Ordered(w)
    /\ \A n \in 1..Len(w) : Claims(w[n]) => HeldBy(Current(w))
    /\ \A n \in 1..Len(w) : w[n].prog = "Programmed" => was
    /\ Current(w).phase = "none" => Current(w) = NoSubnet

DnInv(w, was) == \A n \in 1..Len(w) : w[n].ready => was

StoredInv ==
    \A s \in Subnets : UpInv(up[s], s \in wasReady) /\ DnInv(dn[s], s \in wasReady)

Reporting == Programming \cup {"updateStatus"}

\* What the worker knows in each place.
WorkerInv ==
    /\ pc = "idle" => ~ready /\ cond = "Unset"
    /\ pc \in Reporting =>
          subnet.prog # "Programmed" /\ (~stale => subnet = Current(up[key]))
    /\ pc \in Programming => Held(key)
    /\ pc \in {"delete", "update"} /\ ~stale =>
          /\ subnet.phase = Current(up[key]).phase
          /\ subnet.prog = Current(up[key]).prog
          /\ subnet.allocated = Current(up[key]).allocated
    /\ pc = "delete" => subnet.phase = "deleting"
    /\ pc = "update" => subnet.phase = "deleting" \/ Claims(subnet)
    /\ pc \in {"delete", "update"} /\ subnet.phase = "deleting" => AllLeaving(up[key])
    /\ pc = "update" /\ subnet.phase = "deleting" => Current(dn[key]).phase # "live"
    /\ (subnet.prog = "Programmed" \/ ready \/ cond = "Programmed") => key \in wasReady

SafeInv == TypeOK /\ StoredInv /\ WorkerInv /\ NoLiveLeftover
-----------------------------------------------------------------------------
(* How the stored objects change. *)

LEMMA VersionPhases ==
    /\ \A v \in SubnetVersion : v.phase \in Phases
    /\ \A v \in SubnetworkVersion : v.phase \in Phases
  BY DEF SubnetVersion, SubnetworkVersion

LEMMA UpWrite ==
    ASSUME NEW w \in Window(SubnetVersion), NEW was \in BOOLEAN, UpInv(w, was),
           NEW v \in SubnetVersion, v.phase # "none", v.phase \in Leads(Current(w).phase),
           v.prog = "Programmed" => was,
           HeldBy(v) \/ \A n \in 1..Len(w) : ~Claims(w[n])
    PROVE  /\ UpInv(Write(w, v), was)
           /\ AllLeaving(w) => AllLeaving(Write(w, v))
<1> DEFINE z == Write(w, v)
<1>1. /\ Current(z) = v
      /\ \A n \in 1..Len(z) : \/ n = Len(z) /\ z[n] = v
                              \/ n \in 1..Len(w) /\ z[n] = w[n]
  BY WriteWindow
<1>2. Ordered(z)
  BY OrderedWrite, VersionPhases DEF UpInv
<1> HIDE DEF z
<1>3. Claims(v) => HeldBy(v)
  BY DEF Claims, HeldBy, Exists
<1>4. UpInv(z, was)
  BY <1>1, <1>2, <1>3 DEF UpInv
<1>5. ASSUME AllLeaving(w) PROVE AllLeaving(z)
  <2>1. Current(w).phase \in Leaving
    BY <1>5, RelistWindow DEF AllLeaving, Current
  <2>2. v.phase \in Leaving
    BY <2>1, LeavingLeads
  <2> QED
    BY <1>1, <1>5, <2>2 DEF AllLeaving
<1> QED
  BY <1>4, <1>5 DEF z

LEMMA UpTail ==
    ASSUME NEW w \in Window(SubnetVersion), NEW was \in BOOLEAN, UpInv(w, was), Undelivered(w)
    PROVE  /\ UpInv(Tail(w), was)
           /\ AllLeaving(w) => AllLeaving(Tail(w))
<1>1. Ordered(Tail(w))
  BY OrderedTail DEF UpInv
<1>2. /\ Current(Tail(w)) = Current(w)
      /\ \A n \in 1..Len(Tail(w)) : n + 1 \in 1..Len(w) /\ Tail(w)[n] = w[n + 1]
  BY TailWindow
<1> QED
  BY <1>1, <1>2 DEF UpInv, AllLeaving

LEMMA UpRelist ==
    ASSUME NEW w \in Window(SubnetVersion), NEW was \in BOOLEAN, UpInv(w, was)
    PROVE  UpInv(<<Current(w)>>, was)
<1> DEFINE z == <<Current(w)>>
<1>1. /\ Ordered(z)
      /\ Current(z) = Current(w) /\ Len(z) = 1 /\ z[1] = Current(w)
      /\ Len(w) \in 1..Len(w)
  BY OrderedRelist, VersionPhases, RelistWindow
<1> HIDE DEF z
<1>2. \A n \in 1..Len(z) : z[n] = w[Len(w)]
  BY <1>1 DEF Current
<1> QED
  BY <1>1, <1>2 DEF UpInv, z

LEMMA DnWrite ==
    ASSUME NEW w \in Window(SubnetworkVersion), NEW was \in BOOLEAN, NEW is \in BOOLEAN,
           DnInv(w, was), was => is, NEW v \in SubnetworkVersion, v.ready => is
    PROVE  DnInv(Write(w, v), is)
<1> DEFINE z == Write(w, v)
<1>1. \A n \in 1..Len(z) : \/ n = Len(z) /\ z[n] = v
                           \/ n \in 1..Len(w) /\ z[n] = w[n]
  BY WriteWindow
<1> HIDE DEF z
<1> QED
  BY <1>1 DEF DnInv, z

LEMMA DnTail ==
    ASSUME NEW w \in Window(SubnetworkVersion), NEW was \in BOOLEAN, DnInv(w, was), Undelivered(w)
    PROVE  DnInv(Tail(w), was)
  BY TailWindow DEF DnInv

LEMMA DnRelist ==
    ASSUME NEW w \in Window(SubnetworkVersion), NEW was \in BOOLEAN, DnInv(w, was)
    PROVE  DnInv(<<Current(w)>>, was)
<1> DEFINE z == <<Current(w)>>
<1>1. Len(z) = 1 /\ z[1] = Current(w) /\ Len(w) \in 1..Len(w)
  BY RelistWindow
<1> HIDE DEF z
<1> QED
  BY <1>1 DEF DnInv, Current, z
-----------------------------------------------------------------------------
(* How a step changes them. *)

\* A version stored upstream, by the worker or by somebody else.
LEMMA StoredUp ==
    ASSUME StoreType, StoredInv, NEW s \in Subnets, NEW v \in SubnetVersion,
           WriteUp(s, v), UNCHANGED <<dn, wasReady>>,
           v.phase # "none", v.phase \in Leads(Current(up[s]).phase),
           v.prog = "Programmed" => s \in wasReady,
           HeldBy(v) \/ \A n \in 1..Len(up[s]) : ~Claims(up[s][n])
    PROVE  /\ StoredInv'
           /\ Current(up'[s]) = v
           /\ \A r \in Subnets : r # s => up'[r] = up[r]
           /\ \A r \in Subnets : AllLeaving(up[r]) => AllLeaving(up'[r])
<1>1. /\ up[s] \in Window(SubnetVersion) /\ UpInv(up[s], s \in wasReady)
      /\ (s \in wasReady) \in BOOLEAN
  BY DEF StoreType, StoredInv
<1>2. up'[s] = Write(up[s], v) /\ \A r \in Subnets : r # s => up'[r] = up[r]
  BY WriteUpType
<1>3. /\ UpInv(up'[s], s \in wasReady)
      /\ AllLeaving(up[s]) => AllLeaving(up'[s])
  BY <1>1, <1>2, UpWrite
<1>4. Current(up'[s]) = v
  BY <1>1, <1>2, WriteWindow
<1> QED
  BY <1>2, <1>3, <1>4 DEF StoredInv

\* A version stored downstream.
LEMMA StoredDn ==
    ASSUME StoreType, StoredInv, NEW s \in Subnets, NEW v \in SubnetworkVersion,
           WriteDn(s, v), UNCHANGED up, wasReady' \in SUBSET Subnets,
           wasReady \subseteq wasReady', v.ready => s \in wasReady'
    PROVE  /\ StoredInv'
           /\ Current(dn'[s]) = v
           /\ \A r \in Subnets : r # s => dn'[r] = dn[r]
<1>1. dn'[s] = Write(dn[s], v) /\ \A r \in Subnets : r # s => dn'[r] = dn[r]
  BY WriteDnType
<1>2. \A r \in Subnets : UpInv(up'[r], r \in wasReady')
  BY DEF StoredInv, UpInv
<1>3. ASSUME NEW r \in Subnets PROVE DnInv(dn'[r], r \in wasReady')
  <2>1. CASE r = s
    <3>1. /\ dn[s] \in Window(SubnetworkVersion) /\ DnInv(dn[s], s \in wasReady)
          /\ (s \in wasReady) \in BOOLEAN /\ (s \in wasReady') \in BOOLEAN
          /\ s \in wasReady => s \in wasReady'
      BY DEF StoreType, StoredInv
    <3> QED
      BY <1>1, <2>1, <3>1, DnWrite
  <2>2. CASE r # s
    BY <1>1, <2>2 DEF StoredInv, DnInv
  <2> QED
    BY <2>1, <2>2
<1>4. Current(dn'[s]) = v
  BY <1>1, WriteWindow DEF StoreType
<1> QED
  BY <1>1, <1>2, <1>3, <1>4 DEF StoredInv

\* Nothing is stored.
LEMMA StoredSame ==
    ASSUME StoredInv, UNCHANGED <<up, dn, wasReady>>
    PROVE  StoredInv'
  BY DEF StoredInv

\* The worker knows nothing when it is idle.
LEMMA IdleWorker == Idle => WorkerInv'
  BY DEF Idle, WorkerInv, NoSubnet, Reporting, Programming

\* What the worker knows survives what the others do.
LEMMA KeepWorker ==
    ASSUME WorkerInv, NEW s \in Subnets, s = key, UNCHANGED workVars, wasReady \subseteq wasReady',
           stale => stale',
           pc # "idle" /\ ~stale' => Current(up'[s]) = Current(up[s]),
           Held(s) => HeldBy(Current(up'[s])),
           AllLeaving(up[s]) => AllLeaving(up'[s]),
           Current(dn'[s]).phase = "live" => Current(dn[s]).phase = "live"
    PROVE  WorkerInv'
<1>1. Held(s)' <=> HeldBy(Current(up'[s]))
  BY DEF Held, HeldBy
<1> QED
  BY <1>1 DEF WorkerInv, workVars, Reporting, Programming

LEMMA InitSafe == Init => SafeInv
<1> SUFFICES ASSUME Init PROVE SafeInv
  OBVIOUS
<1>1. TypeOK
  BY InitType
<1>2. ASSUME NEW s \in Subnets
      PROVE  /\ up[s] = <<NoSubnet>> /\ dn[s] = <<NoSubnetwork>>
             /\ \A n \in 1..Len(up[s]) : up[s][n] = NoSubnet
             /\ \A n \in 1..Len(dn[s]) : dn[s][n] = NoSubnetwork
             /\ Current(up[s]) = NoSubnet /\ Current(dn[s]) = NoSubnetwork
  BY OneVersion DEF Init
<1>3. "none" \in Leads("none") /\ NoSubnet.phase = "none" /\ NoSubnet.prog = "Unset"
      /\ NoSubnetwork.phase = "none" /\ ~NoSubnetwork.ready
  BY DEF Leads, Phases, NoSubnet, NoSubnetwork
<1>4. StoredInv
  BY <1>2, <1>3 DEF StoredInv, UpInv, DnInv, Ordered, Claims
<1>5. WorkerInv
  BY <1>3 DEF Init, WorkerInv, Reporting, Programming
<1>6. NoLiveLeftover
  BY <1>2, <1>3 DEF NoLiveLeftover
<1> QED
  BY <1>1, <1>4, <1>5, <1>6 DEF SafeInv

\* One step keeps the invariant.
LEMMA NextSafe == SafeInv /\ [Next]_vars => SafeInv'
<1> SUFFICES ASSUME SafeInv, [Next]_vars
             PROVE  StoredInv' /\ WorkerInv' /\ NoLiveLeftover'
  BY NextType DEF SafeInv
<1>1. /\ TypeOK /\ StoreType /\ EnvType /\ WorkType
      /\ StoredInv /\ WorkerInv /\ NoLiveLeftover
      /\ key \in Subnets /\ subnet \in SubnetVersion /\ subnet.phase \in Phases
  BY TypeParts, VersionPhases DEF SafeInv, WorkType
<1>2. \A s \in Subnets :
         /\ up[s] \in Window(SubnetVersion) /\ dn[s] \in Window(SubnetworkVersion)
         /\ Current(up[s]) \in SubnetVersion /\ Cached(up[s]) \in SubnetVersion
         /\ Current(dn[s]) \in SubnetworkVersion /\ Cached(dn[s]) \in SubnetworkVersion
         /\ Len(up[s]) \in 1..Len(up[s]) /\ 1 \in 1..Len(up[s]) /\ 1 \in 1..Len(dn[s])
         /\ Current(up[s]).phase \in Phases /\ Cached(up[s]).phase \in Phases
  BY <1>1, StoredVersions, RelistWindow, VersionPhases DEF StoreType
<1>3. \A s \in Subnets : Held(s) <=> HeldBy(Current(up[s]))
  BY DEF Held, HeldBy
\* A step that touches no object leaves the worker to look at.
<1>4. ASSUME UNCHANGED <<up, dn, wasReady>> PROVE StoredInv' /\ NoLiveLeftover'
  BY <1>1, <1>4, StoredSame DEF NoLiveLeftover, Held
<1>5. ASSUME NEW s \in Subnets, Worker(s)
      PROVE  StoredInv' /\ WorkerInv' /\ NoLiveLeftover'
  <2>1. UNCHANGED <<up, dn, wasReady>>
    BY <1>5 DEF Worker, ReconcileSkips, ReconcileFinalizes, ReconcileAddsFinalizer,
                ReconcilePrograms, Take
  <2>2. ~Undelivered(up[s]) => Cached(up[s]) = Current(up[s])
    <3>1. Len(up[s]) \in Nat \ {0}
      BY <1>2 DEF Window
    <3> QED
      BY <3>1 DEF Undelivered, Cached, Current
  <2>3. Cached(up[s]).prog = "Programmed" => s \in wasReady
    BY <1>1, <1>2 DEF StoredInv, UpInv, Cached
  <2>4. CASE ReconcileSkips(s)
    <3>1. UNCHANGED <<workVars, stale>>
      BY <2>4 DEF ReconcileSkips
    <3> QED
      BY <1>1, <1>4, <2>1, <3>1, KeepWorker DEF Held, HeldBy
  <2>5. CASE ReconcileFinalizes(s)
    <3>1. AllLeaving(up[s])
      <4>1. \A n \in 1..Len(up[s]) : 1 <= n /\ up[s][n].phase \in Leads("deleting")
        BY <1>1, <1>2, <2>5 DEF ReconcileFinalizes, Take, StoredInv, UpInv, Ordered, Cached
      <4> QED
        BY <4>1 DEF AllLeaving, Leads, Leaving
    <3>2. /\ subnet'.phase = "deleting" /\ subnet'.prog = Cached(up[s]).prog
          /\ subnet'.allocated = Cached(up[s]).allocated
      BY <1>2, <2>5 DEF ReconcileFinalizes, Take, SubnetVersion
    <3> QED
      BY <1>1, <1>4, <2>1, <2>2, <2>3, <2>5, <3>1, <3>2
      DEF ReconcileFinalizes, Take, WorkerInv, Reporting, Programming
  <2>6. CASE ReconcileAddsFinalizer(s)
    <3>1. /\ subnet'.phase = "live" /\ subnet'.prog = Cached(up[s]).prog
          /\ subnet'.allocated = Cached(up[s]).allocated
          /\ gcpInfraFinalizer \in subnet'.fins
      BY <1>2, <2>6 DEF ReconcileAddsFinalizer, Take, SubnetVersion
    <3> QED
      BY <1>1, <1>4, <2>1, <2>2, <2>3, <2>6, <3>1
      DEF ReconcileAddsFinalizer, Take, WorkerInv, Reporting, Programming, Claims
  <2>7. CASE ReconcilePrograms(s)
    <3>1. Held(s)
      BY <1>1, <1>2, <1>3, <2>7 DEF ReconcilePrograms, Take, StoredInv, UpInv, Claims, Cached
    <3>2. Held(s)'
      BY <2>1, <3>1 DEF Held
    <3> QED
      BY <1>1, <1>4, <2>1, <2>2, <2>3, <2>7, <3>2
      DEF ReconcilePrograms, Take, WorkerInv, Reporting, Programming
  <2> QED
    BY <1>5, <2>4, <2>5, <2>6, <2>7 DEF Worker
<1>6. CASE Finalize
  <2>1. /\ pc = "delete" /\ pc' = "update" /\ UNCHANGED <<up, wasReady, key, subnet, stale, ready, cond>>
    BY <1>6 DEF Finalize, Goto
  <2>2. /\ StoredInv'
        /\ Current(dn'[key]).phase # "live"
        /\ \A r \in Subnets : r # key => dn'[r] = dn[r]
    <3>1. CASE Exists(Current(dn[key])) /\ WriteDn(key, AfterDelete(Current(dn[key])))
      <4> DEFINE v == AfterDelete(Current(dn[key]))
      <4>1. /\ v \in SubnetworkVersion /\ v.ready = Current(dn[key]).ready
            /\ v.phase # "live"
        BY <1>1, <1>2, SubnetworkVersions DEF AfterDelete, Settled, SubnetworkVersion
      <4>2. v.ready => key \in wasReady
        BY <1>1, <1>2, <4>1, RelistWindow DEF StoredInv, DnInv, Current
      <4>3. WriteDn(key, v)
        BY <3>1
      <4> HIDE DEF v
      <4> QED
        BY <1>1, <2>1, <4>1, <4>2, <4>3, StoredDn DEF StoreType
    <3>2. CASE ~Exists(Current(dn[key])) /\ UNCHANGED dn
      BY <1>4, <2>1, <3>2 DEF Exists
    <3> QED
      BY <1>6, <3>1, <3>2 DEF Finalize
  <2>3. WorkerInv'
    BY <1>1, <2>1, <2>2 DEF WorkerInv, Reporting, Programming
  <2>4. NoLiveLeftover'
    BY <1>1, <2>1, <2>2 DEF NoLiveLeftover, Held
  <2> QED
    BY <2>2, <2>3, <2>4
<1>7. CASE Update
  <2>1. UNCHANGED <<dn, wasReady>> /\ Idle /\ pc = "update"
    BY <1>7 DEF Update, Return
  <2>2. CASE UNCHANGED up
    BY <1>4, <2>1, <2>2, IdleWorker
  <2>3. CASE UpToDate /\ WriteUp(key, Settled(subnet))
    <3> DEFINE c == Current(up[key])
               v == Settled(subnet)
    <3>1. /\ v \in SubnetVersion /\ v.prog = subnet.prog
          /\ subnet.phase = "live" => v = subnet
          /\ subnet.phase = "deleting" => v.phase \in Leaving
      BY <1>1, SubnetVersions DEF Settled, SubnetVersion, Leaving
    <3>2. /\ ~stale /\ subnet.phase = c.phase
          /\ subnet.phase = "deleting" \/ Claims(subnet)
      BY <1>1, <2>1, <2>3 DEF UpToDate, WorkerInv
    <3>3. /\ v.phase # "none" /\ v.phase \in Leads(c.phase)
          /\ v.prog = "Programmed" => key \in wasReady
      BY <1>1, <3>1, <3>2 DEF WorkerInv, Leads, Leaving, Claims
    <3>4. HeldBy(v) \/ AllLeaving(up[key])
      BY <1>1, <2>1, <3>1, <3>2 DEF WorkerInv, HeldBy, Claims, Exists
    <3>5. WriteUp(key, v)
      BY <2>3
    <3>6. AllLeaving(up[key]) => \A n \in 1..Len(up[key]) : ~Claims(up[key][n])
      BY DEF AllLeaving, Claims, Leaving
    <3> HIDE DEF v
    <3>7. /\ StoredInv' /\ Current(up'[key]) = v
          /\ \A r \in Subnets : r # key => up'[r] = up[r]
      BY <1>1, <2>1, <3>1, <3>3, <3>4, <3>5, <3>6, StoredUp
    <3>8. HeldBy(v) \/ Current(dn[key]).phase # "live"
      BY <1>1, <2>1, <3>1, <3>2 DEF WorkerInv, HeldBy, Claims, Exists
    <3>9. NoLiveLeftover'
      BY <1>1, <1>3, <2>1, <3>7, <3>8 DEF NoLiveLeftover, Held, HeldBy
    <3> QED
      BY <2>1, <3>7, <3>9, IdleWorker
  <2> QED
    BY <1>7, <2>2, <2>3 DEF Update
<1>8. CASE LoadOwners
  BY <1>1, <1>4, <1>8 DEF LoadOwners, Goto, WorkerInv, Held, Reporting, Programming
<1>9. CASE GetSubnetwork
  <2>1. Cached(dn[key]).ready => key \in wasReady
    BY <1>1, <1>2 DEF StoredInv, DnInv, Cached
  <2>2. pc \in Programming /\ pc' \in Programming
    BY <1>9 DEF GetSubnetwork, Goto, Programming
  <2> QED
    BY <1>1, <1>4, <1>9, <2>1, <2>2
    DEF GetSubnetwork, Goto, WorkerInv, Held, Reporting, Programming
<1>10. CASE CreateSubnetwork
  <2>1. /\ pc = "create" /\ UNCHANGED <<up, wasReady, key, subnet, stale, cond>>
        /\ pc' \in {"conclude", "updateStatus"} /\ (ready' => ready)
    BY <1>10 DEF CreateSubnetwork, Goto, Leave
  <2>2. WorkerInv'
    BY <1>1, <2>1 DEF WorkerInv, Held, Reporting, Programming
  <2>3. CASE UNCHANGED dn
    BY <1>4, <2>1, <2>2, <2>3
  <2>4. CASE WriteDn(key, [NoSubnetwork EXCEPT !.phase = "live"])
    <3>1. ~[NoSubnetwork EXCEPT !.phase = "live"].ready
      BY DEF NoSubnetwork
    <3>2. /\ StoredInv' /\ \A r \in Subnets : r # key => dn'[r] = dn[r]
      BY <1>1, <2>1, <2>4, <3>1, FirstVersions, StoredDn DEF StoreType
    <3>3. Held(key)
      BY <1>1, <2>1 DEF WorkerInv, Programming
    <3> QED
      BY <1>1, <2>1, <2>2, <3>2, <3>3 DEF NoLiveLeftover, Held
  <2> QED
    BY <1>10, <2>3, <2>4 DEF CreateSubnetwork
<1>11. CASE Conclude
  <2>1. /\ pc = "conclude" /\ pc' = "updateStatus"
        /\ UNCHANGED <<up, dn, wasReady, key, subnet, stale, ready>>
        /\ cond' = "Programmed" => ready
    BY <1>11 DEF Conclude, Leave
  <2> QED
    BY <1>1, <1>4, <2>1 DEF WorkerInv, Reporting, Programming
<1>12. CASE UpdateStatus
  <2>1. UNCHANGED <<dn, wasReady>> /\ Idle /\ pc = "updateStatus"
    BY <1>12 DEF UpdateStatus, Return
  <2>2. CASE UNCHANGED up
    BY <1>4, <2>1, <2>2, IdleWorker
  <2>3. CASE UpToDate /\ WriteUp(key, [subnet EXCEPT !.prog = cond])
    <3> DEFINE c == Current(up[key])
               v == [subnet EXCEPT !.prog = cond]
    <3>1. v \in SubnetVersion
      BY <1>1, SubnetVersions DEF WorkType
    <3>2. subnet = c /\ Exists(c) /\ (cond = "Programmed" => key \in wasReady)
      BY <1>1, <2>1, <2>3 DEF UpToDate, WorkerInv, Reporting
    <3>3. v.phase = c.phase /\ v.fins = c.fins /\ v.prog = cond
      BY <1>1, <3>2 DEF SubnetVersion
    <3>4. v.phase # "none" /\ v.phase \in Leads(c.phase)
      <4>1. c.phase \in Phases /\ c.phase # "none"
        BY <1>1, <1>2, <3>2 DEF Exists
      <4> QED
        BY <3>3, <4>1, LeadsOrder
    <3>5. WriteUp(key, v)
      BY <2>3
    <3> HIDE DEF v
    <3>6. HeldBy(v) <=> HeldBy(c)
      BY <3>3 DEF HeldBy, Exists
    <3>7. HeldBy(v) \/ \A n \in 1..Len(up[key]) : ~Claims(up[key][n])
      BY <1>1, <3>6 DEF StoredInv, UpInv
    <3>8. /\ StoredInv' /\ Current(up'[key]) = v
          /\ \A r \in Subnets : r # key => up'[r] = up[r]
      BY <1>1, <2>1, <3>1, <3>2, <3>3, <3>4, <3>5, <3>7, StoredUp
    <3>9. NoLiveLeftover'
      BY <1>1, <1>3, <2>1, <3>6, <3>8 DEF NoLiveLeftover, Held, HeldBy
    <3> QED
      BY <2>1, <3>8, <3>9, IdleWorker
  <2> QED
    BY <1>12, <2>2, <2>3 DEF UpdateStatus
<1>13. CASE CallFails
  <2>1. UNCHANGED <<up, dn, wasReady>>
    BY <1>13 DEF CallFails
  <2>2. CASE Idle
    BY <1>4, <2>1, <2>2, IdleWorker
  <2>3. CASE pc \in Programming /\ Leave(cond, "error")
    BY <1>1, <1>4, <2>1, <2>3 DEF Leave, WorkerInv, Reporting, Programming
  <2> QED
    BY <1>13, <2>2, <2>3 DEF CallFails, Return
<1>14. CASE Restart
  <2>1. /\ Idle /\ UNCHANGED wasReady
        /\ \A s \in Subnets : up'[s] = <<Current(up[s])>> /\ dn'[s] = <<Current(dn[s])>>
    BY <1>14 DEF Restart
  <2>2. \A s \in Subnets :
           /\ UpInv(up'[s], s \in wasReady) /\ DnInv(dn'[s], s \in wasReady)
           /\ Current(up'[s]) = Current(up[s]) /\ Current(dn'[s]) = Current(dn[s])
    <3> SUFFICES ASSUME NEW s \in Subnets
                 PROVE  /\ UpInv(<<Current(up[s])>>, s \in wasReady)
                        /\ DnInv(<<Current(dn[s])>>, s \in wasReady)
                        /\ Current(<<Current(up[s])>>) = Current(up[s])
                        /\ Current(<<Current(dn[s])>>) = Current(dn[s])
      BY <2>1
    <3>1. /\ (s \in wasReady) \in BOOLEAN
          /\ UpInv(up[s], s \in wasReady) /\ DnInv(dn[s], s \in wasReady)
      BY <1>1 DEF StoredInv
    <3> QED
      BY <1>2, <3>1, UpRelist, DnRelist, OneVersion
  <2> QED
    BY <1>1, <2>1, <2>2, IdleWorker DEF StoredInv, NoLiveLeftover, Held
<1>15. CASE LocationChanges
  BY <1>1, <1>4, <1>15, KeepWorker DEF LocationChanges, Held, HeldBy
<1>16. ASSUME NEW s \in Subnets, CreateSubnet(s) \/ Allocate(s) \/ DeleteSubnet(s)
       PROVE  StoredInv' /\ WorkerInv' /\ NoLiveLeftover'
  <2> DEFINE c == Current(up[s])
  <2>1. PICK v \in SubnetVersion :
           /\ StoreUp(s, v)
           /\ v.phase # "none" /\ v.phase \in Leads(c.phase)
           /\ v.prog = c.prog \/ v.prog = "Unset"
           /\ HeldBy(c) => HeldBy(v)
    <3>1. CASE CreateSubnet(s)
      <4> DEFINE v == [NoSubnet EXCEPT !.phase = "live"]
      <4>1. /\ v \in SubnetVersion /\ v.phase = "live" /\ v.prog = "Unset"
            /\ StoreUp(s, v) /\ c.phase = "none"
        BY <3>1, FirstVersions DEF CreateSubnet, NoSubnet
      <4>2. "live" \in Leads("none") /\ ~HeldBy(c)
        BY <4>1 DEF Leads, Phases, HeldBy, Exists
      <4> HIDE DEF v
      <4> QED
        BY <4>1, <4>2
    <3>2. CASE Allocate(s)
      <4> DEFINE v == [c EXCEPT !.allocated = TRUE]
      <4>1. /\ v \in SubnetVersion /\ v.phase = "live" /\ v.prog = c.prog /\ v.fins = c.fins
            /\ StoreUp(s, v) /\ c.phase = "live"
        BY <1>2, <3>2 DEF Allocate, SubnetVersion
      <4>2. "live" \in Leads("live")
        BY DEF Leads
      <4> HIDE DEF v
      <4> QED
        BY <4>1, <4>2 DEF HeldBy, Exists
    <3>3. CASE DeleteSubnet(s)
      <4> DEFINE v == AfterDelete(c)
      <4>1. /\ v \in SubnetVersion /\ v.prog = c.prog /\ v.fins = c.fins
            /\ v.phase \in Leaving /\ (v.fins # {} => v.phase = "deleting")
        BY <1>2, SubnetVersions DEF AfterDelete, Settled, SubnetVersion, Leaving
      <4>2. StoreUp(s, v) /\ c.phase = "live" /\ Leaving \subseteq Leads("live")
        BY <3>3 DEF DeleteSubnet, Leads, Leaving
      <4> HIDE DEF v
      <4> QED
        BY <4>1, <4>2 DEF HeldBy, Exists, Leaving
    <3> QED
      BY <1>16, <3>1, <3>2, <3>3
  <2>2. /\ WriteUp(s, v) /\ UNCHANGED <<dn, wasReady, workVars>>
        /\ stale => stale'
        /\ s = key /\ pc # "idle" /\ ~stale' => v = c
    BY <2>1 DEF StoreUp
  <2>3. c.prog = "Programmed" => s \in wasReady
    BY <1>1, <1>2 DEF StoredInv, UpInv, Current
  <2>4. HeldBy(v) \/ \A n \in 1..Len(up[s]) : ~Claims(up[s][n])
    BY <1>1, <2>1 DEF StoredInv, UpInv
  <2>5. /\ StoredInv' /\ Current(up'[s]) = v
        /\ \A r \in Subnets : r # s => up'[r] = up[r]
        /\ \A r \in Subnets : AllLeaving(up[r]) => AllLeaving(up'[r])
    BY <1>1, <2>1, <2>2, <2>3, <2>4, StoredUp
  <2>6. \A r \in Subnets : Held(r) => HeldBy(Current(up'[r]))
    BY <1>3, <2>1, <2>5
  <2>7. NoLiveLeftover'
    BY <1>1, <2>2, <2>6 DEF NoLiveLeftover, Held, HeldBy
  <2>8. pc # "idle" /\ ~stale' => Current(up'[key]) = Current(up[key])
    BY <1>1, <2>2, <2>5
  <2>9. WorkerInv'
    BY <1>1, <2>2, <2>5, <2>6, <2>8, KeepWorker
  <2> QED
    BY <2>5, <2>7, <2>9
<1>17. ASSUME NEW s \in Subnets, Crossplane(s)
       PROVE  StoredInv' /\ WorkerInv' /\ NoLiveLeftover'
  <2> DEFINE c == Current(dn[s])
  <2>1. PICK v \in SubnetworkVersion : StoreDn(s, v) /\ (v.phase = "live" => c.phase = "live")
    <3>1. CASE XPAddsFinalizer(s)
      <4>1. /\ [c EXCEPT !.fins = {XPFinalizer}] \in SubnetworkVersion
            /\ [c EXCEPT !.fins = {XPFinalizer}].phase = c.phase
        BY <1>2 DEF SubnetworkVersion
      <4> QED
        BY <3>1, <4>1 DEF XPAddsFinalizer
    <3>2. CASE XPReady(s)
      <4>1. /\ [c EXCEPT !.ready = TRUE] \in SubnetworkVersion
            /\ [c EXCEPT !.ready = TRUE].phase = c.phase
        BY <1>2 DEF SubnetworkVersion
      <4> QED
        BY <3>2, <4>1 DEF XPReady
    <3>3. CASE XPReleases(s)
      <4> DEFINE v == Settled([c EXCEPT !.fins = {}])
      <4>1. c.phase = "deleting" /\ StoreDn(s, v)
        BY <3>3 DEF XPReleases
      <4>2. v \in SubnetworkVersion /\ v.phase # "live"
        BY <1>2, <4>1 DEF Settled, SubnetworkVersion, Phases
      <4> HIDE DEF v
      <4> QED
        BY <4>1, <4>2
    <3> QED
      BY <1>17, <3>1, <3>2, <3>3 DEF Crossplane
  <2>2. /\ WriteDn(s, v) /\ UNCHANGED <<up, workVars, stale>>
        /\ wasReady \subseteq wasReady' /\ wasReady' \in SUBSET Subnets
        /\ v.ready => s \in wasReady'
    BY <1>1, <2>1 DEF StoreDn, StoreType
  <2>3. /\ StoredInv' /\ Current(dn'[s]) = v
        /\ \A r \in Subnets : r # s => dn'[r] = dn[r]
    BY <1>1, <2>2, StoredDn
  <2>4. \A r \in Subnets : Current(dn'[r]).phase = "live" => Current(dn[r]).phase = "live"
    BY <2>1, <2>3
  <2>5. NoLiveLeftover'
    BY <1>1, <2>2, <2>4 DEF NoLiveLeftover, Held
  <2>6. WorkerInv'
    BY <1>1, <1>3, <2>2, <2>4, KeepWorker
  <2> QED
    BY <2>3, <2>5, <2>6
<1>18. ASSUME NEW s \in Subnets, DeliverSubnet(s)
       PROVE  StoredInv' /\ WorkerInv' /\ NoLiveLeftover'
  <2>1. /\ Undelivered(up[s]) /\ up'[s] = Tail(up[s])
        /\ \A r \in Subnets : r # s => up'[r] = up[r]
        /\ UNCHANGED <<dn, wasReady, workVars, stale>>
    BY <1>1, <1>18 DEF DeliverSubnet, StoreType
  <2>2. /\ UpInv(up'[s], s \in wasReady) /\ Current(up'[s]) = Current(up[s])
        /\ AllLeaving(up[s]) => AllLeaving(up'[s])
    <3>1. (s \in wasReady) \in BOOLEAN /\ UpInv(up[s], s \in wasReady)
      BY <1>1 DEF StoredInv
    <3> QED
      BY <1>2, <2>1, <3>1, UpTail, TailWindow
  <2>3. \A r \in Subnets : /\ Current(up'[r]) = Current(up[r])
                           /\ AllLeaving(up[r]) => AllLeaving(up'[r])
    BY <2>1, <2>2
  <2>4. StoredInv' /\ NoLiveLeftover'
    BY <1>1, <2>1, <2>2, <2>3 DEF StoredInv, NoLiveLeftover, Held
  <2>5. WorkerInv'
    BY <1>1, <1>3, <2>1, <2>3, KeepWorker
  <2> QED
    BY <2>4, <2>5
<1>19. ASSUME NEW s \in Subnets, DeliverSubnetwork(s)
       PROVE  StoredInv' /\ WorkerInv' /\ NoLiveLeftover'
  <2>1. /\ Undelivered(dn[s]) /\ dn'[s] = Tail(dn[s])
        /\ \A r \in Subnets : r # s => dn'[r] = dn[r]
        /\ UNCHANGED <<up, wasReady, workVars, stale>>
    BY <1>1, <1>19 DEF DeliverSubnetwork, StoreType
  <2>2. DnInv(dn'[s], s \in wasReady) /\ Current(dn'[s]) = Current(dn[s])
    <3>1. (s \in wasReady) \in BOOLEAN /\ DnInv(dn[s], s \in wasReady)
      BY <1>1 DEF StoredInv
    <3> QED
      BY <1>2, <2>1, <3>1, DnTail, TailWindow
  <2>3. \A r \in Subnets : Current(dn'[r]) = Current(dn[r])
    BY <2>1, <2>2
  <2>4. StoredInv' /\ NoLiveLeftover'
    BY <1>1, <2>1, <2>2, <2>3 DEF StoredInv, NoLiveLeftover, Held
  <2>5. WorkerInv'
    BY <1>1, <1>3, <2>1, <2>3, KeepWorker
  <2> QED
    BY <2>4, <2>5
<1>20. CASE UNCHANGED vars
  BY <1>1, <1>3, <1>4, <1>20, KeepWorker DEF vars
<1> QED
  BY <1>5, <1>6, <1>7, <1>8, <1>9, <1>10, <1>11, <1>12, <1>13, <1>14, <1>15, <1>16, <1>17,
     <1>18, <1>19, <1>20 DEF Next, Step

LEMMA SafeInvariant == Spec => []SafeInv
  BY InitSafe, NextSafe, PTL DEF Spec

\* Whatever the order of a lagging cache, crashes, lost answers and retries,
\* the Update that takes the finalizer off a Subnet leaves no Subnetwork that
\* nobody will delete.
THEOREM NoLiveLeftoverHolds == Spec => []NoLiveLeftover
<1>1. SafeInv => NoLiveLeftover
  BY DEF SafeInv
<1> QED
  BY <1>1, SafeInvariant, PTL

\* The status says Programmed only of a Subnet whose Subnetwork has been Ready.
THEOREM ProgrammedMeansReadyHolds == Spec => []ProgrammedMeansReady
<1>1. SafeInv => ProgrammedMeansReady
  <2> SUFFICES ASSUME SafeInv, NEW s \in Subnets, Current(up[s]).prog = "Programmed"
               PROVE  s \in wasReady
    BY DEF ProgrammedMeansReady
  <2>1. Len(up[s]) \in 1..Len(up[s]) /\ UpInv(up[s], s \in wasReady)
    BY TypeParts, RelistWindow DEF SafeInv, StoreType, StoredInv
  <2> QED
    BY <2>1 DEF UpInv, Current
<1> QED
  BY <1>1, SafeInvariant, PTL
-----------------------------------------------------------------------------
(* What a step may do to a status. *)

\* The status and the allocation of w include those of v.
Includes(v, w) ==
    /\ v.prog = "Programmed" => w.prog = "Programmed"
    /\ v.allocated => w.allocated

LEMMA StatusWrite ==
    ASSUME StoreType, NEW s \in Subnets, NEW v \in SubnetVersion, WriteUp(s, v),
           Includes(Current(up[s]), v)
    PROVE  \A r \in Subnets : Includes(Current(up[r]), Current(up'[r]))
<1>1. up'[s] = Write(up[s], v) /\ \A r \in Subnets : r # s => up'[r] = up[r]
  BY WriteUpType
<1>2. Current(up'[s]) = v
  BY <1>1, WriteWindow DEF StoreType
<1> QED
  BY <1>1, <1>2 DEF Includes

LEMMA StatusStep ==
    SafeInv /\ [Next]_vars => \A s \in Subnets : Includes(Current(up[s]), Current(up'[s]))
<1> SUFFICES ASSUME SafeInv, [Next]_vars
             PROVE  \A s \in Subnets : Includes(Current(up[s]), Current(up'[s]))
  OBVIOUS
<1>1. StoreType /\ WorkType /\ StoredInv /\ WorkerInv /\ key \in Subnets /\ subnet \in SubnetVersion
  BY TypeParts DEF SafeInv, WorkType
<1>2. \A s \in Subnets : up[s] \in Window(SubnetVersion) /\ Current(up[s]) \in SubnetVersion
  BY <1>1, StoredVersions DEF StoreType
<1>3. ASSUME \A s \in Subnets : Current(up'[s]) = Current(up[s])
      PROVE  \A s \in Subnets : Includes(Current(up[s]), Current(up'[s]))
  BY <1>3 DEF Includes
\* The copy an Update goes through with has the status of the server's version.
<1>4. CASE Update
  <2>1. CASE UNCHANGED up
    BY <1>3, <2>1
  <2>2. CASE pc = "update" /\ UpToDate /\ WriteUp(key, Settled(subnet))
    <3> DEFINE v == Settled(subnet)
    <3>1. v \in SubnetVersion /\ v.prog = subnet.prog /\ v.allocated = subnet.allocated
      BY <1>1, SubnetVersions DEF Settled, SubnetVersion
    <3>2. Includes(Current(up[key]), v)
      BY <1>1, <2>2, <3>1 DEF Includes, WorkerInv, UpToDate
    <3> HIDE DEF v
    <3> QED
      BY <1>1, <2>2, <3>1, <3>2, StatusWrite DEF v
  <2> QED
    BY <1>4, <2>1, <2>2 DEF Update
\* A reconcile that reports a status began without Programmed, and nobody else
\* has reported it since.
<1>5. CASE UpdateStatus
  <2>1. CASE UNCHANGED up
    BY <1>3, <2>1
  <2>2. CASE pc = "updateStatus" /\ UpToDate /\ WriteUp(key, [subnet EXCEPT !.prog = cond])
    <3> DEFINE v == [subnet EXCEPT !.prog = cond]
    <3>1. v \in SubnetVersion /\ v.allocated = subnet.allocated
      BY <1>1 DEF SubnetVersion, WorkType
    <3>2. subnet = Current(up[key]) /\ subnet.prog # "Programmed"
      BY <1>1, <2>2 DEF WorkerInv, Reporting, UpToDate
    <3>3. Includes(Current(up[key]), v)
      BY <3>1, <3>2 DEF Includes
    <3> HIDE DEF v
    <3> QED
      BY <1>1, <2>2, <3>1, <3>3, StatusWrite DEF v
  <2> QED
    BY <1>5, <2>1, <2>2 DEF UpdateStatus
<1>6. ASSUME NEW s \in Subnets, CreateSubnet(s)
      PROVE  \A r \in Subnets : Includes(Current(up[r]), Current(up'[r]))
  <2>1. Current(up[s]) = NoSubnet
    BY <1>1, <1>6 DEF CreateSubnet, StoredInv, UpInv
  <2>2. Includes(NoSubnet, [NoSubnet EXCEPT !.phase = "live"])
    BY DEF Includes, NoSubnet
  <2> QED
    BY <1>1, <1>6, <2>1, <2>2, FirstVersions, StatusWrite DEF CreateSubnet, StoreUp
<1>7. ASSUME NEW s \in Subnets, Allocate(s)
      PROVE  \A r \in Subnets : Includes(Current(up[r]), Current(up'[r]))
  <2> DEFINE v == [Current(up[s]) EXCEPT !.allocated = TRUE]
  <2>1. v \in SubnetVersion /\ Includes(Current(up[s]), v)
    BY <1>2 DEF SubnetVersion, Includes
  <2>2. WriteUp(s, v)
    BY <1>7 DEF Allocate, StoreUp
  <2> HIDE DEF v
  <2> QED
    BY <1>1, <2>1, <2>2, StatusWrite
<1>8. ASSUME NEW s \in Subnets, DeleteSubnet(s)
      PROVE  \A r \in Subnets : Includes(Current(up[r]), Current(up'[r]))
  <2> DEFINE v == AfterDelete(Current(up[s]))
  <2>1. v \in SubnetVersion /\ Includes(Current(up[s]), v)
    BY <1>2, SubnetVersions DEF AfterDelete, Settled, SubnetVersion, Includes
  <2>2. WriteUp(s, v)
    BY <1>8 DEF DeleteSubnet, StoreUp
  <2> HIDE DEF v
  <2> QED
    BY <1>1, <2>1, <2>2, StatusWrite
<1>9. CASE Restart
  BY <1>2, <1>3, <1>9, RelistWindow DEF Restart
<1>10. ASSUME NEW s \in Subnets, DeliverSubnet(s)
       PROVE  \A r \in Subnets : Includes(Current(up[r]), Current(up'[r]))
  <2>1. Current(up'[s]) = Current(up[s]) /\ \A r \in Subnets : r # s => up'[r] = up[r]
    BY <1>1, <1>2, <1>10, TailWindow DEF DeliverSubnet, StoreType
  <2> QED
    BY <1>3, <2>1
<1>11. CASE \/ Finalize \/ LoadOwners \/ GetSubnetwork \/ CreateSubnetwork \/ Conclude
            \/ CallFails \/ LocationChanges \/ UNCHANGED vars
            \/ \E s \in Subnets : Worker(s) \/ Crossplane(s) \/ DeliverSubnetwork(s)
  <2>1. UNCHANGED up
    BY <1>11 DEF Finalize, LoadOwners, GetSubnetwork, CreateSubnetwork, Conclude, CallFails,
                 LocationChanges, vars, Worker, ReconcileSkips, ReconcileFinalizes,
                 ReconcileAddsFinalizer, ReconcilePrograms, Take, Crossplane, XPAddsFinalizer,
                 XPReady, XPReleases, StoreDn, DeliverSubnetwork
  <2> QED
    BY <1>3, <2>1
<1> QED
  BY <1>4, <1>5, <1>6, <1>7, <1>8, <1>9, <1>10, <1>11 DEF Next, Step

\* A Subnet once reported Programmed stays so, and no status update of the
\* reconciler loses the allocation the network-services-operator stored.
THEOREM StatusNeverLostHolds == Spec => StatusNeverLost
<1>1. SafeInv /\ [Next]_vars =>
         [\A s \in Subnets :
             LET v == Current(up[s])  w == Current(up'[s]) IN
             /\ v.prog = "Programmed" => w.prog = "Programmed"
             /\ v.allocated => w.allocated]_vars
  BY StatusStep DEF Includes
<1> QED
  BY <1>1, SafeInvariant, PTL DEF Spec, StatusNeverLost
=============================================================================
