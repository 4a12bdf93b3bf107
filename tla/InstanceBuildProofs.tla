------------------------- MODULE InstanceBuildProofs -------------------------
(***************************************************************************)
(* Theorems about InstanceBuild for every set of scenarios: any templates, *)
(* in any order, any inputs that turn up late, and any bounds.             *)
(***************************************************************************)
EXTENDS InstanceBuild, WindowProofs, FiniteSetTheorems, TLAPS

-----------------------------------------------------------------------------
(* Type correctness. *)

\* The generation of a version of the Instance is the index of a template.
UpVersion == [gen : DOMAIN plan, reason : Reasons, obs : Nat, hash : Nat]

\* The values that the spec of the GCP Instance is put together from.
GCPSpec ==
    [type       : {""} \cup {t.instanceType : t \in Templates},
     user       : {NoUserData} \cup UNION {UserData(t) : t \in Templates},
     bootVolume : {""} \cup {BootDisk(t, <<"", "">>)[1] : t \in Templates},
     bootImage  : {""} \cup {BootDisk(t, <<"", "">>)[2] : t \in Templates},
     nics       : {0} \cup {Len(t.interfaces) : t \in Templates}]

GCPVersion ==
    [phase : {"none", "live"}, ready : BOOLEAN, stopping : BOOLEAN, retry : BOOLEAN, spec : GCPSpec]

AllSteps == UNION {PolicySteps(t) : t \in Templates}

ScenarioType ==
    /\ scenario \in Scenarios /\ dep \in DOMAIN plan /\ avail \subseteq Inputs(scenario)
    /\ faults \in Nat

StoreType ==
    /\ up \in Window(UpVersion)
    /\ fw \in [AllRules -> Window(ResourceVersion)]
    /\ res \in [Resources -> Window(ResourceVersion)]
    /\ gcp \in Window(GCPVersion)

WorkType ==
    /\ queued \in BOOLEAN /\ pc \in Labels /\ inst \in UpVersion /\ wd \in DOMAIN plan
    /\ stale \in BOOLEAN /\ outdated \in BOOLEAN /\ todo \subseteq AllSteps /\ hand \subseteq Managed
    /\ cond \in Reasons /\ err \in {"ok", "error"}

TypeInv == ScenarioType /\ StoreType /\ WorkType

LEMMA PlanType ==
    ASSUME ScenarioType
    PROVE  /\ plan \in Seq(Templates) /\ Len(plan) \in Nat \ {0}
           /\ DOMAIN plan = 1..Len(plan) /\ 1 \in DOMAIN plan
           /\ \A g \in DOMAIN plan : plan[g] \in Templates
           /\ scenario.late \subseteq Inputs(scenario)
<1>1. /\ scenario \in Scenarios
      /\ plan \in Seq(Range(plan)) \ {<<>>} /\ scenario.late \subseteq Inputs(scenario)
  BY BuildAssumption DEF ScenarioType, plan
<1>2. Range(plan) \subseteq Templates
  BY <1>1 DEF Templates, plan
<1> HIDE DEF plan
<1>3. plan \in Seq(Templates) \ {<<>>}
  BY <1>1, <1>2
<1> QED
  BY <1>1, <1>3

LEMMA TypesAgree == TypeInv => TypeOK
<1> SUFFICES ASSUME TypeInv PROVE TypeOK
  OBVIOUS
<1>1. ScenarioType /\ StoreType /\ WorkType
  BY DEF TypeInv
<1>2. UpVersion \subseteq InstanceVersion
  <2>1. DOMAIN plan \subseteq Nat
    BY <1>1, PlanType
  <2> QED
    BY <2>1 DEF UpVersion, InstanceVersion
<1>3. up \in Seq(InstanceVersion) \ {<<>>} /\ inst \in InstanceVersion
  BY <1>1, <1>2, WindowGrows DEF StoreType, WorkType, Window
<1>4. \A k \in DOMAIN gcp : /\ gcp[k].phase \in {"none", "live"} /\ gcp[k].ready \in BOOLEAN
                              /\ gcp[k].stopping \in BOOLEAN /\ gcp[k].retry \in BOOLEAN
  <2>1. \A k \in DOMAIN gcp : gcp[k] \in GCPVersion
    BY <1>1 DEF StoreType, Window
  <2> QED
    BY <2>1 DEF GCPVersion
<1> QED
  BY <1>1, <1>3, <1>4 DEF TypeOK, ScenarioType, StoreType, WorkType, Window, AllSteps

LEMMA StoredVersions ==
    ASSUME StoreType
    PROVE  /\ Current(up) \in UpVersion /\ Cached(up) \in UpVersion
           /\ Current(gcp) \in GCPVersion /\ Cached(gcp) \in GCPVersion
           /\ \A x \in Resources : Current(res[x]) \in ResourceVersion /\ Cached(res[x]) \in ResourceVersion
           /\ \A s \in AllRules : Current(fw[s]) \in ResourceVersion /\ Cached(fw[s]) \in ResourceVersion
  BY RelistWindow DEF StoreType

\* The spec that a template gives is put together from these values, and so is
\* what a patch makes of two of them and a third.
LEMMA SpecsType ==
    ASSUME NEW t \in Templates, NEW old \in GCPSpec, NEW s \in GCPSpecs(t, old)
    PROVE  s \in GCPSpec
<1> DEFINE boot == BootDisk(t, <<old.bootVolume, old.bootImage>>)
<1>1. PICK u \in UserData(t) :
         s = [type |-> t.instanceType, user |-> u, bootVolume |-> boot[1],
              bootImage |-> boot[2], nics |-> Interfaces(t, old.nics)]
  BY DEF GCPSpecs
<1>2. /\ boot[1] \in {""} \cup {BootDisk(p, <<"", "">>)[1] : p \in Templates}
      /\ boot[2] \in {""} \cup {BootDisk(p, <<"", "">>)[2] : p \in Templates}
  <2>1. CASE BootVolumes(t) = {}
    BY <2>1 DEF BootDisk, GCPSpec
  <2>2. CASE BootVolumes(t) # {}
    <3>1. boot = BootDisk(t, <<"", "">>)
      BY <2>2 DEF BootDisk
    <3> QED
      BY <3>1
  <2> QED
    BY <2>1, <2>2
<1>3. Interfaces(t, old.nics) \in {0} \cup {Len(p.interfaces) : p \in Templates}
  BY DEF Interfaces, GCPSpec
<1> HIDE DEF boot
<1> QED
  BY <1>1, <1>2, <1>3 DEF GCPSpec

LEMMA PatchType ==
    ASSUME NEW s \in GCPSpec, NEW c \in GCPSpec, NEW v \in GCPSpec
    PROVE  /\ Patch(s, c, v) \in GCPSpec
           /\ Patch(s, c, v).type = (IF s.type = c.type THEN v.type ELSE s.type)
           /\ Patch(s, c, v).user = (IF s.user = c.user THEN v.user ELSE s.user)
           /\ Patch(s, c, v).bootVolume =
                 (IF s.bootVolume = c.bootVolume THEN v.bootVolume ELSE s.bootVolume)
           /\ Patch(s, c, v).bootImage =
                 (IF s.bootImage = c.bootImage THEN v.bootImage ELSE s.bootImage)
           /\ Patch(s, c, v).nics = (IF s.nics = c.nics THEN v.nics ELSE s.nics)
  BY DEF Patch, GCPSpec

LEMMA FirstVersions ==
    /\ NoResource \in ResourceVersion /\ NewResource \in ResourceVersion
    /\ NoGCPSpec \in GCPSpec /\ NoGCPInstance \in GCPVersion
    /\ ~Exists(NoResource) /\ Exists(NewResource)
    /\ NewResource.state = "new" /\ NewResource.holds = {} /\ ~NewResource.issued
    /\ NoGCPInstance.phase = "none" /\ ~NoGCPInstance.ready /\ ~NoGCPInstance.stopping
  BY DEF NoResource, NewResource, ResourceVersion, Phases, NoGCPSpec, GCPSpec, NoGCPInstance,
         GCPVersion, Exists

LEMMA NoInstanceType ==
    ASSUME ScenarioType
    PROVE  NoInstance \in UpVersion
  BY PlanType DEF UpVersion, NoInstance, Reasons

\* A template's Secrets are among those of all.
LEMMA AggregatedType ==
    ASSUME ScenarioType, WorkType
    PROVE  /\ template \in Templates /\ Aggregated \in ResourceVersion
           /\ Exists(Aggregated) /\ Aggregated.holds = Secrets(template)
           /\ Aggregated.state = "new"
<1>1. template \in Templates
  BY PlanType DEF WorkType, UpVersion, template
<1>2. Secrets(template) \subseteq AllSecrets
  BY <1>1 DEF AllSecrets
<1> HIDE DEF template
<1> QED
  BY <1>1, <1>2 DEF Aggregated, NewResource, NoResource, ResourceVersion, Phases, Exists

\* A write changes one window and leaves the others.
LEMMA WriteResType ==
    ASSUME StoreType, NEW x \in Resources, NEW v \in ResourceVersion, WriteRes(x, v)
    PROVE  /\ res' = [res EXCEPT ![x] = Write(res[x], v)]
           /\ res' \in [Resources -> Window(ResourceVersion)]
           /\ res'[x] = Write(res[x], v) /\ Current(res'[x]) = v
           /\ \A y \in Resources : y # x => res'[y] = res[y]
<1>1. Write(res[x], v) \in Window(ResourceVersion) /\ Current(Write(res[x], v)) = v
  BY WriteWindow DEF StoreType
<1>2. res' = [res EXCEPT ![x] = Write(res[x], v)]
  BY DEF WriteRes
<1> QED
  BY <1>1, <1>2 DEF StoreType

LEMMA WriteFwType ==
    ASSUME StoreType, NEW s \in AllRules, NEW v \in ResourceVersion, WriteFw(s, v)
    PROVE  /\ fw' \in [AllRules -> Window(ResourceVersion)]
           /\ fw'[s] = Write(fw[s], v) /\ Current(fw'[s]) = v
           /\ \A u \in AllRules : u # s => fw'[u] = fw[u]
<1>1. Write(fw[s], v) \in Window(ResourceVersion) /\ Current(Write(fw[s], v)) = v
  BY WriteWindow DEF StoreType
<1>2. fw' = [fw EXCEPT ![s] = Write(fw[s], v)]
  BY DEF WriteFw
<1> QED
  BY <1>1, <1>2 DEF StoreType

LEMMA WriteGcpType ==
    ASSUME StoreType, NEW v \in GCPVersion, WriteGcp(v)
    PROVE  /\ gcp' = Write(gcp, v) /\ gcp' \in Window(GCPVersion)
           /\ Current(gcp') = v
  BY WriteWindow DEF StoreType, WriteGcp

LEMMA WriteUpType ==
    ASSUME StoreType, NEW v \in UpVersion, WriteUp(v)
    PROVE  /\ up' = Write(up, v) /\ up' \in Window(UpVersion)
           /\ Current(up') = v
  BY WriteWindow DEF StoreType, WriteUp

-----------------------------------------------------------------------------
(* What a step stores. *)

\* The versions that a step may store of each object.
ResWrites(x) ==
    {v \in ResourceVersion :
        \/ x # "agg" /\ v = NewResource /\ ~Exists(Current(res[x]))
        \/ x = "agg" /\ pc \in {"agg", "createAgg"} /\ v = Aggregated
        \/ x \in Managed /\ Exists(v) /\ v.state = "ready" /\ v.issued = Current(res[x]).issued
        \/ /\ x = "sa" /\ Exists(v) /\ (Current(res["sa"]).issued => v.issued)
           /\ Current(res["sa"]).state = "ready" => v.state = "ready"}

Patched(s) == [Current(gcp) EXCEPT !.spec = Patch(s, Cached(gcp).spec, @)]

IsRunning(v) == v.ready /\ ~v.stopping

\* What Crossplane and the retry make of a machine.
Remade ==
    {[Current(gcp) EXCEPT !.ready = TRUE, !.stopping = ~AccountThere],
     [Current(gcp) EXCEPT !.retry = FALSE, !.stopping = @ /\ ~AccountThere],
     [Current(gcp) EXCEPT !.retry = TRUE]}

GCPWrites ==
    {v \in GCPVersion :
        \/ /\ Exists(Current(gcp)) \/ pc = "retryCreate"
           /\ v \in Remade
           /\ IsRunning(Current(gcp)) => IsRunning(v)
           /\ IsRunning(v) => IsRunning(Current(gcp)) \/ AccountThere
        \/ /\ pc = "gcp" /\ "sa" \in hand /\ ~Exists(Current(gcp))
           /\ v.phase = "live" /\ ~v.ready /\ v.spec \in GCPSpecs(template, NoGCPSpec)
        \/ /\ pc = "gcp" /\ "sa" \in hand /\ Exists(Cached(gcp))
           /\ \E s \in GCPSpecs(template, Cached(gcp).spec) : v = Patched(s)}

Reported ==
    [inst EXCEPT !.reason = cond, !.obs = inst.gen,
                 !.hash = IF cond = "Programmed" THEN inst.gen ELSE @]

UpWrites ==
    {v \in UpVersion :
        \/ Current(up).gen < Len(plan) /\ v = [Current(up) EXCEPT !.gen = @ + 1]
        \/ pc = "updateStatus" /\ ~stale /\ v = Reported}

FwMoves == \A s \in AllRules : Moves(fw[s], fw'[s], {NewResource})
ResMoves == \A x \in Resources : Moves(res[x], res'[x], ResWrites(x))

StepMoves ==
    /\ FwMoves /\ fw' \in [AllRules -> Window(ResourceVersion)]
    /\ ResMoves /\ res' \in [Resources -> Window(ResourceVersion)]
    /\ Moves(gcp, gcp', GCPWrites) /\ Moves(up, up', UpWrites)

LEMMA RemadeType ==
    ASSUME StoreType, NEW v \in Remade
    PROVE  v \in GCPVersion /\ v.phase = Current(gcp).phase /\ v.spec = Current(gcp).spec
<1>1. Current(gcp) \in GCPVersion /\ (~AccountThere) \in BOOLEAN
  BY StoredVersions DEF AccountThere
<1> DEFINE c == Current(gcp)
           stays == c.stopping /\ ~AccountThere
<1>2. stays \in BOOLEAN
  OBVIOUS
<1>3. v \in {[c EXCEPT !.ready = TRUE, !.stopping = ~AccountThere],
             [c EXCEPT !.retry = FALSE, !.stopping = stays], [c EXCEPT !.retry = TRUE]}
  BY DEF Remade
<1> HIDE DEF c, stays
<1>4. c \in GCPVersion
  BY <1>1 DEF c
<1>5. v \in GCPVersion /\ v.phase = c.phase /\ v.spec = c.spec
  BY <1>1, <1>2, <1>3, <1>4 DEF GCPVersion
<1> QED
  BY <1>5 DEF c

LEMMA ResWriteMoves ==
    ASSUME StoreType, NEW x \in Resources, NEW v \in ResWrites(x), WriteRes(x, v)
    PROVE  ResMoves /\ res' \in [Resources -> Window(ResourceVersion)]
<1>1. v \in ResourceVersion
  BY DEF ResWrites
<1>2. /\ res' \in [Resources -> Window(ResourceVersion)]
      /\ res'[x] = Write(res[x], v)
      /\ \A y \in Resources : y # x => res'[y] = res[y]
  BY <1>1, WriteResType
<1> QED
  BY <1>2 DEF ResMoves, Moves

LEMMA ResStays ==
    ASSUME StoreType, UNCHANGED res
    PROVE  ResMoves /\ res' \in [Resources -> Window(ResourceVersion)]
  BY DEF ResMoves, Moves, StoreType

LEMMA FwStays ==
    ASSUME StoreType, UNCHANGED fw
    PROVE  FwMoves /\ fw' \in [AllRules -> Window(ResourceVersion)]
  BY DEF FwMoves, Moves, StoreType

LEMMA EnsureMoves ==
    ASSUME StoreType, NEW x \in Resources \ {"agg"}, Ensure(x)
    PROVE  ResMoves /\ res' \in [Resources -> Window(ResourceVersion)]
<1>1. NewResource \in ResWrites(x) \/ Exists(Current(res[x]))
  BY FirstVersions DEF ResWrites
<1> QED
  BY <1>1, ResWriteMoves, ResStays DEF Ensure

\* Every step stores one of these versions, delivers one, relists, or leaves
\* the objects alone.
LEMMA NextMoves ==
    ASSUME TypeInv, [Next]_vars
    PROVE  StepMoves
<1>1. ScenarioType /\ StoreType /\ WorkType
  BY DEF TypeInv
<1>2. /\ Current(gcp) \in GCPVersion /\ Cached(gcp) \in GCPVersion /\ Current(up) \in UpVersion
      /\ template \in Templates
      /\ {"ns", "anchor", "agg", "sa", "secret", "version", "iam"} \subseteq Resources
      /\ Managed \subseteq Resources
  BY <1>1, StoredVersions, AggregatedType DEF Resources, Managed
<1>3. CASE UNCHANGED downstream /\ UNCHANGED up
  BY <1>1, <1>3, ResStays, FwStays DEF StepMoves, downstream, Moves
\* The worker.
<1>4. CASE \/ Reconcile \/ PoliciesDone \/ PolicyFails \/ CreateRefused \/ FindAnchor
           \/ AwaitAccount \/ BuildFails
  BY <1>3, <1>4 DEF Reconcile, PoliciesDone, PolicyFails, CreateRefused, FindAnchor,
                    AwaitAccount, BuildFails
<1>5. ASSUME NEW s \in AllRules, CreateFirewall(s) PROVE StepMoves
  <2>1. /\ WriteFw(s, NewResource)
        /\ UNCHANGED res /\ UNCHANGED gcp /\ UNCHANGED up
    BY <1>5 DEF CreateFirewall
  <2>2. FwMoves /\ fw' \in [AllRules -> Window(ResourceVersion)]
    BY <1>1, <2>1, FirstVersions, WriteFwType DEF FwMoves, Moves
  <2> QED
    BY <1>1, <2>1, <2>2, ResStays DEF StepMoves, Moves
<1>6. CASE \/ EnsureServiceAccount \/ EnsureNamespace \/ EnsureSecret \/ EnsureVersion
           \/ EnsureIAMMember
  <2>1. PICK x \in Resources \ {"agg"} : Ensure(x)
    BY <1>2, <1>6 DEF EnsureServiceAccount, EnsureNamespace, EnsureSecret, EnsureVersion,
                      EnsureIAMMember
  <2>2. UNCHANGED fw /\ UNCHANGED gcp /\ UNCHANGED up
    BY <2>1 DEF Ensure
  <2> QED
    BY <1>1, <2>1, <2>2, EnsureMoves, FwStays DEF StepMoves, Moves
<1>7. CASE CreateAnchor
  <2>1. /\ WriteRes("anchor", NewResource) /\ ~Exists(Current(res["anchor"]))
        /\ UNCHANGED fw /\ UNCHANGED gcp /\ UNCHANGED up
    BY <1>7 DEF CreateAnchor
  <2>2. NewResource \in ResWrites("anchor")
    BY <2>1, FirstVersions DEF ResWrites
  <2> QED
    BY <1>1, <1>2, <2>1, <2>2, ResWriteMoves, FwStays DEF StepMoves, Moves
<1>8. CASE CreateAggregated \/ UpdateAggregated
  <2>1. /\ WriteRes("agg", Aggregated) \/ UNCHANGED res
        /\ pc \in {"agg", "createAgg"}
        /\ UNCHANGED fw /\ UNCHANGED gcp /\ UNCHANGED up
    BY <1>8 DEF CreateAggregated, UpdateAggregated
  <2>2. Aggregated \in ResWrites("agg")
    BY <1>1, <2>1, AggregatedType DEF ResWrites
  <2> QED
    BY <1>1, <1>2, <2>1, <2>2, ResWriteMoves, ResStays, FwStays DEF StepMoves, Moves
<1>9. CASE CreateGCPInstance
  <2>1. PICK s \in GCPSpecs(template, NoGCPSpec) :
           WriteGcp([NoGCPInstance EXCEPT !.phase = "live", !.spec = s])
    BY <1>9 DEF CreateGCPInstance
  <2> DEFINE v == [NoGCPInstance EXCEPT !.phase = "live", !.spec = s]
  <2>2. s \in GCPSpec /\ NoGCPInstance \in GCPVersion /\ ~NoGCPInstance.ready
    BY <1>2, FirstVersions, SpecsType
  <2>3. v \in GCPVersion /\ v.phase = "live" /\ ~v.ready /\ v.spec = s
    BY <2>2 DEF GCPVersion
  <2>5. v \in GCPWrites
    BY <1>9, <2>1, <2>3 DEF CreateGCPInstance, Building, GCPWrites
  <2>4. gcp' = Write(gcp, v) /\ UNCHANGED fw /\ UNCHANGED res /\ UNCHANGED up
    BY <1>9, <2>1 DEF CreateGCPInstance, WriteGcp
  <2> HIDE DEF v
  <2> QED
    BY <1>1, <2>4, <2>5, ResStays, FwStays DEF StepMoves, Moves
<1>10. CASE PatchGCPInstance
  <2>1. PICK s \in GCPSpecs(template, Cached(gcp).spec) : UNCHANGED gcp \/ WriteGcp(Patched(s))
    BY <1>10 DEF PatchGCPInstance, Patched
  <2>2. Patched(s) \in GCPVersion
    <3>1. Cached(gcp).spec \in GCPSpec /\ Current(gcp).spec \in GCPSpec
      BY <1>2 DEF GCPVersion
    <3>2. Patch(s, Cached(gcp).spec, Current(gcp).spec) \in GCPSpec
      BY <1>2, <3>1, SpecsType, PatchType
    <3> QED
      BY <1>2, <3>2 DEF Patched, GCPVersion
  <2>3. Patched(s) \in GCPWrites
    BY <1>10, <2>2 DEF PatchGCPInstance, Building, GCPWrites
  <2>4. /\ UNCHANGED gcp \/ gcp' = Write(gcp, Patched(s))
        /\ UNCHANGED fw /\ UNCHANGED res /\ UNCHANGED up
    BY <1>10, <2>1 DEF PatchGCPInstance, WriteGcp
  <2> QED
    BY <1>1, <2>3, <2>4, ResStays, FwStays DEF StepMoves, Moves
<1>11. CASE UpdateStatus
  <2>1. Reported \in UpVersion
    <3>1. inst.gen \in Nat
      BY <1>1, PlanType DEF WorkType, UpVersion
    <3> QED
      BY <1>1, <3>1 DEF WorkType, UpVersion, Reported
  <2>2. UNCHANGED up \/ (Reported \in UpWrites /\ up' = Write(up, Reported))
    BY <1>11, <2>1 DEF UpdateStatus, UpWrites, WriteUp, Reported
  <2>3. UNCHANGED fw /\ UNCHANGED res /\ UNCHANGED gcp
    BY <1>11 DEF UpdateStatus, downstream
  <2> QED
    BY <1>1, <2>2, <2>3, ResStays, FwStays DEF StepMoves, Moves
<1>12. CASE CallFails
  BY <1>3, <1>12 DEF CallFails
<1>13. CASE Restart
  <2>1. /\ fw' \in [AllRules -> Window(ResourceVersion)]
        /\ res' \in [Resources -> Window(ResourceVersion)]
    BY <1>1, <1>13, RelistWindow DEF Restart, StoreType
  <2> QED
    BY <1>13, <2>1 DEF Restart, StepMoves, FwMoves, ResMoves, Moves
<1>14. CASE DeliverInstance \/ DeliverGCPInstance
  BY <1>1, <1>14, ResStays, FwStays
  DEF DeliverInstance, DeliverGCPInstance, StepMoves, Moves, downstream
<1>15. CASE UpdateDeployment
  BY <1>3, <1>15 DEF UpdateDeployment
<1>16. CASE UpdateInstance
  <2> DEFINE v == [Current(up) EXCEPT !.gen = @ + 1]
  <2>1. Current(up).gen < Len(plan) /\ WriteUp(v) /\ UNCHANGED downstream
    BY <1>16 DEF UpdateInstance
  <2>2. v \in UpVersion
    BY <1>1, <1>2, <2>1, PlanType DEF UpVersion
  <2>3. v \in UpWrites /\ up' = Write(up, v)
    BY <2>1, <2>2 DEF UpWrites, WriteUp
  <2> HIDE DEF v
  <2> QED
    BY <1>1, <2>1, <2>3, ResStays, FwStays DEF StepMoves, Moves, downstream
<1>17. CASE XPIssuesAccount \/ XPFailsAccount
  <2> DEFINE c == Current(res["sa"])
  <2>1. PICK v \in {[c EXCEPT !.issued = TRUE], [c EXCEPT !.state = "failed"]} :
           /\ WriteRes("sa", v) /\ Exists(c) /\ (v = [c EXCEPT !.issued = TRUE] \/ c.state = "new")
           /\ UNCHANGED fw /\ UNCHANGED gcp /\ UNCHANGED up
    BY <1>17 DEF XPFailsAccount, XPIssuesAccount
  <2>2. c \in ResourceVersion
    BY <1>1, <1>2, StoredVersions
  <2> HIDE DEF c
  <2>3. /\ v \in ResourceVersion /\ Exists(v) /\ (c.issued => v.issued)
        /\ c.state = "ready" => v.state = "ready"
    BY <2>1, <2>2 DEF ResourceVersion, Exists
  <2>4. v \in ResWrites("sa")
    BY <2>3 DEF ResWrites, c
  <2> QED
    BY <1>1, <1>2, <2>1, <2>4, ResWriteMoves, FwStays DEF StepMoves, Moves
<1>18. CASE XPCreatesMachine \/ XPRetriesMachine \/ RetryCreate
  <2>1. /\ UNCHANGED fw /\ UNCHANGED res /\ UNCHANGED up
        /\ Exists(Current(gcp)) \/ pc = "retryCreate"
    BY <1>18 DEF XPCreatesMachine, XPRetriesMachine, RetryCreate
  <2>2. CASE UNCHANGED gcp
    BY <1>1, <2>1, <2>2, ResStays, FwStays DEF StepMoves, Moves
  <2>3. CASE ~UNCHANGED gcp
    <3> DEFINE c == Current(gcp)
    <3>1. PICK v \in Remade :
             /\ gcp' = Write(gcp, v)
             /\ \/ ~c.ready /\ v = [c EXCEPT !.ready = TRUE, !.stopping = ~AccountThere]
                \/ v = [c EXCEPT !.retry = FALSE, !.stopping = @ /\ ~AccountThere]
                \/ v = [c EXCEPT !.retry = TRUE]
      BY <1>18, <2>3 DEF XPCreatesMachine, XPRetriesMachine, RetryCreate, WriteGcp, Remade
    <3>2. v \in GCPVersion
      BY <1>1, <3>1, RemadeType
    <3>3. (IsRunning(c) => IsRunning(v)) /\ (IsRunning(v) => IsRunning(c) \/ AccountThere)
      <4>1. c \in GCPVersion /\ (~AccountThere) \in BOOLEAN /\ (c.stopping /\ ~AccountThere) \in BOOLEAN
        BY <1>2 DEF AccountThere
      <4> HIDE DEF c
      <4> QED
        BY <3>1, <4>1 DEF IsRunning, GCPVersion
    <3>4. v \in GCPWrites
      BY <2>1, <3>1, <3>2, <3>3 DEF GCPWrites
    <3> HIDE DEF c
    <3> QED
      BY <1>1, <2>1, <3>1, <3>4, ResStays, FwStays DEF StepMoves, Moves
  <2> QED
    BY <2>2, <2>3
<1>19. ASSUME NEW x \in Resources, DeliverResource(x) PROVE StepMoves
  <2>1. /\ res' = [res EXCEPT ![x] = Tail(@)] /\ Undelivered(res[x])
        /\ UNCHANGED fw /\ UNCHANGED gcp /\ UNCHANGED up
    BY <1>19 DEF DeliverResource
  <2>2. Tail(res[x]) \in Window(ResourceVersion)
    BY <1>1, <2>1, TailWindow DEF StoreType
  <2>3. ResMoves /\ res' \in [Resources -> Window(ResourceVersion)]
    BY <1>1, <2>1, <2>2 DEF ResMoves, Moves, StoreType
  <2> QED
    BY <1>1, <2>1, <2>3, FwStays DEF StepMoves, Moves
<1>20. ASSUME NEW s \in AllRules, DeliverFirewall(s) PROVE StepMoves
  <2>1. /\ fw' = [fw EXCEPT ![s] = Tail(@)] /\ Undelivered(fw[s])
        /\ UNCHANGED res /\ UNCHANGED gcp /\ UNCHANGED up
    BY <1>20 DEF DeliverFirewall
  <2>2. Tail(fw[s]) \in Window(ResourceVersion)
    BY <1>1, <2>1, TailWindow DEF StoreType
  <2>3. FwMoves /\ fw' \in [AllRules -> Window(ResourceVersion)]
    BY <1>1, <2>1, <2>2 DEF FwMoves, Moves, StoreType
  <2> QED
    BY <1>1, <2>1, <2>3, ResStays DEF StepMoves, Moves
<1>21. ASSUME NEW x, Provide(x) PROVE StepMoves
  BY <1>3, <1>21 DEF Provide
<1>22. ASSUME NEW x \in Managed, XPSucceeds(x) PROVE StepMoves
  <2> DEFINE held == IF x = "version" THEN Current(res["agg"]).holds ELSE {}
             v == [Current(res[x]) EXCEPT !.state = "ready", !.holds = held]
  <2>1. held \subseteq AllSecrets /\ Current(res[x]) \in ResourceVersion
    BY <1>1, <1>2, StoredVersions DEF ResourceVersion
  <2>3. /\ WriteRes(x, v) /\ Exists(Current(res[x]))
        /\ UNCHANGED fw /\ UNCHANGED gcp /\ UNCHANGED up
    BY <1>22 DEF XPSucceeds, Provisionable
  <2> HIDE DEF held
  <2>4. /\ v \in ResourceVersion /\ Exists(v) /\ v.state = "ready"
        /\ v.issued = Current(res[x]).issued
    BY <2>1, <2>3 DEF ResourceVersion, Exists
  <2>2. v \in ResWrites(x)
    BY <2>4 DEF ResWrites
  <2> HIDE DEF v
  <2> QED
    BY <1>1, <1>2, <2>2, <2>3, ResWriteMoves, FwStays DEF StepMoves, Moves
<1>23. CASE UNCHANGED vars
  BY <1>3, <1>23 DEF vars
<1> QED
  BY <1>4, <1>5, <1>6, <1>7, <1>8, <1>9, <1>10, <1>11, <1>12, <1>13, <1>14, <1>15, <1>16, <1>17,
     <1>18, <1>19, <1>20, <1>21, <1>22, <1>23
  DEF Next, Worker

-----------------------------------------------------------------------------
(* One step keeps every variable in its type. *)

LEMMA InitType == Init => TypeInv
<1> SUFFICES ASSUME Init PROVE ScenarioType /\ StoreType /\ WorkType
  BY DEF TypeInv
<1>1. ScenarioType
  <2>1. scenario \in Scenarios /\ plan \in Seq(Range(plan)) \ {<<>>}
    BY BuildAssumption DEF Init, plan
  <2>2. 1 \in DOMAIN plan
    BY <2>1
  <2>3. dep \in DOMAIN plan /\ avail \subseteq Inputs(scenario) /\ faults \in Nat
    BY <2>2 DEF Init
  <2> QED
    BY <2>1, <2>3 DEF ScenarioType
<1>2. NoInstance \in UpVersion /\ 1 \in DOMAIN plan
  BY <1>1, NoInstanceType, PlanType
<1>3. StoreType
  BY <1>2, FirstVersions, OneVersion DEF Init, StoreType
<1>4. WorkType
  BY <1>2 DEF Init, WorkType, Labels, Reasons
<1> QED
  BY <1>1, <1>3, <1>4

LEMMA ScenarioSteps ==
    ASSUME TypeInv, [Next]_vars
    PROVE  ScenarioType' /\ scenario' = scenario /\ dep' \in Nat /\ dep <= dep'
<1>1. ScenarioType /\ dep \in Nat /\ Len(plan) \in Nat /\ DOMAIN plan = 1..Len(plan)
  BY PlanType DEF TypeInv, ScenarioType
<1>2. faults' \in Nat
  <2>1. UNCHANGED faults \/ faults' = faults + 1
    BY DEF Fault, Next, Worker, Reconcile, PoliciesDone, PolicyFails, CreateFirewall,
        CreateRefused, EnsureServiceAccount, Ensure, EnsureNamespace, FindAnchor, CreateAnchor,
        CreateAggregated, UpdateAggregated, EnsureSecret, EnsureVersion, EnsureIAMMember,
        AwaitAccount, BuildFails, CreateGCPInstance, PatchGCPInstance, RetryCreate, Examine, UpdateStatus, CallFails,
        Restart, DeliverInstance, DeliverGCPInstance, UpdateDeployment, UpdateInstance,
        XPIssuesAccount, XPFailsAccount, XPCreatesMachine, XPRetriesMachine, DeliverResource, DeliverFirewall, Provide, XPSucceeds,
        vars
  <2> QED
    BY <1>1, <2>1 DEF TypeInv, ScenarioType
<1>3. CASE UpdateDeployment \/ \E x \in scenario.late : Provide(x)
  <2>1. /\ scenario' = scenario /\ avail' \subseteq Inputs(scenario)
        /\ dep' = dep \/ (dep < Len(plan) /\ dep' = dep + 1)
    BY <1>1, <1>3, PlanType DEF ScenarioType, UpdateDeployment, Provide
  <2>2. dep' \in DOMAIN plan /\ dep <= dep'
    BY <1>1, <2>1 DEF ScenarioType
  <2> QED
    BY <1>1, <1>2, <2>1, <2>2 DEF ScenarioType, plan
<1>4. CASE UNCHANGED upstream
  BY <1>1, <1>2, <1>4 DEF upstream, ScenarioType, plan
<1>5. UpdateDeployment \/ (\E x \in scenario.late : Provide(x)) \/ UNCHANGED upstream
  BY DEF Next, Worker, Reconcile, PoliciesDone, PolicyFails, CreateFirewall,
      CreateRefused, EnsureServiceAccount, Ensure, EnsureNamespace, FindAnchor, CreateAnchor,
      CreateAggregated, UpdateAggregated, EnsureSecret, EnsureVersion, EnsureIAMMember,
      AwaitAccount, BuildFails, CreateGCPInstance, PatchGCPInstance, RetryCreate, Examine, UpdateStatus, CallFails,
      Restart, DeliverInstance, DeliverGCPInstance, UpdateInstance,
      XPIssuesAccount, XPFailsAccount, XPCreatesMachine, XPRetriesMachine, DeliverResource, DeliverFirewall, XPSucceeds,
      vars
<1> QED
  BY <1>3, <1>4, <1>5

LEMMA StoreSteps ==
    ASSUME TypeInv, [Next]_vars
    PROVE  StoreType'
<1>1. StoreType /\ StepMoves
  BY NextMoves DEF TypeInv
<1>2. UpVersion' = UpVersion
  BY ScenarioSteps DEF UpVersion, plan
<1>3. gcp' \in Window(GCPVersion) /\ up' \in Window(UpVersion)
  <2>1. GCPWrites \subseteq GCPVersion /\ UpWrites \subseteq UpVersion
    BY DEF GCPWrites, UpWrites
  <2> QED
    BY <1>1, <2>1, MovesWindow DEF StoreType, StepMoves
<1> QED
  BY <1>1, <1>2, <1>3 DEF StoreType, StepMoves

\* How the worker leaves a stage.
LEMMA WorkerMoves ==
    ASSUME ScenarioType, WorkType, scenario' = scenario
    PROVE  /\ \A e : Return(e) => WorkType'
           /\ \A c \in Reasons, e \in {"ok", "error"} : Leave(c, e) => WorkType'
           /\ \A l \in Labels : Goto(l) /\ todo' \subseteq AllSteps /\ hand' \subseteq Managed
                                   => WorkType'
<1>1. UpVersion' = UpVersion /\ plan' = plan
  BY DEF UpVersion, plan
<1>2. "updateStatus" \in Labels /\ "idle" \in Labels /\ "Unset" \in Reasons
  BY DEF Labels, Reasons
<1>3. ASSUME NEW e, Return(e) PROVE WorkType'
  <2>1. (queued \/ e = "error") \in BOOLEAN /\ NoInstance \in UpVersion /\ 1 \in DOMAIN plan
    BY NoInstanceType, PlanType
  <2> QED
    BY <1>1, <1>2, <1>3, <2>1 DEF WorkType, Return, Idle
<1>4. ASSUME NEW c \in Reasons, NEW e \in {"ok", "error"}, Leave(c, e) PROVE WorkType'
  BY <1>1, <1>2, <1>4 DEF WorkType, Leave
<1>5. ASSUME NEW l \in Labels, Goto(l), todo' \subseteq AllSteps, hand' \subseteq Managed
      PROVE  WorkType'
  BY <1>1, <1>5 DEF WorkType, Goto
<1> QED
  BY <1>3, <1>4, <1>5

LEMMA WorkSteps ==
    ASSUME TypeInv, [Next]_vars
    PROVE  WorkType'
<1>1. /\ ScenarioType /\ StoreType /\ WorkType /\ scenario' = scenario
      /\ cond \in Reasons /\ err \in {"ok", "error"} /\ todo \subseteq AllSteps
      /\ hand \subseteq Managed /\ dep \in DOMAIN plan /\ 1 \in DOMAIN plan
  BY ScenarioSteps, PlanType DEF TypeInv, ScenarioType, WorkType
<1>2. UpVersion' = UpVersion /\ plan' = plan
  BY <1>1 DEF UpVersion, plan
<1>3. /\ {"idle", "policies", "createAnchor", "createAgg", "gcp", "updateStatus", "anchor", "agg",
          "sa", "secret", "version", "iam", "retryCreate"} \subseteq Labels
      /\ {"ServiceAccountFailedToCreate", "ProvisioningSecret", "ProvisioningSecretVersion",
          "ProvisioningSecretIAMMember", "ProvisioningServiceAccount", "PendingProgramming",
          "ProvisioningProviderInstance", "Programmed"} \subseteq Reasons
      /\ {} \subseteq AllSteps
      /\ \A x \in Managed : hand \cup {x} \subseteq Managed
  BY <1>1 DEF Labels, Resources, Reasons
<1>4. CASE UNCHANGED work /\ queued' \in BOOLEAN
  BY <1>1, <1>2, <1>4 DEF WorkType, work
<1>5. CASE Reconcile
  <2> DEFINE t == plan[Cached(up).gen]
  <2>1. CASE Preparation(t) = "ok"
    <3>1. PolicySteps(plan[dep]) \subseteq AllSteps /\ Cached(up) \in UpVersion
      BY <1>1, StoredVersions, PlanType DEF AllSteps
    <3>2. Undelivered(up) \in BOOLEAN
      BY DEF Undelivered
    <3>3. /\ pc' = "policies" /\ inst' = Cached(up) /\ wd' = dep /\ stale' = Undelivered(up)
          /\ todo' = PolicySteps(plan[dep]) /\ cond' = "PendingProgramming"
          /\ queued' = FALSE /\ UNCHANGED <<outdated, hand, err>>
      BY <1>5, <2>1 DEF Reconcile
    <3> QED
      BY <1>1, <1>2, <1>3, <3>1, <3>2, <3>3 DEF WorkType
  <2>2. CASE Preparation(t) # "ok"
    BY <1>4, <1>5, <2>2 DEF Reconcile
  <2> QED
    BY <2>1, <2>2
<1>6. CASE PoliciesDone
  BY <1>1, <1>3, <1>6, WorkerMoves DEF PoliciesDone
<1>7. CASE PolicyFails \/ CreateRefused \/ BuildFails
  BY <1>1, <1>7, WorkerMoves DEF PolicyFails, CreateRefused, BuildFails
<1>8. ASSUME NEW s \in AllRules, CreateFirewall(s) PROVE WorkType'
  <2>1. Goto("policies") /\ todo' \subseteq AllSteps /\ hand' \subseteq Managed
    BY <1>1, <1>8 DEF CreateFirewall
  <2> QED
    BY <1>1, <1>3, <2>1, WorkerMoves
<1>9. ASSUME NEW x \in Managed, NEW b, NEW l \in Labels, Goto(l), Remember(x, b), UNCHANGED todo
      PROVE  WorkType'
  <2>1. todo' \subseteq AllSteps /\ hand' \subseteq Managed
    BY <1>1, <1>3, <1>9 DEF Remember
  <2> QED
    BY <1>1, <1>9, <2>1, WorkerMoves
<1>10. ASSUME NEW l \in Labels, Goto(l), UNCHANGED hand, UNCHANGED todo
       PROVE  WorkType'
  <2>1. todo' \subseteq AllSteps /\ hand' \subseteq Managed
    BY <1>1, <1>10
  <2> QED
    BY <1>1, <1>10, <2>1, WorkerMoves
<1>11. CASE EnsureServiceAccount
  <2>1. UNCHANGED todo /\ "sa" \in Managed
    BY <1>11 DEF EnsureServiceAccount, Ensure, Managed
  <2>2. \/ \E c \in Reasons : Leave(c, "error")
        \/ Remember("sa", Issued) /\ \E l \in Labels : Goto(l)
    BY <1>1, <1>3, <1>11 DEF EnsureServiceAccount
  <2> QED
    BY <1>1, <1>9, <2>1, <2>2, WorkerMoves
<1>12. CASE EnsureNamespace \/ FindAnchor \/ CreateAnchor \/ CreateAggregated
  <2>1. UNCHANGED todo /\ UNCHANGED hand /\ \E l \in Labels : Goto(l)
    BY <1>3, <1>12 DEF EnsureNamespace, Ensure, FindAnchor, CreateAnchor, CreateAggregated
  <2> QED
    BY <1>10, <2>1
<1>13. CASE UpdateAggregated
  <2>1. UNCHANGED todo /\ UNCHANGED hand /\ (Leave(cond, "error") \/ Goto("secret"))
    BY <1>13 DEF UpdateAggregated
  <2> QED
    BY <1>1, <1>3, <1>10, <2>1, WorkerMoves
<1>14. CASE EnsureSecret \/ EnsureIAMMember
  <2>1. /\ UNCHANGED todo
        /\ \/ \E c \in Reasons : Leave(c, "ok")
           \/ UNCHANGED hand /\ \E l \in Labels : Goto(l)
    BY <1>3, <1>14 DEF EnsureSecret, EnsureIAMMember, Ensure
  <2> QED
    BY <1>1, <1>10, <2>1, WorkerMoves
<1>15. CASE EnsureVersion
  <2>1. /\ UNCHANGED todo /\ Remember("version", StateOf("version") = "ready") /\ Goto("iam")
        /\ "version" \in Managed
    BY <1>15 DEF EnsureVersion, Ensure, Managed
  <2> QED
    BY <1>3, <1>9, <2>1
<1>16. CASE AwaitAccount \/ CreateGCPInstance \/ PatchGCPInstance \/ RetryCreate
  <2>1. \/ \E c \in Reasons, e \in {"ok", "error"} : Leave(c, e)
        \/ /\ pc' = "retryCreate" /\ outdated' \in {FALSE, Undelivered(gcp)}
           /\ UNCHANGED <<queued, inst, wd, stale, todo, hand, cond, err>>
    BY <1>1, <1>3, <1>16 DEF AwaitAccount, CreateGCPInstance, PatchGCPInstance, RetryCreate, Examine
  <2>2. Undelivered(gcp) \in BOOLEAN
    BY DEF Undelivered
  <2>3. CASE pc' = "retryCreate" /\ outdated' \in {FALSE, Undelivered(gcp)}
             /\ UNCHANGED <<queued, inst, wd, stale, todo, hand, cond, err>>
    BY <1>1, <1>2, <1>3, <2>2, <2>3 DEF WorkType
  <2> QED
    BY <1>1, <2>1, <2>3, WorkerMoves
<1>17. CASE UpdateStatus
  BY <1>1, <1>17, WorkerMoves DEF UpdateStatus
<1>18. CASE CallFails
  BY <1>1, <1>18, WorkerMoves DEF CallFails
<1>19. CASE Restart
  <2>1. Return("error")
    BY <1>19 DEF Restart, Return
  <2> QED
    BY <1>1, <2>1, WorkerMoves
<1>20. CASE DeliverInstance \/ DeliverGCPInstance \/ UpdateDeployment \/ XPIssuesAccount
            \/ XPFailsAccount \/ XPCreatesMachine \/ (\E x \in Resources : DeliverResource(x))
            \/ (\E s \in AllRules : DeliverFirewall(s))
            \/ (\E x \in scenario.late : Provide(x)) \/ (\E x \in Managed : XPSucceeds(x))
            \/ UNCHANGED vars
  <2>1. UNCHANGED work
    BY <1>20 DEF DeliverInstance, DeliverGCPInstance, UpdateDeployment, XPIssuesAccount,
                 XPFailsAccount, XPCreatesMachine, DeliverResource, DeliverFirewall, Provide, XPSucceeds, vars
  <2>2. queued' \in BOOLEAN
    <3>1. \A x : (queued \/ x \in Watched) \in BOOLEAN
      OBVIOUS
    <3> QED
      BY <1>1, <1>20, <3>1
      DEF DeliverInstance, DeliverGCPInstance, UpdateDeployment, XPIssuesAccount, XPFailsAccount, WorkType,
          XPCreatesMachine, DeliverResource, DeliverFirewall, Provide, XPSucceeds, vars
  <2> QED
    BY <1>4, <2>1, <2>2
<1>21. CASE UpdateInstance
  <2>1. (pc # "idle") \in BOOLEAN
    OBVIOUS
  <2> QED
    BY <1>1, <1>2, <1>21, <2>1 DEF UpdateInstance, WorkType
<1>22. CASE XPRetriesMachine
  <2>1. (pc = "retryCreate") \in BOOLEAN
    OBVIOUS
  <2> QED
    BY <1>1, <1>2, <1>22, <2>1 DEF XPRetriesMachine, WorkType
<1> QED
  BY <1>5, <1>6, <1>7, <1>8, <1>11, <1>12, <1>13, <1>14, <1>15, <1>16, <1>17, <1>18, <1>19, <1>20,
     <1>21, <1>22
  DEF Next, Worker

LEMMA NextType == TypeInv /\ [Next]_vars => TypeInv'
  BY ScenarioSteps, StoreSteps, WorkSteps DEF TypeInv

\* Every variable keeps its type whatever the templates are, in which order
\* they come and what fails; the generation always has a template.
THEOREM TypeCorrect == Spec => []TypeOK
<1>1. Spec => []TypeInv
  BY InitType, NextType, PTL DEF Spec
<1> QED
  BY <1>1, TypesAgree, PTL
-----------------------------------------------------------------------------
(* The network policies: in force before there is a machine. *)

\* The stages behind reconcileNetworkInterfaceNetworkPolicies.
Provisioning == {"sa", "anchor", "createAnchor", "agg", "createAgg", "secret", "version", "iam", "gcp",
                 "retryCreate"}

Standing == {v \in ResourceVersion : Exists(v)}

InForce(d) == ReachedRules(plan[d]) \subseteq {s \in AllRules : Exists(Current(fw[s]))}

\* The loop over the rules leaves no rule behind but those with a firewall; the
\* stages behind it are reached with all of them in force, for the template
\* that the WorkloadDeployment had when the reconcile began.
PolicyInv ==
    /\ \A s \in AllRules : Keeps(fw[s], Standing)
    /\ wd <= dep
    /\ pc = "policies" =>
          /\ todo \subseteq PolicySteps(plan[wd])
          /\ \A s \in ReachedRules(plan[wd]) : s \in todo \/ Exists(Current(fw[s]))
    /\ pc \in Provisioning => InForce(wd)
    /\ FirewallsBeforeMachine

\* No firewall is ever taken away.
LEMMA FirewallsStay ==
    ASSUME TypeInv, [Next]_vars, \A s \in AllRules : Keeps(fw[s], Standing)
    PROVE  \A s \in AllRules :
              /\ Keeps(fw'[s], Standing)
              /\ Exists(Current(fw[s])) => Exists(Current(fw'[s]))
              /\ Exists(Cached(fw[s])) => Exists(Current(fw[s]))
<1> SUFFICES ASSUME NEW s \in AllRules
             PROVE  /\ Keeps(fw'[s], Standing)
                    /\ Exists(Current(fw[s])) => Exists(Current(fw'[s]))
                    /\ Exists(Cached(fw[s])) => Exists(Current(fw[s]))
  OBVIOUS
<1>1. /\ fw[s] \in Window(ResourceVersion) /\ Moves(fw[s], fw'[s], {NewResource})
      /\ {NewResource} \subseteq ResourceVersion /\ {NewResource} \subseteq Standing
      /\ Current(fw[s]) \in ResourceVersion /\ Cached(fw[s]) \in ResourceVersion
  BY NextMoves, FirstVersions, StoredVersions DEF TypeInv, StoreType, StepMoves, FwMoves, Standing
<1>2. Keeps(fw'[s], Standing) /\ (Current(fw[s]) \in Standing => Current(fw'[s]) \in Standing)
  BY <1>1, MovesKeep
<1>3. Cached(fw[s]) \in Standing => Current(fw[s]) \in Standing
  <2>1. 1 \in 1..Len(fw[s])
    BY <1>1, RelistWindow
  <2> QED
    BY <1>1, <2>1, CachedKept DEF Cached
<1> QED
  BY <1>1, <1>2, <1>3 DEF Standing

LEMMA RulesOfAll ==
    ASSUME ScenarioType, NEW d \in DOMAIN plan
    PROVE  /\ ReachedRules(plan[d]) \subseteq Rules(plan[d])
           /\ Rules(plan[d]) \subseteq AllRules
           /\ \A s : s \in Rules(plan[d]) <=> s \in PolicySteps(plan[d]) /\ s[2] > 0
           /\ \A s \in ReachedRules(plan[d]), u \in Rules(plan[d]) :
                 NamedPort(plan[d], u) => u # s /\ ~Precedes(u, s)
  BY PlanType DEF ReachedRules, Rules, AllRules

LEMMA InitPolicy == Init => PolicyInv
<1> SUFFICES ASSUME Init PROVE PolicyInv
  OBVIOUS
<1>1. \A s \in AllRules : Keeps(fw[s], Standing)
  <2>1. ~Exists(NoResource) /\ \A s \in AllRules : \A n \in 1..Len(fw[s]) : fw[s][n] = NoResource
    BY FirstVersions, OneVersion DEF Init
  <2> QED
    BY <2>1 DEF Keeps, Standing
<1>2. ~Exists(Machine)
  <2>1. Current(gcp) = NoGCPInstance
    BY OneVersion DEF Init
  <2> QED
    BY <2>1, FirstVersions DEF Machine, Exists
<1>3. wd <= dep /\ pc = "idle"
  BY DEF Init
<1> QED
  BY <1>1, <1>2, <1>3 DEF PolicyInv, FirewallsBeforeMachine, Provisioning

LEMMA NextPolicy == TypeInv /\ PolicyInv /\ [Next]_vars => PolicyInv'
<1> SUFFICES ASSUME TypeInv, PolicyInv, [Next]_vars PROVE PolicyInv'
  OBVIOUS
<1>1. /\ ScenarioType /\ WorkType /\ wd \in DOMAIN plan /\ dep \in DOMAIN plan
      /\ plan' = plan /\ dep' \in Nat /\ dep <= dep' /\ dep \in Nat /\ wd \in Nat /\ 1 <= dep
      /\ wd <= dep /\ wd \in 1..dep /\ ScenarioType' /\ dep' \in DOMAIN plan
  BY ScenarioSteps, PlanType DEF TypeInv, ScenarioType, WorkType, PolicyInv, plan
<1>2. \A s \in AllRules :
         /\ Keeps(fw'[s], Standing)
         /\ Exists(Current(fw[s])) => Exists(Current(fw'[s]))
         /\ Exists(Cached(fw[s])) => Exists(Current(fw[s]))
  BY FirewallsStay DEF PolicyInv
<1>3. \A d \in DOMAIN plan : InForce(d) => InForce(d)'
  BY <1>1, <1>2 DEF InForce
<1>4. FirewallsBeforeMachine'
  <2> SUFFICES ASSUME Exists(Current(gcp'))
               PROVE  \E d \in 1..dep' : InForce(d)'
    BY DEF FirewallsBeforeMachine, Machine, InForce
  <2>1. \E d \in 1..dep : InForce(d)
    <3>1. CASE Exists(Current(gcp))
      BY <3>1 DEF PolicyInv, FirewallsBeforeMachine, Machine, InForce
    <3>2. CASE ~Exists(Current(gcp))
      <4>1. /\ gcp \in Window(GCPVersion) /\ Moves(gcp, gcp', GCPWrites)
            /\ GCPWrites \subseteq GCPVersion
        BY NextMoves DEF TypeInv, StoreType, StepMoves, GCPWrites
      <4>2. Current(gcp') \in GCPWrites
        BY <3>2, <4>1, MovesWindow
      <4>3. pc \in {"gcp", "retryCreate"}
        BY <3>2, <4>2 DEF GCPWrites
      <4> QED
        BY <1>1, <4>3 DEF PolicyInv, Provisioning
    <3> QED
      BY <3>1, <3>2
  <2>2. \A d \in 1..dep : d \in DOMAIN plan /\ d \in 1..dep'
    BY <1>1, PlanType
  <2> QED
    BY <1>3, <2>1, <2>2
<1>5. CASE Reconcile /\ pc' = "policies"
  <2>1. wd' = dep /\ todo' = PolicySteps(plan[dep])
    BY <1>5 DEF Reconcile, work
  <2>2. \A s \in ReachedRules(plan[dep]) : s \in PolicySteps(plan[dep])
    BY <1>1, RulesOfAll
  <2> QED
    BY <1>1, <1>2, <1>4, <1>5, <2>1, <2>2 DEF PolicyInv, Provisioning
\* What is not pending has a firewall, or is a read that went well.
<1>6. ASSUME pc = "policies", NEW s \in ReachedRules(plan[wd]), s \notin Pending
      PROVE  Exists(Current(fw[s]))
  <2>1. s \in AllRules /\ s[2] > 0
    BY <1>1, RulesOfAll
  <2>2. CASE s \in todo
    <3>1. Exists(Cached(fw[s]))
      BY <1>6, <2>1, <2>2 DEF Pending
    <3> QED
      BY <1>2, <2>1, <3>1
  <2>3. CASE s \notin todo
    BY <1>6, <2>3 DEF PolicyInv
  <2> QED
    BY <2>2, <2>3
<1>7. CASE PoliciesDone
  <2>1. pc = "policies" /\ pc' = "sa" /\ UNCHANGED wd
    BY <1>7 DEF PoliciesDone, Goto
  <2>2. \A s \in ReachedRules(plan[wd]) : s \notin Pending
    <3>1. CASE Pending = {}
      BY <3>1
    <3>2. ASSUME NEW u \in Pending, First(u), u[2] > 0, NamedPort(plan[wd], u)
          PROVE  \A s \in ReachedRules(plan[wd]) : s \notin Pending
      <4>1. u \in Rules(plan[wd])
        BY <1>1, <2>1, <3>2, RulesOfAll DEF Pending, PolicyInv
      <4> QED
        BY <1>1, <3>2, <4>1, RulesOfAll DEF First
    <3> QED
      BY <1>7, <3>1, <3>2 DEF PoliciesDone
  <2>3. InForce(wd)
    BY <1>1, <1>6, <2>1, <2>2, RulesOfAll DEF InForce
  <2> QED
    BY <1>1, <1>2, <1>3, <1>4, <2>1, <2>3 DEF PolicyInv
<1>8. ASSUME NEW s \in AllRules, CreateFirewall(s) PROVE PolicyInv'
  <2>1. /\ pc = "policies" /\ pc' = "policies" /\ UNCHANGED wd
        /\ todo' = {u \in todo : Precedes(s, u)} /\ First(s)
        /\ WriteFw(s, NewResource)
    BY <1>8 DEF CreateFirewall, Goto
  <2>2. Exists(Current(fw'[s]))
    BY <2>1, FirstVersions, WriteFwType DEF TypeInv
  <2>3. \A u \in ReachedRules(plan[wd]) : u \in todo' \/ Exists(Current(fw'[u]))
    <3> SUFFICES ASSUME NEW u \in ReachedRules(plan[wd]), u \notin todo', u # s
                 PROVE  Exists(Current(fw'[u]))
      BY <2>2
    <3>1. u \notin Pending
      BY <2>1 DEF First, Pending
    <3> QED
      BY <1>1, <1>2, <1>6, <2>1, <3>1, RulesOfAll
  <2> QED
    BY <1>1, <1>2, <1>4, <2>1, <2>3 DEF PolicyInv, Provisioning
\* Every other step stays with the loop, goes on behind it, or ends.
<1>9. CASE /\ ~(Reconcile /\ pc' = "policies") /\ ~PoliciesDone
           /\ ~\E s \in AllRules : CreateFirewall(s)
  <2>1. /\ pc' \in Provisioning => pc \in Provisioning /\ UNCHANGED wd
        /\ pc' = "policies" => pc = "policies" /\ UNCHANGED <<todo, wd>>
        /\ wd' \in {wd, 1}
    BY <1>9
    DEF Provisioning, Building, Next, Worker, Reconcile, PolicyFails, CreateRefused,
        EnsureServiceAccount, Ensure, EnsureNamespace, FindAnchor, CreateAnchor,
        CreateAggregated, UpdateAggregated, EnsureSecret, EnsureVersion, EnsureIAMMember,
        AwaitAccount, BuildFails, CreateGCPInstance, PatchGCPInstance, RetryCreate, Examine, UpdateStatus,
        CallFails, Restart, DeliverInstance, DeliverGCPInstance, UpdateDeployment,
        UpdateInstance, XPIssuesAccount, XPFailsAccount, XPCreatesMachine, XPRetriesMachine, DeliverResource, DeliverFirewall,
        Provide, XPSucceeds, Goto, Leave, Return, Idle, vars, work
  <2>2. wd' <= dep'
    BY <1>1, <2>1
  <2>3. pc' = "policies" =>
           \A s \in ReachedRules(plan[wd]) : s \in todo' \/ Exists(Current(fw'[s]))
    BY <1>1, <1>2, <2>1, RulesOfAll DEF PolicyInv
  <2>4. pc' \in Provisioning => InForce(wd)'
    BY <1>1, <1>3, <2>1 DEF PolicyInv, InForce
  <2>5. pc' = "policies" => todo' \subseteq PolicySteps(plan'[wd'])
    BY <1>1, <2>1 DEF PolicyInv
  <2> QED
    BY <1>1, <1>2, <1>4, <2>1, <2>2, <2>3, <2>4, <2>5 DEF PolicyInv
<1> QED
  BY <1>5, <1>7, <1>8, <1>9

\* A machine exists only behind the firewalls of a template that the
\* WorkloadDeployment had: reconcileInstance gets to the GCP Instance only
\* through the loop over the rules, and no error leads around it.
THEOREM FirewallsBeforeMachineHolds == Spec => []FirewallsBeforeMachine
<1>1. Init => TypeInv /\ PolicyInv
  BY InitType, InitPolicy
<1>2. TypeInv /\ PolicyInv /\ [Next]_vars => (TypeInv /\ PolicyInv)'
  BY NextType, NextPolicy
<1>3. PolicyInv => FirewallsBeforeMachine
  BY DEF PolicyInv
<1> QED
  BY <1>1, <1>2, <1>3, PTL DEF Spec
-----------------------------------------------------------------------------
(* Generations: what the caches and the worker have got to. *)

From(g) == {v \in UpVersion : g <= v.gen}

\* The generation only grows.  Nothing is reported of a generation that the
\* cache has not seen, nor, during a reconcile, of one behind its copy; that
\* copy is the server's unless it is marked stale.
GenInv ==
    /\ \A g \in DOMAIN plan : Keeps(up, From(g))
    /\ \A n \in 1..Len(up) :
          /\ up[n].obs <= Cached(up).gen
          /\ up[n].reason = "Programmed" => up[n].hash = up[n].obs
    /\ pc # "idle" =>
          /\ inst.gen <= Cached(up).gen
          /\ inst.reason = "Programmed" => inst.hash = inst.obs
          /\ \A n \in 1..Len(up) : up[n].obs <= inst.gen
          /\ ~stale => inst = Current(up)

LEMMA GenFacts ==
    ASSUME TypeInv, GenInv
    PROVE  /\ \A n \in 1..Len(up) : up[n] \in UpVersion /\ up[n].gen \in Nat /\ up[n].obs \in Nat
                                    /\ Cached(up).gen <= up[n].gen
           /\ 1 \in 1..Len(up) /\ Len(up) \in 1..Len(up) /\ Len(up) \in Nat
           /\ Cached(up) \in UpVersion /\ Current(up) \in UpVersion
           /\ Cached(up).gen \in Nat \ {0} /\ Current(up).gen \in Nat \ {0} /\ inst.gen \in Nat \ {0}
           /\ Current(up).obs \in Nat /\ Current(up).obs <= Cached(up).gen
           /\ Cached(up).gen <= Current(up).gen
           /\ pc # "idle" => inst.gen <= Current(up).gen /\ Current(up).obs <= inst.gen
<1>1. /\ up \in Window(UpVersion) /\ inst \in UpVersion /\ DOMAIN plan = 1..Len(plan)
      /\ Len(plan) \in Nat
  BY PlanType DEF TypeInv, StoreType, WorkType
<1>2. \A n \in 1..Len(up) : up[n] \in UpVersion
  BY <1>1 DEF Window
<1>3. \A v \in UpVersion : v.gen \in DOMAIN plan /\ v.gen \in Nat \ {0} /\ v.obs \in Nat
  BY <1>1 DEF UpVersion
<1>4. /\ 1 \in 1..Len(up) /\ Len(up) \in 1..Len(up) /\ Len(up) \in Nat
      /\ Cached(up) \in UpVersion /\ Current(up) \in UpVersion
  <2>1. Len(up) \in Nat
    BY <1>1 DEF Window
  <2> QED
    BY <1>1, <2>1, RelistWindow
<1>5. \A n \in 1..Len(up) : Cached(up).gen <= up[n].gen
  <2>1. Cached(up).gen \in DOMAIN plan /\ Cached(up) \in From(Cached(up).gen)
    BY <1>3, <1>4 DEF From
  <2>2. \A n \in 1..Len(up) : 1 <= n
    OBVIOUS
  <2>3. \A n \in 1..Len(up) : up[n] \in From(Cached(up).gen)
    BY <1>4, <2>1, <2>2 DEF GenInv, Keeps, Cached
  <2> QED
    BY <2>3 DEF From
<1>6. Cached(up).gen <= Current(up).gen /\ Current(up).obs <= Cached(up).gen
  BY <1>4, <1>5 DEF Current, GenInv
<1>7. pc # "idle" => inst.gen <= Cached(up).gen /\ Current(up).obs <= inst.gen
  BY <1>4 DEF GenInv, Current
<1> QED
  BY <1>1, <1>2, <1>3, <1>4, <1>5, <1>6, <1>7

\* Neither the cache nor the copy is ahead of the server.
Behind ==
    /\ Cached(up).gen \in Nat \ {0} /\ Cached(up).gen <= Current(up).gen
    /\ inst.gen \in Nat \ {0} /\ (pc # "idle" => inst.gen <= Current(up).gen)

LEMMA CopyBehind == TypeInv /\ GenInv => Behind
  BY GenFacts DEF Behind

LEMMA InitGen == Init => GenInv
<1> SUFFICES ASSUME Init PROVE GenInv
  OBVIOUS
<1>1. /\ Cached(up) = NoInstance /\ \A n \in 1..Len(up) : up[n] = NoInstance
      /\ pc = "idle"
  BY OneVersion DEF Init
<1>2. NoInstance.obs <= NoInstance.gen /\ NoInstance.reason # "Programmed"
  BY DEF NoInstance
<1> QED
  BY <1>1, <1>2 DEF GenInv, Keeps

\* The steps of a reconcile as far as generations go.
LEMMA GenSteps ==
    ASSUME TypeInv, [Next]_vars
    PROVE  \/ Reconcile /\ pc = "idle" /\ pc' = "policies" /\ inst' = Cached(up) /\ UNCHANGED up
              /\ stale' = Undelivered(up)
           \/ pc' = "idle"
           \/ /\ pc # "idle" /\ pc' # "idle" /\ UNCHANGED inst
              /\ \/ UNCHANGED <<up, stale>>
                 \/ Undelivered(up) /\ up' = Tail(up) /\ UNCHANGED stale
                 \/ up' = Write(up, [Current(up) EXCEPT !.gen = @ + 1]) /\ stale' = TRUE
<1>1. CASE Reconcile
  BY <1>1 DEF Reconcile, work
<1>2. CASE UpdateStatus \/ Restart
  BY <1>2 DEF UpdateStatus, Restart, Return, Idle
<1>3. CASE CallFails
  BY <1>3 DEF CallFails, Leave, Return, Idle
<1>4. CASE \/ PoliciesDone \/ PolicyFails \/ (\E s \in AllRules : CreateFirewall(s))
           \/ CreateRefused \/ EnsureServiceAccount \/ EnsureNamespace \/ FindAnchor \/ CreateAnchor
           \/ CreateAggregated \/ UpdateAggregated \/ EnsureSecret \/ EnsureVersion \/ EnsureIAMMember
           \/ AwaitAccount \/ BuildFails \/ CreateGCPInstance \/ PatchGCPInstance \/ RetryCreate
  <2>1. pc # "idle" /\ UNCHANGED up
    BY <1>4 DEF PoliciesDone, PolicyFails, CreateFirewall, CreateRefused, EnsureServiceAccount,
         Ensure, EnsureNamespace, FindAnchor, CreateAnchor, CreateAggregated, UpdateAggregated,
         EnsureSecret, EnsureVersion, EnsureIAMMember, AwaitAccount, BuildFails, Building,
         CreateGCPInstance, PatchGCPInstance, RetryCreate, Created
  <2>2. \/ \E l \in Labels \ {"idle"} : Goto(l)
        \/ \E c \in Reasons, e \in {"ok", "error"} : Leave(c, e)
        \/ pc' = "retryCreate" /\ UNCHANGED <<inst, stale>>
    <3>1. /\ {"policies", "createAnchor", "createAgg", "gcp", "agg", "sa", "secret", "version",
              "iam", "anchor"} \subseteq Labels \ {"idle"}
          /\ {"ServiceAccountFailedToCreate", "ProvisioningSecret", "ProvisioningSecretVersion",
              "ProvisioningSecretIAMMember", "ProvisioningServiceAccount",
              "ProvisioningProviderInstance", "Programmed", cond} \subseteq Reasons
      BY DEF Labels, Resources, Reasons, TypeInv, WorkType
    <3> QED
      BY <1>4, <3>1 DEF PoliciesDone, PolicyFails, CreateFirewall, CreateRefused,
         EnsureServiceAccount, EnsureNamespace, FindAnchor, CreateAnchor, CreateAggregated,
         UpdateAggregated, EnsureSecret, EnsureVersion, EnsureIAMMember, AwaitAccount, BuildFails,
         CreateGCPInstance, PatchGCPInstance, RetryCreate, Examine
  <2>3. pc' # "idle" /\ UNCHANGED <<inst, stale>>
    BY <2>2 DEF Goto, Leave
  <2> QED
    BY <2>1, <2>3
<1>5. CASE DeliverInstance
  BY <1>5 DEF DeliverInstance, work
<1>6. CASE UpdateInstance
  BY <1>6 DEF UpdateInstance, WriteUp
<1>7. CASE \/ DeliverGCPInstance \/ UpdateDeployment \/ XPIssuesAccount \/ XPFailsAccount
           \/ XPCreatesMachine \/ XPRetriesMachine
           \/ (\E x \in Resources : DeliverResource(x)) \/ (\E s \in AllRules : DeliverFirewall(s))
           \/ (\E x \in scenario.late : Provide(x)) \/ (\E x \in Managed : XPSucceeds(x))
           \/ UNCHANGED vars
  BY <1>7 DEF DeliverGCPInstance, UpdateDeployment, XPIssuesAccount, XPFailsAccount, XPCreatesMachine, XPRetriesMachine,
              DeliverResource, DeliverFirewall, Provide, XPSucceeds, vars, work
<1> QED
  BY <1>1, <1>2, <1>3, <1>4, <1>5, <1>6, <1>7 DEF Next, Worker

\* What is stored of the Instance fits what was there.
LEMMA GenWrites ==
    ASSUME TypeInv, GenInv, NEW v \in UpWrites
    PROVE  /\ v \in UpVersion /\ v.gen \in Nat /\ Current(up).gen <= v.gen
           /\ v.obs <= Cached(up).gen
           /\ v.reason = "Programmed" => v.hash = v.obs
           /\ pc # "idle" => v.obs <= inst.gen
<1>1. v \in UpVersion /\ v.gen \in Nat /\ v.obs \in Nat
  BY PlanType DEF UpWrites, UpVersion, TypeInv
<1>2. CASE v = [Current(up) EXCEPT !.gen = @ + 1]
  <2>1. /\ Current(up).reason = "Programmed" => Current(up).hash = Current(up).obs
        /\ Current(up).obs <= Cached(up).gen
        /\ Current(up) \in UpVersion
        /\ pc # "idle" => Current(up).obs <= inst.gen
    BY GenFacts DEF GenInv, Current
  <2>2. /\ v.gen = Current(up).gen + 1 /\ v.obs = Current(up).obs
        /\ v.reason = Current(up).reason /\ v.hash = Current(up).hash
    BY <1>2, <2>1 DEF UpVersion
  <2> QED
    BY <1>1, <2>1, <2>2, GenFacts
<1>3. CASE pc = "updateStatus" /\ ~stale /\ v = Reported
  <2>1. inst = Current(up) /\ inst.gen <= Cached(up).gen /\ inst \in UpVersion
    BY <1>3 DEF GenInv, TypeInv, WorkType
  <2>2. /\ v.gen = inst.gen /\ v.obs = inst.gen /\ v.reason = cond
        /\ cond = "Programmed" => v.hash = inst.gen
    BY <1>3, <2>1 DEF Reported, UpVersion
  <2> QED
    BY <1>1, <2>1, <2>2, GenFacts
<1> QED
  BY <1>2, <1>3 DEF UpWrites

LEMMA NextGen == TypeInv /\ GenInv /\ [Next]_vars => GenInv' /\ Cached(up).gen <= Cached(up').gen
<1> SUFFICES ASSUME TypeInv, GenInv, [Next]_vars
             PROVE  GenInv' /\ Cached(up).gen <= Cached(up').gen
  OBVIOUS
<1>1. /\ up \in Window(UpVersion) /\ Moves(up, up', UpWrites) /\ UpWrites \subseteq UpVersion
      /\ plan' = plan /\ UpVersion' = UpVersion
  BY NextMoves, ScenarioSteps DEF TypeInv, StoreType, StepMoves, UpWrites, plan, UpVersion
<1>2. \A g \in DOMAIN plan : Keeps(up', From(g))
  <2> SUFFICES ASSUME NEW g \in DOMAIN plan PROVE Keeps(up', From(g))
    OBVIOUS
  <2>1. Current(up) \in From(g) => UpWrites \subseteq From(g)
    <3>1. g \in Nat
      BY PlanType DEF TypeInv
    <3> QED
      BY <3>1, GenFacts, GenWrites DEF From
  <2> QED
    BY <1>1, <2>1, MovesKeep DEF GenInv
\* The versions that are left, and the one that is new.
<1>3. /\ \A n \in 1..Len(up') :
            \/ \E m \in 1..Len(up) : up'[n] = up[m]
            \/ up'[n] \in UpWrites
      /\ \E m \in 1..Len(up) : Cached(up') = up[m]
  <2>1. CASE up' = up
    BY <2>1, GenFacts DEF Cached
  <2>2. ASSUME NEW v \in UpWrites, up' = Write(up, v)
        PROVE  /\ \A n \in 1..Len(up') :
                     \/ \E m \in 1..Len(up) : up'[n] = up[m]
                     \/ up'[n] \in UpWrites
               /\ \E m \in 1..Len(up) : Cached(up') = up[m]
    <3>1. /\ Cached(up') = Cached(up)
          /\ \A n \in 1..Len(up') : \/ n = Len(up') /\ up'[n] = v
                                    \/ n \in 1..Len(up) /\ up'[n] = up[n]
      BY <1>1, <2>2, WriteWindow
    <3>2. 1 \in 1..Len(up)
      BY GenFacts
    <3> QED
      BY <3>1, <3>2 DEF Cached
  <2>3. CASE Undelivered(up) /\ up' = Tail(up)
    <3>1. /\ \A n \in 1..Len(up') : n + 1 \in 1..Len(up) /\ up'[n] = up[n + 1]
          /\ 1 \in 1..Len(up')
      BY <1>1, <2>3, TailWindow, RelistWindow
    <3> QED
      BY <3>1 DEF Cached
  <2>4. CASE up' = <<Current(up)>>
    <3>1. Cached(up') = up[Len(up)] /\ \A n \in 1..Len(up') : up'[n] = up[Len(up)]
      BY <2>4, OneVersion DEF Current
    <3> QED
      BY <3>1, GenFacts
  <2> QED
    BY <1>1, <2>1, <2>2, <2>3, <2>4 DEF Moves
<1>4. Cached(up).gen <= Cached(up').gen /\ Cached(up').gen \in Nat
  BY <1>3, GenFacts
<1>5. \A n \in 1..Len(up') :
         /\ up'[n].obs \in Nat /\ up'[n].obs <= Cached(up).gen
         /\ up'[n].reason = "Programmed" => up'[n].hash = up'[n].obs
         /\ pc # "idle" => up'[n].obs <= inst.gen
  <2>1. \A m \in 1..Len(up) :
           /\ up[m].obs \in Nat /\ up[m].obs <= Cached(up).gen
           /\ up[m].reason = "Programmed" => up[m].hash = up[m].obs
           /\ pc # "idle" => up[m].obs <= inst.gen
    BY GenFacts DEF GenInv
  <2>2. \A v \in UpWrites :
           /\ v.obs \in Nat /\ v.obs <= Cached(up).gen
           /\ v.reason = "Programmed" => v.hash = v.obs
           /\ pc # "idle" => v.obs <= inst.gen
    BY GenWrites DEF UpVersion
  <2> QED
    BY <1>3, <2>1, <2>2
<1>6. \A n \in 1..Len(up') : up'[n].obs <= Cached(up').gen
  BY <1>4, <1>5, GenFacts
<1>7. pc' # "idle" =>
         /\ inst'.gen <= Cached(up').gen
         /\ inst'.reason = "Programmed" => inst'.hash = inst'.obs
         /\ \A n \in 1..Len(up') : up'[n].obs <= inst'.gen
         /\ ~stale' => inst' = Current(up')
  <2>1. CASE pc' = "idle"
    BY <2>1
  <2>2. CASE /\ pc = "idle" /\ inst' = Cached(up) /\ UNCHANGED up
             /\ stale' = Undelivered(up)
    <3>1. ~Undelivered(up) => Cached(up) = Current(up)
      <4>1. Len(up) \in Nat \ {0}
        BY <1>1 DEF Window
      <4> QED
        BY <4>1 DEF Undelivered, Cached, Current
    <3>2. Cached(up).reason = "Programmed" => Cached(up).hash = Cached(up).obs
      BY GenFacts DEF GenInv, Cached
    <3> QED
      BY <1>6, <2>2, <3>1, <3>2, GenFacts
  <2>3. CASE pc # "idle" /\ UNCHANGED inst /\ UNCHANGED <<up, stale>>
    BY <2>3 DEF GenInv
  <2>4. CASE /\ pc # "idle" /\ UNCHANGED inst
             /\ Undelivered(up) /\ up' = Tail(up) /\ UNCHANGED stale
    <3>1. Current(up') = Current(up)
      BY <1>1, <2>4, TailWindow
    <3>2. /\ inst.gen <= Cached(up).gen
          /\ inst.reason = "Programmed" => inst.hash = inst.obs
          /\ ~stale => inst = Current(up)
      BY <2>4 DEF GenInv
    <3> QED
      BY <1>4, <1>5, <2>4, <3>1, <3>2, GenFacts
  <2>5. CASE pc # "idle" /\ UNCHANGED inst /\ stale' = TRUE
    <3>1. /\ inst.gen <= Cached(up).gen
          /\ inst.reason = "Programmed" => inst.hash = inst.obs
      BY <2>5 DEF GenInv
    <3> QED
      BY <1>4, <1>5, <2>5, <3>1, GenFacts
  <2> QED
    BY <2>1, <2>2, <2>3, <2>4, <2>5, GenSteps
<1>8. \A g \in DOMAIN plan' : Keeps(up', From(g)')
  BY <1>1, <1>2 DEF From
<1> QED
  BY <1>4, <1>5, <1>6, <1>7, <1>8 DEF GenInv
-----------------------------------------------------------------------------
(* The service account and the Secrets: there before the machine is.         *)

ReadyOnes == {v \in ResourceVersion : Exists(v) /\ v.state = "ready"}

IssuedOnes == {v \in ResourceVersion : Exists(v) /\ v.issued}

\* A GCP Instance is never taken away either.
Machines == {v \in GCPVersion : Exists(v)}

\* No resource is taken away, an account that was asked for stays so, and an
\* account or a secret that was ready stays ready.  So what the worker saw of them in its cache holds when it comes to
\* the GCP Instance.
AccountInv ==
    /\ Keeps(gcp, Machines)
    /\ \A x \in Resources : Keeps(res[x], Standing)
    /\ Keeps(res["sa"], IssuedOnes) /\ \A x \in {"sa", "secret"} : Keeps(res[x], ReadyOnes)
    /\ pc = "retryCreate" => Exists(Current(gcp))
    /\ "sa" \in hand => Current(res["sa"]) \in IssuedOnes
    /\ pc \in {"version", "iam"} => Current(res["secret"]) \in ReadyOnes
    /\ pc = "iam" => Current(res["version"]) \in Standing
    /\ pc = "gcp" /\ Secrets(template) # {} =>
          /\ Current(res["secret"]) \in ReadyOnes
          /\ Current(res["version"]) \in Standing /\ Current(res["iam"]) \in Standing

\* What a reconcile saw, or did, on its way to a stage.
LEMMA StageSteps ==
    ASSUME TypeInv, [Next]_vars
    PROVE  /\ "sa" \in hand' => "sa" \in hand \/ Cached(res["sa"]) \in IssuedOnes
           /\ pc' = "retryCreate" => pc = "retryCreate" \/ Exists(Cached(gcp))
           /\ pc' = "secret" =>
                 \/ pc = "secret"
                 \/ Current(res'["agg"]) = Aggregated
                 \/ Cached(res["agg"]) = Aggregated /\ UNCHANGED res
           /\ pc' = "version" =>
                 pc = "version" \/ (pc = "secret" /\ Cached(res["secret"]) \in ReadyOnes)
           /\ pc' = "iam" =>
                 \/ pc = "iam"
                 \/ pc = "version" /\ Cached(res["version"]) \in Standing
                 \/ pc = "version" /\ Current(res'["version"]) \in Standing
           /\ pc' = "gcp" =>
                 \/ pc = "gcp"
                 \/ pc = "sa" /\ Secrets(template) = {}
                 \/ pc = "iam" /\ Cached(res["iam"]) \in Standing
           /\ pc' \in {"secret", "version", "iam", "gcp"} =>
                 UNCHANGED inst /\ template' = template
<1>1. /\ StoreType /\ WorkType /\ ScenarioType
      /\ \A x \in Resources : /\ Cached(res[x]) \in ResourceVersion
                              /\ res' \in [Resources -> Window(ResourceVersion)]
                              /\ Current(res'[x]) \in ResourceVersion
      /\ {"agg", "sa", "secret", "version", "iam"} \subseteq Resources
  BY NextMoves, StoredVersions, RelistWindow DEF TypeInv, StepMoves, Resources
<1>2. pc' \in {"secret", "version", "iam", "gcp"} => UNCHANGED inst /\ template' = template
  BY GenSteps, ScenarioSteps DEF template, plan
<1>3. CASE EnsureServiceAccount
  <2>1. "sa" \in hand' => "sa" \in hand \/ Issued
    BY <1>3 DEF EnsureServiceAccount, Leave, Remember
  <2>2. Issued => Cached(res["sa"]) \in IssuedOnes
    BY <1>1 DEF Issued, Found, IssuedOnes
  <2>3. pc = "sa" /\ pc' \notin {"secret", "version", "iam", "retryCreate"}
        /\ (pc' = "gcp" => Secrets(template) = {})
    BY <1>3 DEF EnsureServiceAccount, Leave, Goto
  <2> QED
    BY <1>2, <2>1, <2>2, <2>3
<1>4. CASE CreateAggregated \/ UpdateAggregated
  <2>1. UNCHANGED hand /\ pc' \in {"secret", "updateStatus"}
    BY <1>4 DEF CreateAggregated, UpdateAggregated, Goto, Leave
  <2>2. CASE WriteRes("agg", Aggregated)
    BY <1>1, <1>2, <2>1, <2>2, AggregatedType, WriteResType
  <2>3. CASE ~WriteRes("agg", Aggregated) /\ pc' = "secret"
    <3>1. Cached(res["agg"]) = Aggregated /\ UNCHANGED res
      BY <1>4, <2>3 DEF CreateAggregated, UpdateAggregated, Leave
    <3> QED
      BY <1>2, <2>1, <2>3, <3>1
  <2> QED
    BY <2>1, <2>2, <2>3
<1>5. CASE EnsureSecret
  <2>1. UNCHANGED hand /\ pc = "secret" /\ pc' \in {"version", "updateStatus"}
        /\ (pc' = "version" => StateOf("secret") = "ready")
    BY <1>5 DEF EnsureSecret, Goto, Leave
  <2>2. StateOf("secret") = "ready" => Cached(res["secret"]) \in ReadyOnes
    BY <1>1 DEF StateOf, Found, ReadyOnes
  <2> QED
    BY <1>2, <2>1, <2>2
<1>6. CASE EnsureVersion
  <2>1. /\ "sa" \in hand' => "sa" \in hand
        /\ pc = "version" /\ pc' = "iam" /\ Ensure("version")
    BY <1>6 DEF EnsureVersion, Remember, Goto
  <2>2. CASE WriteRes("version", NewResource)
    <3>1. Current(res'["version"]) = NewResource
      BY <1>1, <2>2, FirstVersions, WriteResType
    <3> QED
      BY <1>2, <2>1, <3>1, FirstVersions DEF Standing
  <2>3. CASE Found("version") /\ UNCHANGED res
    BY <1>1, <1>2, <2>1, <2>3 DEF Found, Standing
  <2> QED
    BY <2>1, <2>2, <2>3 DEF Ensure
<1>7. CASE EnsureIAMMember
  BY <1>1, <1>2, <1>7 DEF EnsureIAMMember, Goto, Leave, Found, Standing
<1>8. CASE ~EnsureServiceAccount /\ ~CreateAggregated /\ ~UpdateAggregated /\ ~EnsureSecret
           /\ ~EnsureVersion /\ ~EnsureIAMMember
  <2>1. /\ "sa" \in hand' => "sa" \in hand
        /\ pc' \in {"secret", "version", "iam", "gcp"} => pc' = pc
        /\ pc' = "retryCreate" => pc = "retryCreate" \/ Exists(Cached(gcp))
    BY <1>8
    DEF Next, Worker, Reconcile, PoliciesDone, PolicyFails, CreateFirewall, CreateRefused,
        EnsureNamespace, FindAnchor, CreateAnchor, AwaitAccount, BuildFails, CreateGCPInstance,
        PatchGCPInstance, RetryCreate, Examine, UpdateStatus, CallFails, Restart, DeliverInstance,
        DeliverGCPInstance, UpdateDeployment, UpdateInstance, XPIssuesAccount, XPFailsAccount, XPCreatesMachine, XPRetriesMachine,
        DeliverResource, DeliverFirewall, Provide, XPSucceeds, Goto, Leave, Return, Idle, vars, work
  <2> QED
    BY <1>2, <2>1
<1> QED
  BY <1>3, <1>4, <1>5, <1>6, <1>7, <1>8

\* What the caches show of these objects is true, and stays true.
LEMMA ResourcesStay ==
    ASSUME TypeInv, [Next]_vars, AccountInv
    PROVE  /\ Keeps(gcp', Machines) /\ (Exists(Cached(gcp)) => Exists(Current(gcp)))
           /\ Current(gcp) \in Machines => Current(gcp') \in Machines
           /\ \A x \in Resources :
                 /\ Keeps(res'[x], Standing)
                 /\ Cached(res[x]) \in Standing => Current(res[x]) \in Standing
                 /\ Current(res[x]) \in Standing => Current(res'[x]) \in Standing
           /\ \A x \in {"sa", "secret"} :
                 /\ Keeps(res'[x], ReadyOnes)
                 /\ Cached(res[x]) \in ReadyOnes => Current(res[x]) \in ReadyOnes
                 /\ Current(res[x]) \in ReadyOnes => Current(res'[x]) \in ReadyOnes
           /\ Keeps(res'["sa"], IssuedOnes)
           /\ Cached(res["sa"]) \in IssuedOnes => Current(res["sa"]) \in IssuedOnes
           /\ Current(res["sa"]) \in IssuedOnes => Current(res'["sa"]) \in IssuedOnes
<1>1. /\ StoreType /\ WorkType /\ ScenarioType /\ StepMoves
      /\ {"sa", "secret"} \subseteq Resources
  BY NextMoves DEF TypeInv, Resources
<1>2. ASSUME NEW x \in Resources, NEW P, Keeps(res[x], P),
             Current(res[x]) \in P => ResWrites(x) \subseteq P
      PROVE  /\ Keeps(res'[x], P)
             /\ Cached(res[x]) \in P => Current(res[x]) \in P
             /\ Current(res[x]) \in P => Current(res'[x]) \in P
  <2>1. /\ res[x] \in Window(ResourceVersion) /\ Moves(res[x], res'[x], ResWrites(x))
        /\ ResWrites(x) \subseteq ResourceVersion
    BY <1>1 DEF StoreType, StepMoves, ResMoves, ResWrites
  <2>2. 1 \in 1..Len(res[x])
    BY <2>1, RelistWindow
  <2>3. Cached(res[x]) \in P => Current(res[x]) \in P
    BY <1>2, <2>1, <2>2, CachedKept DEF Cached
  <2> QED
    BY <1>2, <2>1, <2>3, MovesKeep
<1>3. \A x \in Resources : ResWrites(x) \subseteq Standing
  BY <1>1, FirstVersions, AggregatedType DEF ResWrites, Standing
<1>4. \A x \in {"sa", "secret"} :
         Current(res[x]) \in ReadyOnes => ResWrites(x) \subseteq ReadyOnes
  BY <1>1 DEF ResWrites, ReadyOnes
<1>6. Current(res["sa"]) \in IssuedOnes => ResWrites("sa") \subseteq IssuedOnes
  BY <1>1 DEF ResWrites, IssuedOnes
<1>5. /\ Keeps(gcp', Machines) /\ (Exists(Cached(gcp)) => Exists(Current(gcp)))
      /\ Current(gcp) \in Machines => Current(gcp') \in Machines
  <2>1. gcp \in Window(GCPVersion) /\ Moves(gcp, gcp', GCPWrites) /\ GCPWrites \subseteq GCPVersion
    BY <1>1 DEF StoreType, StepMoves, GCPWrites
  <2>2. 1 \in 1..Len(gcp) /\ Cached(gcp) \in GCPVersion /\ Current(gcp) \in GCPVersion
    BY <2>1, RelistWindow
  <2>3. Exists(Cached(gcp)) => Exists(Current(gcp))
    <3>1. Cached(gcp) \in Machines => Current(gcp) \in Machines
      BY <2>1, <2>2, CachedKept DEF Cached, AccountInv
    <3> QED
      BY <2>2, <3>1 DEF Machines
  <2>4. GCPWrites \subseteq Machines
    <3> SUFFICES ASSUME NEW v \in GCPWrites PROVE Exists(v)
      BY DEF Machines, GCPWrites
    <3>1. CASE (Exists(Current(gcp)) \/ pc = "retryCreate") /\ v \in Remade
      BY <1>1, <3>1, RemadeType DEF Exists, AccountInv
    <3>2. CASE v.phase = "live"
      BY <3>2 DEF Exists
    <3>3. CASE Exists(Cached(gcp)) /\ \E s \in GCPSpecs(template, Cached(gcp).spec) : v = Patched(s)
      BY <2>2, <2>3, <3>3 DEF Exists, GCPVersion, Patched
    <3> QED
      BY <3>1, <3>2, <3>3 DEF GCPWrites
  <2> QED
    BY <2>1, <2>3, <2>4, MovesKeep DEF AccountInv
<1> QED
  BY <1>1, <1>2, <1>3, <1>4, <1>5, <1>6 DEF AccountInv

LEMMA InitAccount == Init => AccountInv
<1> SUFFICES ASSUME Init PROVE AccountInv
  OBVIOUS
<1>1. /\ \A x \in Resources : \A n \in 1..Len(res[x]) : ~Exists(res[x][n])
      /\ \A n \in 1..Len(gcp) : ~Exists(gcp[n])
      /\ {"sa", "secret"} \subseteq Resources
  <2>1. ~Exists(NoGCPInstance)
    BY FirstVersions DEF Exists
  <2> QED
    BY <2>1, FirstVersions, OneVersion DEF Init, Resources
<1>2. pc = "idle" /\ hand = {}
  BY DEF Init
<1> QED
  BY <1>1, <1>2 DEF AccountInv, Keeps, Standing, ReadyOnes, IssuedOnes, Machines

LEMMA NextAccount == TypeInv /\ AccountInv /\ [Next]_vars => AccountInv'
<1> SUFFICES ASSUME TypeInv, AccountInv, [Next]_vars PROVE AccountInv'
  OBVIOUS
<1>1. "sa" \in hand' => Current(res'["sa"]) \in IssuedOnes
  BY StageSteps, ResourcesStay DEF AccountInv
<1>7. pc' = "retryCreate" => Exists(Current(gcp'))
  <2>1. Current(gcp) \in Machines => Current(gcp') \in Machines
    BY ResourcesStay
  <2>2. Current(gcp) \in GCPVersion
    BY StoredVersions DEF TypeInv
  <2> QED
    BY <2>1, <2>2, StageSteps, ResourcesStay DEF AccountInv, Machines
<1>2. {"sa", "secret", "version", "iam"} \subseteq Resources
  BY DEF Resources
<1>3. pc' \in {"version", "iam"} => Current(res'["secret"]) \in ReadyOnes
  BY StageSteps, ResourcesStay DEF AccountInv
<1>4. pc' = "iam" => Current(res'["version"]) \in Standing
  BY <1>2, StageSteps, ResourcesStay DEF AccountInv
<1>5. pc' = "gcp" /\ Secrets(template') # {} =>
         /\ Current(res'["secret"]) \in ReadyOnes
         /\ Current(res'["version"]) \in Standing /\ Current(res'["iam"]) \in Standing
  BY <1>2, StageSteps, ResourcesStay DEF AccountInv
<1>6. Secrets(template)' = Secrets(template')
  BY DEF Secrets, RefsOf
<1> QED
  BY <1>1, <1>3, <1>4, <1>5, <1>6, <1>7, ResourcesStay DEF AccountInv
-----------------------------------------------------------------------------
(* User data: which templates give the same.                                 *)

\* A sequence of all elements of a finite set tells which set it was.
LEMMA SeqsSame ==
    ASSUME NEW S, IsFiniteSet(S), NEW f \in SetToSeqs(S)
    PROVE  S = {f[k] : k \in DOMAIN f}
<1>1. Cardinality(S) \in Nat
  BY FS_CardinalityType
<1>2. f \in Injection(1..Cardinality(S), S)
  BY DEF SetToSeqs, Injection, IsInjective
<1>3. Cardinality(1..Cardinality(S)) = Cardinality(S)
  BY <1>1, FS_Interval
<1>4. f \in Surjection(1..Cardinality(S), S)
  BY <1>2, <1>3, FS_Injection
<1> QED
  BY <1>4 DEF Surjection

\* The orders that the commands of a guest may come in.
Commands(t) == IF t.runtime = "sandbox" THEN {<<>>} ELSE SetToSeqs(MountParentDirs(t))

LEMMA NoCommand ==
    ASSUME NEW S, IsFiniteSet(S), <<>> \in SetToSeqs(S)
    PROVE  SetToSeqs(S) = {<<>>}
<1>1. S = {}
  <2>1. DOMAIN <<>> = {}
    OBVIOUS
  <2> QED
    BY <2>1, SeqsSame
<1>2. SetToSeqs(S) \subseteq [1..0 -> {}]
  BY <1>1, FS_EmptySet DEF SetToSeqs
<1>3. \A f, g \in [1..0 -> {}] : f = g
  OBVIOUS
<1> QED
  BY <1>2, <1>3

LEMMA DirsFinite ==
    ASSUME NEW t \in Templates
    PROVE  IsFiniteSet(MountParentDirs(t))
<1> DEFINE n == Len(t.attachments)
           dir == [k \in Mounts(t) |-> t.attachments[k].dir]
<1>1. n \in Nat /\ DOMAIN t.attachments = 1..n
  BY BuildAssumption
<1>2. IsFiniteSet(1..n) /\ Mounts(t) \subseteq 1..n
  BY <1>1, FS_Interval DEF Mounts
<1>3. IsFiniteSet(Mounts(t))
  BY <1>2, FS_Subset
<1>4. dir \in Surjection(Mounts(t), MountParentDirs(t))
  BY DEF Surjection, MountParentDirs
<1> QED
  BY <1>3, <1>4, FS_Surjection

LEMMA CommandsSame ==
    ASSUME NEW t \in Templates, NEW r \in Templates, NEW d \in Commands(t), d \in Commands(r)
    PROVE  Commands(t) = Commands(r)
<1>1. IsFiniteSet(MountParentDirs(t)) /\ IsFiniteSet(MountParentDirs(r))
  BY DirsFinite
<1>2. CASE t.runtime = "sandbox" \/ r.runtime = "sandbox"
  BY <1>1, <1>2, NoCommand DEF Commands
<1>3. CASE t.runtime # "sandbox" /\ r.runtime # "sandbox"
  <2>1. MountParentDirs(t) = MountParentDirs(r)
    BY <1>1, <1>3, SeqsSame DEF Commands
  <2> QED
    BY <1>3, <2>1 DEF Commands
<1> QED
  BY <1>2, <1>3

LEMMA FilesSame ==
    ASSUME NEW t \in Templates, NEW r \in Templates, NEW f \in FileOrders(t), f \in FileOrders(r)
    PROVE  FileOrders(t) = FileOrders(r)
<1>1. DOMAIN f = ConfigVolumes(t) /\ DOMAIN f = ConfigVolumes(r)
  BY DEF FileOrders
<1>2. ConfigVolumes(t) = ConfigVolumes(r)
  BY <1>1
<1> QED
  BY <1>2 DEF FileOrders

\* Two templates that can give the same user data always give the same.
LEMMA UserDataSame ==
    ASSUME NEW t \in Templates, NEW r \in Templates, NEW u \in UserData(t), u \in UserData(r)
    PROVE  UserData(t) \subseteq UserData(r)
<1> DEFINE Pod(p) == p.runtime = "sandbox"
           Offered(p) == IF Pod(p) THEN PodVolumes(p) ELSE {}
           Scripted(p) == Secrets(p) # {}
           Data(p, d, f) == [pod |-> Pod(p), mounts |-> GuestMounts(p), volumes |-> Offered(p),
                             mkdirs |-> d, files |-> f, script |-> Scripted(p)]
<1>1. \A p : UserData(p) = {Data(p, d, f) : d \in Commands(p), f \in FileOrders(p)}
  BY DEF UserData, Commands
<1>2. \A p, d, f : /\ Data(p, d, f).pod = Pod(p) /\ Data(p, d, f).mounts = GuestMounts(p)
                   /\ Data(p, d, f).volumes = Offered(p)
                   /\ Data(p, d, f).mkdirs = d /\ Data(p, d, f).files = f
                   /\ Data(p, d, f).script = Scripted(p)
  OBVIOUS
<1>3. PICK d \in Commands(t), f \in FileOrders(t) : u = Data(t, d, f)
  BY <1>1
<1>4. PICK e \in Commands(r), g \in FileOrders(r) : u = Data(r, e, g)
  BY <1>1
<1> HIDE DEF Data, Pod, Offered, Scripted
<1>5. /\ Pod(t) = Pod(r) /\ GuestMounts(t) = GuestMounts(r) /\ Offered(t) = Offered(r)
      /\ d = e /\ f = g /\ Scripted(t) = Scripted(r)
  <2>1. /\ u.pod = Pod(t) /\ u.mounts = GuestMounts(t) /\ u.volumes = Offered(t)
        /\ u.mkdirs = d /\ u.files = f /\ u.script = Scripted(t)
    BY <1>2, <1>3
  <2>2. /\ u.pod = Pod(r) /\ u.mounts = GuestMounts(r) /\ u.volumes = Offered(r)
        /\ u.mkdirs = e /\ u.files = g /\ u.script = Scripted(r)
    BY <1>2, <1>4
  <2> QED
    BY <2>1, <2>2
<1>6. Commands(t) = Commands(r) /\ FileOrders(t) = FileOrders(r)
  BY <1>3, <1>4, <1>5, CommandsSame, FilesSame
<1>7. \A c, h : Data(t, c, h) = Data(r, c, h)
  BY <1>5 DEF Data
<1> QED
  BY <1>1, <1>6, <1>7
-----------------------------------------------------------------------------
(* The order of the templates, and the values that come back.                *)

\* The template that the worker, or the next reconcile, goes by.
Reach == IF pc = "idle" THEN Cached(up).gen ELSE inst.gen

LEMMA ReachGrows ==
    ASSUME TypeInv, GenInv, [Next]_vars
    PROVE  /\ Reach \in DOMAIN plan /\ Reach' \in DOMAIN plan /\ Reach <= Reach'
           /\ Reach \in Nat \ {0} /\ Reach' \in Nat \ {0}
           /\ pc # "idle" => inst.gen = Reach
<1>1. /\ Cached(up).gen \in Nat \ {0} /\ inst.gen \in Nat \ {0} /\ Cached(up).gen <= Cached(up').gen
      /\ Cached(up).gen \in DOMAIN plan /\ inst.gen \in DOMAIN plan
      /\ DOMAIN plan = 1..Len(plan) /\ Len(plan) \in Nat
      /\ pc # "idle" => inst.gen <= Cached(up).gen
  BY NextGen, GenFacts, PlanType, StoredVersions DEF TypeInv, WorkType, UpVersion, GenInv
<1>2. Cached(up').gen \in DOMAIN plan /\ inst'.gen \in DOMAIN plan
  <2>1. TypeInv'
    BY NextType
  <2>2. up' \in Window(UpVersion') /\ DOMAIN plan' = DOMAIN plan /\ inst' \in UpVersion'
    BY <2>1, ScenarioSteps DEF TypeInv, StoreType, WorkType, plan
  <2>3. Cached(up') \in UpVersion'
    BY <2>2, RelistWindow
  <2> QED
    BY <2>2, <2>3 DEF UpVersion
<1>3. Cached(up').gen \in Nat \ {0} /\ inst'.gen \in Nat \ {0}
  BY <1>1, <1>2
<1>4. Reach <= Reach'
  <2>1. CASE pc' = "idle"
    <3>1. Reach' = Cached(up').gen /\ Reach <= Cached(up).gen /\ Reach \in Nat
      BY <1>1, <2>1 DEF Reach
    <3> QED
      BY <1>1, <1>3, <3>1
  <2>2. CASE pc' # "idle"
    <3>1. Reach' = inst'.gen /\ Reach \in Nat
      BY <1>1, <2>2 DEF Reach
    <3>2. \/ pc = "idle" /\ inst' = Cached(up)
          \/ pc # "idle" /\ UNCHANGED inst
      BY <2>2, GenSteps
    <3>3. Reach' = Reach
      BY <3>1, <3>2 DEF Reach
    <3> QED
      BY <3>1, <3>3
  <2> QED
    BY <2>1, <2>2
<1> QED
  BY <1>1, <1>2, <1>3, <1>4 DEF Reach

Offered == {"type", "user", "secrets", "bootVolume", "bootImage"}

LEMMA OffersDomain == \A t : DOMAIN Offers(t) = Offered
  BY DEF Offers, Offered

LEMMA OffersType ==
    ASSUME NEW t, NEW f, f = "type" PROVE Offers(t)[f] = {t.instanceType}
<1>1. Offers(t)["type"] = {t.instanceType}
  BY DEF Offers
<1> QED
  BY <1>1, Zenon

LEMMA OffersUser ==
    ASSUME NEW t, NEW f, f = "user" PROVE Offers(t)[f] = UserData(t)
<1>1. Offers(t)["user"] = UserData(t)
  BY DEF Offers
<1> QED
  BY <1>1, Zenon

LEMMA OffersSecrets ==
    ASSUME NEW t, NEW f, f = "secrets" PROVE Offers(t)[f] = {Secrets(t)}
<1>1. Offers(t)["secrets"] = {Secrets(t)}
  BY DEF Offers
<1> QED
  BY <1>1, Zenon

LEMMA OffersVolume ==
    ASSUME NEW t, NEW f, f = "bootVolume" PROVE Offers(t)[f] = {BootDisk(t, <<"", "">>)[1]}
<1>1. Offers(t)["bootVolume"] = {BootDisk(t, <<"", "">>)[1]}
  BY DEF Offers
<1> QED
  BY <1>1, Zenon

LEMMA OffersImage ==
    ASSUME NEW t, NEW f, f = "bootImage" PROVE Offers(t)[f] = {BootDisk(t, <<"", "">>)[2]}
<1>1. Offers(t)["bootImage"] = {BootDisk(t, <<"", "">>)[2]}
  BY DEF Offers
<1> QED
  BY <1>1, Zenon

\* Templates that can give a field the same value give it the same values.
LEMMA OffersSame ==
    ASSUME NEW t \in Templates, NEW r \in Templates, NEW f \in Offered, Alike(t, r, f)
    PROVE  Offers(t)[f] = Offers(r)[f]
<1>1. PICK x : x \in Offers(t)[f] /\ x \in Offers(r)[f]
  BY DEF Alike
<1>2. CASE f = "user"
  <2>1. x \in UserData(t) /\ x \in UserData(r)
    BY <1>1, <1>2, OffersUser
  <2>2. UserData(t) \subseteq UserData(r) /\ UserData(r) \subseteq UserData(t)
    BY <2>1, UserDataSame
  <2>3. UserData(t) = UserData(r)
    BY <2>2
  <2> QED
    BY <1>2, <2>3, OffersUser
<1>3. CASE f = "type"
  BY <1>1, <1>3, OffersType
<1>4. CASE f = "secrets"
  <2>1. Offers(t)[f] = {Secrets(t)} /\ Offers(r)[f] = {Secrets(r)}
    BY <1>4, OffersSecrets
  <2>2. x = Secrets(t) /\ x = Secrets(r)
    BY <1>1, <2>1, Zenon
  <2> QED
    BY <2>1, <2>2, Zenon
<1>5. CASE f = "bootVolume"
  <2>1. \A q : Offers(q)[f] = {BootDisk(q, <<"", "">>)[1]}
    BY <1>5, OffersVolume
  <2>2. x = BootDisk(t, <<"", "">>)[1] /\ x = BootDisk(r, <<"", "">>)[1]
    BY <1>1, <2>1, Zenon
  <2> QED
    BY <2>1, <2>2, Zenon
<1>6. CASE f = "bootImage"
  <2>1. \A q : Offers(q)[f] = {BootDisk(q, <<"", "">>)[2]}
    BY <1>6, OffersImage
  <2>2. x = BootDisk(t, <<"", "">>)[2] /\ x = BootDisk(r, <<"", "">>)[2]
    BY <1>1, <2>1, Zenon
  <2> QED
    BY <2>1, <2>2, Zenon
<1> QED
  BY <1>2, <1>3, <1>4, <1>5, <1>6 DEF Offered

\* Between two templates with the same value there are only such.
LEMMA Consecutive ==
    ASSUME ScenarioType, NoWayBack,
           NEW a \in DOMAIN plan, NEW h \in DOMAIN plan, NEW k \in DOMAIN plan, a <= h, h <= k,
           NEW f \in Offered, NEW x, x \in Offers(plan[a])[f], x \in Offers(plan[k])[f]
    PROVE  Offers(plan[h])[f] = Offers(plan[k])[f]
<1>1. /\ plan[a] \in Templates /\ plan[h] \in Templates /\ plan[k] \in Templates
      /\ a \in Nat /\ h \in Nat /\ k \in Nat
  BY PlanType
<1>2. Alike(plan[a], plan[k], f)
  BY DEF Alike
<1>3. Offers(plan[a])[f] = Offers(plan[k])[f]
  BY <1>1, <1>2, OffersSame
<1>4. CASE a = h \/ h = k
  BY <1>3, <1>4
<1>5. CASE a < h /\ h < k
  <2>1. f \in DOMAIN Offers(plan[a])
    BY OffersDomain
  <2>2. Alike(plan[a], plan[h], f)
    BY <1>2, <1>5, <2>1 DEF NoWayBack
  <2>3. Offers(plan[a])[f] = Offers(plan[h])[f]
    BY <1>1, <2>2, OffersSame
  <2> QED
    BY <1>3, <2>3
<1> QED
  BY <1>1, <1>4, <1>5

LEMMA WayStays ==
    ASSUME TypeInv, [Next]_vars
    PROVE  NoWayBack' <=> NoWayBack
<1>1. plan' = plan
  BY ScenarioSteps DEF plan
<1> QED
  BY <1>1 DEF NoWayBack
-----------------------------------------------------------------------------
(* The aggregated Secret.                                                    *)

\* Aggregated Secrets with the Secrets of template g, and with those of some
\* template up to w.
Holding(g) == {v \in ResourceVersion : Exists(v) /\ v.holds = Secrets(plan[g])}
Gathered(w) ==
    {v \in ResourceVersion : Exists(v) => \E a \in 1..w : v.holds = Secrets(plan[a])}

\* Behind its CreateOrUpdate the aggregated Secret at the server has the
\* Secrets of the template in hand, also if the cache was trusted: what was
\* stored since then came from a template between the one that wrote what the
\* cache shows and the one in hand, and none of these has other Secrets.
AggregatedInv ==
    NoWayBack =>
        /\ res["agg"] \in Window(Gathered(Reach))
        /\ \A k \in DOMAIN plan : Reach <= k => Keeps(res["agg"], Holding(k))
        /\ pc \in {"secret", "version", "iam"} \/ (pc = "gcp" /\ Secrets(template) # {})
              => Current(res["agg"]) \in Holding(inst.gen)

LEMMA InitAggregated == Init => AggregatedInv
<1> SUFFICES ASSUME Init PROVE AggregatedInv
  OBVIOUS
<1>1. /\ \A n \in 1..Len(res["agg"]) : ~Exists(res["agg"][n])
      /\ res["agg"] = <<NoResource>> /\ NoResource \in Gathered(Reach) /\ pc = "idle"
  BY FirstVersions, OneVersion DEF Init, Resources, Gathered
<1>2. res["agg"] \in Window(Gathered(Reach))
  BY <1>1, OneVersion
<1> QED
  BY <1>1, <1>2 DEF AggregatedInv, Keeps, Holding

\* An aggregated Secret that would do for a later template is only replaced by
\* one that does.
LEMMA HoldingKept ==
    ASSUME TypeInv, GenInv, [Next]_vars, AggregatedInv, NoWayBack, pc # "idle",
           NEW k \in DOMAIN plan, Reach <= k, Current(res["agg"]) \in Holding(k)
    PROVE  Aggregated \in Holding(k)
<1>1. /\ ScenarioType /\ WorkType /\ inst.gen = Reach /\ Reach \in DOMAIN plan
      /\ DOMAIN plan = 1..Len(plan) /\ Len(plan) \in Nat /\ Reach \in Nat
  BY ReachGrows, PlanType DEF TypeInv
<1>2. Current(res["agg"]) \in Gathered(Reach)
  BY RelistWindow DEF AggregatedInv
<1>3. PICK a \in 1..Reach : Current(res["agg"]).holds = Secrets(plan[a])
  BY <1>2 DEF Gathered, Holding
<1>4. Secrets(plan[a]) = Secrets(plan[k])
  BY <1>3 DEF Holding
<1>5. a \in DOMAIN plan /\ a <= Reach
  BY <1>1
<1>6. PICK f \in Offered : f = "secrets"
  BY DEF Offered
<1>7. /\ Offers(plan[a])[f] = {Secrets(plan[a])} /\ Offers(plan[k])[f] = {Secrets(plan[k])}
      /\ Offers(plan[Reach])[f] = {Secrets(plan[Reach])}
  BY <1>6, OffersSecrets
<1>8. Offers(plan[Reach])[f] = Offers(plan[k])[f]
  <2>1. Secrets(plan[k]) \in Offers(plan[a])[f] /\ Secrets(plan[k]) \in Offers(plan[k])[f]
    BY <1>4, <1>7
  <2> QED
    BY <1>1, <1>5, <2>1, Consecutive
<1>9. Secrets(plan[Reach]) = Secrets(plan[k])
  BY <1>7, <1>8
<1>10. template = plan[Reach]
  BY <1>1 DEF template
<1> QED
  BY <1>1, <1>9, <1>10, AggregatedType DEF Holding

LEMMA NextAggregated ==
    TypeInv /\ GenInv /\ AccountInv /\ AggregatedInv /\ [Next]_vars => AggregatedInv'
<1> SUFFICES ASSUME TypeInv, GenInv, AccountInv, AggregatedInv, [Next]_vars, NoWayBack
             PROVE  AggregatedInv'
  BY WayStays DEF AggregatedInv
<1> DEFINE V == ResWrites("agg")
<1>1. /\ ScenarioType /\ WorkType /\ plan' = plan /\ res["agg"] \in Window(ResourceVersion)
      /\ Moves(res["agg"], res'["agg"], V) /\ V \subseteq ResourceVersion
  BY NextMoves, ScenarioSteps
  DEF TypeInv, StoreType, StepMoves, ResMoves, ResWrites, Resources, plan
<1>2. /\ Aggregated \in Holding(inst.gen)
      /\ \A v \in V : pc \in {"agg", "createAgg"} /\ v = Aggregated
  BY <1>1, AggregatedType DEF ResWrites, Holding, Managed, template
<1>3. /\ Reach \in DOMAIN plan /\ Reach \in Nat \ {0} /\ Reach' \in Nat \ {0} /\ Reach <= Reach'
      /\ pc # "idle" => inst.gen = Reach
  BY ReachGrows
<1> HIDE DEF V
<1>4. res'["agg"] \in Window(Gathered(Reach'))
  <2>1. Gathered(Reach) \subseteq Gathered(Reach')
    <3>1. 1..Reach \subseteq 1..Reach'
      BY <1>3
    <3> QED
      BY <3>1 DEF Gathered
  <2>2. res["agg"] \in Window(Gathered(Reach'))
    BY <2>1, WindowGrows DEF AggregatedInv
  <2>3. Holding(Reach) \subseteq Gathered(Reach')
    <3>1. Reach \in 1..Reach'
      BY <1>3
    <3> QED
      BY <3>1 DEF Holding, Gathered
  <2>4. V \subseteq Gathered(Reach')
    BY <1>2, <1>3, <2>3
  <2> QED
    BY <1>1, <2>2, <2>4, MovesWindow
<1>5. ASSUME NEW k \in DOMAIN plan, Reach <= k PROVE Keeps(res'["agg"], Holding(k))
  <2>1. Current(res["agg"]) \in Holding(k) => V \subseteq Holding(k)
    BY <1>2, <1>5, HoldingKept
  <2>2. Keeps(res["agg"], Holding(k))
    BY <1>5 DEF AggregatedInv
  <2> QED
    BY <1>1, <2>1, <2>2, MovesKeep
\* A copy from the cache that needs no Update.
<1>6. ASSUME Cached(res["agg"]) = Aggregated, pc # "idle"
      PROVE  Current(res["agg"]) \in Holding(inst.gen)
  <2>1. Keeps(res["agg"], Holding(Reach)) /\ Cached(res["agg"]) \in Holding(Reach)
    BY <1>2, <1>3, <1>6 DEF AggregatedInv
  <2>2. 1 \in 1..Len(res["agg"])
    BY <1>1, RelistWindow
  <2> QED
    BY <1>1, <1>3, <1>6, <2>1, <2>2, CachedKept DEF Cached
<1>7. ASSUME \/ pc' \in {"secret", "version", "iam"}
             \/ pc' = "gcp" /\ Secrets(template') # {}
      PROVE  Current(res'["agg"]) \in Holding(inst.gen)
  <2>1. CASE \/ pc \in {"secret", "version", "iam"}
             \/ pc = "gcp" /\ Secrets(template) # {}
    <3>1. Current(res'["agg"]) \in V \cup {Current(res["agg"])}
      BY <1>1, MovesWindow
    <3>2. Current(res'["agg"]) = Current(res["agg"])
      BY <1>2, <2>1, <3>1
    <3> QED
      BY <2>1, <3>2 DEF AggregatedInv
  <2>2. CASE Current(res'["agg"]) = Aggregated
    BY <1>2, <2>2
  <2>3. CASE Cached(res["agg"]) = Aggregated /\ UNCHANGED res /\ pc' # "idle"
    <3>1. pc # "idle"
      BY <1>7, GenSteps
    <3> QED
      BY <1>6, <2>3, <3>1
  <2> QED
    BY <1>7, <2>1, <2>2, <2>3, StageSteps
<1>8. \A g : Holding(g)' = Holding(g)
  BY <1>1 DEF Holding, Secrets, RefsOf
<1>9. Gathered(Reach)' = Gathered(Reach')
  BY <1>1 DEF Gathered, Secrets, RefsOf
<1>10. Secrets(template)' = Secrets(template')
  BY DEF Secrets, RefsOf
<1>11. \A k \in DOMAIN plan : Reach' <= k => Reach <= k
  <2>1. DOMAIN plan \subseteq Nat
    BY <1>1, PlanType
  <2> QED
    BY <1>3, <2>1
<1>12. \A k \in DOMAIN plan' : Reach' <= k => Keeps(res'["agg"], Holding(k)')
  BY <1>1, <1>5, <1>8, <1>11
<1>13. Window(Gathered(Reach))' = Window(Gathered(Reach'))
  BY <1>9 DEF Window
<1>14. \/ pc' \in {"secret", "version", "iam"}
       \/ pc' = "gcp" /\ Secrets(template') # {}
       => Current(res'["agg"]) \in Holding(inst.gen)'
  <2>1. pc' \in {"secret", "version", "iam", "gcp"} => inst' = inst
    BY StageSteps
  <2>2. Holding(inst.gen)' = Holding(inst'.gen)
    BY <1>1 DEF Holding, Secrets, RefsOf
  <2> QED
    BY <1>7, <2>1, <2>2
<1> QED
  BY <1>4, <1>10, <1>12, <1>13, <1>14 DEF AggregatedInv

\* A machine is asked for only when its service account has been asked for
\* and, if it has Secrets, behind the chain that serves them: whatever the
\* caches lag behind, whoever else made the resources, and wherever a reconcile
\* broke off.  That the aggregated Secret has these Secrets needs the templates
\* not to go back to earlier ones.
THEOREM BuiltOnAccountAndSecretHolds == Spec => BuiltOnAccountAndSecret
<1> DEFINE Inv == TypeInv /\ GenInv /\ AccountInv /\ AggregatedInv
<1>1. Init => Inv
  BY InitType, InitGen, InitAccount, InitAggregated
<1>2. Inv /\ [Next]_vars => Inv'
  BY NextType, NextGen, NextAccount, NextAggregated
<1>3. Inv /\ [Next]_vars =>
         [~Exists(Machine) /\ Exists(Machine') =>
             /\ Current(res["sa"]).issued
             /\ Secrets(template) # {} =>
                   /\ NoWayBack => Secrets(template) \subseteq Current(res["agg"]).holds
                   /\ Current(res["secret"]).state = "ready"
                   /\ Exists(Current(res["version"])) /\ Exists(Current(res["iam"]))]_vars
  <2> SUFFICES ASSUME Inv, [Next]_vars, ~Exists(Current(gcp)), Exists(Current(gcp'))
               PROVE  /\ Current(res["sa"]).issued
                      /\ Secrets(template) # {} =>
                            /\ NoWayBack =>
                                  Secrets(template) \subseteq Current(res["agg"]).holds
                            /\ Current(res["secret"]).state = "ready"
                            /\ Exists(Current(res["version"])) /\ Exists(Current(res["iam"]))
    BY DEF Machine
  <2>1. gcp \in Window(GCPVersion) /\ Moves(gcp, gcp', GCPWrites) /\ GCPWrites \subseteq GCPVersion
    BY NextMoves DEF TypeInv, StoreType, StepMoves, GCPWrites
  <2>2. Current(gcp') \in GCPWrites
    BY <2>1, MovesWindow
  <2>3. pc = "gcp" /\ "sa" \in hand
    BY <2>2, ResourcesStay DEF GCPWrites, AccountInv
  <2> QED
    BY <2>3 DEF AccountInv, AggregatedInv, IssuedOnes, ReadyOnes, Standing, Holding, template
<1> QED
  BY <1>1, <1>2, <1>3, PTL DEF Spec, BuiltOnAccountAndSecret
-----------------------------------------------------------------------------
(* The spec of the GCP Instance, field by field, as the merge patch sends it. *)

Fields == {"type", "user", "bootVolume", "bootImage", "nics"}

\* The value x of a field is what the mutate function leaves for the template.
Fits(t, f, x) ==
    CASE f = "type"       -> x = t.instanceType
      [] f = "user"       -> x \in UserData(t)
      [] f = "bootVolume" -> BootVolumes(t) = {} \/ x = BootDisk(t, <<"", "">>)[1]
      [] f = "bootImage"  -> BootVolumes(t) = {} \/ x = BootDisk(t, <<"", "">>)[2]
      [] OTHER            -> x # 0 \/ Len(t.interfaces) = 0

\* What the mutate function makes of a spec.
LEMMA SpecFields ==
    ASSUME NEW t, NEW old, NEW s \in GCPSpecs(t, old)
    PROVE  /\ s.type = t.instanceType /\ s.user \in UserData(t)
           /\ s.bootVolume = (IF BootVolumes(t) = {} THEN old.bootVolume ELSE BootDisk(t, <<"", "">>)[1])
           /\ s.bootImage = (IF BootVolumes(t) = {} THEN old.bootImage ELSE BootDisk(t, <<"", "">>)[2])
           /\ s.nics = (IF old.nics = 0 THEN Len(t.interfaces) ELSE old.nics)
<1> DEFINE boot == BootDisk(t, <<old.bootVolume, old.bootImage>>)
<1>1. PICK u \in UserData(t) :
         s = [type |-> t.instanceType, user |-> u, bootVolume |-> boot[1],
              bootImage |-> boot[2], nics |-> Interfaces(t, old.nics)]
  BY DEF GCPSpecs
<1>2. /\ boot[1] = (IF BootVolumes(t) = {} THEN old.bootVolume ELSE BootDisk(t, <<"", "">>)[1])
      /\ boot[2] = (IF BootVolumes(t) = {} THEN old.bootImage ELSE BootDisk(t, <<"", "">>)[2])
  BY DEF BootDisk
<1> HIDE DEF boot
<1> QED
  BY <1>1, <1>2 DEF Interfaces

\* Such a spec fits in every field.
LEMMA SpecFits ==
    ASSUME NEW t, NEW old, NEW s \in GCPSpecs(t, old), NEW f \in Fields
    PROVE  Fits(t, f, s[f])
<1>1. /\ s.type = t.instanceType /\ s.user \in UserData(t)
      /\ BootVolumes(t) = {} \/ s.bootVolume = BootDisk(t, <<"", "">>)[1]
      /\ BootVolumes(t) = {} \/ s.bootImage = BootDisk(t, <<"", "">>)[2]
      /\ s.nics # 0 \/ Len(t.interfaces) = 0
  BY SpecFields
<1>2. CASE f = "type"
  BY <1>1, <1>2 DEF Fits
<1>3. CASE f = "user"
  BY <1>1, <1>3 DEF Fits
<1>4. CASE f = "bootVolume"
  BY <1>1, <1>4 DEF Fits
<1>5. CASE f = "bootImage"
  BY <1>1, <1>5 DEF Fits
<1>6. CASE f = "nics"
  BY <1>1, <1>6 DEF Fits
<1> QED
  BY <1>2, <1>3, <1>4, <1>5, <1>6 DEF Fields

\* A spec that fits in every field is left alone.
LEMMA FitsSpec ==
    ASSUME NEW t, NEW s \in GCPSpec, \A f \in Fields : Fits(t, f, s[f])
    PROVE  s \in GCPSpecs(t, s)
<1> DEFINE boot == BootDisk(t, <<s.bootVolume, s.bootImage>>)
<1>1. /\ s.type = t.instanceType /\ s.user \in UserData(t)
      /\ BootVolumes(t) = {} \/ s.bootVolume = BootDisk(t, <<"", "">>)[1]
      /\ BootVolumes(t) = {} \/ s.bootImage = BootDisk(t, <<"", "">>)[2]
      /\ s.nics # 0 \/ Len(t.interfaces) = 0
  BY DEF Fits, Fields
<1>2. boot[1] = s.bootVolume /\ boot[2] = s.bootImage
  BY <1>1 DEF BootDisk
<1>3. Interfaces(t, s.nics) = s.nics
  BY <1>1 DEF Interfaces
<1> HIDE DEF boot
<1>4. s = [type |-> t.instanceType, user |-> s.user, bootVolume |-> boot[1],
           bootImage |-> boot[2], nics |-> Interfaces(t, s.nics)]
  BY <1>1, <1>2, <1>3 DEF GCPSpec
<1> QED
  BY <1>1, <1>4 DEF GCPSpecs, boot

\* The fields but for the interfaces, which a patch never changes once they are
\* made.
Patchable == Fields \ {"nics"}

LEMMA FitsOffered ==
    ASSUME NEW t, NEW f \in Patchable, NEW x
    PROVE  /\ x \in Offers(t)[f] => Fits(t, f, x)
           /\ Fits(t, f, x) => x \in Offers(t)[f] \/ \A y : Fits(t, f, y)
<1>1. CASE f = "type"
  BY <1>1, OffersType DEF Fits
<1>2. CASE f = "user"
  <2>1. \A y : Fits(t, f, y) <=> y \in UserData(t)
    BY <1>2 DEF Fits
  <2> QED
    BY <1>2, <2>1, OffersUser, Zenon
<1>3. CASE f = "bootVolume"
  <2>1. \A y : Fits(t, f, y) <=> (BootVolumes(t) = {} \/ y = BootDisk(t, <<"", "">>)[1])
    BY <1>3 DEF Fits
  <2>2. Offers(t)[f] = {BootDisk(t, <<"", "">>)[1]}
    BY <1>3, OffersVolume
  <2> QED
    BY <2>1, <2>2, Zenon
<1>4. CASE f = "bootImage"
  <2>1. \A y : Fits(t, f, y) <=> (BootVolumes(t) = {} \/ y = BootDisk(t, <<"", "">>)[2])
    BY <1>4 DEF Fits
  <2>2. Offers(t)[f] = {BootDisk(t, <<"", "">>)[2]}
    BY <1>4, OffersImage
  <2> QED
    BY <2>1, <2>2, Zenon
<1> QED
  BY <1>1, <1>2, <1>3, <1>4 DEF Patchable, Fields

\* What differs from the copy, and is sent, comes from the template.
LEMMA SentOffered ==
    ASSUME NEW t, NEW old, NEW s \in GCPSpecs(t, old), NEW f \in Patchable
    PROVE  s[f] = old[f] \/ s[f] \in Offers(t)[f]
<1>1. /\ s.type = t.instanceType /\ s.user \in UserData(t)
      /\ s.bootVolume = (IF BootVolumes(t) = {} THEN old.bootVolume ELSE BootDisk(t, <<"", "">>)[1])
      /\ s.bootImage = (IF BootVolumes(t) = {} THEN old.bootImage ELSE BootDisk(t, <<"", "">>)[2])
  BY SpecFields
<1>2. CASE f = "type"
  BY <1>1, <1>2, OffersType
<1>3. CASE f = "user"
  BY <1>1, <1>3, OffersUser
<1>4. CASE f = "bootVolume"
  BY <1>1, <1>4, OffersVolume
<1>5. CASE f = "bootImage"
  BY <1>1, <1>5, OffersImage
<1> QED
  BY <1>2, <1>3, <1>4, <1>5 DEF Patchable, Fields

LEMMA FirstOffered ==
    ASSUME NEW t, NEW s \in GCPSpecs(t, NoGCPSpec), NEW f \in Patchable
    PROVE  s[f] \in Offers(t)[f]
<1>1. /\ s.type = t.instanceType /\ s.user \in UserData(t)
      /\ s.bootVolume = BootDisk(t, <<"", "">>)[1] /\ s.bootImage = BootDisk(t, <<"", "">>)[2]
  <2>1. CASE BootVolumes(t) = {}
    <3>1. BootDisk(t, <<"", "">>)[1] = "" /\ BootDisk(t, <<"", "">>)[2] = ""
      BY <2>1 DEF BootDisk
    <3>2. s.bootVolume = "" /\ s.bootImage = ""
      BY <2>1, SpecFields DEF NoGCPSpec
    <3> QED
      BY <3>1, <3>2, SpecFields
  <2>2. CASE BootVolumes(t) # {}
    BY <2>2, SpecFields
  <2> QED
    BY <2>1, <2>2
<1>2. CASE f = "type"
  BY <1>1, <1>2, OffersType
<1>3. CASE f = "user"
  BY <1>1, <1>3, OffersUser
<1>4. CASE f = "bootVolume"
  BY <1>1, <1>4, OffersVolume
<1>5. CASE f = "bootImage"
  BY <1>1, <1>5, OffersImage
<1> QED
  BY <1>2, <1>3, <1>4, <1>5 DEF Patchable, Fields
-----------------------------------------------------------------------------
(* Programmed: only with a machine that runs.                                *)

\* GCP Instances that Crossplane has made and GCP has not torn down.
Running == {v \in GCPVersion : Exists(v) /\ IsRunning(v)}

\* A machine that runs goes on running as far as its creation is concerned,
\* and was given its service account: that it was not is what Crossplane's
\* status shows, and the retry ends only when the account is there.
RunInv ==
    /\ Keeps(gcp, Running)
    /\ Current(gcp) \in Running => Current(res["sa"]) \in ReadyOnes
    /\ cond = "Programmed" => pc = "updateStatus" /\ Current(gcp) \in Running
    /\ Current(up).reason = "Programmed" => Current(gcp) \in Running

LEMMA InitRun == Init => RunInv
<1> SUFFICES ASSUME Init PROVE RunInv
  OBVIOUS
<1>1. /\ gcp = <<NoGCPInstance>> /\ Current(gcp) = NoGCPInstance /\ ~Exists(NoGCPInstance)
      /\ Current(up) = NoInstance /\ cond = "Unset" /\ NoInstance.reason # "Programmed"
  BY FirstVersions, OneVersion DEF Init, Exists, NoInstance
<1>2. \A n \in 1..Len(gcp) : ~Exists(gcp[n])
  BY <1>1, OneVersion
<1> QED
  BY <1>1, <1>2 DEF RunInv, Keeps, Running

\* When Programmed is about to be reported.
LEMMA CondSteps ==
    ASSUME TypeInv, [Next]_vars, cond = "Programmed" => pc = "updateStatus", cond' = "Programmed"
    PROVE  /\ pc # "idle" /\ pc' = "updateStatus" /\ UNCHANGED inst
           /\ cond = "Programmed" \/ PatchGCPInstance
<1>1. CASE PatchGCPInstance
  BY <1>1 DEF PatchGCPInstance, Building, Examine, Leave
<1>2. CASE ~PatchGCPInstance
  <2>1. pc' = "updateStatus" /\ cond = "Programmed"
    BY <1>2
    DEF Next, Worker, Reconcile, PoliciesDone, PolicyFails, CreateFirewall, CreateRefused,
        EnsureServiceAccount, EnsureNamespace, FindAnchor, CreateAnchor, CreateAggregated,
        UpdateAggregated, EnsureSecret, EnsureVersion, EnsureIAMMember, AwaitAccount, BuildFails,
        CreateGCPInstance, RetryCreate, UpdateStatus, CallFails, Restart, DeliverInstance,
        DeliverGCPInstance, UpdateDeployment, UpdateInstance, XPIssuesAccount, XPFailsAccount,
        XPCreatesMachine, XPRetriesMachine, DeliverResource, DeliverFirewall, Provide, XPSucceeds,
        Goto, Leave, Return, Idle, vars, work
  <2> QED
    BY <2>1, GenSteps
<1> QED
  BY <1>1, <1>2

\* The copy by which a machine is reported runs.
LEMMA PatchReports ==
    ASSUME PatchGCPInstance, cond # "Programmed", cond' = "Programmed"
    PROVE  \E s \in GCPSpecs(template, Cached(gcp).spec) :
              \/ s = Cached(gcp).spec /\ UNCHANGED gcp /\ IsRunning(Cached(gcp))
              \/ s # Cached(gcp).spec /\ gcp' = Write(gcp, Patched(s)) /\ IsRunning(Current(gcp))
<1>1. \A v, old : Examine(v, old) => IsRunning(v)
  BY DEF Examine, IsRunning, Leave
<1> QED
  BY <1>1 DEF PatchGCPInstance, WriteGcp, Patched

\* What is stored of a machine, taken apart.
LEMMA MachineWrites ==
    ASSUME TypeInv, AccountInv, NEW v \in GCPWrites
    PROVE  /\ v \in GCPVersion /\ Exists(v)
           /\ \/ Exists(Current(gcp)) /\ v.spec = Current(gcp).spec
              \/ ~Exists(Current(gcp)) /\ pc # "idle" /\ v.spec \in GCPSpecs(template, NoGCPSpec)
              \/ /\ Exists(Current(gcp)) /\ Exists(Cached(gcp)) /\ pc # "idle"
                 /\ \E s \in GCPSpecs(template, Cached(gcp).spec) :
                       s \in GCPSpec /\ v.spec = Patch(s, Cached(gcp).spec, Current(gcp).spec)
           /\ Current(gcp) \in Running => v \in Running
           /\ v \in Running => Current(gcp) \in Running \/ AccountThere
<1>1. /\ Current(gcp) \in GCPVersion /\ Cached(gcp) \in GCPVersion /\ v \in GCPVersion
      /\ template \in Templates /\ StoreType
  BY StoredVersions, AggregatedType DEF TypeInv, GCPWrites
<1>2. CASE /\ Exists(Current(gcp)) \/ pc = "retryCreate"
           /\ v \in Remade
           /\ IsRunning(Current(gcp)) => IsRunning(v)
           /\ IsRunning(v) => IsRunning(Current(gcp)) \/ AccountThere
  <2>1. Exists(Current(gcp))
    BY <1>2 DEF AccountInv
  <2>2. v.phase = Current(gcp).phase /\ v.spec = Current(gcp).spec
    BY <1>1, <1>2, RemadeType
  <2> QED
    BY <1>1, <1>2, <2>1, <2>2 DEF Exists, Running
<1>3. CASE /\ pc = "gcp" /\ "sa" \in hand /\ ~Exists(Current(gcp))
           /\ v.phase = "live" /\ ~v.ready /\ v.spec \in GCPSpecs(template, NoGCPSpec)
  BY <1>1, <1>3 DEF Exists, Running, IsRunning
<1>4. ASSUME pc = "gcp", Exists(Cached(gcp)), NEW s \in GCPSpecs(template, Cached(gcp).spec),
             v = Patched(s)
      PROVE  /\ Exists(v) /\ Exists(Current(gcp)) /\ s \in GCPSpec
             /\ v.spec = Patch(s, Cached(gcp).spec, Current(gcp).spec)
             /\ Current(gcp) \in Running <=> v \in Running
  <2>1. Exists(Current(gcp))
    <3>1. gcp \in Window(GCPVersion) /\ 1 \in 1..Len(gcp)
      BY RelistWindow DEF TypeInv, StoreType
    <3>2. Cached(gcp) \in Machines => Current(gcp) \in Machines
      BY <3>1, CachedKept DEF Cached, AccountInv
    <3> QED
      BY <1>1, <1>4, <3>2 DEF Machines
  <2>2. s \in GCPSpec
    <3>1. Cached(gcp).spec \in GCPSpec
      BY <1>1 DEF GCPVersion
    <3> QED
      BY <1>1, <3>1, SpecsType
  <2>3. /\ v.phase = Current(gcp).phase /\ v.ready = Current(gcp).ready
        /\ v.stopping = Current(gcp).stopping
        /\ v.spec = Patch(s, Cached(gcp).spec, Current(gcp).spec)
    BY <1>1, <1>4 DEF Patched, GCPVersion
  <2> QED
    BY <1>1, <2>1, <2>2, <2>3 DEF Exists, Running, IsRunning
<1> QED
  BY <1>1, <1>2, <1>3, <1>4 DEF GCPWrites, GCPVersion

\* What the cache shows of a machine with a lasting property is true, and
\* stays true.
LEMMA MachineKeeps ==
    ASSUME TypeInv, [Next]_vars, NEW P, Keeps(gcp, P), Current(gcp) \in P => GCPWrites \subseteq P
    PROVE  /\ Keeps(gcp', P)
           /\ Cached(gcp) \in P => Current(gcp) \in P
           /\ Current(gcp) \in P => Current(gcp') \in P
<1>1. /\ gcp \in Window(GCPVersion) /\ Moves(gcp, gcp', GCPWrites) /\ GCPWrites \subseteq GCPVersion
      /\ 1 \in 1..Len(gcp)
  BY NextMoves, RelistWindow DEF TypeInv, StoreType, StepMoves, GCPWrites
<1>2. Cached(gcp) \in P => Current(gcp) \in P
  BY <1>1, CachedKept DEF Cached
<1> QED
  BY <1>1, <1>2, MovesKeep

LEMMA NextRun == TypeInv /\ AccountInv /\ RunInv /\ [Next]_vars => RunInv'
<1> SUFFICES ASSUME TypeInv, AccountInv, RunInv, [Next]_vars PROVE RunInv'
  OBVIOUS
<1>1. /\ WorkType /\ Cached(gcp) \in GCPVersion /\ Current(gcp) \in GCPVersion
      /\ Current(res["sa"]) \in ResourceVersion
  BY StoredVersions DEF TypeInv, Resources
<1>2. /\ Keeps(gcp', Running)
      /\ Cached(gcp) \in Running => Current(gcp) \in Running
      /\ Current(gcp) \in Running => Current(gcp') \in Running
  <2>1. Current(gcp) \in Running => GCPWrites \subseteq Running
    BY MachineWrites
  <2> QED
    BY <2>1, MachineKeeps DEF RunInv
<1>3. ASSUME Current(gcp') \in Running PROVE Current(res'["sa"]) \in ReadyOnes
  <2>1. gcp \in Window(GCPVersion) /\ Moves(gcp, gcp', GCPWrites) /\ GCPWrites \subseteq GCPVersion
    BY NextMoves DEF TypeInv, StoreType, StepMoves, GCPWrites
  <2>2. Current(gcp') \in GCPWrites \cup {Current(gcp)}
    BY <2>1, MovesWindow
  <2>3. Current(gcp) \in Running \/ AccountThere
    BY <1>3, <2>2, MachineWrites
  <2>4. Current(res["sa"]) \in ReadyOnes
    BY <1>1, <2>3 DEF RunInv, AccountThere, ReadyOnes
  <2> QED
    BY <2>4, ResourcesStay
<1>4. ASSUME cond' = "Programmed" PROVE pc' = "updateStatus" /\ Current(gcp') \in Running
  <2>1. pc' = "updateStatus" /\ (cond = "Programmed" \/ PatchGCPInstance)
    BY <1>4, CondSteps DEF RunInv
  <2>2. CASE cond = "Programmed"
    BY <1>2, <2>1, <2>2 DEF RunInv
  <2>3. CASE cond # "Programmed" /\ PatchGCPInstance
    <3>1. IsRunning(Cached(gcp)) \/ IsRunning(Current(gcp))
      BY <1>4, <2>3, PatchReports
    <3>2. Exists(Cached(gcp)) /\ Exists(Current(gcp))
      BY <2>3, ResourcesStay DEF PatchGCPInstance
    <3> QED
      BY <1>1, <1>2, <2>1, <3>1, <3>2 DEF Running
  <2> QED
    BY <2>1, <2>2, <2>3
<1>5. ASSUME Current(up').reason = "Programmed" PROVE Current(gcp') \in Running
  <2>1. /\ up \in Window(UpVersion) /\ Moves(up, up', UpWrites) /\ UpWrites \subseteq UpVersion
    BY NextMoves DEF TypeInv, StoreType, StepMoves, UpWrites
  <2>2. Current(up') \in UpWrites \cup {Current(up)} /\ Current(up) \in UpVersion
    BY <2>1, MovesWindow, RelistWindow
  <2>3. Current(up').reason = Current(up).reason \/ Current(up').reason = cond
    BY <1>1, <2>2 DEF UpWrites, Reported, UpVersion, WorkType
  <2> QED
    BY <1>2, <1>5, <2>3 DEF RunInv
<1>6. Running' = Running
  BY DEF Running
<1> QED
  BY <1>2, <1>3, <1>4, <1>5, <1>6 DEF RunInv

\* Nobody is told that an Instance is programmed whose machine GCP has torn
\* down because the service account was not there in time, although the
\* annotation that the reconciler waits for does not say that it is.
THEOREM ProgrammedMeansRunningHolds == Spec => []ProgrammedMeansRunning
<1>1. Init => TypeInv /\ AccountInv /\ RunInv
  BY InitType, InitAccount, InitRun
<1>2. TypeInv /\ AccountInv /\ RunInv /\ [Next]_vars => (TypeInv /\ AccountInv /\ RunInv)'
  BY NextType, NextAccount, NextRun
<1>3. RunInv => ProgrammedMeansRunning
  BY DEF RunInv, ProgrammedMeansRunning, Machine, Running, IsRunning, AccountThere, ReadyOnes
<1> QED
  BY <1>1, <1>2, <1>3, PTL DEF Spec
-----------------------------------------------------------------------------
(* Programmed: only with a machine that was built from the template.         *)

\* GCP Instances whose field f fits template g, those that fit it in all, and
\* those with nothing but what templates up to w gave.
Fitting(g, f) == {v \in GCPVersion : Exists(v) /\ Fits(plan[g], f, v.spec[f])}
Good(g) == {v \in GCPVersion : Exists(v) /\ \A f \in Fields : Fits(plan[g], f, v.spec[f])}
Made(w) ==
    {v \in GCPVersion : Exists(v) =>
        \A f \in Patchable : \E a \in 1..w : v.spec[f] \in Offers(plan[a])[f]}

\* The server may be ahead of the copy that a patch is made from.  What the
\* patch leaves out because the copy has it already is then no worse: as long
\* as no field goes back, one that fits a template that is yet to come, or the
\* one in hand, fits it until then.
SpecInv ==
    NoWayBack =>
        /\ gcp \in Window(Made(Reach))
        /\ \A k \in DOMAIN plan : Reach <= k => \A f \in Fields : Keeps(gcp, Fitting(k, f))
        /\ cond = "Programmed" => Current(gcp) \in Good(inst.gen)
        /\ LET v == Current(up) IN
           v.reason = "Programmed" /\ v.obs = v.gen => Current(gcp) \in Good(v.gen)

LEMMA InitSpec == Init => SpecInv
<1> SUFFICES ASSUME Init PROVE SpecInv
  OBVIOUS
<1>1. /\ gcp = <<NoGCPInstance>> /\ Current(up) = NoInstance /\ cond = "Unset"
      /\ ~Exists(NoGCPInstance) /\ NoInstance.reason # "Programmed"
      /\ NoGCPInstance \in GCPVersion
  BY FirstVersions, OneVersion DEF Init, Exists, NoInstance
<1>2. \A n \in 1..Len(gcp) : ~Exists(gcp[n])
  BY <1>1, OneVersion
<1>3. NoGCPInstance \in Made(Reach)
  BY <1>1 DEF Made
<1>4. gcp \in Window(Made(Reach))
  BY <1>1, <1>3, OneVersion
<1> QED
  BY <1>1, <1>2, <1>4 DEF SpecInv, Keeps, Fitting

\* What is stored of a machine is put together from what templates gave.
LEMMA MadeWrites ==
    ASSUME TypeInv, GenInv, [Next]_vars, AccountInv, gcp \in Window(Made(Reach)), NEW v \in GCPWrites
    PROVE  v \in Made(Reach)
<1>1. /\ Current(gcp) \in Made(Reach) /\ Current(gcp).spec \in GCPSpec /\ Cached(gcp).spec \in GCPSpec
      /\ v \in GCPVersion /\ Reach \in 1..Reach
      /\ pc # "idle" => template = plan[Reach]
  <2>1. Current(gcp) \in Made(Reach)
    BY RelistWindow
  <2>2. Reach \in 1..Reach /\ (pc # "idle" => template = plan[Reach])
    BY ReachGrows DEF template
  <2>3. Current(gcp) \in GCPVersion /\ Cached(gcp) \in GCPVersion
    BY StoredVersions DEF TypeInv
  <2> QED
    BY <2>1, <2>2, <2>3, MachineWrites DEF GCPVersion
<1> SUFFICES ASSUME NEW f \in Patchable PROVE \E a \in 1..Reach : v.spec[f] \in Offers(plan[a])[f]
  BY <1>1 DEF Made
<1>2. ASSUME Exists(Current(gcp)), v.spec[f] = Current(gcp).spec[f]
      PROVE  \E a \in 1..Reach : v.spec[f] \in Offers(plan[a])[f]
  BY <1>1, <1>2 DEF Made
<1>3. CASE Exists(Current(gcp)) /\ v.spec = Current(gcp).spec
  BY <1>2, <1>3
<1>4. CASE pc # "idle" /\ v.spec \in GCPSpecs(template, NoGCPSpec)
  BY <1>1, <1>4, FirstOffered
<1>5. ASSUME Exists(Current(gcp)), pc # "idle",
             NEW s \in GCPSpecs(template, Cached(gcp).spec), s \in GCPSpec,
             v.spec = Patch(s, Cached(gcp).spec, Current(gcp).spec)
      PROVE  \E a \in 1..Reach : v.spec[f] \in Offers(plan[a])[f]
  <2>1. v.spec[f] = (IF s[f] = Cached(gcp).spec[f] THEN Current(gcp).spec[f] ELSE s[f])
    BY <1>1, <1>5 DEF Patch, GCPSpec, Patchable, Fields
  <2>2. s[f] = Cached(gcp).spec[f] \/ s[f] \in Offers(template)[f]
    BY SentOffered
  <2> QED
    BY <1>1, <1>2, <1>5, <2>1, <2>2
<1> QED
  BY <1>3, <1>4, <1>5, MachineWrites

\* A field that fits a template that is not behind keeps fitting it.
LEMMA FittingWrites ==
    ASSUME TypeInv, GenInv, [Next]_vars, AccountInv, SpecInv, NoWayBack,
           NEW k \in DOMAIN plan, Reach <= k, NEW f \in Fields,
           Current(gcp) \in Fitting(k, f), NEW v \in GCPWrites
    PROVE  v \in Fitting(k, f)
<1>1. /\ Current(gcp).spec \in GCPSpec /\ Cached(gcp).spec \in GCPSpec
      /\ Exists(Current(gcp)) /\ Fits(plan[k], f, Current(gcp).spec[f])
      /\ v \in GCPVersion /\ Exists(v)
  <2>1. Current(gcp) \in GCPVersion /\ Cached(gcp) \in GCPVersion
    BY StoredVersions DEF TypeInv
  <2> QED
    BY <2>1, MachineWrites DEF Fitting, GCPVersion
<1>2. /\ ScenarioType /\ Reach \in DOMAIN plan /\ Reach \in Nat
      /\ DOMAIN plan = 1..Len(plan) /\ Len(plan) \in Nat
      /\ pc # "idle" => template = plan[Reach]
  BY ReachGrows, PlanType DEF TypeInv, template
<1>3. ASSUME v.spec[f] = Current(gcp).spec[f] PROVE v \in Fitting(k, f)
  BY <1>1, <1>3 DEF Fitting
<1>4. CASE v.spec = Current(gcp).spec
  BY <1>3, <1>4
<1>5. ASSUME pc # "idle", NEW s \in GCPSpecs(template, Cached(gcp).spec), s \in GCPSpec,
             v.spec = Patch(s, Cached(gcp).spec, Current(gcp).spec)
      PROVE  v \in Fitting(k, f)
  <2>1. v.spec[f] = (IF s[f] = Cached(gcp).spec[f] THEN Current(gcp).spec[f] ELSE s[f])
    BY <1>1, <1>5 DEF Patch, GCPSpec, Fields
  <2>2. CASE s[f] = Cached(gcp).spec[f]
    BY <1>3, <2>1, <2>2
  <2>3. CASE f = "nics" /\ s[f] # Cached(gcp).spec[f]
    <3>1. s.nics # 0
      <4>1. ASSUME NEW t, NEW old, NEW r \in GCPSpecs(t, old), r.nics # old.nics
            PROVE  r.nics # 0
        BY <4>1, SpecFields
      <4> QED
        BY <1>5, <2>3, <4>1
    <3> QED
      BY <1>1, <2>1, <2>3, <3>1 DEF Fitting, Fits
  <2>4. CASE f \in Patchable /\ s[f] # Cached(gcp).spec[f]
    <3>1. v.spec[f] \in Offers(plan[Reach])[f]
      BY <1>2, <1>5, <2>1, <2>4, SentOffered
    <3>2. CASE \A y : Fits(plan[k], f, y)
      BY <1>1, <3>2 DEF Fitting
    <3>3. CASE Current(gcp).spec[f] \in Offers(plan[k])[f]
      <4>1. Current(gcp) \in Made(Reach)
        BY RelistWindow DEF SpecInv
      <4>2. PICK a \in 1..Reach : Current(gcp).spec[f] \in Offers(plan[a])[f]
        BY <1>1, <2>4, <4>1 DEF Made
      <4>3. a \in DOMAIN plan /\ a <= Reach /\ f \in Offered
        BY <1>2, <2>4 DEF Patchable, Fields, Offered
      <4>4. Offers(plan[Reach])[f] = Offers(plan[k])[f]
        BY <1>2, <3>3, <4>2, <4>3, Consecutive
      <4>5. Fits(plan[k], f, v.spec[f])
        BY <2>4, <3>1, <4>4, FitsOffered
      <4> QED
        BY <1>1, <4>5 DEF Fitting
    <3> QED
      BY <1>1, <2>4, <3>2, <3>3, FitsOffered
  <2> QED
    BY <2>2, <2>3, <2>4 DEF Patchable
<1> QED
  BY <1>1, <1>4, <1>5, MachineWrites

LEMMA MachineSteps ==
    ASSUME TypeInv, GenInv, [Next]_vars, AccountInv, SpecInv, NoWayBack
    PROVE  /\ gcp' \in Window(Made(Reach'))
           /\ \A k \in DOMAIN plan : Reach <= k => \A f \in Fields :
                 /\ Keeps(gcp', Fitting(k, f))
                 /\ Cached(gcp) \in Fitting(k, f) => Current(gcp) \in Fitting(k, f)
                 /\ Current(gcp) \in Fitting(k, f) => Current(gcp') \in Fitting(k, f)
<1>1. Moves(gcp, gcp', GCPWrites) /\ gcp \in Window(Made(Reach))
  BY NextMoves DEF StepMoves, SpecInv
<1>2. gcp' \in Window(Made(Reach'))
  <2>1. 1..Reach \subseteq 1..Reach'
    BY ReachGrows
  <2>2. Made(Reach) \subseteq Made(Reach')
    BY <2>1 DEF Made
  <2>3. GCPWrites \subseteq Made(Reach)
    BY <1>1, MadeWrites
  <2>4. gcp \in Window(Made(Reach')) /\ GCPWrites \subseteq Made(Reach')
    BY <1>1, <2>2, <2>3, WindowGrows
  <2> QED
    BY <1>1, <2>4, MovesWindow
<1>3. ASSUME NEW k \in DOMAIN plan, Reach <= k, NEW f \in Fields
      PROVE  /\ Keeps(gcp, Fitting(k, f))
             /\ Current(gcp) \in Fitting(k, f) => GCPWrites \subseteq Fitting(k, f)
  BY <1>3, FittingWrites DEF SpecInv
<1> QED
  BY <1>2, <1>3, MachineKeeps

LEMMA NextSpec ==
    TypeInv /\ GenInv /\ AccountInv /\ RunInv /\ SpecInv /\ [Next]_vars => SpecInv'
<1> SUFFICES ASSUME TypeInv, GenInv, AccountInv, RunInv, SpecInv, [Next]_vars, NoWayBack
             PROVE  SpecInv'
  BY WayStays DEF SpecInv
<1>1. /\ ScenarioType /\ WorkType /\ plan' = plan /\ inst.gen \in DOMAIN plan
      /\ DOMAIN plan = 1..Len(plan) /\ Len(plan) \in Nat
      /\ Cached(gcp) \in GCPVersion /\ Current(gcp) \in GCPVersion
      /\ Current(gcp') \in GCPVersion
  <2>1. gcp' \in Window(GCPVersion)
    <3>1. StoreType' /\ GCPVersion' = GCPVersion
      BY StoreSteps DEF GCPVersion, GCPSpec
    <3> QED
      BY <3>1 DEF StoreType
  <2>2. Current(gcp') \in GCPVersion
    BY <2>1, RelistWindow
  <2> QED
    BY <2>2, PlanType, ScenarioSteps, StoredVersions DEF TypeInv, WorkType, UpVersion, plan
<1>2. /\ Reach \in Nat /\ Reach' \in Nat /\ Reach <= Reach' /\ (pc # "idle" => inst.gen = Reach)
      /\ DOMAIN plan \subseteq Nat
  BY <1>1, ReachGrows
\* What was good stays good, for the worker and for a reader of the status.
<1>3. ASSUME NEW g \in DOMAIN plan, Reach <= g, Current(gcp) \in Good(g)
      PROVE  Current(gcp') \in Good(g)
  <2>1. ASSUME NEW f \in Fields PROVE Current(gcp') \in Fitting(g, f)
    <3>1. Current(gcp) \in Fitting(g, f)
      BY <1>3 DEF Good, Fitting
    <3> QED
      BY <1>3, <3>1, MachineSteps
  <2>2. "type" \in Fields
    BY DEF Fields
  <2> QED
    BY <2>1, <2>2 DEF Good, Fitting
<1>4. ASSUME cond' = "Programmed" PROVE Current(gcp') \in Good(inst.gen) /\ UNCHANGED inst
  <2>1. /\ pc # "idle" /\ pc' = "updateStatus" /\ UNCHANGED inst
        /\ cond = "Programmed" \/ PatchGCPInstance
    BY <1>4, CondSteps DEF RunInv
  <2>2. inst.gen = Reach /\ Reach <= inst.gen
    BY <1>2, <2>1
  <2>3. CASE cond = "Programmed"
    BY <1>1, <1>3, <2>1, <2>2, <2>3 DEF SpecInv
  <2>4. CASE cond # "Programmed" /\ PatchGCPInstance
    <3>1. PICK s \in GCPSpecs(template, Cached(gcp).spec) :
             \/ s = Cached(gcp).spec /\ UNCHANGED gcp
             \/ s # Cached(gcp).spec /\ gcp' = Write(gcp, Patched(s))
      BY <1>4, <2>4, PatchReports
    <3>2. Exists(Cached(gcp)) /\ Exists(Current(gcp)) /\ template = plan[inst.gen]
      BY <2>4, ResourcesStay DEF PatchGCPInstance, template
    <3>3. s \in GCPSpec
      <4>1. Cached(gcp).spec \in GCPSpec /\ template \in Templates
        BY <1>1, AggregatedType DEF GCPVersion
      <4> QED
        BY <4>1, SpecsType
    <3>4. ASSUME NEW f \in Fields PROVE Current(gcp') \in Fitting(inst.gen, f)
      <4>1. Fits(plan[inst.gen], f, s[f])
        BY <3>2, SpecFits
      <4>2. CASE s[f] = Cached(gcp).spec[f]
        <5>1. Cached(gcp) \in Fitting(inst.gen, f)
          BY <1>1, <3>2, <4>1, <4>2 DEF Fitting
        <5> QED
          BY <1>1, <2>2, <5>1, MachineSteps
      <4>3. CASE s[f] # Cached(gcp).spec[f]
        <5>1. gcp' = Write(gcp, Patched(s))
          BY <3>1, <4>3
        <5>2. Current(gcp') = Patched(s)
          <6>1. gcp \in Window(GCPVersion)
            BY DEF TypeInv, StoreType
          <6>2. Len(gcp) \in Nat /\ gcp \in Seq(GCPVersion)
            BY <6>1 DEF Window
          <6> QED
            BY <5>1, <6>2 DEF Write, Current
        <5>3. /\ Current(gcp').spec = Patch(s, Cached(gcp).spec, Current(gcp).spec)
              /\ Exists(Current(gcp'))
          BY <1>1, <3>2, <5>2 DEF Patched, GCPVersion, Exists
        <5>4. Current(gcp').spec[f] = s[f]
          BY <3>3, <4>3, <5>3 DEF Patch, GCPSpec, Fields
        <5> QED
          BY <1>1, <4>1, <5>3, <5>4 DEF Fitting
      <4> QED
        BY <4>2, <4>3
    <3>5. "type" \in Fields
      BY DEF Fields
    <3> QED
      BY <2>1, <3>4, <3>5 DEF Good, Fitting
  <2> QED
    BY <2>1, <2>3, <2>4
<1>5. ASSUME Current(up').reason = "Programmed", Current(up').obs = Current(up').gen
      PROVE  Current(gcp') \in Good(Current(up').gen)
  <2> DEFINE v == Current(up')
  <2>1. /\ up \in Window(UpVersion) /\ Moves(up, up', UpWrites) /\ UpWrites \subseteq UpVersion
    BY NextMoves DEF TypeInv, StoreType, StepMoves, UpWrites
  <2>2. v \in UpWrites \cup {Current(up)} /\ v \in UpVersion /\ v.gen \in DOMAIN plan
    <3>1. up' \in Window(UpVersion) /\ v \in UpWrites \cup {Current(up)}
      BY <2>1, MovesWindow
    <3>2. v \in UpVersion
      BY <3>1, RelistWindow
    <3> QED
      BY <3>1, <3>2 DEF UpVersion
  <2>3. Reach <= v.gen
    <3>1. TypeInv' /\ GenInv'
      BY NextType, NextGen
    <3>2. Behind'
      BY <3>1, CopyBehind, PTL
    <3>3. Reach' <= v.gen
      BY <3>2 DEF Behind, Reach
    <3> QED
      BY <1>2, <2>2, <3>3
  <2>4. CASE v = Current(up)
    <3>1. Current(gcp) \in Good(v.gen)
      BY <1>5, <2>4 DEF SpecInv
    <3> QED
      BY <1>3, <2>2, <2>3, <3>1
  <2>5. CASE Current(up).gen < Len(plan) /\ v = [Current(up) EXCEPT !.gen = @ + 1]
    <3>1. /\ Current(up) \in UpVersion /\ Current(up).obs \in Nat /\ Current(up).gen \in Nat
          /\ Current(up).obs <= Current(up).gen
      BY GenFacts
    <3>2. v.obs = Current(up).obs /\ v.gen = Current(up).gen + 1
      BY <2>5, <3>1 DEF UpVersion
    <3>3. v.obs # v.gen
      BY <3>1, <3>2
    <3> QED
      BY <1>5, <3>3
  <2>6. CASE pc = "updateStatus" /\ v = Reported
    <3>1. v.gen = inst.gen /\ v.reason = cond
      BY <1>1, <2>6 DEF Reported, WorkType, UpVersion
    <3>2. Current(gcp) \in Good(v.gen)
      BY <1>5, <3>1 DEF SpecInv
    <3> QED
      BY <1>3, <2>2, <2>3, <3>2
  <2> QED
    BY <2>2, <2>4, <2>5, <2>6 DEF UpWrites
<1>6. ASSUME NEW k \in DOMAIN plan, Reach' <= k, NEW f \in Fields PROVE Keeps(gcp', Fitting(k, f))
  <2>1. Reach <= k
    BY <1>2, <1>6
  <2> QED
    BY <2>1, MachineSteps
<1>7. /\ \A g, f : Fitting(g, f)' = Fitting(g, f)
      /\ \A g : Good(g)' = Good(g)
  BY <1>1 DEF Fitting, Good, Fits
<1>8. Window(Made(Reach))' = Window(Made(Reach'))
  <2>1. Made(Reach)' = Made(Reach')
    BY <1>1 DEF Made
  <2> QED
    BY <2>1 DEF Window
<1>9. /\ Good(inst.gen)' = Good(inst'.gen)
      /\ Good(Current(up).gen)' = Good(Current(up').gen)
  BY <1>1 DEF Good, Fits
<1>10. \A k \in DOMAIN plan' : Reach' <= k => \A f \in Fields : Keeps(gcp', Fitting(k, f)')
  BY <1>1, <1>6, <1>7
<1>11. gcp' \in Window(Made(Reach))'
  BY <1>8, MachineSteps
<1>12. cond' = "Programmed" => Current(gcp') \in Good(inst.gen)'
  BY <1>4, <1>9
<1>13. Current(up').reason = "Programmed" /\ Current(up').obs = Current(up').gen
          => Current(gcp') \in Good(Current(up).gen)'
  BY <1>5, <1>9
<1> QED
  BY <1>10, <1>11, <1>12, <1>13 DEF SpecInv

\* What a user reads in the status is so: the spec of the machine is what the
\* reconciler makes of the template of that generation, although the worker
\* patched it by a copy that the cache may have shown it late.  The templates
\* may change any number of times, but not back to what they were before.
THEOREM ProgrammedMeansBuiltHolds == Spec => []ProgrammedMeansBuilt
<1> DEFINE Inv == TypeInv /\ GenInv /\ AccountInv /\ RunInv /\ SpecInv
<1>1. Init => Inv
  BY InitType, InitGen, InitAccount, InitRun, InitSpec
<1>2. Inv /\ [Next]_vars => Inv'
  BY NextType, NextGen, NextAccount, NextRun, NextSpec
<1>3. Inv => ProgrammedMeansBuilt
  <2> SUFFICES ASSUME Inv, Current(up).reason = "Programmed",
                      Current(up).obs = Current(up).gen, NoWayBack
               PROVE  /\ Current(up).hash = Current(up).gen
                      /\ Current(gcp).spec \in GCPSpecs(plan[Current(up).gen], Current(gcp).spec)
    BY DEF ProgrammedMeansBuilt, Machine
  <2>1. Current(up).hash = Current(up).gen
    BY GenFacts DEF GenInv, Current
  <2>2. Current(gcp) \in Good(Current(up).gen)
    BY DEF SpecInv
  <2>3. Current(gcp).spec \in GCPSpec
    BY <2>2 DEF Good, GCPVersion
  <2> QED
    BY <2>1, <2>2, <2>3, FitsSpec DEF Good
<1> QED
  BY <1>1, <1>2, <1>3, PTL DEF Spec
-----------------------------------------------------------------------------
(* The guest: what it is told to mount is there.                             *)

\* What GuestComplete says of one version of the user data.
Complete(u) ==
    \A m \in u.mounts :
        /\ u.pod => \E p \in u.volumes : p[2] = m[2]
        /\ m[2][1] = "configmap" =>
              \E p \in DOMAIN u.files : p[2] = m[2][2] /\ Range(u.files[p]) = Keys[p[2]]
        /\ m[2][1] = "secret" => u.script

\* The volume of a mount is one of the template's.
LEMMA VolumeFound ==
    ASSUME NEW t, NEW k \in Mounts(t)
    PROVE  VolumeOf(t, t.attachments[k]) \in Range(t.volumes)
  BY DEF VolumeOf, Mounts

\* The elements of a Numbered list.
LEMMA NumberedElements ==
    ASSUME NEW s, NEW S
    PROVE  /\ \A p \in Numbered(s, S) : \E k \in S : p[2] = s[k]
           /\ \A k \in S : \E p \in Numbered(s, S) : p[2] = s[k]
<1> DEFINE place(k) == Cardinality({j \in S : j <= k})
<1>1. Numbered(s, S) = {<<place(k), s[k]>> : k \in S}
  BY DEF Numbered
<1> HIDE DEF place
<1>2. \A k \in S : <<place(k), s[k]>>[2] = s[k]
  OBVIOUS
<1> QED
  BY <1>1, <1>2

\* A template whose volumes have been gone through gives complete user data:
\* every mount has a volume, and a disk among them has a file system.
LEMMA PreparedComplete ==
    ASSUME NEW t \in Templates, Preparation(t) = "ok", NEW u \in UserData(t)
    PROVE  Complete(u)
<1>1. \A k \in Mounts(t) : Handling(t, t.attachments[k]) = "ok"
  BY DEF Preparation
<1>2. /\ u.pod => u.volumes = PodVolumes(t)
      /\ u.mounts = GuestMounts(t)
      /\ u.files \in FileOrders(t) /\ u.script = (Secrets(t) # {})
  <2> DEFINE pod == t.runtime = "sandbox"
             Data(d, f) == [pod |-> pod, mounts |-> GuestMounts(t),
                            volumes |-> IF pod THEN PodVolumes(t) ELSE {},
                            mkdirs |-> d, files |-> f, script |-> Secrets(t) # {}]
  <2>1. UserData(t) = {Data(d, f) : d \in Commands(t), f \in FileOrders(t)}
    BY DEF UserData, Commands
  <2>2. \A d, f : /\ Data(d, f).pod = pod /\ Data(d, f).mounts = GuestMounts(t)
                  /\ Data(d, f).volumes = (IF pod THEN PodVolumes(t) ELSE {})
                  /\ Data(d, f).files = f /\ Data(d, f).script = (Secrets(t) # {})
    OBVIOUS
  <2> HIDE DEF Data
  <2>3. PICK d \in Commands(t), f \in FileOrders(t) : u = Data(d, f)
    BY <2>1
  <2>4. /\ u.pod = pod /\ u.volumes = (IF pod THEN PodVolumes(t) ELSE {})
        /\ u.mounts = GuestMounts(t) /\ u.files = f /\ u.script = (Secrets(t) # {})
    BY <2>2, <2>3
  <2> QED
    BY <2>3, <2>4
<1> SUFFICES ASSUME NEW m \in u.mounts
             PROVE  /\ u.pod => \E p \in u.volumes : p[2] = m[2]
                    /\ m[2][1] = "configmap" =>
                          \E p \in DOMAIN u.files : p[2] = m[2][2] /\ Range(u.files[p]) = Keys[p[2]]
                    /\ m[2][1] = "secret" => u.script
  BY DEF Complete
<1>3. PICK k \in Mounts(t) : m[2] = HostVolume(VolumeOf(t, t.attachments[k]))
  <2> DEFINE s == [k \in DOMAIN t.attachments |-> HostVolume(VolumeOf(t, t.attachments[k]))]
  <2>1. PICK k \in Mounts(t) : m[2] = s[k]
    BY <1>2, NumberedElements DEF GuestMounts
  <2> QED
    BY <2>1 DEF Mounts
<1> DEFINE v == VolumeOf(t, t.attachments[k])
<1>4. v \in Range(t.volumes) /\ m[2] = HostVolume(v)
  BY <1>3, VolumeFound
<1>5. IsDisk(v) => v.populator = "filesystem"
  BY <1>1, <1>3 DEF Handling
<1> HIDE DEF v
<1>6. PICK j \in DOMAIN t.volumes : v = t.volumes[j]
  BY <1>4 DEF Range
<1>7. ASSUME u.pod PROVE \E p \in u.volumes : p[2] = m[2]
  <2> DEFINE s == [i \in DOMAIN t.volumes |-> HostVolume(t.volumes[i])]
  <2>1. j \in InPod(t) /\ s[j] = HostVolume(v)
    BY <1>5, <1>6 DEF InPod
  <2> HIDE DEF s
  <2>2. \E p \in Numbered(s, InPod(t)) : p[2] = s[j]
    BY <2>1, NumberedElements
  <2> QED
    BY <1>2, <1>4, <1>7, <2>1, <2>2 DEF PodVolumes, s
<1>8. ASSUME m[2][1] # "disk" PROVE m[2][1] = v.source /\ m[2][2] = v.ref
  BY <1>4, <1>8 DEF HostVolume
<1>9. ASSUME m[2][1] = "configmap"
      PROVE  \E p \in DOMAIN u.files : p[2] = m[2][2] /\ Range(u.files[p]) = Keys[p[2]]
  <2> DEFINE s == [i \in DOMAIN t.volumes |-> t.volumes[i].ref]
             S == {i \in DOMAIN t.volumes : t.volumes[i].source = "configmap"}
  <2>1. j \in S /\ s[j] = v.ref
    BY <1>6, <1>8, <1>9
  <2> HIDE DEF s, S
  <2>2. PICK p \in Numbered(s, S) : p[2] = s[j]
    BY <2>1, NumberedElements
  <2>3. p \in ConfigVolumes(t) /\ p[2] = m[2][2]
    BY <1>8, <1>9, <2>1, <2>2 DEF ConfigVolumes, s, S
  <2>4. p \in DOMAIN u.files /\ u.files[p] \in SetToSeqs(Keys[p[2]])
    BY <1>2, <2>3 DEF FileOrders
  <2>5. IsFiniteSet(Keys[p[2]])
    BY <2>3, BuildAssumption
  <2>6. Range(u.files[p]) = Keys[p[2]]
    BY <2>4, <2>5, SeqsSame DEF Range
  <2> QED
    BY <2>3, <2>4, <2>6
<1>10. ASSUME m[2][1] = "secret" PROVE u.script
  <2>1. v.ref \in Secrets(t)
    BY <1>4, <1>8, <1>10 DEF Secrets, RefsOf
  <2> QED
    BY <1>2, <2>1
<1> QED
  BY <1>7, <1>9, <1>10

\* Only a template whose volumes have been gone through is ever in the hands
\* of the worker behind that point, and every machine that is on its way to the
\* cache has the user data of one.
Prepared(g) == Preparation(plan[g]) = "ok"
Guests == {v \in GCPVersion : Exists(v) =>
              \E g \in DOMAIN plan : Prepared(g) /\ v.spec.user \in UserData(plan[g])}

GuestInv ==
    /\ pc # "idle" => Prepared(inst.gen)
    /\ gcp \in Window(Guests)

LEMMA InitGuest == Init => GuestInv
<1> SUFFICES ASSUME Init PROVE GuestInv
  OBVIOUS
<1>1. NoGCPInstance \in Guests
  BY FirstVersions DEF Guests, Exists
<1> QED
  BY <1>1, OneVersion DEF Init, GuestInv

\* The user data of what is stored is that of the template in hand, or some
\* that was there.
LEMMA GuestWrites ==
    ASSUME TypeInv, AccountInv, GuestInv, NEW v \in GCPWrites
    PROVE  v \in Guests
<1>1. /\ Current(gcp) \in Guests /\ Cached(gcp) \in Guests
      /\ Current(gcp).spec \in GCPSpec /\ Cached(gcp).spec \in GCPSpec
      /\ v \in GCPVersion
  <2>1. Current(gcp) \in Guests /\ Cached(gcp) \in Guests
    BY RelistWindow DEF GuestInv
  <2> QED
    BY <2>1, MachineWrites DEF Guests, GCPVersion
<1>2. ASSUME pc # "idle", v.spec.user \in UserData(template)
      PROVE  v \in Guests
  <2>1. inst.gen \in DOMAIN plan
    BY DEF TypeInv, WorkType, UpVersion
  <2> QED
    BY <1>1, <1>2, <2>1 DEF GuestInv, Guests, template
<1>3. ASSUME Exists(Current(gcp)), v.spec.user = Current(gcp).spec.user
      PROVE  v \in Guests
  BY <1>1, <1>3 DEF Guests
<1>4. CASE Exists(Current(gcp)) /\ v.spec = Current(gcp).spec
  BY <1>3, <1>4
<1>5. CASE pc # "idle" /\ v.spec \in GCPSpecs(template, NoGCPSpec)
  BY <1>2, <1>5, SpecFields
<1>6. ASSUME Exists(Current(gcp)), pc # "idle",
             NEW s \in GCPSpecs(template, Cached(gcp).spec), s \in GCPSpec,
             v.spec = Patch(s, Cached(gcp).spec, Current(gcp).spec)
      PROVE  v \in Guests
  <2>1. s.user \in UserData(template)
    BY SpecFields
  <2>2. v.spec.user = s.user \/ v.spec.user = Current(gcp).spec.user
    BY <1>1, <1>6, PatchType
  <2> QED
    BY <1>2, <1>3, <1>6, <2>1, <2>2
<1> QED
  BY <1>4, <1>5, <1>6, MachineWrites

LEMMA NextGuest == TypeInv /\ AccountInv /\ GuestInv /\ [Next]_vars => GuestInv'
<1> SUFFICES ASSUME TypeInv, AccountInv, GuestInv, [Next]_vars PROVE GuestInv'
  OBVIOUS
<1>1. plan' = plan
  BY ScenarioSteps DEF TypeInv, plan
<1>2. pc' # "idle" => Prepared(inst'.gen)
  <2>1. CASE Reconcile
    BY <2>1 DEF Reconcile, Prepared, GuestInv, work
  <2>2. CASE ~Reconcile
    <3>1. pc' # "idle" => pc # "idle" /\ UNCHANGED inst
      BY <2>2, GenSteps
    <3> QED
      BY <3>1 DEF GuestInv
  <2> QED
    BY <2>1, <2>2
<1>3. gcp' \in Window(Guests)
  <2>1. Moves(gcp, gcp', GCPWrites) /\ gcp \in Window(Guests)
    BY NextMoves DEF StepMoves, GuestInv
  <2>2. GCPWrites \subseteq Guests
    BY GuestWrites
  <2> QED
    BY <2>1, <2>2, MovesWindow
<1>4. Guests' = Guests /\ \A g : Prepared(g)' <=> Prepared(g)
  BY <1>1 DEF Guests, Prepared
<1> QED
  BY <1>1, <1>2, <1>3, <1>4 DEF GuestInv, Prepared

\* No guest waits for a volume, a file or a Secret that nobody gives it.
THEOREM GuestCompleteHolds == Spec => []GuestComplete
<1> DEFINE Inv == TypeInv /\ AccountInv /\ GuestInv
<1>1. Init => Inv
  BY InitType, InitAccount, InitGuest
<1>2. Inv /\ [Next]_vars => Inv'
  BY NextType, NextAccount, NextGuest
<1>3. Inv => GuestComplete
  <2> SUFFICES ASSUME Inv, Exists(Current(gcp)) PROVE Complete(Current(gcp).spec.user)
    BY DEF GuestComplete, Machine, Complete
  <2>1. Current(gcp) \in Guests
    BY RelistWindow DEF GuestInv
  <2>2. PICK g \in DOMAIN plan : Prepared(g) /\ Current(gcp).spec.user \in UserData(plan[g])
    BY <2>1 DEF Guests
  <2> QED
    BY <2>2, PlanType, PreparedComplete DEF TypeInv, Prepared
<1> QED
  BY <1>1, <1>2, <1>3, PTL DEF Spec
=============================================================================
