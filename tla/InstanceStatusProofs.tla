------------------------- MODULE InstanceStatusProofs -------------------------
(***************************************************************************)
(* What InstanceController reports and what it builds, for every set of    *)
(* Instances and every bound: a reported Programmed is true, and the spec   *)
(* of a GCP Instance never goes back to an older generation.               *)
(***************************************************************************)
EXTENDS InstanceProofs

-----------------------------------------------------------------------------
(* The written spec never goes back. *)

\* The versions of an Instance come in the order of their generations.
Rising(w) == \A m, n \in 1..Len(w) : m <= n => w[m].gen <= w[n].gen

\* Versions of a GCP Instance built from generation g or an older one.
DnBuilt(g) == {v \in DnVersion : v.gen <= g}

\* A GCP Instance is not ahead of what the upstream informer has delivered:
\* whoever reads the Instance from now on reads no older generation.
StoredGen ==
    \A i \in Instances :
        /\ Rising(up[i])
        /\ Current(up[i]).phase = "none" => Current(up[i]).gen = 0
        /\ dn[i] \in Window(DnBuilt(Cached(up[i]).gen))

WorkerGen ==
    /\ pc # "idle" /\ "inst" \notin stale => inst.gen = Current(up[key]).gen
    /\ pc \in Building =>
          inst.gen <= Cached(up[key]).gen /\ dn[key] \in Window(DnBuilt(inst.gen))

GenInv == SafeInv /\ StoredGen /\ WorkerGen

\* What a step does to the spec of a GCP Instance.
NotOlder == \A i \in Instances : Current(dn'[i]).gen >= Current(dn[i]).gen

LEMMA RisingWrite ==
    ASSUME NEW w \in Window(UpVersion), NEW v \in UpVersion, Rising(w),
           v.gen >= Current(w).gen
    PROVE  Rising(Write(w, v))
<1> DEFINE z == Write(w, v)
<1>1. /\ \A n \in 1..Len(w) : w[n] \in UpVersion /\ w[n].gen \in Nat
      /\ v.gen \in Nat
  <2>1. \A n \in 1..Len(w) : w[n] \in UpVersion
    BY DEF Window
  <2> QED
    BY <2>1 DEF UpVersion
<1>2. \A n \in 1..Len(w) : w[n].gen <= v.gen
  <2> SUFFICES ASSUME NEW n \in 1..Len(w) PROVE w[n].gen <= v.gen
    OBVIOUS
  <2>1. Len(w) \in 1..Len(w) /\ n <= Len(w)
    BY RelistWindow
  <2>2. w[n].gen <= Current(w).gen /\ Current(w).gen \in Nat
    BY <1>1, <2>1 DEF Rising, Current
  <2> QED
    BY <1>1, <2>2
<1>3. z \in Window(UpVersion) /\ (\A n \in 1..Len(z) :
                 \/ n = Len(z) /\ z[n] = v
                 \/ n \in 1..Len(w) /\ z[n] = w[n])
  BY WriteWindow
<1>4. Len(z) \in Nat
  BY <1>3 DEF Window
<1> SUFFICES ASSUME NEW m \in 1..Len(z), NEW n \in 1..Len(z), m <= n
             PROVE  z[m].gen <= z[n].gen
  BY DEF Rising
<1> HIDE DEF z
<1>5. CASE z[n] = v
  BY <1>1, <1>2, <1>3, <1>5
<1>6. CASE n \in 1..Len(w) /\ z[n] = w[n] /\ z[n] # v
  <2>1. CASE m = Len(z) /\ z[m] = v
    BY <1>3, <1>4, <1>6, <2>1
  <2>2. CASE m \in 1..Len(w) /\ z[m] = w[m]
    BY <1>6, <2>2 DEF Rising
  <2> QED
    BY <1>3, <2>1, <2>2
<1> QED
  BY <1>3, <1>5, <1>6

LEMMA RisingTail ==
    ASSUME NEW w \in Window(UpVersion), Undelivered(w), Rising(w)
    PROVE  Rising(Tail(w)) /\ Cached(w).gen <= Cached(Tail(w)).gen
<1>1. Len(w) \in Nat /\ Len(w) > 1 /\ Len(Tail(w)) \in Nat /\ Len(Tail(w)) = Len(w) - 1
  BY TailWindow DEF Window, Undelivered
<1>2. ASSUME NEW m \in 1..Len(Tail(w)), NEW n \in 1..Len(Tail(w)), m <= n
      PROVE  Tail(w)[m].gen <= Tail(w)[n].gen
  <2>1. m + 1 \in 1..Len(w) /\ n + 1 \in 1..Len(w) /\ m + 1 <= n + 1
    BY <1>1, <1>2
  <2> QED
    BY <2>1, TailWindow DEF Rising
<1>3. 1 \in 1..Len(w) /\ 2 \in 1..Len(w) /\ 1 \in 1..Len(Tail(w)) /\ 1 + 1 = 2 /\ 1 <= 2
  BY <1>1
<1>4. Tail(w)[1] = w[2] /\ w[1].gen <= w[2].gen
  BY <1>3, TailWindow DEF Rising
<1> QED
  BY <1>2, <1>4 DEF Rising, Cached

LEMMA RisingRelist ==
    ASSUME NEW w \in Window(UpVersion), Rising(w)
    PROVE  /\ Rising(<<Current(w)>>)
           /\ Cached(<<Current(w)>>) = Current(w)
           /\ Cached(w).gen <= Current(w).gen
<1>1. Len(<<Current(w)>>) = 1 /\ <<Current(w)>>[1] = Current(w) /\ Current(w).gen \in Nat
  <2>1. Current(w) \in UpVersion
    BY RelistWindow
  <2> QED
    BY <2>1 DEF UpVersion
<1>2. \A n \in 1..1 : n = 1
  OBVIOUS
<1>3. Rising(<<Current(w)>>)
  <2> SUFFICES ASSUME NEW m \in 1..1, NEW n \in 1..1
               PROVE  <<Current(w)>>[m].gen <= <<Current(w)>>[n].gen
    BY <1>1 DEF Rising
  <2>1. m = 1 /\ n = 1
    BY <1>2
  <2> QED
    BY <1>1, <2>1
<1>4. 1 \in 1..Len(w) /\ Len(w) \in 1..Len(w) /\ 1 <= Len(w)
  BY RelistWindow DEF Window
<1>5. Cached(w).gen <= Current(w).gen
  BY <1>4 DEF Rising, Cached, Current
<1>6. Cached(<<Current(w)>>) = Current(w)
  BY <1>1 DEF Cached
<1> QED
  BY <1>3, <1>5, <1>6

LEMMA BuiltGrows ==
    ASSUME NEW g \in Nat, NEW h \in Nat, g <= h
    PROVE  DnBuilt(g) \subseteq DnBuilt(h) /\ Window(DnBuilt(g)) \subseteq Window(DnBuilt(h))
<1>1. DnBuilt(g) \subseteq DnBuilt(h)
  <2> SUFFICES ASSUME NEW v \in DnBuilt(g) PROVE v \in DnBuilt(h)
    OBVIOUS
  <2>1. v \in DnVersion /\ v.gen <= g
    BY DEF DnBuilt
  <2>2. v.gen \in Nat
    BY <2>1 DEF DnVersion
  <2> QED
    BY <2>1, <2>2 DEF DnBuilt
<1> QED
  BY <1>1, WindowGrows

LEMMA BuiltCurrent ==
    ASSUME NEW g, NEW w \in Window(DnBuilt(g))
    PROVE  Current(w).gen <= g
<1>1. Current(w) \in DnBuilt(g)
  BY RelistWindow
<1> QED
  BY <1>1 DEF DnBuilt

LEMMA Gens ==
    ASSUME StoreType, NEW i \in Instances
    PROVE  /\ Cached(up[i]).gen \in Nat /\ Current(up[i]).gen \in Nat
           /\ Cached(dn[i]).gen \in Nat /\ Current(dn[i]).gen \in Nat
  BY StoredVersions DEF UpVersion, DnVersion

\* A version upstream with a generation no older than the current one.
LEMMA StoreUpGen ==
    ASSUME StoreType, StoredGen, NEW i \in Instances, NEW v \in UpVersion,
           WriteUp(i, v), UNCHANGED dn, v.gen >= Current(up[i]).gen, v.phase # "none"
    PROVE  /\ StoredGen'
           /\ \A j \in Instances : Cached(up'[j]) = Cached(up[j])
           /\ \A j \in Instances : j # i => up'[j] = up[j]
           /\ Current(up'[i]) = v
<1>1. /\ up[i] \in Window(UpVersion) /\ up'[i] = Write(up[i], v)
      /\ \A j \in Instances : j # i => up'[j] = up[j]
  BY WriteUpType DEF StoreType
<1>2. /\ Rising(up'[i]) /\ Cached(up'[i]) = Cached(up[i]) /\ Current(up'[i]) = v
  BY <1>1, RisingWrite, WriteWindow DEF StoredGen
<1>3. \A j \in Instances :
         /\ Rising(up'[j]) /\ Cached(up'[j]) = Cached(up[j])
         /\ Current(up'[j]).phase = "none" => Current(up'[j]).gen = 0
  BY <1>1, <1>2 DEF StoredGen
<1> QED
  BY <1>1, <1>2, <1>3 DEF StoredGen

\* A version downstream that is not ahead of the upstream informer.
LEMMA StoreDnGen ==
    ASSUME StoreType, StoredGen, NEW i \in Instances, NEW v \in DnVersion,
           WriteDn(i, v), UNCHANGED up, v.gen <= Cached(up[i]).gen,
           v.gen >= Current(dn[i]).gen
    PROVE  /\ StoredGen' /\ NotOlder
           /\ \A j \in Instances : j # i => dn'[j] = dn[j]
           /\ \A g : dn[i] \in Window(DnBuilt(g)) /\ v.gen <= g =>
                        dn'[i] \in Window(DnBuilt(g))
<1>1. /\ dn[i] \in Window(DnVersion) /\ dn'[i] = Write(dn[i], v)
      /\ \A j \in Instances : j # i => dn'[j] = dn[j]
  BY WriteDnType DEF StoreType
<1>2. ASSUME NEW g, dn[i] \in Window(DnBuilt(g)), v.gen <= g
      PROVE  dn'[i] \in Window(DnBuilt(g))
  <2>1. v \in DnBuilt(g)
    BY <1>2 DEF DnBuilt
  <2> QED
    BY <1>1, <1>2, <2>1, WriteWindow
<1>3. Current(dn'[i]) = v
  BY <1>1, WriteWindow
<1>4. StoredGen'
  BY <1>1, <1>2 DEF StoredGen
<1>5. NotOlder
  BY <1>1, <1>3, Gens DEF NotOlder
<1> QED
  BY <1>1, <1>2, <1>4, <1>5

LEMMA SameDn ==
    ASSUME StoreType, \A j \in Instances : Current(dn'[j]) = Current(dn[j])
    PROVE  NotOlder
  BY Gens DEF NotOlder

LEMMA IdleGen ==
    ASSUME Idle
    PROVE  WorkerGen'
  BY DEF Idle, WorkerGen, Building, Provisioning

\* Whoever steps, if the worker stays on its key with the generation it has,
\* and does not take to building.
LEMMA KeepWorkerGen ==
    ASSUME WorkType, StoreType, WorkerGen, key' = key, inst'.gen = inst.gen,
           pc' # "idle" => pc # "idle", pc' \in Building => pc \in Building,
           "inst" \notin stale' =>
               "inst" \notin stale /\ Current(up'[key]).gen = Current(up[key]).gen,
           Cached(up'[key]).gen \in Nat, Cached(up[key]).gen <= Cached(up'[key]).gen,
           pc \in Building => dn'[key] \in Window(DnBuilt(inst.gen))
    PROVE  WorkerGen'
<1>1. key \in Instances /\ inst.gen \in Nat /\ Cached(up[key]).gen \in Nat
  BY Gens DEF WorkType, UpVersion
<1> QED
  BY <1>1 DEF WorkerGen

\* A version downstream that carries the spec on.
LEMMA CarryDnGen ==
    ASSUME StoreType, StoredGen, NEW i \in Instances, NEW v \in DnVersion,
           WriteDn(i, v), UNCHANGED up, v.gen = Current(dn[i]).gen
    PROVE  /\ StoredGen' /\ NotOlder
           /\ \A j \in Instances : \A g : dn[j] \in Window(DnBuilt(g)) =>
                                             dn'[j] \in Window(DnBuilt(g))
<1>1. \A g : dn[i] \in Window(DnBuilt(g)) => Current(dn[i]).gen <= g
  BY BuiltCurrent
<1>2. v.gen <= Cached(up[i]).gen /\ v.gen >= Current(dn[i]).gen
  BY <1>1, Gens DEF StoredGen
<1> QED
  BY <1>1, <1>2, StoreDnGen

LEMMA InitGen == Init => GenInv
<1> SUFFICES ASSUME Init PROVE StoredGen /\ WorkerGen
  BY InitSafe DEF GenInv
<1>1. NoInstance.gen = 0 /\ NoGCPInstance.gen = 0 /\ NoGCPInstance \in DnVersion
  BY DEF NoInstance, NoGCPInstance, DnVersion, Phases, Finalizers
<1>2. ASSUME NEW i \in Instances
      PROVE  /\ Rising(up[i]) /\ dn[i] \in Window(DnBuilt(Cached(up[i]).gen))
             /\ Current(up[i]).gen = 0
  <2>1. up[i] = <<NoInstance>> /\ dn[i] = <<NoGCPInstance>>
    BY DEF Init
  <2>2. /\ \A x : Len(<<x>>) = 1 /\ <<x>>[1] = x
        /\ \A n \in 1..1 : n = 1
    OBVIOUS
  <2>3. Rising(up[i]) /\ Cached(up[i]).gen = 0 /\ Current(up[i]).gen = 0
    BY <1>1, <2>1, <2>2 DEF Rising, Cached, Current
  <2>4. NoGCPInstance \in DnBuilt(0)
    BY <1>1 DEF DnBuilt
  <2> QED
    BY <2>1, <2>3, <2>4 DEF Window
<1>3. WorkerGen
  BY DEF Init, WorkerGen, Building, Provisioning
<1> QED
  BY <1>2, <1>3 DEF StoredGen

\* Every step keeps the generations in order and takes no spec back.
LEMMA NextGen ==
    ASSUME GenInv, [Next]_vars
    PROVE  GenInv' /\ NotOlder
<1> SUFFICES StoredGen' /\ WorkerGen' /\ NotOlder
  BY NextSafe DEF GenInv
<1>1. /\ TypeOK /\ StoredInv /\ WorkerInv /\ StoredGen /\ WorkerGen
      /\ StoreType /\ EnvType /\ WorkType
      /\ key \in Instances /\ inst \in UpVersion /\ gcp \in DnVersion
      /\ inst.gen \in Nat
  BY TypeParts DEF GenInv, SafeInv, WorkType, UpVersion
<1>2. ASSUME NEW i \in Instances
      PROVE  /\ Cached(up[i]).gen \in Nat /\ Current(up[i]).gen \in Nat
             /\ Current(dn[i]).gen \in Nat /\ Cached(up[i]).gen <= Current(up[i]).gen
             /\ Current(up[i]) \in UpVersion /\ Current(dn[i]) \in DnVersion
  BY <1>1, Gens, StoredVersions, RisingRelist DEF StoreType, StoredGen
<1>3. UNCHANGED <<up, dn>> => StoredGen' /\ NotOlder
  BY <1>1, SameDn DEF StoredGen
<1>4. Idle => WorkerGen'
  BY IdleGen
\* Steps that write nothing and leave the worker where it is, or move it on.
<1>5. ASSUME UNCHANGED <<up, dn, key>>, inst'.gen = inst.gen, pc' # "idle" => pc # "idle",
             pc' \in Building => pc \in Building, "inst" \in stale => "inst" \in stale'
      PROVE  StoredGen' /\ WorkerGen' /\ NotOlder
  BY <1>1, <1>2, <1>3, <1>5, KeepWorkerGen DEF WorkerGen
<1>6. /\ "updateStatus" \in Building
      /\ {"prereqs", "getInstance", "createOrPatch", "retryCreate", "syncPower",
          "writePower", "conclude"} \subseteq Building
  BY DEF Building, Provisioning
\* The worker's Update of its Instance.
<1>7. ASSUME NEW v \in UpVersion, v.gen = inst.gen, pc # "idle", InstUpToDate,
             v.phase = inst.phase \/ v.phase = "gone",
             WriteUp(key, v), UNCHANGED dn
      PROVE  /\ StoredGen' /\ NotOlder /\ Current(up'[key]) = v
             /\ \A j \in Instances : Cached(up'[j]) = Cached(up[j])
  <2>1. v.gen = Current(up[key]).gen
    BY <1>1, <1>7 DEF WorkerGen, InstUpToDate
  <2>2. v.gen >= Current(up[key]).gen
    BY <1>1, <1>2, <2>1
  <2>3. v.phase # "none"
    BY <1>1, <1>7 DEF WorkerInv, InstUpToDate, Exists
  <2> QED
    BY <1>1, <1>7, <2>2, <2>3, StoreUpGen, SameDn
<1>8. CASE AddFinalizer
  <2> DEFINE v == [inst EXCEPT !.fins = @ \cup {GCPFinalizer}]
  <2>1. v \in UpVersion /\ v.gen = inst.gen /\ v.phase = inst.phase
    BY <1>1 DEF UpVersion, Finalizers
  <2>2. /\ Idle /\ UNCHANGED dn /\ pc # "idle"
        /\ (InstUpToDate /\ WriteUp(key, v)) \/ UNCHANGED up
    BY <1>8 DEF AddFinalizer, Return, dnVars
  <2> HIDE DEF v
  <2> QED
    BY <1>3, <1>4, <1>7, <2>1, <2>2
<1>9. CASE FinalizeStopping
  <2> DEFINE v == WithPower(inst, gcp.cur)
  <2>1. v \in UpVersion
    BY <1>1, PowerType
  <2>2. v.gen = inst.gen /\ v.phase = inst.phase
    BY <1>1 DEF WithPower, UpVersion
  <2>3. /\ Idle /\ UNCHANGED dn /\ pc # "idle"
        /\ (InstUpToDate /\ WriteUp(key, v)) \/ UNCHANGED up
    BY <1>9 DEF FinalizeStopping, Return, dnVars
  <2> HIDE DEF v
  <2> QED
    BY <1>3, <1>4, <1>7, <2>1, <2>2, <2>3
<1>10. CASE FinalizeRemove
  <2> DEFINE x == [inst EXCEPT !.fins = @ \ {GCPFinalizer}]
             v == Settled(x)
  <2>1. x \in UpVersion /\ x.gen = inst.gen /\ x.phase = inst.phase
    BY <1>1 DEF UpVersion
  <2>2. v \in UpVersion /\ v.gen = x.gen /\ (v.phase = x.phase \/ v.phase = "gone")
    BY <2>1, SettledType DEF Settled, UpVersion
  <2>3. /\ Idle /\ UNCHANGED dn /\ pc # "idle"
        /\ (InstUpToDate /\ WriteUp(key, v)) \/ UNCHANGED up
    BY <1>10 DEF FinalizeRemove, Return, dnVars
  <2> HIDE DEF v
  <2> QED
    BY <1>3, <1>4, <1>7, <2>1, <2>2, <2>3
<1>11. CASE UpdateStatus
  <2> DEFINE v == Reported(inst)
  <2>1. v \in UpVersion /\ v.gen = inst.gen /\ v.phase = inst.phase
    BY <1>1 DEF Reported, UpVersion, WorkType
  <2>2. /\ Idle /\ UNCHANGED dn /\ pc # "idle"
        /\ (InstUpToDate /\ WriteUp(key, v)) \/ UNCHANGED up
    BY <1>11 DEF UpdateStatus, Return, dnVars
  <2> HIDE DEF v
  <2> QED
    BY <1>3, <1>4, <1>7, <2>1, <2>2
<1>12. CASE WritePower \/ PowerAnswerLost
  <2>1. /\ pc = "writePower" /\ UNCHANGED dn /\ UNCHANGED key /\ UNCHANGED inst
        /\ pc' \in {"conclude", "updateStatus"}
        /\ "inst" \in stale => "inst" \in stale'
        /\ UNCHANGED up \/ (InstUpToDate /\ WriteUp(key, inst))
    BY <1>12 DEF WritePower, PowerAnswerLost, Goto, Leave, Outdates, dnVars
  <2>2. CASE UNCHANGED up
    BY <1>5, <1>6, <2>1, <2>2
  <2>3. CASE InstUpToDate /\ WriteUp(key, inst)
    <3>1. /\ StoredGen' /\ NotOlder /\ Current(up'[key]) = inst
          /\ Cached(up'[key]) = Cached(up[key])
      BY <1>1, <1>7, <2>1, <2>3
    <3> QED
      BY <1>1, <1>2, <1>6, <2>1, <3>1 DEF WorkerGen
  <2> QED
    BY <2>1, <2>2, <2>3
<1>13. CASE \/ LoadOwners /\ pc' = "prereqs"
            \/ Prerequisites \/ GetGCPInstance \/ CreateOrPatchRefused \/ SyncPower
  <2>1. inst' = inst \/ inst' = WithPower(inst, gcp.cur)
    BY <1>13 DEF LoadOwners, Prerequisites, GetGCPInstance, CreateOrPatchRefused, SyncPower,
       Return, Idle
  <2>2. inst'.gen = inst.gen
    BY <1>1, <2>1 DEF WithPower, UpVersion
  <2>3. UNCHANGED <<up, dn, key>> /\ pc \in Building /\ pc # "idle"
        /\ ("inst" \in stale => "inst" \in stale')
    BY <1>6, <1>13 DEF LoadOwners, Prerequisites, GetGCPInstance, CreateOrPatchRefused,
       SyncPower, GetGCP, Goto, Leave, Return, Idle, apiVars, dnVars, Building
  <2> QED
    BY <1>5, <2>2, <2>3
<1>32. CASE LoadOwners /\ pc' # "prereqs"
  BY <1>3, <1>4, <1>32 DEF LoadOwners, Goto, Return, apiVars, dnVars
<1>14. CASE Conclude
  <2>1. inst' = inst \/ inst' = [inst EXCEPT !.observed = inst.gen]
    BY <1>14 DEF Conclude
  <2>2. inst'.gen = inst.gen
    BY <1>1, <2>1 DEF UpVersion
  <2>3. UNCHANGED <<up, dn, key, stale>> /\ pc = "conclude"
    BY <1>14 DEF Conclude, Leave, apiVars, dnVars
  <2> QED
    BY <1>5, <1>6, <2>2, <2>3
<1>15. CASE FinalizeGet
  <2>1. /\ UNCHANGED <<up, dn, key, inst>> /\ pc = "fzGet" /\ pc' \notin Building
        /\ ("inst" \in stale => "inst" \in stale')
    BY <1>15 DEF FinalizeGet, GetGCP, Goto, AfterDeleteCall, apiVars, dnVars, Building,
       Provisioning
  <2> QED
    BY <1>5, <2>1
\* CreateOrPatch: the spec is that of the copy in hand, which is no older.
<1>16. ASSUME NEW v \in DnVersion, pc = "createOrPatch", Processed(v), v.gen = inst.gen,
              WriteDn(key, v), UNCHANGED up, "inst" \in stale => "inst" \in stale'
       PROVE  StoredGen' /\ WorkerGen' /\ NotOlder
  <2>1. inst.gen <= Cached(up[key]).gen /\ dn[key] \in Window(DnBuilt(inst.gen))
    BY <1>1, <1>6, <1>16 DEF WorkerGen
  <2>2. Current(dn[key]).gen <= inst.gen
    BY <2>1, BuiltCurrent
  <2>3. v.gen <= Cached(up[key]).gen /\ v.gen >= Current(dn[key]).gen /\ v.gen <= inst.gen
    BY <1>1, <1>2, <1>16, <2>1, <2>2
  <2>4. /\ StoredGen' /\ NotOlder /\ dn'[key] \in Window(DnBuilt(inst.gen))
    BY <1>1, <1>16, <2>1, <2>3, StoreDnGen
  <2>5. pc' # "idle" /\ key' = key /\ inst' = inst /\ pc \in Building
    BY <1>6, <1>16 DEF Processed, Goto
  <2> QED
    BY <1>1, <1>2, <1>16, <2>4, <2>5, KeepWorkerGen
<1>17. CASE CreateGCPInstance
  <2>1. NewGCPInstance \in DnVersion /\ NewGCPInstance.gen = inst.gen
    BY <1>1 DEF NewGCPInstance, NoGCPInstance, UpVersion, DnVersion, Phases, Finalizers
  <2> QED
    BY <1>16, <1>17, <2>1 DEF CreateGCPInstance
<1>18. CASE PatchGCPInstance
  <2>1. CASE NothingToPatch /\ Processed(gcp) /\ UNCHANGED <<dn, stale>>
    <3>1. pc = "createOrPatch" /\ UNCHANGED <<up, dn, inst, key, stale>> /\ pc' # "idle"
      BY <1>18, <2>1 DEF PatchGCPInstance, Processed, Goto
    <3> QED
      BY <1>5, <1>6, <3>1
  <2>2. CASE /\ \E v : v = Patched(Current(dn[key])) /\ WriteDn(key, v) /\ Processed(v)
             /\ stale' = stale \ {"gcp"}
    <3> DEFINE v == Patched(Current(dn[key]))
    <3>1. Current(dn[key]) \in DnVersion /\ gcp.fins \in SUBSET Finalizers
      BY <1>1, <1>2 DEF DnVersion
    <3>2. v \in DnVersion /\ v.gen = inst.gen
      BY <1>1, <3>1 DEF Patched, DnVersion, Finalizers
    <3>3. WriteDn(key, v) /\ Processed(v) /\ pc = "createOrPatch" /\ UNCHANGED up
      BY <1>18, <2>2 DEF PatchGCPInstance
    <3> HIDE DEF v
    <3> QED
      BY <1>16, <2>2, <3>2, <3>3
  <2> QED
    BY <1>18, <2>1, <2>2 DEF PatchGCPInstance
\* Writes of a copy that is the server's version, and of anybody else.
<1>19. ASSUME NEW i \in Instances, NEW v \in DnVersion, WriteDn(i, v), UNCHANGED up,
              v.gen = Current(dn[i]).gen
       PROVE  /\ StoredGen' /\ NotOlder
              /\ \A j \in Instances : \A g : dn[j] \in Window(DnBuilt(g)) =>
                                                dn'[j] \in Window(DnBuilt(g))
  BY <1>1, <1>19, CarryDnGen
<1>20. CASE RetryCreate
  <2>1. /\ UNCHANGED <<up, inst, stale, key>> /\ pc = "retryCreate" /\ pc' # "idle"
    BY <1>20 DEF RetryCreate, Leave
  <2>2. CASE UNCHANGED dn
    BY <1>5, <1>6, <2>1, <2>2
  <2>3. ASSUME GcpUpToDate, NEW r \in {gcp.retry, gcp.retry + 1},
               WriteDn(key, [gcp EXCEPT !.retry = r])
        PROVE  StoredGen' /\ WorkerGen' /\ NotOlder
    <3> DEFINE v == [gcp EXCEPT !.retry = r]
    <3>1. gcp.retry \in Nat /\ \A s \in Nat : [gcp EXCEPT !.retry = s] \in DnVersion
      BY <1>1 DEF DnVersion
    <3>2. gcp = Current(dn[key])
      BY <1>1, <2>1, <2>3 DEF WorkerInv, GcpUpToDate
    <3>6. v \in DnVersion
      BY <3>1
    <3>3. v \in DnVersion /\ v.gen = gcp.gen
      BY <1>1, <3>6 DEF DnVersion
    <3> HIDE DEF v
    <3>4. WriteDn(key, v)
      BY <2>3 DEF v
    <3>5. /\ StoredGen' /\ NotOlder
          /\ dn[key] \in Window(DnBuilt(inst.gen)) => dn'[key] \in Window(DnBuilt(inst.gen))
      BY <1>1, <1>19, <2>1, <3>2, <3>3, <3>4
    <3> QED
      BY <1>1, <1>2, <1>6, <2>1, <3>5, KeepWorkerGen DEF WorkerGen
  <2> QED
    BY <1>20, <2>2, <2>3 DEF RetryCreate
<1>21. CASE FinalizeDelete
  <2> DEFINE c == Current(dn[key])
             v == AfterDelete(c)
  <2>1. v \in DnVersion /\ v.gen = c.gen
    BY <1>1, <1>2, SettledType DEF AfterDelete, Settled, DnVersion
  <2>2. /\ UNCHANGED up /\ pc = "fzDelete"
        /\ WriteDn(key, v) \/ UNCHANGED dn
    BY <1>21 DEF FinalizeDelete, dnVars
  <2>3. /\ Idle \/ (UNCHANGED <<key, inst>> /\ pc' \notin Building
                    /\ ("inst" \in stale => "inst" \in stale'))
    BY <1>21 DEF FinalizeDelete, Return, Goto, AfterDeleteCall, Outdates, Building, Provisioning
  <2> HIDE DEF v
  <2>4. StoredGen' /\ NotOlder
    BY <1>1, <1>3, <1>19, <2>1, <2>2
  <2>5. pc \notin Building
    BY <2>2 DEF Building, Provisioning
  <2> QED
    BY <1>1, <1>2, <1>4, <2>2, <2>3, <2>4, <2>5, KeepWorkerGen
<1>22. CASE FinalizeRelease
  <2> DEFINE x == [gcp EXCEPT !.fins = @ \ {GCPFinalizer}]
             v == Settled(x)
  <2>1. x \in DnVersion /\ x.gen = gcp.gen
    BY <1>1 DEF DnVersion
  <2>2. v \in DnVersion /\ v.gen = gcp.gen
    BY <2>1, SettledType DEF Settled, DnVersion
  <2>3. /\ UNCHANGED up /\ pc = "fzRelease"
        /\ (GcpUpToDate /\ WriteDn(key, v)) \/ UNCHANGED dn
    BY <1>22 DEF FinalizeRelease, dnVars
  <2>4. /\ Idle \/ (UNCHANGED <<key, inst, stale>> /\ pc' = "fzRemove")
    BY <1>22 DEF FinalizeRelease, Return, Goto
  <2> HIDE DEF v
  <2>5. GcpUpToDate => gcp = Current(dn[key])
    BY <1>1, <2>3 DEF WorkerInv, GcpUpToDate
  <2>6. StoredGen' /\ NotOlder
    BY <1>1, <1>3, <1>19, <2>2, <2>3, <2>5
  <2>7. pc \notin Building /\ "fzRemove" \notin Building
    BY <2>3 DEF Building, Provisioning
  <2> QED
    BY <1>1, <1>2, <1>4, <2>3, <2>4, <2>6, <2>7, KeepWorkerGen
<1>23. CASE CallFails
  <2>1. /\ UNCHANGED <<up, dn>>
        /\ \/ Idle
           \/ /\ pc \in Provisioning /\ UNCHANGED <<key, inst, stale>>
    BY <1>23 DEF CallFails, Return, Leave, apiVars, dnVars
  <2>2. pc \in Provisioning => pc # "idle" /\ pc \in Building
    BY DEF Building, Provisioning
  <2>3. CASE pc \in Provisioning /\ UNCHANGED <<key, inst, stale>>
    BY <1>5, <2>1, <2>2, <2>3
  <2> QED
    BY <1>3, <1>4, <2>1, <2>3
<1>24. CASE Restart
  <2>1. /\ Idle
        /\ \A j \in Instances : up'[j] = <<Current(up[j])>> /\ dn'[j] = <<Current(dn[j])>>
    BY <1>24 DEF Restart
  <2>2. ASSUME NEW j \in Instances
        PROVE  /\ Rising(up'[j]) /\ dn'[j] \in Window(DnBuilt(Cached(up'[j]).gen))
               /\ Current(up'[j]) = Current(up[j])
    <3>0. Current(up'[j]) = Current(up[j])
      BY <1>1, <1>24, StoredRelist
    <3>1. /\ Rising(up'[j]) /\ Cached(up'[j]) = Current(up[j])
          /\ Cached(up[j]).gen <= Current(up[j]).gen
      BY <1>1, <2>1, RisingRelist DEF StoreType, StoredGen
    <3>2. dn'[j] \in Window(DnBuilt(Cached(up[j]).gen))
      BY <1>1, <2>1, RelistWindow DEF StoredGen
    <3> QED
      BY <1>2, <3>0, <3>1, <3>2, BuiltGrows
  <2>3. NotOlder
    BY <1>1, <1>24, StoredRelist, SameDn
  <2> QED
    BY <1>1, <1>4, <2>1, <2>2, <2>3 DEF StoredGen
<1>25. ASSUME NEW i \in Instances, DeliverUpstream(i)
       PROVE  StoredGen' /\ WorkerGen' /\ NotOlder
  <2>1. /\ UNCHANGED <<dn, pc, key, inst, stale>>
        /\ Undelivered(up[i]) /\ up'[i] = Tail(up[i])
        /\ \A j \in Instances : j # i => up'[j] = up[j]
    BY <1>1, <1>25 DEF DeliverUpstream, StoreType, dnVars, workVars
  <2>2. /\ up[i] \in Window(UpVersion) /\ Tail(up[i]) \in Window(UpVersion)
        /\ Current(Tail(up[i])) = Current(up[i])
    BY <1>1, <2>1, TailWindow DEF StoreType
  <2>3. Rising(Tail(up[i])) /\ Cached(up[i]).gen <= Cached(Tail(up[i])).gen
    BY <1>1, <2>1, <2>2, RisingTail DEF StoredGen
  <2>4. Cached(Tail(up[i])) \in UpVersion
    BY <2>2, RelistWindow
  <2>5. Cached(Tail(up[i])).gen \in Nat
    BY <2>4 DEF UpVersion
  <2>6. ASSUME NEW j \in Instances
        PROVE  /\ Rising(up'[j]) /\ dn'[j] \in Window(DnBuilt(Cached(up'[j]).gen))
               /\ Cached(up'[j]).gen \in Nat /\ Cached(up[j]).gen <= Cached(up'[j]).gen
               /\ Current(up'[j]) = Current(up[j])
    <3>1. CASE j = i
      BY <1>1, <1>2, <2>1, <2>2, <2>3, <2>5, <3>1, BuiltGrows DEF StoredGen
    <3>2. CASE j # i
      BY <1>1, <1>2, <2>1, <3>2 DEF StoredGen
    <3> QED
      BY <3>1, <3>2
  <2>7. StoredGen'
    BY <1>1, <2>6 DEF StoredGen
  <2>8. NotOlder
    BY <1>1, <2>1, SameDn
  <2> QED
    BY <1>1, <2>1, <2>6, <2>7, <2>8, KeepWorkerGen DEF WorkerGen
<1>26. ASSUME NEW i \in Instances, DeliverDownstream(i)
       PROVE  StoredGen' /\ WorkerGen' /\ NotOlder
  <2>1. /\ UNCHANGED <<up, pc, key, inst, stale>>
        /\ Undelivered(dn[i]) /\ dn'[i] = Tail(dn[i])
        /\ \A j \in Instances : j # i => dn'[j] = dn[j]
    BY <1>1, <1>26 DEF DeliverDownstream, StoreType, workVars
  <2>2. \A j \in Instances : \A g : dn[j] \in Window(DnBuilt(g)) => dn'[j] \in Window(DnBuilt(g))
    BY <2>1, TailWindow
  <2>3. NotOlder
    BY <1>1, <1>26, StoredDnTail, SameDn
  <2> QED
    BY <1>1, <1>2, <2>1, <2>2, <2>3, KeepWorkerGen DEF StoredGen, WorkerGen
<1>27. ASSUME NEW i \in Instances, User(i) PROVE StoredGen' /\ WorkerGen' /\ NotOlder
  <2> DEFINE c == Current(up[i])
  <2>1. c \in UpVersion /\ c.gen \in Nat
    BY <1>2
  <2>2. PICK v \in UpVersion : StoreUp(i, v) /\ v.gen >= c.gen /\ v.phase # "none"
    <3>1. CASE CreateInstance(i)
      <4>1. PICK g \in 0..MaxGates :
               StoreUp(i, [NoInstance EXCEPT !.phase = "live", !.gates = g, !.gen = 1])
        BY <3>1 DEF CreateInstance
      <4>2. g \in Nat
        BY InstanceAssumption
      <4> DEFINE v == [NoInstance EXCEPT !.phase = "live", !.gates = g, !.gen = 1]
      <4>3. v \in UpVersion /\ v.gen = 1 /\ v.phase = "live"
        BY <4>2 DEF NoInstance, UpVersion, Phases, ProgReasons, RunReasons, Finalizers
      <4>4. v.gen >= c.gen
        BY <1>1, <3>1, <4>3 DEF CreateInstance, StoredGen
      <4>5. StoreUp(i, v)
        BY <4>1
      <4> HIDE DEF v, c
      <4> QED
        BY <4>3, <4>4, <4>5
    <3>2. CASE RemoveGate(i)
      <4> DEFINE v == [c EXCEPT !.gates = @ - 1]
      <4>1. c.gates \in Nat /\ c.gates > 0 /\ StoreUp(i, v)
        BY <2>1, <3>2 DEF RemoveGate, UpVersion
      <4>2. c.gates - 1 \in Nat
        BY <4>1
      <4>3. v \in UpVersion /\ v.gen = c.gen /\ v.phase = "live"
        BY <2>1, <3>2, <4>2 DEF UpVersion, RemoveGate
      <4> HIDE DEF v
      <4> QED
        BY <2>1, <4>1, <4>3
    <3>3. CASE UpdateTemplate(i)
      <4> DEFINE v == [c EXCEPT !.gen = @ + 1]
      <4>1. v \in UpVersion /\ v.gen = c.gen + 1 /\ v.phase = "live"
        BY <2>1, <3>3 DEF UpVersion, UpdateTemplate
      <4>2. StoreUp(i, v)
        BY <3>3 DEF UpdateTemplate
      <4> HIDE DEF v
      <4> QED
        BY <2>1, <4>1, <4>2
    <3>4. CASE DeleteInstance(i)
      <4> DEFINE v == AfterDelete(c)
      <4>1. v \in UpVersion /\ v.gen = c.gen /\ v.phase \in {"deleting", "gone"}
        BY <2>1, SettledType DEF AfterDelete, Settled, UpVersion
      <4>2. StoreUp(i, v)
        BY <3>4 DEF DeleteInstance
      <4> HIDE DEF v
      <4> QED
        BY <2>1, <4>1, <4>2
    <3> QED
      BY <1>27, <3>1, <3>2, <3>3, <3>4 DEF User
  <2>3. /\ WriteUp(i, v) /\ UNCHANGED <<dn, pc, key, inst>>
        /\ stale' = Outdates("inst", i, up[i], v)
    BY <2>2 DEF StoreUp, dnVars, workVars
  <2>4. /\ StoredGen' /\ Current(up'[i]) = v
        /\ \A j \in Instances : Cached(up'[j]) = Cached(up[j])
        /\ \A j \in Instances : j # i => up'[j] = up[j]
    BY <1>1, <2>2, <2>3, StoreUpGen
  <2>5. "inst" \notin stale' => "inst" \notin stale /\ Current(up'[key]) = Current(up[key])
    BY <1>1, <2>3, <2>4 DEF Outdates
  <2>6. NotOlder
    BY <1>1, <2>3, SameDn
  <2> QED
    BY <1>1, <1>2, <2>3, <2>4, <2>5, <2>6, KeepWorkerGen DEF WorkerGen
<1>28. ASSUME NEW i \in Instances, Crossplane(i) PROVE StoredGen' /\ WorkerGen' /\ NotOlder
  <2> DEFINE c == Current(dn[i])
  <2>1. CASE XPDeletes(i)
    BY <1>5, <2>1 DEF XPDeletes, MachineChanges, apiVars, dnVars, workVars
  <2>2. CASE ~XPDeletes(i)
    <3>1. c \in DnVersion /\ c.fins \in SUBSET Finalizers
      BY <1>2 DEF DnVersion
    <3> DEFINE x == [c EXCEPT !.fins = @ \ {XPFinalizer}]
    <3>2. /\ LET v == [c EXCEPT !.fins = @ \cup {XPFinalizer}] IN v \in DnVersion /\ v.gen = c.gen
          /\ LET v == [c EXCEPT !.ready = FALSE] IN v \in DnVersion /\ v.gen = c.gen
          /\ x \in DnVersion /\ x.gen = c.gen
          /\ vm[i] \in Statuses =>
                LET v == [c EXCEPT !.ready = TRUE, !.cur = vm[i]] IN
                v \in DnVersion /\ v.gen = c.gen
      BY <3>1 DEF DnVersion, Finalizers
    <3>3. Settled(x) \in DnVersion /\ Settled(x).gen = c.gen
      BY <3>2, SettledType DEF Settled, DnVersion
    <3>4. vm[i] \in Statuses \cup {"absent"}
      BY <1>1 DEF EnvType
    <3>5. PICK v \in DnVersion : StoreDn(i, v) /\ v.gen = c.gen
      BY <1>28, <2>2, <3>2, <3>3, <3>4
      DEF Crossplane, XPAddsFinalizer, XPCreates, XPObserves, XPReleases
    <3>6. /\ WriteDn(i, v) /\ UNCHANGED <<up, pc, key, inst>>
          /\ "inst" \in stale => "inst" \in stale'
      BY <3>5 DEF StoreDn, Outdates, workVars
    <3>7. /\ StoredGen' /\ NotOlder
          /\ dn[key] \in Window(DnBuilt(inst.gen)) => dn'[key] \in Window(DnBuilt(inst.gen))
      BY <1>1, <1>19, <3>5, <3>6
    <3> QED
      BY <1>1, <1>2, <3>6, <3>7, KeepWorkerGen DEF WorkerGen
  <2> QED
    BY <2>1, <2>2
<1>29. ASSUME NEW i \in Instances,
              ReconcileFinalizes(i) \/ ReconcileAddsFinalizer(i) \/ ReconcileProvisions(i)
       PROVE  StoredGen' /\ WorkerGen' /\ NotOlder
  <2>1. /\ pc = "idle" /\ UNCHANGED <<up, dn>> /\ key' = i /\ inst' = Cached(up[i])
        /\ stale' = IF Undelivered(up[i]) THEN {"inst"} ELSE {}
    BY <1>29 DEF ReconcileFinalizes, ReconcileAddsFinalizer, ReconcileProvisions, Take, Load,
       apiVars, dnVars
  <2>2. "inst" \notin stale' => inst'.gen = Current(up'[key']).gen
    BY <1>1, <2>1, CurrentFacts
  <2>3. inst'.gen <= Cached(up'[key']).gen /\ dn'[key'] \in Window(DnBuilt(inst'.gen))
    BY <1>1, <1>2, <2>1 DEF StoredGen
  <2> QED
    BY <1>3, <2>1, <2>2, <2>3 DEF WorkerGen
<1>30. ASSUME NEW i \in Instances,
              ReconcileSkips(i) \/ PrereqReady(i) \/ PrereqRegresses(i)
                 \/ VMSettles(i) \/ VMDisturbed(i)
       PROVE  StoredGen' /\ WorkerGen' /\ NotOlder
  BY <1>5, <1>30
  DEF ReconcileSkips, PrereqReady, PrereqRegresses, VMSettles, VMDisturbed, MachineChanges,
      apiVars, dnVars, workVars
<1>31. CASE LocationChanges \/ UNCHANGED vars
  BY <1>5, <1>31 DEF LocationChanges, vars, apiVars, dnVars, workVars
<1> QED
  BY <1>8, <1>9, <1>10, <1>11, <1>12, <1>13, <1>14, <1>15, <1>17, <1>18, <1>20, <1>21,
     <1>22, <1>23, <1>24, <1>25, <1>26, <1>27, <1>28, <1>29, <1>30, <1>31, <1>32
  DEF Next, Step, Worker

\* CreateOrPatch never takes the spec of an existing GCP Instance back to an
\* older generation of its Instance, whatever the lag of the caches and
\* whenever the process restarts.
THEOREM SpecNeverRegressesHolds == Spec => SpecNeverRegresses
<1>1. GenInv /\ [Next]_vars => GenInv'
  BY NextGen
<1>2. GenInv /\ [Next]_vars =>
         [\A i \in Instances :
            Exists(Current(dn[i])) /\ Exists(Current(dn'[i]))
               => Current(dn'[i]).gen >= Current(dn[i]).gen]_vars
  BY NextGen DEF NotOlder
<1> QED
  BY <1>1, <1>2, InitGen, PTL DEF Spec, SpecNeverRegresses
-----------------------------------------------------------------------------
(* Programmed means Ready. *)

\* Crossplane has reported i's GCP Instance Ready with a spec of generation n or
\* an older one.
ReadyBy(i, n) == \E g \in readyAt[i] : g <= n

\* Versions of an Instance that report no more than has been the case: the spec
\* was patched to what they report, and never went back.
UpTruths(i) ==
    {v \in UpVersion :
        v.prog = "Programmed" =>
            v.observed = v.pgen /\ ReadyBy(i, v.pgen) /\ Current(dn[i]).gen >= v.pgen}

\* Versions of a GCP Instance that are Ready for the spec they have or for an
\* older one, a patch of the spec leaves the condition; none has a spec that is
\* newer than the stored one.
DnTruths(i) ==
    {v \in DnVersion : (v.ready => ReadyBy(i, v.gen)) /\ v.gen <= Current(dn[i]).gen}

StoredTruth ==
    \A i \in Instances :
        up[i] \in Window(UpTruths(i)) /\ dn[i] \in Window(DnTruths(i))

\* The copy in hand is such a version, up to the field that Conclude sets for
\* UpdateStatus; what Programmed will report is the GCP Instance in hand.
WorkerTruth ==
    /\ pc # "updateStatus" => inst \in UpTruths(key)
    /\ gcp \in DnTruths(key)
    /\ pc = "idle" => inst = NoInstance /\ gcp = NoGCPInstance
    /\ pc \in {"syncPower", "writePower", "conclude"} => gcp.gen = inst.gen
    /\ cond = "Programmed" =>
          /\ pc = "updateStatus" /\ inst.observed = inst.gen
          /\ ReadyBy(key, inst.gen) /\ Current(dn[key]).gen >= inst.gen

TruthInv == TypeOK /\ StoredTruth /\ WorkerTruth

\* The history only grows, the spec never goes back: what is true stays true.
Onward == NotOlder /\ \A i \in Instances : readyAt[i] \subseteq readyAt'[i]

LEMMA NextOnward ==
    ASSUME GenInv, [Next]_vars
    PROVE  Onward
<1>1. StoreType
  BY TypeParts DEF GenInv, SafeInv
<1>2. ASSUME NEW i \in Instances, XPObserves(i)
      PROVE  \A j \in Instances : readyAt[j] \subseteq readyAt'[j]
  <2>1. readyAt' = [readyAt EXCEPT ![i] = @ \cup {Current(dn[i]).gen}]
    BY <1>2 DEF XPObserves
  <2> QED
    BY <1>1, <2>1 DEF StoreType
<1>3. ASSUME NEW i \in Instances,
             \/ Worker(i) \/ User(i) \/ DeliverUpstream(i) \/ DeliverDownstream(i)
             \/ PrereqReady(i) \/ PrereqRegresses(i) \/ VMSettles(i) \/ VMDisturbed(i)
      PROVE  readyAt' = readyAt
  BY <1>3 DEF Worker, ReconcileSkips, ReconcileFinalizes, ReconcileAddsFinalizer,
     ReconcileProvisions, Load, User, CreateInstance, RemoveGate, UpdateTemplate,
     DeleteInstance, StoreUp, DeliverUpstream, DeliverDownstream, PrereqReady,
     PrereqRegresses, VMSettles, VMDisturbed, MachineChanges, apiVars, dnVars
<1>4. ASSUME NEW i \in Instances, Crossplane(i), ~XPObserves(i)
      PROVE  readyAt' = readyAt
  BY <1>4 DEF Crossplane, XPAddsFinalizer, XPCreates, XPDeletes, XPReleases,
     MachineChanges, apiVars, dnVars
<1>5. ASSUME Step \/ CallFails \/ PowerAnswerLost \/ Restart \/ LocationChanges \/ UNCHANGED vars
      PROVE  readyAt' = readyAt
    BY <1>5 DEF Step, AddFinalizer, LoadOwners, Prerequisites, GetGCPInstance,
       CreateGCPInstance, PatchGCPInstance, CreateOrPatchRefused, RetryCreate, SyncPower,
       WritePower, Conclude, UpdateStatus, FinalizeGet, FinalizeDelete, FinalizeStopping,
       FinalizeRelease, FinalizeRemove, CallFails, PowerAnswerLost, Restart,
       LocationChanges, vars, apiVars, dnVars
<1>6. \A i \in Instances : readyAt[i] \subseteq readyAt'[i]
  BY <1>2, <1>3, <1>4, <1>5 DEF Next
<1> QED
  BY <1>6, NextGen DEF Onward

LEMMA StillTrue ==
    ASSUME StoreType, StoreType', Onward, NEW i \in Instances
    PROVE  /\ \A n : ReadyBy(i, n) => ReadyBy(i, n)'
           /\ \A n \in Nat : Current(dn[i]).gen >= n => Current(dn'[i]).gen >= n
           /\ UpTruths(i) \subseteq UpTruths(i)' /\ DnTruths(i) \subseteq DnTruths(i)'
<1>1. ASSUME NEW n, ReadyBy(i, n) PROVE ReadyBy(i, n)'
  <2>1. readyAt[i] \subseteq readyAt'[i]
    BY DEF Onward
  <2> QED
    BY <1>1, <2>1 DEF ReadyBy
<1>2. \A n \in Nat : Current(dn[i]).gen >= n => Current(dn'[i]).gen >= n
  <2>1. /\ Current(dn[i]).gen \in Nat /\ Current(dn'[i]).gen \in Nat
        /\ Current(dn'[i]).gen >= Current(dn[i]).gen
    <3>1. dn[i] \in Window(DnVersion) /\ dn'[i] \in Window(DnVersion)
      BY DEF StoreType
    <3>2. Current(dn[i]) \in DnVersion /\ Current(dn'[i]) \in DnVersion
      BY <3>1, RelistWindow
    <3> QED
      BY <3>2 DEF DnVersion, Onward, NotOlder
  <2> QED
    BY <2>1
<1>3. UpTruths(i) \subseteq UpTruths(i)'
  <2> SUFFICES ASSUME NEW v \in UpTruths(i) PROVE v \in UpTruths(i)'
    OBVIOUS
  <2>1. v \in UpVersion /\ v.pgen \in Nat
    BY DEF UpTruths, UpVersion
  <2> QED
    BY <1>1, <1>2, <2>1 DEF UpTruths
<1>4. DnTruths(i) \subseteq DnTruths(i)'
  <2> SUFFICES ASSUME NEW v \in DnTruths(i) PROVE v \in DnTruths(i)'
    OBVIOUS
  <2>1. v \in DnVersion /\ v.gen \in Nat /\ v.gen <= Current(dn[i]).gen
    BY DEF DnTruths, DnVersion
  <2>2. v.gen <= Current(dn'[i]).gen
    BY <1>2, <2>1
  <2> QED
    BY <1>1, <2>1, <2>2 DEF DnTruths
<1> QED
  BY <1>1, <1>2, <1>3, <1>4

\* A true version stored upstream.
LEMMA StoreUpTruth ==
    ASSUME StoreType, StoredTruth, NEW i \in Instances, NEW v \in UpTruths(i),
           WriteUp(i, v), UNCHANGED dnVars
    PROVE  StoredTruth'
<1>1. v \in UpVersion
  BY DEF UpTruths
<1>2. up'[i] = Write(up[i], v) /\ \A j \in Instances : j # i => up'[j] = up[j]
  BY <1>1, WriteUpType
<1>3. Write(up[i], v) \in Window(UpTruths(i))
  BY WriteWindow DEF StoredTruth
<1>4. \A j \in Instances : up'[j] \in Window(UpTruths(j)) /\ dn'[j] \in Window(DnTruths(j))
  BY <1>2, <1>3 DEF StoredTruth, dnVars
<1>5. \A j \in Instances : UpTruths(j)' = UpTruths(j) /\ DnTruths(j)' = DnTruths(j)
  BY DEF dnVars, UpTruths, DnTruths, ReadyBy
<1> QED
  BY <1>4, <1>5 DEF StoredTruth

\* A version stored downstream, Ready if at all by then.
LEMMA StoreDnTruth ==
    ASSUME StoreType, StoreType', StoredTruth, Onward, NEW i \in Instances, NEW v \in DnVersion,
           WriteDn(i, v), UNCHANGED up, v.ready => ReadyBy(i, v.gen)'
    PROVE  StoredTruth' /\ v \in DnTruths(i)' /\ Current(dn'[i]) = v
<1>1. dn'[i] = Write(dn[i], v) /\ \A j \in Instances : j # i => dn'[j] = dn[j]
  BY WriteDnType
<1>2. Current(dn'[i]) = v
  BY <1>1, WriteWindow DEF StoreType
<1>3. v \in DnTruths(i)'
  <2>1. v.gen \in Nat
    BY DEF DnVersion
  <2>2. v.gen <= v.gen
    BY <2>1
  <2> QED
    BY <1>2, <2>2 DEF DnTruths
<1>4. ASSUME NEW j \in Instances
      PROVE  up'[j] \in Window(UpTruths(j)') /\ dn'[j] \in Window(DnTruths(j)')
  <2>1. UpTruths(j) \subseteq UpTruths(j)' /\ DnTruths(j) \subseteq DnTruths(j)'
    BY StillTrue
  <2>2. up[j] \in Window(UpTruths(j)') /\ dn[j] \in Window(DnTruths(j)')
    BY <2>1, WindowGrows DEF StoredTruth
  <2>3. CASE j = i
    BY <1>1, <1>3, <2>2, <2>3, WriteWindow
  <2> QED
    BY <1>1, <2>2, <2>3
<1>5. StoredTruth'
  BY <1>4 DEF StoredTruth
<1> QED
  BY <1>2, <1>3, <1>5

\* A version that is Ready only if another one was, and has no older spec.
LEMMA AsReady ==
    ASSUME StoreType, StoreType', Onward, NEW i \in Instances, NEW u \in DnTruths(i), NEW v \in DnVersion,
           v.ready => u.ready, v.gen >= u.gen
    PROVE  v.ready => ReadyBy(i, v.gen)'
<1>1. u \in DnVersion /\ (u.ready => ReadyBy(i, u.gen))
  BY DEF DnTruths
<1>2. u.gen \in Nat /\ v.gen \in Nat /\ readyAt[i] \in SUBSET Nat
  BY <1>1 DEF DnVersion, StoreType
<1>3. ReadyBy(i, u.gen) => ReadyBy(i, v.gen)
  BY <1>2 DEF ReadyBy
<1> QED
  BY <1>1, <1>3, StillTrue

LEMMA KeepStoredTruth ==
    ASSUME StoredTruth, UNCHANGED apiVars
    PROVE  StoredTruth'
  BY DEF StoredTruth, UpTruths, DnTruths, ReadyBy, apiVars, dnVars

\* The worker's part when somebody else takes a step.
LEMMA KeepWorkerTruth ==
    ASSUME WorkType, StoreType, StoreType', Onward, WorkerTruth, UNCHANGED workVars
    PROVE  WorkerTruth'
<1>1. key \in Instances /\ UNCHANGED <<pc, key, inst, gcp, cond>> /\ inst.gen \in Nat
  BY DEF WorkType, workVars, UpVersion
<1>2. /\ UpTruths(key) \subseteq UpTruths(key)' /\ DnTruths(key) \subseteq DnTruths(key)'
      /\ ReadyBy(key, inst.gen) => ReadyBy(key, inst.gen)'
      /\ Current(dn[key]).gen >= inst.gen => Current(dn'[key]).gen >= inst.gen
  <2>1. ASSUME NEW i \in Instances, i = key
        PROVE  /\ UpTruths(i) \subseteq UpTruths(i)' /\ DnTruths(i) \subseteq DnTruths(i)'
               /\ ReadyBy(i, inst.gen) => ReadyBy(i, inst.gen)'
               /\ Current(dn[i]).gen >= inst.gen => Current(dn'[i]).gen >= inst.gen
    BY <1>1, StillTrue DEF ReadyBy
  <2> QED
    BY <1>1, <2>1 DEF UpTruths, DnTruths, ReadyBy
<1> QED
  BY <1>1, <1>2 DEF WorkerTruth

LEMMA IdleTruth ==
    ASSUME TypeOK', Idle
    PROVE  WorkerTruth'
<1>1. NoInstance \in UpVersion /\ NoGCPInstance \in DnVersion
  BY DEF NoInstance, NoGCPInstance, UpVersion, DnVersion, Phases, ProgReasons,
         RunReasons, Finalizers
<1>2. NoInstance.prog = "Unset" /\ NoGCPInstance.ready = FALSE
  BY DEF NoInstance, NoGCPInstance
<1>3. Current(dn'[key']).gen \in Nat /\ NoGCPInstance.gen = 0
  <2>0. WorkType' /\ StoreType'
    BY TypeParts, PTL
  <2>1. key' \in Instances /\ StoreType'
    BY <2>0 DEF WorkType
  <2>2. Current(dn'[key']) \in DnVersion
    BY <2>1, RelistWindow DEF StoreType
  <2> QED
    BY <2>2 DEF DnVersion, NoGCPInstance
<1>4. NoInstance \in UpTruths(key)' /\ NoGCPInstance \in DnTruths(key)'
  BY <1>1, <1>2, <1>3 DEF UpTruths, DnTruths
<1> QED
  BY <1>4 DEF Idle, WorkerTruth

LEMMA InitTruth == Init => TruthInv
<1> SUFFICES ASSUME Init PROVE TruthInv
  OBVIOUS
<1>1. NoInstance \in UpVersion /\ NoGCPInstance \in DnVersion
  BY DEF NoInstance, NoGCPInstance, UpVersion, DnVersion, Phases, ProgReasons,
         RunReasons, Finalizers
<1>2. NoInstance.prog = "Unset" /\ NoGCPInstance.ready = FALSE
  BY DEF NoInstance, NoGCPInstance
<1>3. \A i \in Instances : NoInstance \in UpTruths(i) /\ NoGCPInstance \in DnTruths(i)
  <2>1. \A i \in Instances : Current(dn[i]) = NoGCPInstance
    BY DEF Init, Current
  <2>2. NoGCPInstance.gen = 0
    BY DEF NoGCPInstance
  <2> QED
    BY <1>1, <1>2, <2>1, <2>2 DEF UpTruths, DnTruths
<1>4. StoredTruth
  BY <1>3 DEF StoredTruth, Init, Window
<1>5. WorkerTruth
  BY <1>3 DEF Init, WorkerTruth
<1> QED
  BY <1>4, <1>5, InitType DEF TruthInv

\* Every step keeps the reports true.
LEMMA NextTruth == GenInv /\ TruthInv /\ [Next]_vars => TruthInv'
<1> SUFFICES ASSUME TypeOK, GenInv, StoredTruth, WorkerTruth, Onward, [Next]_vars
             PROVE  StoredTruth' /\ WorkerTruth'
  BY NextType, NextOnward DEF TruthInv
<1>1. /\ StoreType /\ EnvType /\ WorkType /\ WorkerGen /\ StoreType'
      /\ key \in Instances /\ inst \in UpVersion /\ gcp \in DnVersion
      /\ UpTruths(key) \subseteq UpVersion
      /\ inst.gen \in Nat /\ gcp.gen \in Nat
  <2>1. StoreType /\ EnvType /\ WorkType
    BY TypeParts
  <2>2. TypeOK' /\ StoreType'
    BY NextType, TypeParts, PTL
  <2> QED
    BY <2>1, <2>2 DEF WorkType, GenInv, UpTruths, UpVersion, DnVersion
\* What is true of the worker's key stays true.
<1>34. ASSUME key' = key
       PROVE  UpTruths(key) \subseteq UpTruths(key)' /\ DnTruths(key) \subseteq DnTruths(key)'
  <2>1. ASSUME NEW i \in Instances, i = key
        PROVE  UpTruths(i) \subseteq UpTruths(i)' /\ DnTruths(i) \subseteq DnTruths(i)'
    BY <1>1, StillTrue
  <2> QED
    BY <1>1, <1>34, <2>1 DEF UpTruths, DnTruths, ReadyBy
<1>2. ASSUME NEW i \in Instances
      PROVE  /\ Current(up[i]) \in UpTruths(i) /\ Cached(up[i]) \in UpTruths(i)
             /\ Current(dn[i]) \in DnTruths(i) /\ Cached(dn[i]) \in DnTruths(i)
  BY RelistWindow DEF StoredTruth
<1>3. UNCHANGED apiVars => StoredTruth'
  BY KeepStoredTruth
<1>4. Idle => WorkerTruth'
  BY NextType, IdleTruth, PTL
\* The deferred status update is entered with a reason other than Programmed.
<1>5. ASSUME pc # "updateStatus", NEW c, NEW e, Leave(c, e), c # "Programmed"
      PROVE  WorkerTruth'
  <2>1. /\ pc' = "updateStatus" /\ cond' = c /\ key' = key /\ gcp' = gcp
    BY <1>5 DEF Leave
  <2>2. gcp' \in DnTruths(key)'
    BY <1>34, <2>1 DEF WorkerTruth
  <2> QED
    BY <1>5, <2>1, <2>2 DEF WorkerTruth
<1>6. cond = "Programmed" => pc = "updateStatus"
  BY DEF WorkerTruth
<1>7. ASSUME NEW v \in UpVersion, v.prog = inst.prog, v.pgen = inst.pgen,
             v.observed = inst.observed, pc # "updateStatus"
      PROVE  v \in UpTruths(key)
  BY <1>7 DEF WorkerTruth, UpTruths
<1>8. CASE AddFinalizer
  <2> DEFINE v == [inst EXCEPT !.fins = @ \cup {GCPFinalizer}]
  <2>1. v \in UpVersion /\ v.prog = inst.prog /\ v.pgen = inst.pgen /\ v.observed = inst.observed
    BY <1>1 DEF UpVersion, Finalizers
  <2>2. /\ Idle /\ UNCHANGED dnVars /\ pc = "addFinalizer"
        /\ WriteUp(key, v) \/ UNCHANGED up
    BY <1>8 DEF AddFinalizer, Return
  <2> HIDE DEF v
  <2> QED
    BY <1>1, <1>3, <1>4, <1>7, <2>1, <2>2, StoreUpTruth DEF apiVars
<1>9. CASE FinalizeStopping
  <2> DEFINE v == WithPower(inst, gcp.cur)
  <2>1. v \in UpVersion
    BY <1>1, PowerType
  <2>2. v.prog = inst.prog /\ v.pgen = inst.pgen /\ v.observed = inst.observed
    BY <1>1 DEF WithPower, UpVersion
  <2>3. /\ Idle /\ UNCHANGED dnVars /\ pc = "fzStopping"
        /\ WriteUp(key, v) \/ UNCHANGED up
    BY <1>9 DEF FinalizeStopping, Return
  <2> HIDE DEF v
  <2> QED
    BY <1>1, <1>3, <1>4, <1>7, <2>1, <2>2, <2>3, StoreUpTruth DEF apiVars
<1>10. CASE FinalizeRemove
  <2> DEFINE x == [inst EXCEPT !.fins = @ \ {GCPFinalizer}]
             v == Settled(x)
  <2>1. x \in UpVersion /\ x.prog = inst.prog /\ x.pgen = inst.pgen /\ x.observed = inst.observed
    BY <1>1 DEF UpVersion
  <2>2. v \in UpVersion /\ v.prog = x.prog /\ v.pgen = x.pgen /\ v.observed = x.observed
    BY <2>1, SettledType DEF Settled, UpVersion
  <2>3. /\ Idle /\ UNCHANGED dnVars /\ pc = "fzRemove"
        /\ WriteUp(key, v) \/ UNCHANGED up
    BY <1>10 DEF FinalizeRemove, Return
  <2> HIDE DEF v
  <2> QED
    BY <1>1, <1>3, <1>4, <1>7, <2>1, <2>2, <2>3, StoreUpTruth DEF apiVars
<1>11. CASE UpdateStatus
  <2> DEFINE v == Reported(inst)
  <2>1. /\ v \in UpVersion /\ v.prog = cond /\ v.pgen = inst.gen /\ v.observed = inst.observed
    BY <1>1 DEF Reported, UpVersion, WorkType
  <2>2. v \in UpTruths(key)
    BY <2>1 DEF UpTruths, WorkerTruth
  <2>3. /\ Idle /\ UNCHANGED dnVars
        /\ WriteUp(key, v) \/ UNCHANGED up
    BY <1>11 DEF UpdateStatus, Return
  <2> HIDE DEF v
  <2> QED
    BY <1>1, <1>3, <1>4, <2>2, <2>3, StoreUpTruth DEF apiVars
<1>12. CASE WritePower
  <2>1. pc = "writePower" /\ UNCHANGED dnVars /\ UNCHANGED inst /\ inst \in UpTruths(key)
    BY <1>12 DEF WritePower, WorkerTruth
  <2>2. StoredTruth'
    BY <1>1, <1>3, <1>12, <2>1, StoreUpTruth DEF WritePower, apiVars
  <2>3. CASE Goto("conclude") /\ UNCHANGED <<gcp, cond>>
    BY <1>34, <2>1, <2>2, <2>3 DEF Goto, WorkerTruth
  <2>4. CASE Leave(cond, "error")
    BY <1>5, <1>6, <2>1, <2>2, <2>4 DEF dnVars
  <2> QED
    BY <1>12, <2>2, <2>3, <2>4 DEF WritePower
<1>13. CASE PowerAnswerLost
  <2>1. /\ pc = "writePower" /\ UNCHANGED dnVars /\ inst \in UpTruths(key)
        /\ WriteUp(key, inst) /\ Leave(cond, "error")
    BY <1>13 DEF PowerAnswerLost, WorkerTruth
  <2>2. WorkerTruth'
    BY <1>5, <1>6, <2>1 DEF dnVars
  <2> QED
    BY <1>1, <2>1, <2>2, StoreUpTruth
<1>14. CASE LoadOwners
  <2>1. /\ UNCHANGED apiVars /\ pc = "owners"
        /\ \/ Idle
           \/ /\ UNCHANGED <<inst, gcp, key>> /\ pc' = "prereqs"
              /\ cond' = "PendingProgramming"
    BY <1>14 DEF LoadOwners, Goto, Return
  <2>2. CASE Idle
    BY <1>3, <1>4, <2>1, <2>2
  <2>3. CASE UNCHANGED <<inst, gcp, key>> /\ pc' = "prereqs" /\ cond' = "PendingProgramming"
    BY <1>3, <1>34, <2>1, <2>3 DEF WorkerTruth
  <2> QED
    BY <2>1, <2>2, <2>3
<1>15. CASE Prerequisites
  <2>1. UNCHANGED <<apiVars, inst>> /\ pc = "prereqs"
    BY <1>15 DEF Prerequisites
  <2>2. CASE Goto("getInstance") /\ UNCHANGED <<gcp, cond>>
    BY <1>3, <1>34, <2>1, <2>2 DEF Goto, WorkerTruth
  <2>3. CASE Leave("ProvisioningPrerequisite", "ok") \/ Leave("PrerequisiteFailed", "error")
    BY <1>3, <1>5, <2>1, <2>3 DEF apiVars, dnVars
  <2> QED
    BY <1>15, <2>2, <2>3 DEF Prerequisites
<1>16. CASE GetGCPInstance \/ FinalizeGet
  <2>1. /\ UNCHANGED <<apiVars, inst, cond, key>> /\ gcp' = Cached(dn[key])
        /\ pc \in {"getInstance", "fzGet"}
        /\ pc' \in {"createOrPatch", "fzDelete", "fzStopping", "fzRelease", "fzRemove"}
    BY <1>16 DEF GetGCPInstance, FinalizeGet, GetGCP, Goto, AfterDeleteCall
  <2>2. Cached(dn[key]) \in DnTruths(key)
    BY <1>1, <1>2
  <2> QED
    BY <1>3, <1>34, <2>1, <2>2 DEF WorkerTruth
\* What CreateOrPatch stores, it has in hand.
<1>17. ASSUME NEW v \in DnVersion, pc = "createOrPatch", Processed(v), v.gen = inst.gen,
              WriteDn(key, v), UNCHANGED up, v.ready => Current(dn[key]).ready
       PROVE  StoredTruth' /\ WorkerTruth'
  <2>1. /\ pc' \in {"retryCreate", "syncPower"} /\ gcp' = v /\ UNCHANGED <<inst, cond, key>>
    BY <1>17 DEF Processed, Goto
  <2>2. pc \in Building
    BY <1>17 DEF Building, Provisioning
  <2>3. v.gen >= Current(dn[key]).gen
    BY <1>1, <1>17, <2>2, BuiltCurrent, Gens DEF WorkerGen
  <2>4. ASSUME NEW i \in Instances, i = key
        PROVE  StoredTruth' /\ v \in DnTruths(i)'
    <3>1. v.ready => ReadyBy(i, v.gen)'
      BY <1>1, <1>2, <1>17, <2>3, <2>4, AsReady
    <3> QED
      BY <1>1, <1>17, <2>4, <3>1, StoreDnTruth
  <2>5. StoredTruth' /\ gcp' \in DnTruths(key)'
    BY <1>1, <2>1, <2>4 DEF DnTruths, ReadyBy
  <2>6. inst' \in UpTruths(key)'
    BY <1>17, <1>34, <2>1 DEF WorkerTruth
  <2> QED
    BY <1>17, <2>1, <2>5, <2>6 DEF WorkerTruth
\* A version stored downstream that is Ready only if one known to be true is, with
\* its spec.
<1>36. ASSUME NEW i \in Instances, NEW u \in DnTruths(i), NEW v \in DnVersion, WriteDn(i, v),
              UNCHANGED up, v.ready => u.ready, v.gen = u.gen
       PROVE  StoredTruth'
  <2>3. v.gen \in Nat
    BY DEF DnVersion
  <2>1. v.gen >= u.gen
    BY <1>36, <2>3
  <2>2. v.ready => ReadyBy(i, v.gen)'
    BY <1>1, <1>36, <2>1, AsReady
  <2> QED
    BY <1>1, <1>36, <2>2, StoreDnTruth
<1>18. CASE CreateGCPInstance
  <2>1. NewGCPInstance \in DnVersion /\ NewGCPInstance.gen = inst.gen /\ ~NewGCPInstance.ready
    BY <1>1 DEF NewGCPInstance, NoGCPInstance, UpVersion, DnVersion, Phases, Finalizers
  <2> QED
    BY <1>17, <1>18, <2>1 DEF CreateGCPInstance
<1>19. CASE PatchGCPInstance
  <2>1. CASE NothingToPatch /\ Processed(gcp) /\ UNCHANGED dn
    <3>1. /\ pc = "createOrPatch" /\ UNCHANGED <<apiVars, inst, cond, key, gcp>>
          /\ pc' \in {"retryCreate", "syncPower"} /\ gcp.gen = inst.gen
      BY <1>19, <2>1 DEF PatchGCPInstance, Processed, NothingToPatch, Goto, apiVars, dnVars
    <3> QED
      BY <1>3, <1>34, <3>1 DEF WorkerTruth
  <2>2. CASE LET v == Patched(Current(dn[key])) IN WriteDn(key, v) /\ Processed(v)
    <3> DEFINE v == Patched(Current(dn[key]))
    <3>1. Current(dn[key]) \in DnVersion /\ inst.gen \in Nat /\ gcp.fins \in SUBSET Finalizers
      BY <1>1, StoredVersions DEF UpVersion, DnVersion
    <3>2. v \in DnVersion /\ v.gen = inst.gen
      BY <3>1 DEF Patched, DnVersion, Finalizers
    <3>4. v.ready = Current(dn[key]).ready
      BY <3>1 DEF Patched, DnVersion
    <3>3. WriteDn(key, v) /\ Processed(v) /\ pc = "createOrPatch" /\ UNCHANGED up
      BY <1>19, <2>2 DEF PatchGCPInstance
    <3> HIDE DEF v
    <3> QED
      BY <1>17, <3>2, <3>3, <3>4
  <2> QED
    BY <1>19, <2>1, <2>2 DEF PatchGCPInstance
<1>20. CASE CreateOrPatchRefused
  <2>1. UNCHANGED <<apiVars, inst>> /\ pc = "createOrPatch" /\ Leave(cond, "error")
    BY <1>20 DEF CreateOrPatchRefused
  <2> QED
    BY <1>3, <1>5, <1>6, <2>1 DEF apiVars, dnVars
<1>21. CASE RetryCreate
  <2>1. UNCHANGED <<up, inst>> /\ pc = "retryCreate" /\ Leave(cond, "error")
    BY <1>21 DEF RetryCreate
  <2>2. CASE UNCHANGED dn
    BY <1>3, <1>5, <1>6, <1>21, <2>1, <2>2 DEF RetryCreate, apiVars, dnVars
  <2>3. ASSUME NEW r \in {gcp.retry, gcp.retry + 1}, WriteDn(key, [gcp EXCEPT !.retry = r])
        PROVE  StoredTruth' /\ WorkerTruth'
    <3> DEFINE v == [gcp EXCEPT !.retry = r]
    <3>1. gcp.retry \in Nat /\ \A s \in Nat : [gcp EXCEPT !.retry = s] \in DnVersion
      BY <1>1 DEF DnVersion
    <3>2. v \in DnVersion
      BY <3>1
    <3>3. v.ready = gcp.ready /\ v.gen = gcp.gen /\ WriteDn(key, v)
      BY <1>1, <2>3 DEF DnVersion
    <3> HIDE DEF v
    <3>4. StoredTruth'
      BY <1>1, <1>36, <2>1, <3>2, <3>3 DEF WorkerTruth
    <3> QED
      BY <1>5, <1>6, <2>1, <3>4
  <2> QED
    BY <1>21, <2>2, <2>3 DEF RetryCreate
<1>22. CASE SyncPower
  <2>1. /\ UNCHANGED <<apiVars, gcp, cond, key>> /\ inst' = WithPower(inst, gcp.cur)
        /\ pc = "syncPower" /\ pc' \in {"conclude", "writePower"}
    BY <1>22 DEF SyncPower, Goto
  <2>2. inst' \in UpVersion /\ inst'.gen = inst.gen /\ inst'.prog = inst.prog
        /\ inst'.pgen = inst.pgen /\ inst'.observed = inst.observed
    BY <1>1, <2>1, PowerType DEF WithPower, UpVersion
  <2>3. inst' \in UpTruths(key)
    BY <1>7, <2>1, <2>2
  <2> QED
    BY <1>3, <1>34, <2>1, <2>2, <2>3 DEF WorkerTruth
<1>23. CASE Conclude
  <2>1. UNCHANGED apiVars /\ pc = "conclude"
    BY <1>23 DEF Conclude
  <2>2. CASE gcp.ready /\ Leave("Programmed", "ok") /\ inst' = [inst EXCEPT !.observed = inst.gen]
    <3>1. inst'.gen = inst.gen /\ inst'.observed = inst.gen
      BY <1>1, <2>2 DEF UpVersion
    <3>2. gcp \in DnTruths(key) /\ gcp.gen = inst.gen
      BY <2>1 DEF WorkerTruth
    <3>3. ReadyBy(key, inst.gen) /\ gcp.gen <= Current(dn[key]).gen
      BY <2>2, <3>2 DEF DnTruths
    <3>4. Current(dn[key]).gen >= inst.gen
      BY <1>1, <3>2, <3>3, Gens
    <3>5. UNCHANGED <<key, dn, readyAt, gcp>> /\ pc' = "updateStatus"
      BY <2>1, <2>2 DEF Leave, apiVars, dnVars
    <3>6. ReadyBy(key, inst.gen)' /\ Current(dn'[key']).gen >= inst'.gen
      BY <3>1, <3>3, <3>4, <3>5 DEF ReadyBy
    <3>7. gcp' \in DnTruths(key)'
      BY <1>34, <3>2, <3>5
    <3> QED
      BY <1>3, <2>1, <2>2, <3>1, <3>5, <3>6, <3>7 DEF WorkerTruth
  <2>3. CASE Leave("ProvisioningProviderInstance", "ok") /\ UNCHANGED inst
    BY <1>3, <1>5, <2>1, <2>3 DEF apiVars, dnVars
  <2> QED
    BY <1>23, <2>2, <2>3 DEF Conclude
<1>24. CASE FinalizeDelete
  <2> DEFINE v == AfterDelete(Current(dn[key]))
  <2>1. v \in DnVersion
    BY <1>1, StoredVersions, SettledType
  <2>5. v.ready = Current(dn[key]).ready /\ v.gen = Current(dn[key]).gen
    BY <1>1, StoredVersions DEF AfterDelete, Settled, DnVersion
  <2> HIDE DEF v
  <2>2. UNCHANGED <<up, readyAt>> /\ (WriteDn(key, v) \/ UNCHANGED dn)
    BY <1>24 DEF FinalizeDelete, v
  <2>3. StoredTruth'
    BY <1>1, <1>2, <1>3, <1>36, <2>1, <2>2, <2>5 DEF apiVars, dnVars
  <2>4. CASE /\ Goto(AfterDeleteCall(gcp)) /\ UNCHANGED <<inst, gcp, cond>>
    <3>1. pc = "fzDelete" /\ pc' \in {"fzStopping", "fzRelease", "fzRemove"}
      BY <1>24, <2>4 DEF FinalizeDelete, Goto, AfterDeleteCall
    <3> QED
      BY <1>34, <2>3, <2>4, <3>1 DEF Goto, WorkerTruth
  <2> QED
    BY <1>4, <1>24, <2>3, <2>4 DEF FinalizeDelete, Return
<1>25. CASE FinalizeRelease
  <2> DEFINE x == [gcp EXCEPT !.fins = @ \ {GCPFinalizer}]
             v == Settled(x)
  <2>1. x \in DnVersion
    BY <1>1 DEF DnVersion
  <2>2. v \in DnVersion
    BY <2>1, SettledType
  <2>6. v.ready = gcp.ready /\ v.gen = gcp.gen
    BY <1>1, <2>1 DEF Settled, DnVersion
  <2> HIDE DEF v
  <2>3. UNCHANGED <<up, readyAt>> /\ (WriteDn(key, v) \/ UNCHANGED dn) /\ gcp \in DnTruths(key)
    BY <1>25 DEF FinalizeRelease, v, WorkerTruth
  <2>4. StoredTruth'
    BY <1>1, <1>3, <1>36, <2>2, <2>3, <2>6 DEF apiVars, dnVars
  <2>5. CASE Goto("fzRemove") /\ UNCHANGED <<inst, gcp, cond>>
    <3>1. pc = "fzRelease"
      BY <1>25 DEF FinalizeRelease
    <3> QED
      BY <1>34, <2>4, <2>5, <3>1 DEF Goto, WorkerTruth
  <2> QED
    BY <1>4, <1>25, <2>4, <2>5 DEF FinalizeRelease, Return
<1>26. CASE CallFails
  <2>1. UNCHANGED apiVars
    BY <1>26 DEF CallFails
  <2>2. CASE Idle
    BY <1>3, <1>4, <2>1, <2>2
  <2>3. CASE pc # "updateStatus" /\ Leave(cond, "error") /\ UNCHANGED inst
    BY <1>3, <1>5, <1>6, <2>1, <2>3 DEF apiVars, dnVars
  <2> QED
    BY <1>26, <2>2, <2>3 DEF CallFails, Return
<1>27. CASE Restart
  <2>1. Idle /\ UNCHANGED readyAt
    BY <1>27 DEF Restart
  <2>2. ASSUME NEW j \in Instances
        PROVE  up'[j] \in Window(UpTruths(j)') /\ dn'[j] \in Window(DnTruths(j)')
    <3>1. up'[j] = <<Current(up[j])>> /\ dn'[j] = <<Current(dn[j])>>
      BY <1>27 DEF Restart
    <3>2. up'[j] \in Window(UpTruths(j)) /\ dn'[j] \in Window(DnTruths(j))
      BY <3>1, RelistWindow DEF StoredTruth
    <3> QED
      BY <1>1, <3>2, StillTrue, WindowGrows
  <2> QED
    BY <1>4, <2>1, <2>2 DEF StoredTruth
<1>28. ASSUME NEW i \in Instances, DeliverUpstream(i) \/ DeliverDownstream(i)
       PROVE  StoredTruth' /\ WorkerTruth'
  <2>1. UNCHANGED <<readyAt, workVars>>
    BY <1>28 DEF DeliverUpstream, DeliverDownstream, dnVars
  <2>2. ASSUME NEW j \in Instances
        PROVE  up'[j] \in Window(UpTruths(j)') /\ dn'[j] \in Window(DnTruths(j)')
    <3>1. /\ up'[j] = up[j] \/ (Undelivered(up[j]) /\ up'[j] = Tail(up[j]))
          /\ dn'[j] = dn[j] \/ (Undelivered(dn[j]) /\ dn'[j] = Tail(dn[j]))
      BY <1>1, <1>28 DEF DeliverUpstream, DeliverDownstream, StoreType, dnVars
    <3>2. up'[j] \in Window(UpTruths(j)) /\ dn'[j] \in Window(DnTruths(j))
      BY <3>1, TailWindow DEF StoredTruth
    <3> QED
      BY <1>1, <3>2, StillTrue, WindowGrows
  <2> QED
    BY <1>1, <2>1, <2>2, KeepWorkerTruth DEF StoredTruth
<1>29. ASSUME NEW i \in Instances, User(i) PROVE StoredTruth' /\ WorkerTruth'
  <2> DEFINE c == Current(up[i])
  <2>1. c \in UpVersion /\ c \in UpTruths(i)
    BY <1>1, <1>2, StoredVersions
  <2>2. PICK v \in UpTruths(i) : StoreUp(i, v)
    <3>1. CASE CreateInstance(i)
      <4>1. PICK g \in 0..MaxGates :
               StoreUp(i, [NoInstance EXCEPT !.phase = "live", !.gates = g, !.gen = 1])
        BY <3>1 DEF CreateInstance
      <4>2. g \in Nat
        BY InstanceAssumption
      <4> DEFINE v == [NoInstance EXCEPT !.phase = "live", !.gates = g, !.gen = 1]
      <4>3. v \in UpVersion /\ v.prog = "Unset"
        BY <4>2 DEF NoInstance, UpVersion, Phases, ProgReasons, RunReasons, Finalizers
      <4>4. v \in UpTruths(i)
        BY <4>3 DEF UpTruths
      <4> QED
        BY <4>1, <4>4
    <3>2. CASE RemoveGate(i)
      <4> DEFINE v == [c EXCEPT !.gates = @ - 1]
      <4>1. c.gates \in Nat /\ c.gates > 0 /\ StoreUp(i, v)
        BY <2>1, <3>2 DEF RemoveGate, UpVersion
      <4>2. c.gates - 1 \in Nat
        BY <4>1
      <4>3. v \in UpVersion /\ v.prog = c.prog /\ v.pgen = c.pgen /\ v.observed = c.observed
        BY <2>1, <4>2 DEF UpVersion
      <4>4. v \in UpTruths(i)
        BY <2>1, <4>3 DEF UpTruths
      <4> QED
        BY <4>1, <4>4
    <3>3. CASE UpdateTemplate(i)
      <4> DEFINE v == [c EXCEPT !.gen = @ + 1]
      <4>1. v \in UpVersion /\ v.prog = c.prog /\ v.pgen = c.pgen /\ v.observed = c.observed
        BY <2>1 DEF UpVersion
      <4>2. v \in UpTruths(i)
        BY <2>1, <4>1 DEF UpTruths
      <4> QED
        BY <3>3, <4>2 DEF UpdateTemplate
    <3>4. CASE DeleteInstance(i)
      <4> DEFINE v == AfterDelete(c)
      <4>1. v \in UpVersion /\ v.prog = c.prog /\ v.pgen = c.pgen /\ v.observed = c.observed
        BY <2>1, SettledType DEF AfterDelete, Settled, UpVersion
      <4>2. v \in UpTruths(i)
        BY <2>1, <4>1 DEF UpTruths
      <4> QED
        BY <3>4, <4>2 DEF DeleteInstance
    <3> QED
      BY <1>29, <3>1, <3>2, <3>3, <3>4 DEF User
  <2>3. WriteUp(i, v) /\ UNCHANGED <<dnVars, workVars>>
    BY <2>2 DEF StoreUp
  <2> QED
    BY <1>1, <2>3, StoreUpTruth, KeepWorkerTruth DEF dnVars
<1>30. ASSUME NEW i \in Instances, Crossplane(i) PROVE StoredTruth' /\ WorkerTruth'
  <2> DEFINE c == Current(dn[i])
  <2>1. CASE XPDeletes(i)
    BY <1>1, <1>3, <2>1, KeepWorkerTruth DEF XPDeletes, MachineChanges, apiVars, dnVars
  <2>2. CASE ~XPDeletes(i)
    <3>1. c \in DnVersion /\ c.fins \in SUBSET Finalizers
      BY <1>1, StoredVersions DEF DnVersion
    <3> DEFINE x == [c EXCEPT !.fins = @ \ {XPFinalizer}]
    <3>2. /\ LET v == [c EXCEPT !.fins = @ \cup {XPFinalizer}] IN
             v \in DnVersion /\ v.gen = c.gen /\ v.ready = c.ready
          /\ LET v == [c EXCEPT !.ready = FALSE] IN v \in DnVersion /\ v.gen = c.gen /\ ~v.ready
          /\ x \in DnVersion /\ x.gen = c.gen /\ x.ready = c.ready
          /\ vm[i] \in Statuses =>
                LET v == [c EXCEPT !.ready = TRUE, !.cur = vm[i]] IN
                v \in DnVersion /\ v.gen = c.gen
      BY <3>1 DEF DnVersion, Finalizers
    <3>3. Settled(x) \in DnVersion /\ Settled(x).gen = c.gen /\ Settled(x).ready = c.ready
      BY <3>2, SettledType DEF Settled, DnVersion
    <3>4. vm[i] \in Statuses \cup {"absent"}
      BY <1>1 DEF EnvType
    <3>5. CASE XPObserves(i)
      <4>1. PICK v \in DnVersion : v.gen = c.gen /\ StoreDn(i, v)
        BY <3>2, <3>4, <3>5 DEF XPObserves
      <4>2. c.gen \in readyAt'[i] /\ c.gen \in Nat
        BY <1>1, <3>1, <3>5 DEF XPObserves, StoreType, DnVersion
      <4>3. ReadyBy(i, v.gen)'
        <5>1. c.gen <= v.gen
          BY <4>1, <4>2
        <5>2. \E g \in readyAt'[i] : g <= v.gen
          BY <4>2, <5>1
        <5> QED
          BY <5>2 DEF ReadyBy
      <4>4. WriteDn(i, v) /\ UNCHANGED <<up, workVars>>
        BY <4>1 DEF StoreDn
      <4> QED
        BY <1>1, <4>1, <4>3, <4>4, StoreDnTruth, KeepWorkerTruth
    <3>6. CASE ~XPObserves(i)
      <4>1. PICK v \in DnVersion : StoreDn(i, v) /\ v.gen = c.gen /\ (v.ready => c.ready)
        BY <1>30, <2>2, <3>2, <3>3, <3>6
        DEF Crossplane, XPAddsFinalizer, XPCreates, XPReleases
      <4>2. WriteDn(i, v) /\ UNCHANGED <<up, workVars>>
        BY <4>1 DEF StoreDn
      <4> QED
        BY <1>1, <1>2, <1>36, <4>1, <4>2, KeepWorkerTruth
    <3> QED
      BY <3>5, <3>6
  <2> QED
    BY <2>1, <2>2
<1>31. ASSUME NEW i \in Instances,
              ReconcileFinalizes(i) \/ ReconcileAddsFinalizer(i) \/ ReconcileProvisions(i)
       PROVE  StoredTruth' /\ WorkerTruth'
  <2>1. /\ pc = "idle" /\ UNCHANGED <<apiVars, gcp, cond>>
        /\ key' = i /\ inst' = Cached(up[i]) /\ pc' \in {"fzGet", "addFinalizer", "owners"}
    BY <1>31 DEF ReconcileFinalizes, ReconcileAddsFinalizer, ReconcileProvisions, Take, Load
  <2>2. /\ gcp = NoGCPInstance /\ NoGCPInstance.ready = FALSE /\ NoGCPInstance.gen = 0
        /\ gcp \in DnVersion /\ cond # "Programmed"
    BY <1>1, <2>1 DEF WorkerTruth, NoGCPInstance
  <2>3. 0 <= Current(dn[i]).gen
    BY <1>1, Gens
  <2>4. Cached(up[i]) \in UpTruths(i) /\ gcp \in DnTruths(i)
    BY <1>2, <2>2, <2>3 DEF DnTruths
  <2>5. inst' \in UpTruths(key)' /\ gcp' \in DnTruths(key)'
    BY <2>1, <2>4 DEF UpTruths, DnTruths, ReadyBy, apiVars, dnVars
  <2> QED
    BY <1>3, <2>1, <2>2, <2>5 DEF WorkerTruth
<1>32. ASSUME NEW i \in Instances,
              ReconcileSkips(i) \/ PrereqReady(i) \/ PrereqRegresses(i)
                 \/ VMSettles(i) \/ VMDisturbed(i)
       PROVE  StoredTruth' /\ WorkerTruth'
  BY <1>1, <1>3, <1>32, KeepWorkerTruth
  DEF ReconcileSkips, PrereqReady, PrereqRegresses, VMSettles, VMDisturbed, MachineChanges,
      apiVars, dnVars
<1>33. CASE LocationChanges \/ UNCHANGED vars
  BY <1>1, <1>3, <1>33, KeepWorkerTruth DEF LocationChanges, vars, apiVars, dnVars
<1> QED
  BY <1>8, <1>9, <1>10, <1>11, <1>12, <1>13, <1>14, <1>15, <1>16, <1>18, <1>19, <1>20,
     <1>21, <1>22, <1>23, <1>24, <1>25, <1>26, <1>27, <1>28, <1>29, <1>30, <1>31, <1>32,
     <1>33 DEF Next, Step, Worker

\* An Instance is reported Programmed at a generation only with that
\* generation's template, after its GCP Instance had the spec of the generation,
\* which is never taken back, and after Crossplane reported Ready with that spec
\* or an older one: also from stale copies, after lost answers and restarts.
THEOREM ProgrammedMeansReadyHolds == Spec => []ProgrammedMeansReady
<1>1. TruthInv => ProgrammedMeansReady
  <2> SUFFICES ASSUME StoredTruth, NEW i \in Instances
               PROVE  Current(up[i]) \in UpTruths(i)
    BY DEF TruthInv, ProgrammedMeansReady, UpTruths, ReadyBy
  <2> QED
    BY RelistWindow DEF StoredTruth
<1>2. Init => GenInv /\ TruthInv
  BY InitGen, InitTruth
<1>3. GenInv /\ TruthInv /\ [Next]_vars => (GenInv /\ TruthInv)'
  BY NextGen, NextTruth
<1> QED
  BY <1>1, <1>2, <1>3, PTL DEF Spec
=============================================================================
