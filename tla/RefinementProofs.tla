--------------------------- MODULE RefinementProofs ---------------------------
(***************************************************************************)
(* InstanceController implements ManagedResource, for every set of         *)
(* Instances and every bound.                                              *)
(***************************************************************************)
EXTENDS InstanceProofs

\* What the refinement mapping makes of the three variables of ManagedResource.
claims == [i \in Instances |-> claimOf(i)]
exts == [i \in Instances |-> extOf(i)]
notices == [i \in Instances |-> noticedOf(i)]
promised == <<claims, exts, notices>>

LEMMA NoticedBoolean == \A i : noticedOf(i) \in BOOLEAN
  BY DEF noticedOf

\* A step that changes at most what the owners have noticed.
LEMMA NoticeStep ==
    ASSUME \A j \in Instances : claimOf(j)' = claimOf(j) /\ extOf(j)' = extOf(j),
           \A j \in Instances : extOf(j) # "absent" /\ noticedOf(j) => noticedOf(j)'
    PROVE  [Promise!Next]_promised
<1>1. UNCHANGED <<claims, exts>>
  BY DEF claims, exts
<1>2. notices' \in [Instances -> BOOLEAN]
  BY DEF notices, noticedOf
<1>3. \A j \in Instances : exts[j] # "absent" /\ notices[j] => notices'[j]
  BY DEF exts, notices
<1>4. Promise!Notice
  BY <1>1, <1>2, <1>3 DEF Promise!Notice, claims, exts, notices
<1> QED
  BY <1>4 DEF Promise!Next

\* A step that takes one Instance to another claim and no record anywhere.
LEMMA ClaimStep ==
    ASSUME NEW i \in Instances,
           \A j \in Instances : extOf(j)' = extOf(j),
           \A j \in Instances : j # i => claimOf(j)' = claimOf(j),
           \A j \in Instances : j # i => (noticedOf(j)' <=> noticedOf(j)),
           \/ /\ claimOf(i) = "unclaimed" /\ claimOf(i)' = "held"
              /\ noticedOf(i)' <=> noticedOf(i)
           \/ /\ claimOf(i) # "released" /\ claimOf(i)' = "released"
              /\ extOf(i) = "absent" \/ ~noticedOf(i)
    PROVE  [Promise!Next]_promised
<1>1. UNCHANGED exts
  BY DEF exts
<1>2. claims' = [claims EXCEPT ![i] = claimOf(i)']
  BY DEF claims
<1>3. claims[i] = claimOf(i) /\ exts[i] = extOf(i) /\ (notices[i] <=> noticedOf(i))
  BY DEF claims, exts, notices
<1>4. CASE /\ claimOf(i) = "unclaimed" /\ claimOf(i)' = "held"
           /\ noticedOf(i)' <=> noticedOf(i)
  <2>0. \A j \in Instances : noticedOf(j)' <=> noticedOf(j)
    BY <1>4
  <2>1. \A j \in Instances : noticedOf(j)' = noticedOf(j)
    BY <2>0, NoticedBoolean DEF noticedOf
  <2>2. UNCHANGED notices
    BY <2>1 DEF notices
  <2>3. Promise!Claim(i)
    BY <1>1, <1>2, <1>3, <1>4, <2>2 DEF Promise!Claim, claims, exts, notices
  <2> QED
    BY <2>3 DEF Promise!Next
<1>5. CASE /\ claimOf(i) # "released" /\ claimOf(i)' = "released"
           /\ extOf(i) = "absent" \/ ~noticedOf(i)
  <2>0. ~noticedOf(i)' /\ \A j \in Instances \ {i} : noticedOf(j)' <=> noticedOf(j)
    BY <1>5 DEF noticedOf
  <2>1. \A j \in Instances : noticedOf(j)' = IF j = i THEN FALSE ELSE noticedOf(j)
    BY <2>0, NoticedBoolean DEF noticedOf
  <2>2. notices' = [notices EXCEPT ![i] = FALSE]
    BY <2>1 DEF notices
  <2>3. Promise!Release(i)
    BY <1>1, <1>2, <1>3, <1>5, <2>2 DEF Promise!Release, claims, exts, notices
  <2> QED
    BY <2>3 DEF Promise!Next
<1> QED
  BY <1>4, <1>5

\* A step that moves the record of one Instance.
LEMMA ExtStep ==
    ASSUME NEW i \in Instances,
           \A j \in Instances : claimOf(j)' = claimOf(j) /\ (noticedOf(j)' <=> noticedOf(j)),
           \A j \in Instances : j # i => extOf(j)' = extOf(j),
           \/ extOf(i)' = extOf(i)
           \/ claimOf(i) = "held" /\ extOf(i) = "absent" /\ extOf(i)' = "recorded"
           \/ <<extOf(i), extOf(i)'>> \in
                 {<<"recorded", "running">>, <<"running", "recorded">>, <<"recorded", "absent">>}
    PROVE  [Promise!Next]_promised
<1>1. UNCHANGED <<claims, notices>>
  <2>1. \A j \in Instances : noticedOf(j)' = noticedOf(j)
    BY NoticedBoolean DEF noticedOf
  <2> QED
    BY <2>1 DEF claims, notices
<1>2. exts' = [exts EXCEPT ![i] = extOf(i)']
  BY DEF exts
<1>3. claims[i] = claimOf(i) /\ exts[i] = extOf(i)
  BY DEF claims, exts
<1>4. CASE extOf(i)' = extOf(i)
  BY <1>4, NoticeStep
<1>5. CASE extOf(i)' # extOf(i)
  <2>1. PICK from, to : /\ extOf(i) = from /\ extOf(i)' = to
                        /\ \/ claimOf(i) = "held" /\ from = "absent" /\ to = "recorded"
                           \/ <<from, to>> \in
                                {<<"recorded", "running">>, <<"running", "recorded">>,
                                 <<"recorded", "absent">>}
    BY <1>5
  <2>2. Promise!Move(i, from, to)
    BY <1>1, <1>2, <1>3, <2>1 DEF Promise!Move, claims, exts, notices
  <2> QED
    BY <1>3, <2>1, <2>2 DEF Promise!Next, Promise!Record, claims, exts, notices
<1> QED
  BY <1>4, <1>5

\* What is noticed follows the cache and the place the worker is in.
LEMMA SameNoticed ==
    ASSUME NEW i \in Instances, Cached(dn'[i]) = Cached(dn[i]),
           Overlooks(i)' <=> Overlooks(i), claimOf(i)' = claimOf(i)
    PROVE  noticedOf(i)' <=> noticedOf(i)
  BY DEF noticedOf

\* What the mapping reads: the versions on the servers and the machines.
LEMMA SameClaim ==
    ASSUME NEW i \in Instances,
           Current(up'[i]).phase = Current(up[i]).phase,
           Current(up'[i]).fins = Current(up[i]).fins
    PROVE  claimOf(i)' = claimOf(i)
  BY DEF claimOf, Held, Exists

LEMMA SameExt ==
    ASSUME NEW i \in Instances,
           Current(dn'[i]).phase = Current(dn[i]).phase, vm'[i] = vm[i]
    PROVE  extOf(i)' = extOf(i)
  BY DEF extOf, Exists

LEMMA InitRefines == Init => Promise!Init
<1> SUFFICES ASSUME Init PROVE Promise!Init
  OBVIOUS
<1>1. ASSUME NEW i \in Instances
      PROVE  claimOf(i) = "unclaimed" /\ extOf(i) = "absent" /\ noticedOf(i) = FALSE
  <2>1. /\ Current(up[i]) = NoInstance /\ Current(dn[i]) = NoGCPInstance /\ vm[i] = "absent"
        /\ Cached(dn[i]) = NoGCPInstance
    BY DEF Init, Current, Cached
  <2>2. NoInstance.phase = "none" /\ NoGCPInstance.phase = "none"
    BY DEF NoInstance, NoGCPInstance
  <2> QED
    BY <2>1, <2>2 DEF claimOf, extOf, noticedOf, Held, Exists
<1> QED
  BY <1>1 DEF Promise!Init

\* As ManagedResource has it: no record without a claim.
RecordInv == \A i \in Instances : extOf(i) # "absent" => claimOf(i) # "unclaimed"

LEMMA RecordKept ==
    ASSUME RecordInv, [Promise!Next]_promised
    PROVE  RecordInv'
<1> SUFFICES ASSUME NEW i \in Instances, extOf(i)' # "absent" PROVE claimOf(i)' # "unclaimed"
  BY DEF RecordInv
<1>1. /\ claims \in [Instances -> {"unclaimed", "held", "released"}]
      /\ exts \in [Instances -> {"absent", "recorded", "running"}]
  BY DEF claims, exts, claimOf, extOf
<1>2. claims[i] = claimOf(i) /\ exts[i] = extOf(i)
  BY DEF claims, exts
<1>3. claims'[i] = claimOf(i)' /\ exts'[i] = extOf(i)'
  BY DEF claims, exts
<1>4. exts[i] # "absent" => claims[i] # "unclaimed"
  BY <1>2 DEF RecordInv
<1>5. CASE UNCHANGED promised \/ Promise!Notice
  BY <1>3, <1>4, <1>5 DEF promised, Promise!Notice, claims, exts
<1>6. ASSUME NEW j \in Instances, Promise!Claim(j) \/ Promise!Release(j)
      PROVE  claims'[i] # "unclaimed"
  <2>1. /\ exts' = exts
        /\ claims' = [claims EXCEPT ![j] = "held"] \/ claims' = [claims EXCEPT ![j] = "released"]
    BY <1>6 DEF Promise!Claim, Promise!Release, claims, exts
  <2> QED
    BY <1>1, <1>3, <1>4, <2>1
<1>7. ASSUME NEW j \in Instances, NEW from, NEW to, Promise!Move(j, from, to),
             from = "absent" => claims[j] = "held"
      PROVE  claims'[i] # "unclaimed"
  <2>1. claims' = claims /\ exts' = [exts EXCEPT ![j] = to] /\ exts[j] = from
    BY <1>7 DEF Promise!Move, claims, exts
  <2> QED
    BY <1>1, <1>3, <1>4, <1>7, <2>1
<1>8. \A j \in Instances : Promise!Record(j) => claims[j] = "held" /\ Promise!Move(j, "absent", "recorded")
  BY DEF Promise!Record, claims, exts, notices
<1> QED
  BY <1>3, <1>5, <1>6, <1>7, <1>8 DEF Promise!Next, promised

\* A version the worker stores for its Instance: the copy up to its status.
LEMMA OwnClaim ==
    ASSUME SafeInv, NEW i \in Instances, i = key, key' = key, pc # "idle", InstUpToDate,
           UNCHANGED <<dn, vm>>, NEW v \in UpVersion, WriteUp(key, v), pc' # "fzRemove",
           \/ pc # "fzRemove" /\ v.phase = inst.phase /\ v.fins = inst.fins
           \/ pc = "addFinalizer" /\ v.phase = inst.phase
              /\ v.fins = inst.fins \cup {GCPFinalizer}
           \/ /\ v.phase \in Leaving /\ GCPFinalizer \notin v.fins
              /\ inst.phase \in Leaving /\ pc = "fzRemove"
              /\ Exists(gcp) => ~Exists(Current(dn[key]))
    PROVE  [Promise!Next]_promised
<1>1. /\ StoreType /\ key \in Instances /\ WorkerInv /\ MachineOnRecord
  BY TypeParts DEF SafeInv, WorkType
<1>2. /\ up'[key] = Write(up[key], v) /\ \A j \in Instances : j # key => up'[j] = up[j]
  BY <1>1, WriteUpType
<1>3. Current(up'[key]) = v
  BY <1>1, <1>2, WriteWindow DEF StoreType
<1>4. inst.phase = Current(up[key]).phase /\ inst.fins = Current(up[key]).fins
  BY <1>1 DEF WorkerInv, InstUpToDate
<1>5. \A j \in Instances : extOf(j)' = extOf(j)
  BY SameExt
<1>6. \A j \in Instances : j # key =>
         claimOf(j)' = claimOf(j) /\ (noticedOf(j)' <=> noticedOf(j))
  BY <1>2, SameClaim, SameNoticed DEF Overlooks
<1>7. CASE pc # "fzRemove" /\ v.phase = inst.phase /\ v.fins = inst.fins
  <2>1. claimOf(i)' = claimOf(i)
    BY <1>1, <1>3, <1>4, <1>7, SameClaim
  <2>2. noticedOf(i)' <=> noticedOf(i)
    BY <1>7, <2>1, SameNoticed DEF Overlooks
  <2> QED
    BY <1>1, <1>5, <1>6, <2>1, <2>2, NoticeStep
<1>8. CASE pc = "addFinalizer" /\ v.phase = inst.phase /\ v.fins = inst.fins \cup {GCPFinalizer}
  <2>1. inst.phase = "live"
    BY <1>1, <1>8 DEF WorkerInv
  <2>2. claimOf(i)' = "held" /\ claimOf(i) \in {"held", "unclaimed"}
    BY <1>3, <1>4, <1>8, <2>1 DEF claimOf, Held, Exists
  <2>3. noticedOf(i)' <=> noticedOf(i)
    BY <1>8, <2>2 DEF noticedOf, Overlooks
  <2>4. CASE claimOf(i) = "held"
    BY <1>1, <1>5, <1>6, <2>2, <2>3, <2>4, NoticeStep
  <2>5. CASE claimOf(i) = "unclaimed"
    BY <1>1, <1>5, <1>6, <2>2, <2>3, <2>5, ClaimStep
  <2> QED
    BY <2>2, <2>4, <2>5
<1>9. CASE /\ v.phase \in Leaving /\ GCPFinalizer \notin v.fins
           /\ inst.phase \in Leaving /\ pc = "fzRemove"
           /\ Exists(gcp) => ~Exists(Current(dn[key]))
  <2>1. claimOf(i)' = "released" /\ claimOf(i) \in {"held", "released"}
    BY <1>3, <1>4, <1>9 DEF claimOf, Held, Leaving
  <2>2. extOf(i) = "absent" \/ ~noticedOf(i)
    BY <1>1, <1>9 DEF extOf, MachineOnRecord, noticedOf, Overlooks
  <2>3. CASE claimOf(i) = "held"
    BY <1>1, <1>5, <1>6, <2>1, <2>2, <2>3, ClaimStep
  <2>4. CASE claimOf(i) = "released"
    <3>1. ~noticedOf(i)
      BY <2>4 DEF noticedOf
    <3> QED
      BY <1>1, <1>5, <1>6, <2>1, <2>4, <3>1, NoticeStep
  <2> QED
    BY <2>1, <2>3, <2>4
<1> QED
  BY <1>7, <1>8, <1>9

\* A version of the GCP Instance stored for a held Instance, or in place of one
\* that exists; Crossplane may make the machine in the same step.
LEMMA RecordClaim ==
    ASSUME SafeInv, NEW i \in Instances, NEW v \in DnVersion,
           WriteDn(i, v), UNCHANGED up,
           \A j \in Instances : Overlooks(j)' <=> Overlooks(j),
           Exists(Current(dn[i])) \/ Held(i),
           \A j \in Instances : j # i => vm'[j] = vm[j],
           \/ vm'[i] = vm[i]
           \/ vm[i] = "absent" /\ vm'[i] # "absent" /\ Exists(Current(dn[i]))
    PROVE  [Promise!Next]_promised
<1>1. StoreType
  BY TypeParts DEF SafeInv
<1>2. /\ dn'[i] = Write(dn[i], v) /\ \A j \in Instances : j # i => dn'[j] = dn[j]
  BY <1>1, WriteDnType
<1>3. \A j \in Instances : claimOf(j)' = claimOf(j)
  BY SameClaim
<1>4. \A j \in Instances : j # i => extOf(j)' = extOf(j)
  BY <1>2, SameExt
<1>5. \A j \in Instances : noticedOf(j)' <=> noticedOf(j)
  <2>1. Cached(dn'[i]) = Cached(dn[i])
    BY <1>1, <1>2, WriteWindow DEF StoreType
  <2> QED
    BY <1>2, <1>3, <2>1, SameNoticed
<1>6. \/ extOf(i)' = extOf(i)
      \/ claimOf(i) = "held" /\ extOf(i) = "absent" /\ extOf(i)' = "recorded"
      \/ <<extOf(i), extOf(i)'>> \in {<<"recorded", "running">>, <<"recorded", "absent">>}
  BY DEF extOf, claimOf
<1> QED
  BY <1>3, <1>4, <1>5, <1>6, ExtStep

\* The machine of an Instance changes, comes or goes.
LEMMA MachineClaim ==
    ASSUME SafeInv, NEW i \in Instances, NEW m, vm[i] # "absent",
           UNCHANGED <<up, dn, pc, key, gcp>>, vm' = [vm EXCEPT ![i] = m]
    PROVE  [Promise!Next]_promised
<1>1. vm'[i] = m /\ \A j \in Instances : j # i => vm'[j] = vm[j]
  BY TypeParts DEF SafeInv, EnvType
<1>2. \A j \in Instances : claimOf(j)' = claimOf(j)
  BY SameClaim
<1>3. \A j \in Instances : j # i => extOf(j)' = extOf(j)
  BY <1>1, SameExt
<1>4. Exists(Current(dn[i]))
  BY DEF SafeInv, MachineOnRecord
<1>6. \A j \in Instances : noticedOf(j)' <=> noticedOf(j)
  BY <1>2, SameNoticed DEF Overlooks
<1>5. extOf(i)' = extOf(i) \/ (extOf(i) = "running" /\ extOf(i)' = "recorded")
  BY <1>1, <1>4 DEF extOf
<1> QED
  BY <1>2, <1>3, <1>4, <1>5, <1>6, ExtStep

\* Users store a successor of an Instance; it loses no finalizer.
LEMMA UserClaim ==
    ASSUME SafeInv, RecordInv, NEW i \in Instances, User(i)
    PROVE  [Promise!Next]_promised
<1> DEFINE c == Current(up[i])
<1>1. StoreType /\ MachineOnRecord /\ c \in UpVersion
  BY TypeParts, StoredVersions DEF SafeInv
<1>2. UNCHANGED <<dn, vm, pc, key, gcp>>
  BY DEF User, CreateInstance, RemoveGate, UpdateTemplate, DeleteInstance, StoreUp,
         dnVars, envVars, workVars
<1>3. \A j \in Instances : extOf(j)' = extOf(j)
  BY <1>2, SameExt
<1>4. PICK v \in UpVersion :
         /\ WriteUp(i, v)
         /\ \/ c.phase = "none" /\ v.phase = "live" /\ v.fins = {}
            \/ v.phase = c.phase /\ v.fins = c.fins
            \/ /\ c.phase = "live" /\ v.fins = c.fins /\ v.phase \in Leaving
               /\ GCPFinalizer \in c.fins => v.phase = "deleting"
  <2>1. CASE CreateInstance(i)
    <3>1. PICK g \in 0..MaxGates :
             WriteUp(i, [NoInstance EXCEPT !.phase = "live", !.gates = g, !.gen = 1])
      BY <2>1 DEF CreateInstance, StoreUp
    <3>2. g \in Nat
      BY InstanceAssumption
    <3> DEFINE v == [NoInstance EXCEPT !.phase = "live", !.gates = g, !.gen = 1]
    <3>3. v \in UpVersion /\ v.phase = "live" /\ v.fins = {}
      BY <3>2 DEF NoInstance, UpVersion, Phases, ProgReasons, RunReasons, Finalizers
    <3> QED
      BY <2>1, <3>1, <3>3 DEF CreateInstance
  <2>2. CASE RemoveGate(i)
    <3> DEFINE v == [c EXCEPT !.gates = @ - 1]
    <3>1. c.gates \in Nat /\ c.gates > 0 /\ WriteUp(i, v)
      BY <1>1, <2>2 DEF RemoveGate, StoreUp, UpVersion
    <3>2. c.gates - 1 \in Nat
      BY <3>1
    <3>3. v \in UpVersion /\ v.fins = c.fins /\ v.phase = c.phase
      BY <1>1, <3>2 DEF UpVersion
    <3> QED
      BY <3>1, <3>3
  <2>3. CASE UpdateTemplate(i)
    <3> DEFINE v == [c EXCEPT !.gen = @ + 1]
    <3>1. v \in UpVersion /\ v.fins = c.fins /\ v.phase = c.phase
      BY <1>1 DEF UpVersion
    <3> QED
      BY <2>3, <3>1 DEF UpdateTemplate, StoreUp
  <2>4. CASE DeleteInstance(i)
    <3> DEFINE v == AfterDelete(c)
    <3>1. /\ v \in UpVersion /\ v.fins = c.fins /\ v.phase \in Leaving
          /\ GCPFinalizer \in c.fins => v.phase = "deleting"
      BY <1>1 DEF AfterDelete, Settled, UpVersion, Phases, Leaving
    <3> QED
      BY <2>4, <3>1 DEF DeleteInstance, StoreUp
  <2> QED
    BY <2>1, <2>2, <2>3, <2>4 DEF User
<1>5. /\ Current(up'[i]) = v /\ \A j \in Instances : j # i => up'[j] = up[j]
  <2>1. up'[i] = Write(up[i], v) /\ \A j \in Instances : j # i => up'[j] = up[j]
    BY <1>1, <1>4, WriteUpType
  <2> QED
    BY <1>1, <2>1, WriteWindow DEF StoreType
<1>6. \A j \in Instances : claimOf(j)' = claimOf(j) => (noticedOf(j)' <=> noticedOf(j))
  BY <1>2, SameNoticed DEF Overlooks
<1>10. \A j \in Instances : j # i => claimOf(j)' = claimOf(j) /\ (noticedOf(j)' <=> noticedOf(j))
  BY <1>5, <1>6, SameClaim
<1>11. claimOf(i)' = claimOf(i) => [Promise!Next]_promised
  BY <1>3, <1>6, <1>10, NoticeStep
<1>7. CASE c.phase = "none" /\ v.phase = "live" /\ v.fins = {}
  <2>1. claimOf(i)' = claimOf(i)
    BY <1>5, <1>7 DEF claimOf, Held, Exists
  <2> QED
    BY <1>11, <2>1
<1>8. CASE v.phase = c.phase /\ v.fins = c.fins
  BY <1>5, <1>8, <1>11, SameClaim
<1>9. CASE /\ c.phase = "live" /\ v.fins = c.fins /\ v.phase \in Leaving
           /\ GCPFinalizer \in c.fins => v.phase = "deleting"
  <2>1. CASE GCPFinalizer \in c.fins
    <3>1. claimOf(i)' = claimOf(i)
      BY <1>5, <1>9, <2>1 DEF claimOf, Held, Exists
    <3> QED
      BY <1>11, <3>1
  <2>2. CASE GCPFinalizer \notin c.fins
    <3>1. claimOf(i) = "unclaimed" /\ claimOf(i)' = "released"
      BY <1>5, <1>9, <2>2 DEF claimOf, Held, Exists, Leaving
    <3>2. extOf(i) = "absent"
      BY <3>1 DEF RecordInv
    <3> QED
      BY <1>3, <1>10, <3>1, <3>2, ClaimStep
  <2> QED
    BY <2>1, <2>2
<1> QED
  BY <1>4, <1>7, <1>8, <1>9

\* A version between the one the cache shows and the stored one exists as they do.
LEMMA RecordTail ==
    ASSUME StoreType, StoredInv, NEW i \in Instances, DeliverDownstream(i),
           Exists(Current(dn[i])), Exists(Cached(dn[i]))
    PROVE  Exists(Cached(dn'[i]))
<1>1. /\ dn[i] \in Window(DnVersion) /\ Undelivered(dn[i]) /\ dn'[i] = Tail(dn[i])
  BY DEF StoreType, DeliverDownstream
<1>2. /\ Len(dn[i]) \in Nat /\ Len(dn[i]) > 1
      /\ 1 \in 1..Len(dn[i]) /\ 2 \in 1..Len(dn[i]) /\ Len(dn[i]) \in 1..Len(dn[i])
  BY <1>1 DEF Window, Undelivered
<1>3. Cached(dn'[i]) = dn[i][2]
  <2>1. 1 \in 1..Len(Tail(dn[i])) /\ 1 + 1 = 2
    BY <1>1, <1>2, TailWindow
  <2> QED
    BY <1>1, <2>1, TailWindow DEF Cached
<1>4. /\ dn[i][2].phase \in Leads(Cached(dn[i]).phase)
      /\ Current(dn[i]).phase \in Leads(dn[i][2].phase)
  BY <1>2 DEF StoredInv, Ordered, Cached, Current
<1>5. dn[i][2] \in DnVersion /\ dn[i][2].phase \in Phases
  BY <1>1, <1>2, VersionPhases DEF Window
<1> QED
  BY <1>3, <1>4, <1>5 DEF Exists, Leads, Phases

\* Every step of the program is a step of the promise, or changes nothing of it.
LEMMA NextRefines ==
    ASSUME SafeInv, SeenInv, RecordInv, [Next]_vars
    PROVE  [Promise!Next]_promised
<1>1. /\ TypeOK /\ StoredInv /\ WorkerInv /\ MachineOnRecord
      /\ StoreType /\ EnvType /\ WorkType
      /\ key \in Instances /\ inst \in UpVersion /\ gcp \in DnVersion
  BY TypeParts DEF SafeInv, WorkType
<1>2. ASSUME \A j \in Instances : /\ Current(up'[j]) = Current(up[j])
                                  /\ Current(dn'[j]) = Current(dn[j])
                                  /\ vm'[j] = vm[j]
                                  /\ extOf(j) # "absent" /\ Exists(Cached(dn[j])) =>
                                        Exists(Cached(dn'[j]))
                                  /\ Overlooks(j)' => Overlooks(j) \/ ~Exists(Cached(dn[j]))
      PROVE  [Promise!Next]_promised
  <2>1. \A j \in Instances : claimOf(j)' = claimOf(j) /\ extOf(j)' = extOf(j)
    BY <1>2, SameClaim, SameExt
  <2>2. \A j \in Instances : extOf(j) # "absent" /\ noticedOf(j) => noticedOf(j)'
    BY <1>2, <2>1 DEF noticedOf
  <2> QED
    BY <2>1, <2>2, NoticeStep
<1>3. /\ UNCHANGED <<up, dn, vm>>
      /\ pc' # "fzRemove" \/ UNCHANGED <<pc, key, gcp>>
      => [Promise!Next]_promised
  BY <1>2 DEF Overlooks
<1>4. CASE AddFinalizer
  <2>1. CASE UNCHANGED up
    BY <1>3, <1>4, <2>1 DEF AddFinalizer, dnVars, envVars, Return, Idle
  <2>2. CASE InstUpToDate /\ WriteUp(key, [inst EXCEPT !.fins = @ \cup {GCPFinalizer}])
    <3> DEFINE v == [inst EXCEPT !.fins = @ \cup {GCPFinalizer}]
    <3>1. v \in UpVersion /\ v.phase = inst.phase /\ v.fins = inst.fins \cup {GCPFinalizer}
      BY <1>1 DEF UpVersion, Finalizers
    <3> QED
      BY <1>1, <1>4, <2>2, <3>1, OwnClaim DEF SafeInv, AddFinalizer, dnVars, envVars, Return, Idle
  <2> QED
    BY <1>4, <2>1, <2>2 DEF AddFinalizer
<1>5. CASE WritePower \/ PowerAnswerLost
  <2>1. /\ UNCHANGED <<dn, vm, key>> /\ pc = "writePower" /\ pc' # "fzRemove"
        /\ UNCHANGED up \/ (InstUpToDate /\ WriteUp(key, inst))
    BY <1>5 DEF WritePower, PowerAnswerLost, dnVars, envVars, Leave, Goto
  <2> QED
    BY <1>1, <1>3, <2>1, OwnClaim DEF SafeInv
<1>6. CASE UpdateStatus
  <2>1. /\ UNCHANGED <<dn, vm, key>> /\ pc = "updateStatus" /\ pc' # "fzRemove"
        /\ UNCHANGED up \/ (InstUpToDate /\ WriteUp(key, Reported(inst)))
    BY <1>6 DEF UpdateStatus, dnVars, envVars, Return, Idle
  <2>2. /\ Reported(inst) \in UpVersion /\ Reported(inst).phase = inst.phase
        /\ Reported(inst).fins = inst.fins
    BY <1>1 DEF Reported, UpVersion, WorkType
  <2> QED
    BY <1>1, <1>3, <2>1, <2>2, OwnClaim DEF SafeInv
<1>7. CASE FinalizeStopping
  <2> DEFINE v == WithPower(inst, gcp.cur)
  <2>1. /\ UNCHANGED <<dn, vm, key>> /\ pc = "fzStopping" /\ pc' # "fzRemove"
        /\ UNCHANGED up \/ (InstUpToDate /\ WriteUp(key, v))
    BY <1>7 DEF FinalizeStopping, dnVars, envVars, Return, Idle
  <2>2. v \in UpVersion
    BY <1>1, PowerType
  <2>3. v.phase = inst.phase /\ v.fins = inst.fins
    BY <1>1 DEF WithPower, UpVersion
  <2> HIDE DEF v
  <2> QED
    BY <1>1, <1>3, <2>1, <2>2, <2>3, OwnClaim DEF SafeInv
<1>8. CASE FinalizeRemove
  <2> DEFINE x == [inst EXCEPT !.fins = @ \ {GCPFinalizer}]
             v == Settled(x)
  <2>1. /\ UNCHANGED <<dn, vm, key>> /\ pc = "fzRemove" /\ pc' # "fzRemove"
        /\ UNCHANGED up \/ (InstUpToDate /\ WriteUp(key, v))
    BY <1>8 DEF FinalizeRemove, dnVars, envVars, Return, Idle
  <2>2. inst.phase = "deleting" /\ (Exists(gcp) => ~Exists(Current(dn[key])))
    BY <1>1, <2>1 DEF WorkerInv, SeenInv, Finalizing
  <2>3. x \in UpVersion /\ x.phase = "deleting" /\ GCPFinalizer \notin x.fins
    BY <1>1, <2>2 DEF UpVersion
  <2>4. v \in UpVersion /\ v.phase \in Leaving /\ GCPFinalizer \notin v.fins
    BY <2>3 DEF Settled, UpVersion, Phases, Leaving
  <2> HIDE DEF v
  <2>5. inst.phase \in Leaving
    BY <2>2 DEF Leaving
  <2> QED
    BY <1>1, <1>3, <2>1, <2>2, <2>4, <2>5, OwnClaim DEF SafeInv
<1>9. CASE CreateGCPInstance
  <2>1. /\ UNCHANGED <<up, vm>> /\ WriteDn(key, NewGCPInstance) /\ Held(key)
        /\ pc # "fzRemove" /\ pc' # "fzRemove"
    BY <1>1, <1>9 DEF CreateGCPInstance, Processed, Goto, envVars, WorkerInv, Building,
                      Provisioning
  <2>2. NewGCPInstance \in DnVersion
    BY <1>1 DEF NewGCPInstance, NoGCPInstance, UpVersion, DnVersion, Phases, Finalizers
  <2> QED
    BY <1>1, <2>1, <2>2, RecordClaim DEF SafeInv, Overlooks
<1>10. CASE PatchGCPInstance
  <2> DEFINE v == Patched(Current(dn[key]))
  <2>1. /\ UNCHANGED <<up, vm>>
        /\ UNCHANGED dn \/ (Exists(Current(dn[key])) /\ WriteDn(key, v))
        /\ pc # "fzRemove" /\ pc' # "fzRemove"
    BY <1>10 DEF PatchGCPInstance, Processed, Goto, dnVars, envVars
  <2>2. v \in DnVersion
    <3>1. Current(dn[key]) \in DnVersion
      BY <1>1, StoredVersions
    <3>2. inst.gen \in Nat /\ gcp.fins \in SUBSET Finalizers
      BY <1>1 DEF UpVersion, DnVersion
    <3> QED
      BY <3>1, <3>2 DEF Patched, DnVersion, Finalizers
  <2> HIDE DEF v
  <2> QED
    BY <1>1, <1>3, <2>1, <2>2, RecordClaim DEF SafeInv, Overlooks
<1>11. CASE RetryCreate
  <2>1. /\ UNCHANGED <<up, vm>> /\ pc # "fzRemove" /\ pc' # "fzRemove"
        /\ \/ UNCHANGED dn
           \/ /\ Exists(Current(dn[key]))
              /\ \E s \in {gcp.retry, gcp.retry + 1} : WriteDn(key, [gcp EXCEPT !.retry = s])
    BY <1>11 DEF RetryCreate, GcpUpToDate, Leave, dnVars, envVars
  <2>2. \A s \in {gcp.retry, gcp.retry + 1} : [gcp EXCEPT !.retry = s] \in DnVersion
    <3>1. gcp.retry \in Nat /\ \A s \in Nat : [gcp EXCEPT !.retry = s] \in DnVersion
      BY <1>1 DEF DnVersion
    <3>2. \A s \in {gcp.retry, gcp.retry + 1} : s \in Nat
      BY <3>1
    <3> QED
      BY <3>1, <3>2
  <2>3. CASE UNCHANGED dn
    BY <1>3, <2>1, <2>3
  <2>4. ASSUME NEW v \in DnVersion, Exists(Current(dn[key])), WriteDn(key, v)
        PROVE  [Promise!Next]_promised
    BY <1>1, <2>1, <2>4, RecordClaim DEF SafeInv, Overlooks
  <2> QED
    BY <2>1, <2>2, <2>3, <2>4
<1>12. CASE FinalizeDelete
  <2> DEFINE v == AfterDelete(Current(dn[key]))
  <2>1. /\ UNCHANGED <<up, vm>>
        /\ pc # "fzRemove"
        /\ \/ UNCHANGED dn /\ pc' # "fzRemove"
           \/ Exists(Current(dn[key])) /\ WriteDn(key, v) /\ UNCHANGED gcp
    BY <1>12 DEF FinalizeDelete, Return, Idle, dnVars, envVars
  <2>3. Exists(gcp)
    BY <1>1, <1>12 DEF FinalizeDelete, WorkerInv, Exists
  <2>2. v \in DnVersion
    BY <1>1, StoredVersions, SettledType
  <2> HIDE DEF v
  <2> QED
    BY <1>1, <1>3, <2>1, <2>2, <2>3, RecordClaim DEF SafeInv, Overlooks
<1>13. CASE FinalizeRelease
  <2> DEFINE x == [gcp EXCEPT !.fins = @ \ {GCPFinalizer}]
             v == Settled(x)
  <2>1. /\ UNCHANGED <<up, vm>>
        /\ pc = "fzRelease"
        /\ \/ UNCHANGED dn /\ pc' # "fzRemove"
           \/ GcpUpToDate /\ WriteDn(key, v) /\ UNCHANGED gcp
    BY <1>13 DEF FinalizeRelease, Return, Idle, dnVars, envVars
  <2>4. GcpUpToDate => Exists(Current(dn[key])) /\ Exists(gcp)
    BY <1>1, <2>1 DEF WorkerInv, GcpUpToDate
  <2>2. x \in DnVersion
    BY <1>1 DEF DnVersion
  <2>3. v \in DnVersion
    BY <2>2, SettledType
  <2> HIDE DEF v
  <2> QED
    BY <1>1, <1>3, <2>1, <2>3, <2>4, RecordClaim DEF SafeInv, Overlooks
<1>14. CASE LoadOwners \/ Prerequisites \/ GetGCPInstance \/ CreateOrPatchRefused \/ SyncPower
            \/ Conclude \/ CallFails \/ LocationChanges \/ UNCHANGED vars
  <2>1. UNCHANGED <<up, dn, vm>>
    BY <1>14 DEF LoadOwners, Prerequisites, GetGCPInstance, CreateOrPatchRefused, SyncPower,
       Conclude, CallFails, LocationChanges, vars, apiVars, dnVars, envVars
  <2>2. pc' # "fzRemove" \/ UNCHANGED <<pc, key, gcp>>
    BY <1>14 DEF LoadOwners, Prerequisites, GetGCPInstance, CreateOrPatchRefused, SyncPower,
       Conclude, CallFails, LocationChanges, vars, workVars, Return, Idle, Leave, Goto
  <2> QED
    BY <1>3, <2>1, <2>2
<1>22. CASE FinalizeGet
  <2>1. UNCHANGED <<up, dn, vm, key>> /\ gcp' = Cached(dn[key])
    BY <1>22 DEF FinalizeGet, GetGCP, Goto, apiVars, dnVars, envVars
  <2> QED
    BY <1>2, <2>1 DEF Overlooks
<1>15. CASE Restart
  <2>1. vm' = vm
    BY <1>15 DEF Restart
  <2>2. \A j \in Instances : extOf(j) # "absent" => Exists(Current(dn[j]))
    BY <1>1 DEF extOf, MachineOnRecord
  <2>3. \A j \in Instances : Cached(dn'[j]) = Current(dn[j])
    BY <1>15 DEF Restart, Cached
  <2>4. \A j \in Instances : ~Overlooks(j)'
    BY <1>15 DEF Restart, Idle, Overlooks
  <2> QED
    BY <1>1, <1>2, <1>15, <2>1, <2>2, <2>3, <2>4, StoredRelist
<1>16. ASSUME NEW i \in Instances,
              Worker(i) \/ PrereqReady(i) \/ PrereqRegresses(i)
       PROVE  [Promise!Next]_promised
  <2>1. UNCHANGED <<up, dn, vm>>
    BY <1>16 DEF Worker, ReconcileSkips, ReconcileFinalizes, ReconcileAddsFinalizer,
       ReconcileProvisions, Load, PrereqReady, PrereqRegresses, apiVars, dnVars, envVars
  <2>2. pc' # "fzRemove" \/ UNCHANGED <<pc, key, gcp>>
    BY <1>16 DEF Worker, ReconcileSkips, ReconcileFinalizes, ReconcileAddsFinalizer,
       ReconcileProvisions, Load, PrereqReady, PrereqRegresses, workVars
  <2> QED
    BY <1>3, <2>1, <2>2
<1>17. ASSUME NEW i \in Instances, DeliverUpstream(i)
       PROVE  [Promise!Next]_promised
  <2>1. UNCHANGED <<dn, vm, pc, key, gcp>>
    BY <1>17 DEF DeliverUpstream, dnVars, envVars, workVars
  <2> QED
    BY <1>1, <1>2, <1>17, <2>1, StoredUpTail DEF Overlooks
<1>18. ASSUME NEW i \in Instances, DeliverDownstream(i)
       PROVE  [Promise!Next]_promised
  <2>1. UNCHANGED <<up, vm, pc, key, gcp>>
    BY <1>18 DEF DeliverDownstream, envVars, workVars
  <2>2. \A j \in Instances : extOf(j) # "absent" => Exists(Current(dn[j]))
    BY <1>1 DEF extOf, MachineOnRecord
  <2>3. Exists(Current(dn[i])) /\ Exists(Cached(dn[i])) => Exists(Cached(dn'[i]))
    BY <1>1, <1>18, RecordTail
  <2>4. \A j \in Instances : j # i => dn'[j] = dn[j]
    BY <1>1, <1>18 DEF DeliverDownstream, StoreType
  <2> QED
    BY <1>1, <1>2, <1>18, <2>1, <2>2, <2>3, <2>4, StoredDnTail DEF Overlooks
<1>19. ASSUME NEW i \in Instances, User(i) PROVE [Promise!Next]_promised
  BY <1>19, UserClaim
<1>20. ASSUME NEW i \in Instances, VMSettles(i) \/ VMDisturbed(i) \/ XPDeletes(i)
       PROVE  [Promise!Next]_promised
  <2>1. PICK m : vm[i] # "absent" /\ MachineChanges(i, m)
    BY <1>20 DEF VMSettles, VMDisturbed, XPDeletes
  <2> QED
    BY <2>1, MachineClaim DEF MachineChanges, apiVars, dnVars, workVars
<1>21. ASSUME NEW i \in Instances, XPAddsFinalizer(i) \/ XPCreates(i) \/ XPObserves(i) \/ XPReleases(i)
       PROVE  [Promise!Next]_promised
  <2> DEFINE c == Current(dn[i])
  <2>1. c \in DnVersion /\ c.fins \in SUBSET Finalizers
    BY <1>1, StoredVersions DEF DnVersion
  <2>2. PICK v \in DnVersion : StoreDn(i, v)
    <3>1. /\ [c EXCEPT !.fins = @ \cup {XPFinalizer}] \in DnVersion
          /\ [c EXCEPT !.ready = FALSE] \in DnVersion
          /\ [c EXCEPT !.fins = @ \ {XPFinalizer}] \in DnVersion
          /\ vm[i] \in Statuses => [c EXCEPT !.ready = TRUE, !.cur = vm[i]] \in DnVersion
      BY <2>1 DEF DnVersion, Finalizers
    <3>2. Settled([c EXCEPT !.fins = @ \ {XPFinalizer}]) \in DnVersion
      BY <3>1, SettledType
    <3>3. vm[i] \in Statuses \cup {"absent"}
      BY <1>1 DEF EnvType
    <3> QED
      BY <1>21, <3>1, <3>2, <3>3 DEF XPAddsFinalizer, XPCreates, XPObserves, XPReleases
  <2>3. Exists(c)
    BY <1>21 DEF XPAddsFinalizer, XPCreates, XPObserves, XPReleases, Exists
  <2>4. /\ \A j \in Instances : j # i => vm'[j] = vm[j]
        /\ vm'[i] = vm[i] \/ (vm[i] = "absent" /\ vm'[i] # "absent")
    BY <1>1, <1>21 DEF XPAddsFinalizer, XPCreates, XPObserves, XPReleases, EnvType
  <2> QED
    BY <2>2, <2>3, <2>4, RecordClaim DEF StoreDn, workVars, Overlooks
<1> QED
  BY <1>4, <1>5, <1>6, <1>7, <1>8, <1>9, <1>10, <1>11, <1>12, <1>13, <1>14, <1>15, <1>16,
     <1>17, <1>18, <1>19, <1>20, <1>21, <1>22 DEF Next, Step, Crossplane

\* The InstanceReconciler, with Crossplane and GCP, keeps the promise of
\* ManagedResource, however far the caches lag behind: nothing is made before
\* the finalizer claims the Instance, no machine without its GCP Instance, and
\* the claim is given up once, when no GCP Instance is left or none has been
\* noticed; one that has been noticed is not forgotten while it is there.
THEOREM Refinement == Spec => ImplementsManagedResource
<1>1. Init => SafeInv /\ SeenInv /\ RecordInv /\ Promise!Init
  <2>1. Init => SeenInv
    BY DEF Init, SeenInv
  <2>2. Promise!Init => RecordInv
    BY DEF Promise!Init, RecordInv
  <2> QED
    BY <2>1, <2>2, InitSafe, InitRefines
<1>2. SafeInv /\ SeenInv /\ RecordInv /\ [Next]_vars =>
         /\ (SafeInv /\ SeenInv /\ RecordInv)'
         /\ [Promise!Next]_<<[i \in Instances |-> claimOf(i)],
                             [i \in Instances |-> extOf(i)],
                             [i \in Instances |-> noticedOf(i)]>>
  BY NextSafe, NextSeen, NextRefines, RecordKept DEF promised, claims, exts, notices
<1> QED
  BY <1>1, <1>2, PTL DEF Spec, ImplementsManagedResource, Promise!Spec
=============================================================================
