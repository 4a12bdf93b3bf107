-------------------------- MODULE InstanceRefinement --------------------------
(***************************************************************************)
(* InstanceController implements ManagedResource: the claim is the         *)
(* finalizer of the upstream Instance, the record is the downstream GCP    *)
(* Instance, the running resource is the machine at GCP.                   *)
(***************************************************************************)
EXTENDS InstanceController

\* An Instance never loses the finalizer and stays: it is deleted then.
claimOf(i) ==
    IF Held(i) THEN "held"
    ELSE IF Current(up[i]).phase \in {"none", "live"} THEN "unclaimed" ELSE "released"

extOf(i) ==
    IF vm[i] # "absent" THEN "running"
    ELSE IF Exists(Current(dn[i])) THEN "recorded" ELSE "absent"

\* Finalize has looked for the GCP Instance and found none.
Overlooks(i) == key = i /\ pc = "fzRemove" /\ ~Exists(gcp)

\* The downstream cache shows the GCP Instance, unless Finalize has looked before.
noticedOf(i) ==
    claimOf(i) # "released" /\ Exists(Cached(dn[i])) /\ ~Overlooks(i)

Promise == INSTANCE ManagedResource WITH
    Objects <- Instances,
    claim <- [i \in Instances |-> claimOf(i)],
    ext <- [i \in Instances |-> extOf(i)],
    noticed <- [i \in Instances |-> noticedOf(i)]

\* Every step of the reconciler, of Crossplane and of GCP is a step of the
\* promise or changes nothing of it.
ImplementsManagedResource == Promise!Spec
=============================================================================
