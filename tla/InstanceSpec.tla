---------------------------- MODULE InstanceSpec ----------------------------
(***************************************************************************)
(* What the InstanceReconciler makes of the template of an Instance: the   *)
(* user data for the guest, the spec of the GCP Instance, the Secrets it   *)
(* has to hand over and the firewalls of its network policies.  Translated *)
(* from reconcileSandboxRuntimeInstance, reconcileVMRuntimeInstance,       *)
(* buildConfigMaps, reconcileSecrets, reconcileGCPInstance,                *)
(* buildGCPInstanceVolumes, buildGCPInstanceNetworkInterfaces and          *)
(* reconcileNetworkInterfaceNetworkPolicies (instance_controller.go).      *)
(*                                                                         *)
(* A template is a record                                                  *)
(*   runtime       "sandbox", "vm" or "none";                              *)
(*   instanceType  the datum instance type;                                *)
(*   volumes       a sequence of                                           *)
(*       [name, source ("disk", "configmap", "secret"),                    *)
(*        ref        the name of the ConfigMap or Secret,                  *)
(*        items      TRUE if single keys are asked for,                    *)
(*        populator  of a disk: "none", "image" or "filesystem",           *)
(*        image      the name of the image,                                *)
(*        storage    "unset" (no resources), "given" or "missing"];        *)
(*   attachments   the volume attachments of all containers or of the VM,  *)
(*                 [volume, mounted, dir], dir being the parent of the     *)
(*                 mount path, if there is one;                            *)
(*   interfaces    a sequence of [policy, ingress], a rule of the ingress  *)
(*                 being the sequence of its ports: "number", "name" or    *)
(*                 "any" (no port given).                                  *)
(***************************************************************************)
EXTENDS Naturals, Sequences, FiniteSets, SequencesExt

CONSTANTS
    ImageMap,         \* the images that config.ImageMap knows
    MachineTypeMap,   \* the instance types that config.MachineTypeMap knows
    Keys              \* Keys[c]: the keys of the ConfigMap c
-----------------------------------------------------------------------------
(* Volumes and their mounts. *)

IsDisk(v) == v.source = "disk"

VolumeOf(t, a) == CHOOSE v \in Range(t.volumes) : v.name = a.volume

\* What a loop appends to a list that is empty at first: the elements of s at
\* the positions of S, in their order, each with its place in the new list.
Numbered(s, S) == {<<Cardinality({j \in S : j <= k}), s[k]>> : k \in S}

\* The attachments that are mounted.  One that names no volume is passed over,
\* and a disk of a VM.
Mounts(t) ==
    {k \in DOMAIN t.attachments :
        /\ t.attachments[k].mounted
        /\ \E v \in Range(t.volumes) : v.name = t.attachments[k].volume
        /\ t.runtime = "vm" => ~IsDisk(VolumeOf(t, t.attachments[k]))}

\* What a mount does to the reconcile.
Handling(t, a) ==
    LET v == VolumeOf(t, a) IN
    CASE IsDisk(v) /\ v.populator # "filesystem" -> "error"
      [] ~IsDisk(v) /\ v.items -> "return"
      [] OTHER -> "ok"

\* The runtime functions up to reconcileInstance: "return" is a return without
\* error, and without a word in the status.
Preparation(t) ==
    LET bad == {k \in Mounts(t) : Handling(t, t.attachments[k]) # "ok"}
        fails == \E k \in bad : /\ Handling(t, t.attachments[k]) = "error"
                                /\ \A j \in bad : k <= j
    IN  CASE t.runtime = "none" -> "return"
          [] t.runtime # "none" /\ bad = {} -> "ok"
          [] t.runtime # "none" /\ bad # {} -> IF fails THEN "error" ELSE "return"

\* disk-<volume>, configmap-<name> or secret-<name>, in the pod and on the host.
HostVolume(v) == IF IsDisk(v) THEN <<"disk", v.name>> ELSE <<v.source, v.ref>>

\* The volumeMounts of a pod, or the symbolic links of a VM and the directories
\* made for them first.
GuestMounts(t) ==
    Numbered([k \in DOMAIN t.attachments |-> HostVolume(VolumeOf(t, t.attachments[k]))], Mounts(t))
MountParentDirs(t) == {t.attachments[k].dir : k \in Mounts(t)}

\* The volumes of a pod: a disk only with a file system.
InPod(t) ==
    {k \in DOMAIN t.volumes : IsDisk(t.volumes[k]) => t.volumes[k].populator = "filesystem"}

\* Mutation: the volumes of the pod are named like those of the Instance.
PodVolumesByName(t) ==
    Numbered([k \in DOMAIN t.volumes |-> <<t.volumes[k].source, t.volumes[k].name>>], InPod(t))

PodVolumes(t) ==
    Numbered([k \in DOMAIN t.volumes |-> HostVolume(t.volumes[k])], InPod(t))
-----------------------------------------------------------------------------
(* ConfigMaps and Secrets. *)

RefsOf(t, s) == {v.ref : v \in {w \in Range(t.volumes) : w.source = s}}
ConfigMaps(t) == RefsOf(t, "configmap")
Secrets(t) == RefsOf(t, "secret")
ConfigVolumes(t) ==
    Numbered([k \in DOMAIN t.volumes |-> t.volumes[k].ref],
             {k \in DOMAIN t.volumes : t.volumes[k].source = "configmap"})

\* buildConfigMaps writes one file for each key, in the order in which Go
\* happens to go through the Data of a ConfigMap: any.
FileOrders(t) ==
    LET Orders(p) == SetToSeqs(Keys[p[2]]) IN
    {f \in [ConfigVolumes(t) -> UNION {Orders(p) : p \in ConfigVolumes(t)}] :
        \A p \in ConfigVolumes(t) : f[p] \in Orders(p)}

\* Everything that cloud-init may be given for a template.  The script
\* populate_secrets.py comes with the first Secret.
UserData(t) ==
    LET pod == t.runtime = "sandbox" IN
    {[pod |-> pod, mounts |-> GuestMounts(t), volumes |-> IF pod THEN PodVolumes(t) ELSE {},
      mkdirs |-> d, files |-> f, script |-> Secrets(t) # {}] :
        d \in IF pod THEN {<<>>} ELSE SetToSeqs(MountParentDirs(t)),
        f \in FileOrders(t)}

\* populate_secrets.py, which the guest runs once: a directory for every Secret
\* in the payload of the version; without a payload a message and nothing else.
Populated(readable, served) == IF readable THEN served ELSE {}

-----------------------------------------------------------------------------
(* The GCP Instance. *)

\* The volume that is put in front of those of a sandbox.
DatumBoot == [name |-> "datum-boot", source |-> "disk", ref |-> "", items |-> FALSE,
              populator |-> "image", image |-> "cos", storage |-> "unset"]

BuiltVolumes(t) == IF t.runtime = "sandbox" THEN <<DatumBoot>> \o t.volumes ELSE t.volumes

BootVolumes(t) ==
    {k \in DOMAIN BuiltVolumes(t) :
        IsDisk(BuiltVolumes(t)[k]) /\ BuiltVolumes(t)[k].populator = "image"}

\* Every image volume becomes the boot disk; the last one stays.  Disks of
\* other kinds are passed over.
BootDisk(t, old) ==
    LET v == BuiltVolumes(t)[Max(BootVolumes(t))] IN
    IF BootVolumes(t) = {} THEN old ELSE <<v.name, v.image>>

\* The mutate function of CreateOrPatch gives up: no machine type, no image,
\* no storage request.
Unbuildable(t) ==
    \/ t.instanceType \notin MachineTypeMap
    \/ \E k \in BootVolumes(t) :
          BuiltVolumes(t)[k].image \notin ImageMap \/ BuiltVolumes(t)[k].storage = "missing"

NoUserData == [pod |-> FALSE, mounts |-> {}, volumes |-> {}, mkdirs |-> <<>>, files |-> <<>>,
               script |-> FALSE]
NoGCPSpec == [type |-> "", user |-> NoUserData, bootVolume |-> "", bootImage |-> "", nics |-> 0]

\* The interfaces are made once and from then on written by index.
Interfaces(t, old) == IF old = 0 THEN Len(t.interfaces) ELSE old

\* The index is out of range.
Overruns(t, old) == Len(t.interfaces) > Interfaces(t, old)

\* What the mutate function may make of the spec it finds.
GCPSpecs(t, old) ==
    LET boot == BootDisk(t, <<old.bootVolume, old.bootImage>>) IN
    {[type |-> t.instanceType, user |-> u, bootVolume |-> boot[1], bootImage |-> boot[2],
      nics |-> Interfaces(t, old.nics)] : u \in UserData(t)}

\* The maps that are gone through in any order have no more than one entry.
OneOrder(t) ==
    /\ \A c \in ConfigMaps(t) : Cardinality(Keys[c]) <= 1
    /\ t.runtime = "vm" => Cardinality(MountParentDirs(t)) <= 1
-----------------------------------------------------------------------------
(* Firewalls.  <<i, r>> stands for rule r of interface i, <<i, 0>> for the  *)
(* reads of the interface's NetworkBinding, NetworkContext and Network.     *)

PolicySteps(t) ==
    UNION {{<<i, r>> : r \in 0..Len(t.interfaces[i].ingress)} :
              i \in {j \in DOMAIN t.interfaces : t.interfaces[j].policy}}

Rules(t) == {s \in PolicySteps(t) : s[2] > 0}

Precedes(s, u) == s[1] < u[1] \/ (s[1] = u[1] /\ s[2] < u[2])

\* IntValue of a named port is 0, and the whole function returns nil.
NamedPort(t, s) == "name" \in Range(t.interfaces[s[1]].ingress[s[2]])

\* The rules that no named port keeps from being reached.
ReachedRules(t) ==
    {s \in Rules(t) : ~\E u \in Rules(t) : NamedPort(t, u) /\ (u = s \/ Precedes(u, s))}
=============================================================================
