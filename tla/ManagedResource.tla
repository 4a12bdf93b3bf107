--------------------------- MODULE ManagedResource ---------------------------
(***************************************************************************)
(* What a reconciler of this provider promises for a resource it manages   *)
(* on behalf of an upstream object: it claims the object with a finalizer  *)
(* before anything exists for it, a machine exists at the provider only    *)
(* while there is a record of it downstream, and the claim is given up     *)
(* once, when nothing is left as far as its owner has noticed.  What the   *)
(* owner has noticed lags behind what there is, but is never forgotten     *)
(* while there is something.                                               *)
(***************************************************************************)
CONSTANT Objects

VARIABLES
    claim,     \* claim[o]: "unclaimed", "held" or "released"
    ext,       \* ext[o]: "absent", "recorded" or "running"
    noticed    \* noticed[o]: the owner of the claim knows of a record

Init ==
    /\ claim = [o \in Objects |-> "unclaimed"]
    /\ ext = [o \in Objects |-> "absent"]
    /\ noticed = [o \in Objects |-> FALSE]

\* The finalizer is added to the upstream object.
Claim(o) ==
    /\ claim[o] = "unclaimed"
    /\ claim' = [claim EXCEPT ![o] = "held"]
    /\ UNCHANGED <<ext, noticed>>

Move(o, from, to) ==
    /\ ext[o] = from
    /\ ext' = [ext EXCEPT ![o] = to]
    /\ UNCHANGED <<claim, noticed>>

\* Only a holder of the claim makes a record.
Record(o) == claim[o] = "held" /\ Move(o, "absent", "recorded")

\* The object goes: its finalizer is taken off, or it never had one.
Release(o) ==
    /\ claim[o] # "released"
    /\ ext[o] = "absent" \/ ~noticed[o]
    /\ claim' = [claim EXCEPT ![o] = "released"]
    /\ noticed' = [noticed EXCEPT ![o] = FALSE]
    /\ UNCHANGED ext

\* Owners learn of records, also of several at once and also of what is gone
\* by now; a record that is there is not forgotten.
Notice ==
    /\ noticed' \in [Objects -> BOOLEAN]
    /\ \A o \in Objects : ext[o] # "absent" /\ noticed[o] => noticed'[o]
    /\ UNCHANGED <<claim, ext>>

Next ==
    \/ Notice
    \/ \E o \in Objects :
          \/ Claim(o) \/ Record(o) \/ Release(o)
          \/ Move(o, "recorded", "running") \/ Move(o, "running", "recorded")
          \/ Move(o, "recorded", "absent")

Spec == Init /\ [][Next]_<<claim, ext, noticed>>
=============================================================================
