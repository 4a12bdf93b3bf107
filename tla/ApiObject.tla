------------------------------ MODULE ApiObject ------------------------------
(***************************************************************************)
(* A Kubernetes object as the reconcilers of this provider meet it.        *)
(*                                                                         *)
(* The API server is external to the repository; it is described here by   *)
(* the guarantees the reconcilers rely on.  An object is a WINDOW of its    *)
(* history: the versions from the one the client's informer cache holds    *)
(* (the first) to the one the server holds (the last).  A write appends a  *)
(* version, the informer moves on by dropping the first one: a read may be *)
(* stale, it never goes back.  Writes go to the server:                    *)
(*   Update  succeeds only if no version was stored since the copy it was  *)
(*           computed from was read (the resourceVersion check);           *)
(*   Patch   (a merge patch) has no such check;                            *)
(*   Delete  goes by name and marks the object while finalizers remain.    *)
(*                                                                         *)
(* A version is a record with at least the fields                          *)
(*   phase   "none" (never created), "live", "deleting" (it has a          *)
(*           deletionTimestamp) or "gone";                                 *)
(*   fins    the set of its finalizers.                                    *)
(***************************************************************************)
EXTENDS Naturals, Sequences

Phases == {"none", "live", "deleting", "gone"}

\* What a read through the informer cache returns.
Cached(w) == w[1]

\* The server's state.
Current(w) == w[Len(w)]

\* A read of this version finds an object (apierrors.IsNotFound otherwise).
Exists(v) == v.phase \in {"live", "deleting"}

\* The server removes an object that is being deleted and holds no finalizer.
Settled(v) ==
    IF v.phase = "deleting" /\ v.fins = {} THEN [v EXCEPT !.phase = "gone"] ELSE v

\* What a Delete call leaves of a version.
AfterDelete(v) == Settled([v EXCEPT !.phase = "deleting"])

\* The server stores v; a write that changes nothing makes no new version.
Write(w, v) == IF v = Current(w) THEN w ELSE Append(w, v)

\* The informer has something to deliver.
Undelivered(w) == Len(w) > 1
=============================================================================
