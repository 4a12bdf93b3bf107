------------------------------ MODULE WindowProofs ------------------------------
(***************************************************************************)
(* Lemmas about the windows of ApiObject, on which the proofs about every  *)
(* reconciler rest: what a write, a delivery and a relist do to a window,  *)
(* and to the order of its versions.                                       *)
(***************************************************************************)
EXTENDS ApiObject, TLAPS

-----------------------------------------------------------------------------
(* Writes, deliveries and relists. *)

Window(S) == Seq(S) \ {<<>>}

\* What a stored version does to a window: it is the last one, nothing else
\* changes (ApiObject's Write).
LEMMA WriteWindow ==
    ASSUME NEW S, NEW w \in Window(S), NEW v \in S
    PROVE  /\ Write(w, v) \in Window(S)
           /\ Current(Write(w, v)) = v
           /\ Cached(Write(w, v)) = Cached(w)
           /\ \A n \in 1..Len(Write(w, v)) :
                 \/ n = Len(Write(w, v)) /\ Write(w, v)[n] = v
                 \/ n \in 1..Len(w) /\ Write(w, v)[n] = w[n]
<1>1. Len(w) \in Nat \ {0} /\ w \in Seq(S)
  BY DEF Window
<1>2. CASE v = Current(w)
  BY <1>1, <1>2 DEF Write, Current, Cached, Window
<1>3. CASE v # Current(w)
  <2>1. Write(w, v) = Append(w, v)
    BY <1>3 DEF Write
  <2>2. /\ Append(w, v) \in Seq(S) /\ Len(Append(w, v)) = Len(w) + 1
        /\ Append(w, v)[Len(w) + 1] = v
        /\ \A n \in 1..Len(w) : Append(w, v)[n] = w[n]
    BY <1>1
  <2>3. Append(w, v) # <<>>
    BY <1>1, <2>2
  <2> QED
    BY <1>1, <2>1, <2>2, <2>3 DEF Current, Cached, Window
<1> QED
  BY <1>2, <1>3

\* What a delivery does to a window: the first version is dropped.
LEMMA TailWindow ==
    ASSUME NEW S, NEW w \in Window(S), Undelivered(w)
    PROVE  /\ Tail(w) \in Window(S)
           /\ Current(Tail(w)) = Current(w)
           /\ Len(Tail(w)) = Len(w) - 1
           /\ \A n \in 1..Len(Tail(w)) : n + 1 \in 1..Len(w) /\ Tail(w)[n] = w[n + 1]
<1>1. Len(w) \in Nat /\ Len(w) > 1 /\ w \in Seq(S) /\ w # <<>>
  BY DEF Window, Undelivered
<1>2. /\ Tail(w) \in Seq(S) /\ Len(Tail(w)) = Len(w) - 1
      /\ \A n \in 1..Len(w) - 1 : Tail(w)[n] = w[n + 1]
  BY <1>1
<1>3. Tail(w) # <<>>
  BY <1>1, <1>2
<1> QED
  BY <1>1, <1>2, <1>3 DEF Current, Window

\* The window after a relist.
LEMMA RelistWindow ==
    ASSUME NEW S, NEW w \in Window(S)
    PROVE  /\ Current(w) \in S /\ Cached(w) \in S
           /\ Len(w) \in 1..Len(w) /\ 1 \in 1..Len(w)
           /\ <<Current(w)>> \in Window(S)
           /\ Current(<<Current(w)>>) = Current(w)
           /\ Len(<<Current(w)>>) = 1
           /\ <<Current(w)>>[1] = Current(w)
<1>1. Len(w) \in Nat \ {0} /\ w \in Seq(S)
  BY DEF Window
<1>2. Current(w) \in S /\ Cached(w) \in S
  BY <1>1 DEF Current, Cached
<1> QED
  BY <1>1, <1>2 DEF Current, Window
\* The window of an object with one version to know of.
LEMMA OneVersion ==
    ASSUME NEW v
    PROVE  /\ \A S : v \in S => <<v>> \in Window(S)
           /\ Current(<<v>>) = v /\ Cached(<<v>>) = v
           /\ \A n \in 1..Len(<<v>>) : <<v>>[n] = v
  BY DEF Window, Current, Cached

\* The versions of a window have in common what they have in common.
LEMMA WindowGrows ==
    ASSUME NEW S, NEW T, S \subseteq T, NEW w \in Window(S)
    PROVE  w \in Window(T)
  BY DEF Window
-----------------------------------------------------------------------------
(* The order of phases. *)

\* Phases only advance; Leads(p) are the phases that may follow p.
Leads(p) ==
    CASE p = "none"     -> Phases
      [] p = "live"     -> {"live", "deleting", "gone"}
      [] p = "deleting" -> {"deleting", "gone"}
      [] OTHER          -> {"gone"}

\* The versions of a window are in the order of their phases.
Ordered(w) ==
    \A m, n \in 1..Len(w) : m <= n => w[n].phase \in Leads(w[m].phase)

Leaving == {"deleting", "gone"}

LEMMA LeavingLeads ==
    ASSUME NEW p \in Leaving
    PROVE  Leads(p) \subseteq Leaving
  BY DEF Leads, Leaving

LEMMA LeadsOrder ==
    ASSUME NEW p \in Phases
    PROVE  /\ p \in Leads(p)
           /\ Leads(p) \subseteq Phases
           /\ \A q \in Leads(p) : Leads(q) \subseteq Leads(p)
           /\ p = "live" => "deleting" \in Leads(p) /\ "gone" \in Leads(p)
           /\ p = "deleting" => "gone" \in Leads(p)
           /\ p = "none" => "live" \in Leads(p)
  BY DEF Phases, Leads

LEMMA OrderedWrite ==
    ASSUME NEW S, NEW w \in Window(S), NEW v \in S,
           \A x \in S : x.phase \in Phases,
           Ordered(w), v.phase \in Leads(Current(w).phase)
    PROVE  Ordered(Write(w, v))
<1> DEFINE z == Write(w, v)
<1>1. \A n \in 1..Len(w) : w[n] \in S /\ w[n].phase \in Phases
  BY DEF Window
<1>2. \A n \in 1..Len(w) : v.phase \in Leads(w[n].phase)
  <2> SUFFICES ASSUME NEW n \in 1..Len(w) PROVE v.phase \in Leads(w[n].phase)
    OBVIOUS
  <2>1. Len(w) \in 1..Len(w) /\ n <= Len(w)
    BY RelistWindow
  <2>2. Current(w).phase \in Leads(w[n].phase)
    BY <2>1 DEF Ordered, Current
  <2> QED
    BY <1>1, <2>2, LeadsOrder
<1>3. z \in Window(S) /\ (\A n \in 1..Len(z) :
                 \/ n = Len(z) /\ z[n] = v
                 \/ n \in 1..Len(w) /\ z[n] = w[n])
  BY WriteWindow
<1>4. v.phase \in Leads(v.phase)
  BY LeadsOrder
<1>5. Len(z) \in Nat
  BY <1>3 DEF Window
<1> SUFFICES ASSUME NEW m \in 1..Len(z), NEW n \in 1..Len(z), m <= n
             PROVE  z[n].phase \in Leads(z[m].phase)
  BY DEF Ordered
<1> HIDE DEF z
<1>6. CASE z[n] = v
  BY <1>2, <1>3, <1>4, <1>6
<1>7. CASE n \in 1..Len(w) /\ z[n] = w[n] /\ z[n] # v
  <2>1. CASE m = Len(z) /\ z[m] = v
    BY <1>3, <1>5, <1>7, <2>1
  <2>2. CASE m \in 1..Len(w) /\ z[m] = w[m]
    BY <1>7, <2>2 DEF Ordered
  <2> QED
    BY <1>3, <2>1, <2>2
<1> QED
  BY <1>3, <1>6, <1>7

LEMMA OrderedTail ==
    ASSUME NEW S, NEW w \in Window(S), Undelivered(w), Ordered(w)
    PROVE  Ordered(Tail(w))
<1>1. Len(w) \in Nat /\ Len(Tail(w)) \in Nat
  BY TailWindow DEF Window
<1> SUFFICES ASSUME NEW m \in 1..Len(Tail(w)), NEW n \in 1..Len(Tail(w)), m <= n
             PROVE  Tail(w)[n].phase \in Leads(Tail(w)[m].phase)
  BY DEF Ordered
<1>2. m + 1 \in 1..Len(w) /\ n + 1 \in 1..Len(w) /\ m + 1 <= n + 1
  BY <1>1, TailWindow
<1> QED
  BY <1>2, TailWindow DEF Ordered

LEMMA OrderedRelist ==
    ASSUME NEW S, NEW w \in Window(S), \A x \in S : x.phase \in Phases
    PROVE  Ordered(<<Current(w)>>)
<1>1. Len(<<Current(w)>>) = 1 /\ <<Current(w)>>[1] = Current(w) /\ Current(w) \in S
  BY RelistWindow
<1>2. Current(w).phase \in Leads(Current(w).phase)
  BY <1>1, LeadsOrder
<1>3. \A n \in 1..1 : n = 1
  OBVIOUS
<1> QED
  BY <1>1, <1>2, <1>3 DEF Ordered
-----------------------------------------------------------------------------
(* What a step makes of a window, and what it cannot undo. *)

\* A step stores a version of V, delivers one, relists, or does nothing.
Moves(w, z, V) ==
    \/ z = w
    \/ \E v \in V : z = Write(w, v)
    \/ Undelivered(w) /\ z = Tail(w)
    \/ z = <<Current(w)>>

\* What is once true of a version is true of those behind it.
Keeps(w, P) == \A m, n \in 1..Len(w) : m <= n /\ w[m] \in P => w[n] \in P

LEMMA MovesWindow ==
    ASSUME NEW S, NEW w \in Window(S), NEW V, V \subseteq S, NEW z, Moves(w, z, V)
    PROVE  z \in Window(S) /\ Current(z) \in V \cup {Current(w)}
<1>1. CASE z = w
  BY <1>1
<1>2. ASSUME NEW v \in V, z = Write(w, v)
      PROVE  z \in Window(S) /\ Current(z) \in V \cup {Current(w)}
  BY <1>2, WriteWindow
<1>3. CASE Undelivered(w) /\ z = Tail(w)
  BY <1>3, TailWindow
<1>4. CASE z = <<Current(w)>>
  BY <1>4, RelistWindow
<1> QED
  BY <1>1, <1>2, <1>3, <1>4 DEF Moves

LEMMA MovesKeep ==
    ASSUME NEW S, NEW w \in Window(S), NEW V, V \subseteq S, NEW z, Moves(w, z, V),
           NEW P, Keeps(w, P), Current(w) \in P => V \subseteq P
    PROVE  Keeps(z, P) /\ (Current(w) \in P => Current(z) \in P)
<1>1. /\ Len(w) \in Nat \ {0} /\ Len(w) \in 1..Len(w)
      /\ \A n \in 1..Len(w) : n <= Len(w)
  BY DEF Window
<1>2. CASE z = w
  BY <1>2
<1>3. ASSUME NEW v \in V, z = Write(w, v)
      PROVE  Keeps(z, P) /\ (Current(w) \in P => Current(z) \in P)
  <2>1. /\ z \in Window(S) /\ Current(z) = v
        /\ \A n \in 1..Len(z) : \/ n = Len(z) /\ z[n] = v
                                \/ n \in 1..Len(w) /\ z[n] = w[n]
    BY <1>3, WriteWindow
  <2>2. Len(z) \in Nat
    BY <2>1 DEF Window
  <2>3. \A n \in 1..Len(w) : w[n] \in P => Current(w) \in P
    BY <1>1 DEF Keeps, Current
  <2> SUFFICES ASSUME NEW m \in 1..Len(z), NEW n \in 1..Len(z), m <= n, z[m] \in P
               PROVE  z[n] \in P
    BY <2>1 DEF Keeps
  <2>4. CASE z[n] = v
    <3>1. CASE z[m] = v
      BY <2>4, <3>1
    <3>2. CASE m \in 1..Len(w) /\ z[m] = w[m]
      BY <2>3, <2>4, <3>2
    <3> QED
      BY <2>1, <3>1, <3>2
  <2>5. CASE n \in 1..Len(w) /\ z[n] = w[n] /\ z[n] # v
    <3>1. CASE m = Len(z) /\ z[m] = v
      BY <2>1, <2>2, <2>5, <3>1
    <3>2. CASE m \in 1..Len(w) /\ z[m] = w[m]
      BY <2>5, <3>2 DEF Keeps
    <3> QED
      BY <2>1, <3>1, <3>2
  <2> QED
    BY <2>1, <2>4, <2>5
<1>4. CASE Undelivered(w) /\ z = Tail(w)
  <2>1. /\ Len(z) \in Nat /\ Current(z) = Current(w)
        /\ \A n \in 1..Len(z) : n + 1 \in 1..Len(w) /\ z[n] = w[n + 1]
    BY <1>4, TailWindow DEF Window
  <2> QED
    BY <2>1 DEF Keeps
<1>5. CASE z = <<Current(w)>>
  <2>1. Current(z) = Current(w) /\ \A n \in 1..Len(z) : z[n] = Current(w)
    BY <1>5, OneVersion
  <2> QED
    BY <2>1 DEF Keeps
<1> QED
  BY <1>2, <1>3, <1>4, <1>5 DEF Moves

\* What a read of the cache shows is true at the server, if it is kept.
LEMMA CachedKept ==
    ASSUME NEW S, NEW w \in Window(S), NEW P, Keeps(w, P)
    PROVE  \A n \in 1..Len(w) : w[n] \in P => Current(w) \in P
  BY DEF Window, Keeps, Current
=============================================================================
