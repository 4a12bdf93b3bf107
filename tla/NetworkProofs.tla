---------------------------- MODULE NetworkProofs ----------------------------
(***************************************************************************)
(* Theorems about NetworkControllers for every set of NetworkContexts and  *)
(* every value of the bounds.                                              *)
(***************************************************************************)
EXTENDS NetworkControllers, WindowProofs, TLAPS

-----------------------------------------------------------------------------
(* Type correctness. *)

StoreType ==
    /\ net \in Window(NetworkVersion)
    /\ ctx \in [Contexts -> Window(ContextVersion)]
    /\ dn \in Window(DownVersion)
    /\ wasReady \in BOOLEAN /\ faults \in Nat

NType ==
    /\ nqueue \in BOOLEAN /\ nstale \in BOOLEAN
    /\ npc \in {"idle", "delete", "removeFinalizer", "addFinalizer"}

CType ==
    /\ cqueue \subseteq Contexts /\ ckey \in Contexts
    /\ cpc \in {"idle", "updateStatus"} \cup Programming
    /\ reported \in ProgReasons /\ cstale \in BOOLEAN /\ down \in DownVersion
    /\ cond \in ProgReasons /\ err \in {"ok", "error"}

LEMMA TypeParts == TypeOK <=> StoreType /\ NType /\ CType
  BY DEF TypeOK, StoreType, NType, CType, Window

LEMMA StoredVersions ==
    ASSUME StoreType
    PROVE  /\ Current(net) \in NetworkVersion /\ Cached(net) \in NetworkVersion
           /\ Current(dn) \in DownVersion /\ Cached(dn) \in DownVersion
           /\ \A c \in Contexts : /\ Current(ctx[c]) \in ContextVersion
                                  /\ Cached(ctx[c]) \in ContextVersion
  BY RelistWindow DEF StoreType

\* The versions that are written are versions.
LEMMA NetworkVersions ==
    ASSUME NEW v \in NetworkVersion
    PROVE  /\ \A F \in SUBSET {gcpInfraFinalizer} : [v EXCEPT !.fins = F] \in NetworkVersion
           /\ Settled(v) \in NetworkVersion /\ AfterDelete(v) \in NetworkVersion
  BY DEF NetworkVersion, Settled, AfterDelete, Phases

LEMMA ContextVersions ==
    ASSUME NEW v \in ContextVersion
    PROVE  /\ \A c \in ProgReasons : [v EXCEPT !.prog = c] \in ContextVersion
           /\ \A p \in Phases : [v EXCEPT !.phase = p] \in ContextVersion
  BY DEF ContextVersion

LEMMA DownVersions ==
    ASSUME NEW v \in DownVersion
    PROVE  /\ \A F \in SUBSET {XPFinalizer} : [v EXCEPT !.fins = F] \in DownVersion
           /\ [v EXCEPT !.ready = TRUE, !.failed = FALSE] \in DownVersion
           /\ [v EXCEPT !.failed = TRUE] \in DownVersion
           /\ Settled(v) \in DownVersion /\ AfterDelete(v) \in DownVersion
  BY DEF DownVersion, Settled, AfterDelete, Phases

LEMMA FirstVersions ==
    /\ NoNetwork \in NetworkVersion /\ NoContext \in ContextVersion /\ NoDown \in DownVersion
    /\ [NoNetwork EXCEPT !.phase = "live"] \in NetworkVersion
    /\ [NoContext EXCEPT !.phase = "live"] \in ContextVersion
    /\ [NoDown EXCEPT !.phase = "live"] \in DownVersion
  BY DEF NoNetwork, NoContext, NoDown, NetworkVersion, ContextVersion, DownVersion, Phases,
         ProgReasons

\* A write changes one window and leaves the others.
LEMMA WriteCtxType ==
    ASSUME StoreType, NEW c \in Contexts, NEW v \in ContextVersion, WriteCtx(c, v)
    PROVE  /\ ctx' \in [Contexts -> Window(ContextVersion)]
           /\ ctx'[c] = Write(ctx[c], v)
           /\ \A d \in Contexts : d # c => ctx'[d] = ctx[d]
<1>1. Write(ctx[c], v) \in Window(ContextVersion)
  BY WriteWindow DEF StoreType
<1> QED
  BY <1>1 DEF StoreType, WriteCtx

LEMMA NWorkerMoves ==
    ASSUME NType
    PROVE  /\ \A e : NReturn(e) => NType'
           /\ \A l \in {"delete", "addFinalizer"} : NLoad(l) => NType'
<1>1. ASSUME NEW e, NReturn(e) PROVE NType'
  <2>1. (nqueue \/ e = "error") \in BOOLEAN
    OBVIOUS
  <2> QED
    BY <1>1, <2>1 DEF NType, NReturn, NIdle
<1>2. ASSUME NEW l \in {"delete", "addFinalizer"}, NLoad(l) PROVE NType'
  <2>1. Undelivered(net) \in BOOLEAN
    BY DEF Undelivered
  <2> QED
    BY <1>2, <2>1 DEF NType, NLoad
<1> QED
  BY <1>1, <1>2

LEMMA CWorkerMoves ==
    ASSUME CType
    PROVE  /\ \A e : CReturn(e) => CType'
           /\ \A l \in Programming : CGoto(l) /\ down' \in DownVersion => CType'
           /\ \A c \in ProgReasons, e \in {"ok", "error"} : CLeave(c, e) => CType'
<1>1. "Unset" \in ProgReasons
  BY DEF ProgReasons
<1> QED
  BY <1>1, FirstVersions DEF CType, CReturn, CIdle, CGoto, CLeave

LEMMA InitType == Init => TypeOK
<1> SUFFICES ASSUME Init PROVE StoreType /\ NType /\ CType
  BY TypeParts
<1>1. StoreType
  <2>1. faults \in Nat /\ wasReady \in BOOLEAN
    BY DEF Init
  <2> QED
    BY <2>1, FirstVersions, OneVersion DEF Init, StoreType
<1>2. NType
  BY DEF Init, NType
<1>3. CType
  BY FirstVersions DEF Init, CType, ProgReasons
<1> QED
  BY <1>1, <1>2, <1>3

\* A version that somebody but the workers stores.
LEMMA OthersType ==
    ASSUME StoreType, NType, CType
    PROVE  /\ \A v \in NetworkVersion : StoreNet(v) => StoreType' /\ NType' /\ CType'
           /\ \A c \in Contexts, v \in ContextVersion :
                 StoreCtx(c, v) => StoreType' /\ NType' /\ CType'
           /\ \A v \in DownVersion :
                 StoreDn(v) /\ faults' \in Nat => StoreType' /\ NType' /\ CType'
<1>1. ASSUME NEW v \in NetworkVersion, StoreNet(v) PROVE StoreType' /\ NType' /\ CType'
  <2>1. net' \in Window(NetworkVersion)
    BY <1>1, WriteWindow DEF StoreNet, WriteNet, StoreType
  <2> QED
    BY <1>1, <2>1 DEF StoreNet, StoreType, NType, CType, cWork
<1>2. ASSUME NEW c \in Contexts, NEW v \in ContextVersion, StoreCtx(c, v)
      PROVE  StoreType' /\ NType' /\ CType'
  <2>1. ctx' \in [Contexts -> Window(ContextVersion)]
    BY <1>2, WriteCtxType DEF StoreCtx
  <2> QED
    BY <1>2, <2>1 DEF StoreCtx, StoreType, NType, CType, nWork
<1>3. ASSUME NEW v \in DownVersion, StoreDn(v), faults' \in Nat
      PROVE  StoreType' /\ NType' /\ CType'
  <2>1. dn' \in Window(DownVersion) /\ v.ready \in BOOLEAN
    BY <1>3, WriteWindow DEF StoreDn, WriteDn, StoreType, DownVersion
  <2> QED
    BY <1>3, <2>1 DEF StoreDn, StoreType, NType, CType, nWork, cWork
<1> QED
  BY <1>1, <1>2, <1>3

\* One step keeps every variable in its type.
LEMMA NextType == TypeOK /\ [Next]_vars => TypeOK'
<1> SUFFICES ASSUME StoreType, NType, CType, [Next]_vars
             PROVE  StoreType' /\ NType' /\ CType'
  BY DEF TypeOK, StoreType, NType, CType, Window
<1>1. /\ Current(net) \in NetworkVersion
      /\ Current(dn) \in DownVersion /\ Cached(dn) \in DownVersion
      /\ \A c \in Contexts : Current(ctx[c]) \in ContextVersion /\ Cached(ctx[c]) \in ContextVersion
      /\ ckey \in Contexts /\ cond \in ProgReasons /\ err \in {"ok", "error"}
  BY StoredVersions DEF CType
<1>2. /\ {"getNetwork", "getDownstream", "createOrPatch", "conclude"} \subseteq Programming
      /\ {"NotProgrammed", "NetworkFailedToCreate", "ProgrammingInProgress", "Programmed"}
            \subseteq ProgReasons
  BY DEF Programming, ProgReasons
<1>3. Fault => faults' \in Nat
  BY DEF Fault, StoreType
<1>4. CASE NetworkSkips
  BY <1>4 DEF NetworkSkips, StoreType, NType, CType, apiVars, nWork, cWork
<1>5. CASE NetworkFinalizes \/ NetworkAddsFinalizer
  <2>1. PICK l \in {"delete", "addFinalizer"} : NLoad(l)
    BY <1>5 DEF NetworkFinalizes, NetworkAddsFinalizer
  <2> QED
    BY <2>1, NWorkerMoves DEF NLoad, StoreType, CType, apiVars, cWork
<1>6. CASE NetworkDelete
  <2>1. dn' \in Window(DownVersion)
    BY <1>1, <1>6, DownVersions, WriteWindow DEF NetworkDelete, WriteDn, StoreType
  <2> QED
    BY <1>6, <2>1 DEF NetworkDelete, StoreType, NType, CType, cWork
<1>7. CASE NetworkUpdate
  <2>1. net' \in Window(NetworkVersion)
    <3> DEFINE F == IF npc = "addFinalizer" THEN {gcpInfraFinalizer} ELSE {}
               v == Settled([Current(net) EXCEPT !.fins = F])
    <3>1. [Current(net) EXCEPT !.fins = F] \in NetworkVersion
      BY <1>1 DEF NetworkVersion
    <3>2. v \in NetworkVersion
      BY <3>1, NetworkVersions
    <3>3. WriteNet(v) \/ UNCHANGED net
      BY <1>7 DEF NetworkUpdate
    <3> HIDE DEF v
    <3> QED
      BY <3>2, <3>3, WriteWindow DEF WriteNet, StoreType
  <2>2. NType'
    BY <1>7, NWorkerMoves DEF NetworkUpdate
  <2> QED
    BY <1>7, <2>1, <2>2 DEF NetworkUpdate, StoreType, CType, cWork
<1>8. CASE NetworkCallFails
  BY <1>3, <1>8, NWorkerMoves DEF NetworkCallFails, StoreType, CType, apiVars, cWork
<1>9. ASSUME NEW c \in Contexts, ContextWorker(c)
      PROVE  StoreType' /\ NType' /\ CType'
  <2>1. Cached(ctx[c]).prog \in ProgReasons
    BY <1>1 DEF ContextVersion
  <2>2. UNCHANGED <<apiVars, nqueue, nWork, faults>> /\ CType'
    <3>1. CASE ContextSkips(c)
      BY <3>1 DEF ContextSkips, CType, cWork
    <3>2. CASE ContextPrograms(c)
      BY <1>2, <2>1, <3>2 DEF ContextPrograms, CType, Undelivered
    <3> QED
      BY <1>9, <3>1, <3>2 DEF ContextWorker, ContextSkips, ContextPrograms
  <2> QED
    BY <2>2 DEF StoreType, NType, apiVars, nWork
<1>10. CASE GetNetwork
  <2>1. (CGoto("getDownstream") /\ UNCHANGED down) \/ CLeave(cond, "error")
    BY <1>10 DEF GetNetwork
  <2>2. CType'
    BY <1>1, <1>2, <2>1, CWorkerMoves DEF CType
  <2> QED
    BY <1>10, <2>2 DEF GetNetwork, StoreType, NType, apiVars, nWork
<1>11. CASE GetDownstream
  BY <1>1, <1>2, <1>11, CWorkerMoves DEF GetDownstream, StoreType, NType, apiVars, nWork
<1>12. CASE CreateOrPatch
  <2>1. /\ dn' \in Window(DownVersion)
        /\ CLeave(cond, "error") \/ (CGoto("conclude") /\ down' \in DownVersion)
    <3> DEFINE v == [NoDown EXCEPT !.phase = "live"]
    <3>1. v \in DownVersion
      BY FirstVersions
    <3>2. \/ WriteDn(v) /\ down' = v /\ CGoto("conclude")
          \/ /\ UNCHANGED dn
             /\ \/ CLeave(cond, "error")
                \/ CGoto("conclude") /\ (UNCHANGED down \/ down' = Current(dn))
      BY <1>12 DEF CreateOrPatch
    <3> HIDE DEF v
    <3> QED
      BY <1>1, <3>1, <3>2, WriteWindow DEF WriteDn, StoreType, CType
  <2>2. CType'
    BY <1>1, <1>2, <2>1, CWorkerMoves
  <2> QED
    BY <1>12, <2>1, <2>2 DEF CreateOrPatch, StoreType, NType, nWork
<1>13. CASE Conclude
  BY <1>2, <1>13, CWorkerMoves DEF Conclude, StoreType, NType, apiVars, nWork
<1>14. CASE ContextStatus
  <2>1. ctx' \in [Contexts -> Window(ContextVersion)]
    BY <1>1, <1>14, ContextVersions, WriteCtxType DEF ContextStatus, StoreType
  <2>2. CType'
    BY <1>14, CWorkerMoves DEF ContextStatus
  <2> QED
    BY <1>14, <2>1, <2>2 DEF ContextStatus, StoreType, NType, nWork
<1>15. CASE ContextCallFails
  <2>1. CType'
    BY <1>1, <1>15, CWorkerMoves DEF ContextCallFails
  <2> QED
    BY <1>3, <1>15, <2>1 DEF ContextCallFails, StoreType, NType, apiVars, nWork
<1>16. CASE Restart
  <2>1. /\ net' \in Window(NetworkVersion) /\ dn' \in Window(DownVersion)
        /\ ctx' \in [Contexts -> Window(ContextVersion)]
    BY <1>16, RelistWindow DEF Restart, StoreType
  <2>2. NType'
    BY <1>16 DEF Restart, NIdle, NType
  <2>3. CType'
    BY <1>16, FirstVersions DEF Restart, CIdle, CType, ProgReasons
  <2> QED
    BY <1>3, <1>16, <2>1, <2>2, <2>3 DEF Restart, StoreType
<1>17. CASE DeliverNetwork
  BY <1>17, TailWindow DEF DeliverNetwork, StoreType, NType, CType, nWork, cWork
<1>18. CASE DeliverDownstream
  BY <1>18, TailWindow DEF DeliverDownstream, StoreType, NType, CType, nWork, cWork
<1>19. ASSUME NEW c \in Contexts, DeliverContext(c)
       PROVE  StoreType' /\ NType' /\ CType'
  <2>1. ctx' \in [Contexts -> Window(ContextVersion)]
    BY <1>19, TailWindow DEF DeliverContext, StoreType
  <2> QED
    BY <1>19, <2>1 DEF DeliverContext, StoreType, NType, CType, nWork, cWork
<1>20. ASSUME NEW c \in Contexts, DeliverContextDropped(c)
       PROVE  StoreType' /\ NType' /\ CType'
  <2>1. ctx' \in [Contexts -> Window(ContextVersion)]
    BY <1>20, TailWindow DEF DeliverContextDropped, StoreType
  <2> QED
    BY <1>3, <1>20, <2>1 DEF DeliverContextDropped, StoreType, NType, CType, nWork, cWork
<1>21. CASE CreateNetwork \/ DeleteNetwork
  BY <1>1, <1>21, FirstVersions, NetworkVersions, OthersType DEF CreateNetwork, DeleteNetwork
<1>22. ASSUME NEW c \in Contexts, CreateContext(c) \/ DeleteContext(c) \/ ContextRemoved(c)
       PROVE  StoreType' /\ NType' /\ CType'
  <2>1. {"deleting", "gone"} \subseteq Phases
    BY DEF Phases
  <2>2. PICK v \in ContextVersion : StoreCtx(c, v)
    BY <1>1, <1>22, <2>1, FirstVersions, ContextVersions
    DEF CreateContext, DeleteContext, ContextRemoved
  <2> QED
    BY <2>2, OthersType
<1>23. CASE Crossplane \/ XPFails
  <2>1. faults' \in Nat
    BY <1>3, <1>23 DEF Crossplane, XPAddsFinalizer, XPReady, XPReleases, XPFails, StoreType
  <2>2. PICK v \in DownVersion : StoreDn(v)
    <3>1. /\ {} \in SUBSET {XPFinalizer} /\ {XPFinalizer} \in SUBSET {XPFinalizer}
          /\ [Current(dn) EXCEPT !.fins = {}] \in DownVersion
      BY <1>1, DownVersions
    <3> QED
      BY <1>1, <1>23, <3>1, DownVersions
      DEF Crossplane, XPAddsFinalizer, XPReady, XPReleases, XPFails
  <2> QED
    BY <2>1, <2>2, OthersType
<1>24. CASE UNCHANGED vars
  BY <1>24 DEF vars, StoreType, NType, CType, apiVars, nWork, cWork
<1> QED
  BY <1>4, <1>5, <1>6, <1>7, <1>8, <1>9, <1>10, <1>11, <1>12, <1>13, <1>14, <1>15, <1>16, <1>17,
     <1>18, <1>19, <1>20, <1>21, <1>22, <1>23, <1>24
  DEF Next, NetworkWorker, ContextStep

\* Every variable keeps its type in every behaviour of the two reconcilers,
\* their informers, the users and Crossplane.
THEOREM TypeCorrect == Spec => []TypeOK
  BY InitType, NextType, PTL DEF Spec
-----------------------------------------------------------------------------
(* The NetworkReconciler: when the downstream Network is deleted. *)

\* What is in the cache of a reconcile that finalizes is true for good: a
\* Network being deleted is not taken back.
EarlyInv ==
    /\ Ordered(net)
    /\ npc \in {"delete", "removeFinalizer"} => Current(net).phase \in Leaving
    /\ NeverDeletedEarly

LEMMA VersionPhases ==
    /\ \A v \in NetworkVersion : v.phase \in Phases
    /\ \A v \in ContextVersion : v.phase \in Phases
    /\ \A v \in DownVersion : v.phase \in Phases
  BY DEF NetworkVersion, ContextVersion, DownVersion

\* The phase of the Network only advances.
NetAdvances == Ordered(net') /\ Current(net').phase \in Leads(Current(net).phase)

LEMMA NetWrite ==
    ASSUME StoreType, Ordered(net), NEW v \in NetworkVersion, WriteNet(v),
           v.phase \in Leads(Current(net).phase)
    PROVE  NetAdvances
<1>1. net \in Window(NetworkVersion) /\ net' = Write(net, v)
  BY DEF StoreType, WriteNet
<1>2. Ordered(net') /\ Current(net') = v
  BY <1>1, OrderedWrite, VersionPhases, WriteWindow
<1> QED
  BY <1>2 DEF NetAdvances

LEMMA NetStep == TypeOK /\ Ordered(net) /\ [Next]_vars => NetAdvances
<1> SUFFICES ASSUME StoreType, Ordered(net), [Next]_vars PROVE NetAdvances
  BY TypeParts
<1> DEFINE c == Current(net)
<1>1. /\ net \in Window(NetworkVersion) /\ c \in NetworkVersion /\ c.phase \in Phases
      /\ c.phase \in Leads(c.phase)
  BY StoredVersions, VersionPhases, LeadsOrder DEF StoreType
<1>2. CASE UNCHANGED net
  BY <1>1, <1>2 DEF NetAdvances
<1>3. CASE NetworkUpdate
  <2> DEFINE F == IF npc = "addFinalizer" THEN {gcpInfraFinalizer} ELSE {}
             v == Settled([c EXCEPT !.fins = F])
  <2>1. [c EXCEPT !.fins = F] \in NetworkVersion /\ [c EXCEPT !.fins = F].phase = c.phase
    BY <1>1 DEF NetworkVersion
  <2>2. v \in NetworkVersion
    BY <2>1, NetworkVersions
  <2>3. v.phase \in Leads(c.phase)
    <3>1. v.phase = c.phase \/ (c.phase = "deleting" /\ v.phase = "gone")
      BY <1>1, <2>1 DEF Settled, NetworkVersion
    <3> QED
      BY <1>1, <3>1, LeadsOrder
  <2>4. WriteNet(v) \/ UNCHANGED net
    BY <1>3 DEF NetworkUpdate
  <2> HIDE DEF v
  <2> QED
    BY <1>2, <2>2, <2>3, <2>4, NetWrite
<1>4. CASE CreateNetwork
  <2>1. /\ "live" \in Leads("none") /\ [NoNetwork EXCEPT !.phase = "live"].phase = "live"
    BY DEF Leads, Phases, NoNetwork
  <2> QED
    BY <1>4, <2>1, FirstVersions, NetWrite DEF CreateNetwork, StoreNet
<1>5. CASE DeleteNetwork
  <2> DEFINE v == AfterDelete(c)
  <2>1. v \in NetworkVersion /\ v.phase \in {"deleting", "gone"}
    BY <1>1, NetworkVersions DEF AfterDelete, Settled, NetworkVersion
  <2>2. WriteNet(v) /\ c.phase = "live"
    BY <1>5 DEF DeleteNetwork, StoreNet
  <2>3. v.phase \in Leads(c.phase)
    BY <1>1, <2>1, <2>2, LeadsOrder
  <2> HIDE DEF v
  <2> QED
    BY <2>1, <2>2, <2>3, NetWrite
<1>6. CASE Restart
  <2>1. net' = <<c>> /\ Current(<<c>>) = c
    BY <1>6, OneVersion DEF Restart
  <2>2. Ordered(<<c>>)
    BY <1>1, OrderedRelist, VersionPhases
  <2> QED
    BY <1>1, <2>1, <2>2 DEF NetAdvances
<1>7. CASE DeliverNetwork
  <2>1. Undelivered(net) /\ net' = Tail(net)
    BY <1>7 DEF DeliverNetwork
  <2>2. Ordered(Tail(net)) /\ Current(Tail(net)) = c
    BY <1>1, <2>1, OrderedTail, TailWindow
  <2> QED
    BY <1>1, <2>1, <2>2 DEF NetAdvances
<1>8. CASE \/ NetworkSkips \/ NetworkFinalizes \/ NetworkAddsFinalizer \/ NetworkDelete
           \/ NetworkCallFails \/ ContextStep \/ ContextCallFails \/ DeliverDownstream
           \/ Crossplane \/ XPFails \/ UNCHANGED vars
  <2>1. UNCHANGED net
    BY <1>8 DEF NetworkSkips, NetworkFinalizes, NetworkAddsFinalizer, NLoad, NetworkDelete,
                NetworkCallFails, ContextStep, GetNetwork, GetDownstream, CreateOrPatch,
                Conclude, ContextStatus, ContextCallFails, DeliverDownstream, Crossplane,
                XPAddsFinalizer, XPReady, XPReleases, XPFails, StoreDn, vars, apiVars
  <2> QED
    BY <1>2, <2>1
<1>9. ASSUME NEW d \in Contexts,
             \/ ContextWorker(d) \/ DeliverContext(d) \/ DeliverContextDropped(d)
             \/ CreateContext(d) \/ DeleteContext(d) \/ ContextRemoved(d)
      PROVE  NetAdvances
  <2>1. UNCHANGED net
    BY <1>9 DEF ContextWorker, ContextSkips, ContextPrograms, DeliverContext,
                DeliverContextDropped, CreateContext, DeleteContext, ContextRemoved, StoreCtx,
                apiVars
  <2> QED
    BY <1>2, <2>1
<1> QED
  BY <1>3, <1>4, <1>5, <1>6, <1>7, <1>8, <1>9 DEF Next, NetworkWorker

LEMMA InitEarly == Init => EarlyInv
<1> SUFFICES ASSUME Init PROVE EarlyInv
  OBVIOUS
<1>1. /\ Current(net) = NoNetwork /\ Current(dn) = NoDown
      /\ \A n \in 1..Len(net) : net[n] = NoNetwork
  BY OneVersion DEF Init
<1>2. NoNetwork.phase \in Leads(NoNetwork.phase) /\ NoDown.phase = "none"
  BY DEF NoNetwork, NoDown, Leads, Phases
<1> QED
  BY <1>1, <1>2 DEF EarlyInv, Ordered, NeverDeletedEarly, Init

LEMMA NextEarly == TypeOK /\ EarlyInv /\ [Next]_vars => EarlyInv'
<1> SUFFICES ASSUME TypeOK, EarlyInv, [Next]_vars PROVE EarlyInv'
  OBVIOUS
<1>1. StoreType /\ Ordered(net) /\ NeverDeletedEarly
  BY TypeParts DEF EarlyInv
<1>2. /\ Current(net) \in NetworkVersion /\ Current(net).phase \in Phases
      /\ Current(dn) \in DownVersion /\ dn \in Window(DownVersion)
  BY <1>1, StoredVersions, VersionPhases DEF StoreType
\* Once the Network is on its way out it stays so.
<1>3. Ordered(net') /\ (Current(net).phase \in Leaving => Current(net').phase \in Leaving)
  BY <1>1, NetStep, LeavingLeads DEF NetAdvances
<1>4. npc' \in {"delete", "removeFinalizer"} => Current(net').phase \in Leaving
  <2>1. CASE npc \in {"delete", "removeFinalizer"}
    BY <1>3, <2>1 DEF EarlyInv
  <2>2. CASE NetworkFinalizes
    <3>1. /\ \A n \in 1..Len(net) : 1 <= n /\ net[n].phase \in Leads("deleting")
          /\ Len(net) \in 1..Len(net)
      <4>1. 1 \in 1..Len(net) /\ Len(net) \in 1..Len(net)
        BY <1>1, RelistWindow DEF StoreType
      <4> QED
        BY <1>1, <2>2, <4>1 DEF NetworkFinalizes, Ordered, Cached
    <3>2. Current(net).phase \in Leaving
      BY <3>1 DEF Current, Leads, Leaving
    <3> QED
      BY <1>3, <3>2
  <2>3. CASE npc \notin {"delete", "removeFinalizer"} /\ ~NetworkFinalizes
    <3>1. npc' \notin {"delete", "removeFinalizer"}
      BY <2>3
      DEF Next, NetworkWorker, NetworkSkips, NetworkAddsFinalizer, NLoad, NetworkDelete,
          NetworkUpdate, NReturn, NIdle, NetworkCallFails, ContextStep, GetNetwork,
          GetDownstream, CreateOrPatch, Conclude, ContextStatus, ContextCallFails, Restart,
          DeliverNetwork, DeliverDownstream, CreateNetwork, DeleteNetwork, StoreNet, Crossplane,
          XPAddsFinalizer, XPReady, XPReleases, XPFails, StoreDn, ContextWorker, ContextSkips,
          ContextPrograms, DeliverContext, DeliverContextDropped, CreateContext, DeleteContext,
          ContextRemoved, StoreCtx, vars, nWork
    <3> QED
      BY <3>1
  <2> QED
    BY <2>1, <2>2, <2>3
<1>5. NeverDeletedEarly'
  <2>1. CASE Current(net).phase \in Leaving
    BY <1>3, <2>1 DEF NeverDeletedEarly, Leaving
  <2>2. CASE Current(net).phase \notin Leaving /\ npc \notin {"delete", "removeFinalizer"}
    <3> SUFFICES Current(dn').phase \notin Leaving
      BY DEF NeverDeletedEarly, Leaving
    <3>1. Current(dn).phase \notin Leaving
      BY <1>1, <2>2 DEF NeverDeletedEarly, Leaving
    <3>2. ASSUME NEW v \in DownVersion, WriteDn(v), v.phase \notin Leaving
          PROVE  Current(dn').phase \notin Leaving
      BY <1>2, <3>2, WriteWindow DEF WriteDn
    <3>3. CASE UNCHANGED dn
      BY <3>1, <3>3
    <3>4. CASE CreateOrPatch
      <4> DEFINE v == [NoDown EXCEPT !.phase = "live"]
      <4>1. v \in DownVersion /\ v.phase = "live"
        BY FirstVersions DEF NoDown
      <4>2. WriteDn(v) \/ UNCHANGED dn
        BY <3>4 DEF CreateOrPatch
      <4> HIDE DEF v
      <4> QED
        BY <3>2, <3>3, <4>1, <4>2 DEF Leaving
    <3>5. CASE Restart
      BY <3>1, <3>5, OneVersion DEF Restart
    <3>6. CASE DeliverDownstream
      BY <1>2, <3>1, <3>6, TailWindow DEF DeliverDownstream
    <3>7. CASE Crossplane \/ XPFails
      <4>1. PICK v \in DownVersion : WriteDn(v) /\ v.phase = Current(dn).phase
        <5>1. Current(dn).phase # "deleting"
          BY <3>1 DEF Leaving
        <5>2. \A F \in SUBSET {XPFinalizer} : /\ [Current(dn) EXCEPT !.fins = F] \in DownVersion
                                             /\ [Current(dn) EXCEPT !.fins = F].phase
                                                    = Current(dn).phase
          BY <1>2 DEF DownVersion
        <5>3. CASE XPAddsFinalizer
          BY <5>2, <5>3 DEF XPAddsFinalizer, StoreDn
        <5>4. CASE XPReady
          <6> DEFINE v == [Current(dn) EXCEPT !.ready = TRUE, !.failed = FALSE]
          <6>1. v \in DownVersion /\ v.phase = Current(dn).phase
            BY <1>2 DEF DownVersion
          <6>2. WriteDn(v)
            BY <5>4 DEF XPReady, StoreDn
          <6> HIDE DEF v
          <6> QED
            BY <6>1, <6>2
        <5>5. CASE XPFails
          <6> DEFINE v == [Current(dn) EXCEPT !.failed = TRUE]
          <6>1. v \in DownVersion /\ v.phase = Current(dn).phase
            BY <1>2 DEF DownVersion
          <6>2. WriteDn(v)
            BY <5>5 DEF XPFails, StoreDn
          <6> HIDE DEF v
          <6> QED
            BY <6>1, <6>2
        <5> QED
          BY <3>7, <5>1, <5>3, <5>4, <5>5 DEF Crossplane, XPReleases
      <4> QED
        BY <3>1, <3>2, <4>1
    <3>8. CASE ~CreateOrPatch /\ ~Restart /\ ~DeliverDownstream /\ ~Crossplane /\ ~XPFails
      <4>1. UNCHANGED dn
        BY <2>2, <3>8
        DEF Next, NetworkWorker, NetworkSkips, NetworkFinalizes, NetworkAddsFinalizer, NLoad,
            NetworkDelete, NetworkUpdate, NetworkCallFails, ContextStep, GetNetwork,
            GetDownstream, Conclude, ContextStatus, ContextCallFails, DeliverNetwork,
            CreateNetwork, DeleteNetwork, StoreNet, ContextWorker, ContextSkips,
            ContextPrograms, DeliverContext, DeliverContextDropped, CreateContext,
            DeleteContext, ContextRemoved, StoreCtx, vars, apiVars
      <4> QED
        BY <3>3, <4>1
    <3> QED
      BY <3>4, <3>5, <3>6, <3>7, <3>8
  <2> QED
    BY <2>1, <2>2 DEF EarlyInv
<1> QED
  BY <1>3, <1>4, <1>5 DEF EarlyInv

\* The reconciler deletes the downstream Network by name, without looking at
\* it: for no lag, crash or retry does this take the network away from a
\* Network that is not being deleted.
THEOREM NeverDeletedEarlyHolds == Spec => []NeverDeletedEarly
<1>1. Init => TypeOK /\ EarlyInv
  BY InitType, InitEarly
<1>2. TypeOK /\ EarlyInv /\ [Next]_vars => (TypeOK /\ EarlyInv)'
  BY NextType, NextEarly
<1>3. EarlyInv => NeverDeletedEarly
  BY DEF EarlyInv
<1> QED
  BY <1>1, <1>2, <1>3, PTL DEF Spec
-----------------------------------------------------------------------------
(* The NetworkContextReconciler: what it reports, and of what. *)

CtxTruths == {v \in ContextVersion : v.prog = "Programmed" => wasReady}
DnTruths == {v \in DownVersion : v.ready => wasReady}

\* Every version, stored, cached or copied, that says Programmed or Ready.
TruthInv ==
    /\ \A c \in Contexts : ctx[c] \in Window(CtxTruths)
    /\ dn \in Window(DnTruths)
    /\ (cond = "Programmed" \/ down.ready) => wasReady

\* The status a reconcile reports replaces the one it read.
FinalInv ==
    /\ \A c \in Contexts : Current(ctx[c]).phase = "none" => Current(ctx[c]).prog # "Programmed"
    /\ cpc # "idle" =>
          reported # "Programmed" /\ (~cstale => Current(ctx[ckey]).prog = reported)

LEMMA TruthsGrow ==
    ASSUME StoreType, TruthInv, wasReady => wasReady'
    PROVE  /\ \A c \in Contexts : ctx[c] \in Window(CtxTruths')
           /\ dn \in Window(DnTruths')
<1>1. CtxTruths \subseteq CtxTruths' /\ DnTruths \subseteq DnTruths'
  BY DEF CtxTruths, DnTruths
<1> QED
  BY <1>1, WindowGrows DEF TruthInv

\* True versions that are stored, delivered or listed leave true windows.
LEMMA CtxTruth ==
    ASSUME StoreType, TruthInv, UNCHANGED wasReady, NEW c \in Contexts, NEW v \in CtxTruths,
           WriteCtx(c, v)
    PROVE  /\ \A d \in Contexts : ctx'[d] \in Window(CtxTruths')
           /\ Current(ctx'[c]) = v
           /\ \A d \in Contexts : d # c => ctx'[d] = ctx[d]
<1>1. v \in ContextVersion /\ CtxTruths' = CtxTruths
  BY DEF CtxTruths
<1>2. ctx'[c] = Write(ctx[c], v) /\ \A d \in Contexts : d # c => ctx'[d] = ctx[d]
  BY <1>1, WriteCtxType
<1>3. Write(ctx[c], v) \in Window(CtxTruths) /\ Current(Write(ctx[c], v)) = v
  BY WriteWindow DEF TruthInv
<1> QED
  BY <1>1, <1>2, <1>3 DEF TruthInv

LEMMA DnTruth ==
    ASSUME StoreType, TruthInv, wasReady => wasReady', NEW v \in DnTruths', WriteDn(v)
    PROVE  dn' \in Window(DnTruths') /\ Current(dn') = v
<1>1. dn \in Window(DnTruths')
  BY TruthsGrow
<1>2. dn' = Write(dn, v)
  BY DEF WriteDn
<1> QED
  BY <1>1, <1>2, WriteWindow

LEMMA InitReports == Init => TruthInv /\ FinalInv
<1> SUFFICES ASSUME Init PROVE TruthInv /\ FinalInv
  OBVIOUS
<1>1. NoContext \in CtxTruths /\ NoDown \in DnTruths /\ ~NoDown.ready
  BY FirstVersions DEF CtxTruths, DnTruths, NoContext, NoDown
<1>2. \A c \in Contexts : ctx[c] \in Window(CtxTruths) /\ Current(ctx[c]).prog # "Programmed"
  BY <1>1, OneVersion DEF Init, NoContext
<1>3. dn \in Window(DnTruths)
  BY <1>1, OneVersion DEF Init
<1> QED
  BY <1>1, <1>2, <1>3 DEF Init, TruthInv, FinalInv

ProgrammedStays ==
    \A c \in Contexts :
        Current(ctx[c]).prog = "Programmed" => Current(ctx'[c]).prog = "Programmed"

LEMMA NextReports ==
    TypeOK /\ TruthInv /\ FinalInv /\ [Next]_vars => TruthInv' /\ FinalInv' /\ ProgrammedStays
<1> SUFFICES ASSUME TypeOK, TruthInv, FinalInv, [Next]_vars
             PROVE  TruthInv' /\ FinalInv' /\ ProgrammedStays
  OBVIOUS
<1>1. /\ StoreType /\ CType /\ ckey \in Contexts
      /\ \A c \in Contexts : /\ Current(ctx[c]) \in ContextVersion
                             /\ ctx[c] \in Window(CtxTruths)
                             /\ Current(ctx[c]) \in CtxTruths /\ Cached(ctx[c]) \in CtxTruths
      /\ Current(dn) \in DownVersion /\ dn \in Window(DnTruths)
      /\ Current(dn) \in DnTruths /\ Cached(dn) \in DnTruths
  BY TypeParts, StoredVersions, RelistWindow DEF CType, TruthInv
\* Versions that nobody touches; the worker that goes on from what it knows.
<1>2. ASSUME UNCHANGED <<ctx, dn, wasReady>>
      PROVE  /\ \A c \in Contexts : ctx'[c] \in Window(CtxTruths')
             /\ dn' \in Window(DnTruths')
             /\ ProgrammedStays
  BY <1>1, <1>2 DEF CtxTruths, DnTruths, ProgrammedStays
<1>3. ASSUME UNCHANGED <<cpc, ckey, reported>>, cstale => cstale',
             \A c \in Contexts : Current(ctx'[c]) = Current(ctx[c])
      PROVE  FinalInv' /\ ProgrammedStays
  BY <1>1, <1>3 DEF FinalInv, ProgrammedStays
<1>4. ASSUME CIdle, \A c \in Contexts : Current(ctx'[c]) = Current(ctx[c])
      PROVE  FinalInv' /\ ProgrammedStays
  BY <1>4 DEF CIdle, FinalInv, ProgrammedStays
<1>5. CASE \/ NetworkSkips \/ NetworkFinalizes \/ NetworkAddsFinalizer \/ NetworkUpdate
           \/ NetworkCallFails \/ DeliverNetwork \/ CreateNetwork \/ DeleteNetwork
           \/ UNCHANGED vars \/ \E c \in Contexts : ContextSkips(c)
  <2>1. UNCHANGED <<ctx, dn, wasReady, cWork>>
    BY <1>5 DEF NetworkSkips, NetworkFinalizes, NetworkAddsFinalizer, NLoad, NetworkUpdate,
                NetworkCallFails, DeliverNetwork, CreateNetwork, DeleteNetwork, StoreNet, vars,
                ContextSkips, apiVars
  <2>2. UNCHANGED <<cpc, ckey, reported, cstale, cond, down>>
    BY <2>1 DEF cWork
  <2> QED
    BY <1>2, <1>3, <2>1, <2>2 DEF TruthInv
\* Steps of others that touch the downstream Network only.
<1>6. ASSUME UNCHANGED <<ctx, cWork>>, wasReady => wasReady', wasReady' \in BOOLEAN,
             dn' \in Window(DnTruths')
      PROVE  TruthInv' /\ FinalInv' /\ ProgrammedStays
  <2>1. UNCHANGED <<cpc, ckey, reported, cstale, cond, down>>
    BY <1>6 DEF cWork
  <2>2. \A c \in Contexts : ctx'[c] \in Window(CtxTruths')
    BY <1>1, <1>6, TruthsGrow
  <2> QED
    BY <1>3, <1>6, <2>1, <2>2 DEF TruthInv
<1>7. CASE NetworkDelete
  <2> DEFINE v == AfterDelete(Current(dn))
  <2>1. v \in DownVersion /\ v.ready = Current(dn).ready
    <3>1. [Current(dn) EXCEPT !.phase = "deleting"].ready = Current(dn).ready
      BY <1>1 DEF DownVersion
    <3>2. \A d \in DownVersion : Settled(d).ready = d.ready
      BY DEF Settled, DownVersion
    <3>3. [Current(dn) EXCEPT !.phase = "deleting"] \in DownVersion
      BY <1>1 DEF DownVersion, Phases
    <3> QED
      BY <1>1, <3>1, <3>2, <3>3, DownVersions DEF AfterDelete
  <2>2. UNCHANGED <<ctx, cWork, wasReady>> /\ (WriteDn(v) \/ UNCHANGED dn)
    BY <1>7 DEF NetworkDelete
  <2>3. v \in DnTruths'
    BY <1>1, <2>1, <2>2 DEF DnTruths
  <2> HIDE DEF v
  <2>4. dn' \in Window(DnTruths')
    BY <1>1, <1>2, <2>2, <2>3, DnTruth
  <2> QED
    BY <1>1, <1>6, <2>2, <2>4 DEF StoreType
<1>8. CASE DeliverDownstream
  <2>1. UNCHANGED <<ctx, cWork, wasReady>> /\ Undelivered(dn) /\ dn' = Tail(dn)
    BY <1>8 DEF DeliverDownstream
  <2>2. Tail(dn) \in Window(DnTruths) /\ DnTruths' = DnTruths
    BY <1>1, <2>1, TailWindow DEF DnTruths
  <2> QED
    BY <1>1, <1>6, <2>1, <2>2 DEF StoreType
<1>9. CASE Crossplane \/ XPFails
  <2> DEFINE c == Current(dn)
  <2>1. PICK v \in DownVersion : StoreDn(v)
    <3>1. CASE XPAddsFinalizer
      BY <1>1, <3>1, DownVersions DEF XPAddsFinalizer
    <3>2. CASE XPReady
      BY <1>1, <3>2, DownVersions DEF XPReady
    <3>3. CASE XPFails
      BY <1>1, <3>3, DownVersions DEF XPFails
    <3>4. CASE XPReleases
      <4>1. [c EXCEPT !.fins = {}] \in DownVersion
        BY <1>1, DownVersions
      <4> QED
        BY <3>4, <4>1, DownVersions DEF XPReleases
    <3> QED
      BY <1>9, <3>1, <3>2, <3>3, <3>4 DEF Crossplane
  <2>2. /\ WriteDn(v) /\ UNCHANGED <<ctx, cWork>>
        /\ wasReady' = (wasReady \/ v.ready) /\ v.ready \in BOOLEAN
    BY <2>1 DEF StoreDn, DownVersion
  <2>3. v \in DnTruths' /\ (wasReady => wasReady') /\ wasReady' \in BOOLEAN
    BY <1>1, <2>2 DEF DnTruths, StoreType
  <2>4. dn' \in Window(DnTruths')
    BY <1>1, <2>2, <2>3, DnTruth
  <2> QED
    BY <1>6, <2>2, <2>3, <2>4
\* The worker goes on.
<1>10. ASSUME NEW c \in Contexts, ContextPrograms(c)
       PROVE  TruthInv' /\ FinalInv' /\ ProgrammedStays
  <2>1. /\ UNCHANGED <<ctx, dn, wasReady, down>> /\ cond' = "NotProgrammed"
        /\ ckey' = c /\ Cached(ctx[c]).prog # "Programmed"
        /\ reported' = Cached(ctx[c]).prog /\ cstale' = Undelivered(ctx[c])
    BY <1>10 DEF ContextPrograms, apiVars
  <2>2. ~Undelivered(ctx[c]) => Cached(ctx[c]) = Current(ctx[c])
    <3>1. Len(ctx[c]) \in Nat \ {0}
      BY <1>1 DEF Window
    <3> QED
      BY <3>1 DEF Undelivered, Cached, Current
  <2> QED
    BY <1>2, <2>1, <2>2 DEF TruthInv, FinalInv
<1>11. ASSUME UNCHANGED <<ctx, wasReady, ckey, reported, cstale>>, cpc # "idle",
              dn' \in Window(DnTruths'), (cond' = "Programmed" \/ down'.ready) => wasReady
       PROVE  TruthInv' /\ FinalInv' /\ ProgrammedStays
  <2>1. \A c \in Contexts : ctx'[c] \in Window(CtxTruths')
    BY <1>1, <1>11, TruthsGrow
  <2> QED
    BY <1>11, <2>1 DEF TruthInv, FinalInv, ProgrammedStays
<1>12. CASE GetNetwork \/ GetDownstream \/ Conclude
  <2>1. /\ UNCHANGED <<ctx, dn, wasReady, ckey, reported, cstale>> /\ cpc # "idle"
    BY <1>12 DEF GetNetwork, GetDownstream, Conclude, CGoto, CLeave, apiVars
  <2>2. ~NoDown.ready /\ (Cached(dn).ready => wasReady)
    BY <1>1 DEF NoDown, DnTruths
  <2>3. (cond' = "Programmed" \/ down'.ready) => wasReady
    BY <1>12, <2>2 DEF GetNetwork, GetDownstream, Conclude, CGoto, CLeave, TruthInv
  <2> QED
    BY <1>2, <1>11, <2>1, <2>3
<1>13. CASE CreateOrPatch
  <2> DEFINE v == [NoDown EXCEPT !.phase = "live"]
  <2>1. v \in DnTruths' /\ ~v.ready /\ ~NoDown.ready
    BY FirstVersions DEF NoDown, DnTruths
  <2>2. /\ UNCHANGED <<ctx, wasReady, ckey, reported, cstale>> /\ cpc # "idle"
        /\ cond' = cond
        /\ (WriteDn(v) /\ down' = v) \/ (UNCHANGED dn /\ down' \in {down, Current(dn), NoDown})
    BY <1>13 DEF CreateOrPatch, CGoto, CLeave
  <2> HIDE DEF v
  <2>3. dn' \in Window(DnTruths')
    BY <1>1, <1>2, <2>1, <2>2, DnTruth
  <2>4. (cond' = "Programmed" \/ down'.ready) => wasReady
    BY <1>1, <2>1, <2>2 DEF TruthInv, DnTruths
  <2> QED
    BY <1>11, <2>2, <2>3, <2>4
<1>14. CASE ContextCallFails
  <2>1. UNCHANGED <<ctx, dn, wasReady>> /\ cpc # "idle"
    BY <1>14 DEF ContextCallFails, apiVars
  <2>2. CASE CIdle
    BY <1>2, <1>4, <2>1, <2>2 DEF TruthInv, CIdle, NoDown
  <2>3. CASE CLeave(cond, "error")
    BY <1>2, <1>11, <2>1, <2>3 DEF CLeave, NoDown, TruthInv
  <2> QED
    BY <1>14, <2>2, <2>3 DEF ContextCallFails, CReturn
\* The status that is written replaces the one the reconcile began with.
<1>15. CASE ContextStatus
  <2>1. CIdle /\ UNCHANGED <<dn, wasReady>> /\ cpc = "updateStatus"
    BY <1>15 DEF ContextStatus, CReturn
  <2>2. CASE UNCHANGED ctx
    BY <1>2, <1>4, <2>1, <2>2 DEF TruthInv, CIdle, NoDown
  <2>3. CASE /\ ~cstale /\ Exists(Current(ctx[ckey]))
             /\ WriteCtx(ckey, [Current(ctx[ckey]) EXCEPT !.prog = cond])
    <3> DEFINE v == [Current(ctx[ckey]) EXCEPT !.prog = cond]
    <3>1. v \in CtxTruths /\ v.phase # "none"
      BY <1>1, <2>3 DEF ContextVersion, CtxTruths, TruthInv, CType, Exists
    <3>2. WriteCtx(ckey, v)
      BY <2>3
    <3>3. Current(ctx[ckey]).prog # "Programmed"
      BY <2>1, <2>3 DEF FinalInv
    <3> HIDE DEF v
    <3>4. /\ \A d \in Contexts : ctx'[d] \in Window(CtxTruths')
          /\ Current(ctx'[ckey]) = v
          /\ \A d \in Contexts : d # ckey => ctx'[d] = ctx[d]
      BY <1>1, <2>1, <3>1, <3>2, CtxTruth
    <3>5. dn' \in Window(DnTruths')
      BY <1>1, <2>1 DEF DnTruths
    <3> QED
      BY <1>1, <2>1, <3>1, <3>3, <3>4, <3>5
      DEF TruthInv, FinalInv, ProgrammedStays, CIdle, NoDown
  <2> QED
    BY <1>15, <2>2, <2>3 DEF ContextStatus
\* What users do to a NetworkContext leaves its status alone.
<1>16. ASSUME NEW c \in Contexts, CreateContext(c) \/ DeleteContext(c) \/ ContextRemoved(c)
       PROVE  TruthInv' /\ FinalInv' /\ ProgrammedStays
  <2>1. PICK v \in CtxTruths :
           /\ StoreCtx(c, v) /\ v.phase # "none"
           /\ Current(ctx[c]).prog = "Programmed" => v.prog = "Programmed"
    <3>1. CASE CreateContext(c)
      <4> DEFINE v == [NoContext EXCEPT !.phase = "live"]
      <4>1. v \in CtxTruths /\ v.phase = "live"
        BY FirstVersions DEF NoContext, CtxTruths
      <4>2. StoreCtx(c, v) /\ Current(ctx[c]).prog # "Programmed"
        BY <3>1 DEF CreateContext, FinalInv
      <4> HIDE DEF v
      <4> QED
        BY <4>1, <4>2
    <3>2. CASE DeleteContext(c) \/ ContextRemoved(c)
      <4>1. PICK p \in {"deleting", "gone"} : StoreCtx(c, [Current(ctx[c]) EXCEPT !.phase = p])
        BY <3>2 DEF DeleteContext, ContextRemoved
      <4> DEFINE v == [Current(ctx[c]) EXCEPT !.phase = p]
      <4>2. v \in CtxTruths /\ v.phase = p /\ v.prog = Current(ctx[c]).prog
        BY <1>1 DEF ContextVersion, CtxTruths, Phases
      <4>3. StoreCtx(c, v)
        BY <4>1
      <4> HIDE DEF v
      <4> QED
        BY <4>2, <4>3
    <3> QED
      BY <1>16, <3>1, <3>2
  <2>2. /\ WriteCtx(c, v) /\ UNCHANGED <<dn, wasReady, cpc, ckey, reported, down, cond>>
        /\ cstale' = (cstale \/ (c = ckey /\ cpc # "idle"))
    BY <2>1 DEF StoreCtx
  <2>3. /\ \A d \in Contexts : ctx'[d] \in Window(CtxTruths')
        /\ Current(ctx'[c]) = v
        /\ \A d \in Contexts : d # c => ctx'[d] = ctx[d]
    BY <1>1, <2>2, CtxTruth
  <2>4. dn' \in Window(DnTruths')
    BY <1>1, <2>2 DEF DnTruths
  <2>5. TruthInv'
    BY <2>2, <2>3, <2>4 DEF TruthInv
  <2>6. ProgrammedStays
    BY <2>1, <2>3 DEF ProgrammedStays
  <2>7. FinalInv'
    BY <1>1, <2>1, <2>2, <2>3 DEF FinalInv
  <2> QED
    BY <2>5, <2>6, <2>7
<1>17. ASSUME NEW c \in Contexts, DeliverContext(c) \/ DeliverContextDropped(c)
       PROVE  TruthInv' /\ FinalInv' /\ ProgrammedStays
  <2>1. /\ UNCHANGED <<dn, wasReady, cWork>> /\ Undelivered(ctx[c])
        /\ ctx' = [ctx EXCEPT ![c] = Tail(@)]
    BY <1>17 DEF DeliverContext, DeliverContextDropped
  <2>2. UNCHANGED <<cpc, ckey, reported, cstale, cond, down>>
    BY <2>1 DEF cWork
  <2>3. ctx'[c] = Tail(ctx[c]) /\ \A d \in Contexts : d # c => ctx'[d] = ctx[d]
    BY <1>1, <2>1 DEF StoreType
  <2>4. Tail(ctx[c]) \in Window(CtxTruths) /\ Current(Tail(ctx[c])) = Current(ctx[c])
    BY <1>1, <2>1, TailWindow
  <2>5. CtxTruths' = CtxTruths /\ DnTruths' = DnTruths
    BY <2>1 DEF CtxTruths, DnTruths
  <2>6. \A d \in Contexts : Current(ctx'[d]) = Current(ctx[d]) /\ ctx'[d] \in Window(CtxTruths')
    BY <1>1, <2>3, <2>4, <2>5
  <2> QED
    BY <1>1, <1>3, <2>1, <2>2, <2>5, <2>6 DEF TruthInv
<1>18. CASE Restart
  <2>1. /\ CIdle /\ UNCHANGED wasReady /\ dn' = <<Current(dn)>>
        /\ \A c \in Contexts : ctx'[c] = <<Current(ctx[c])>>
    BY <1>18 DEF Restart
  <2>2. CtxTruths' = CtxTruths /\ DnTruths' = DnTruths
    BY <2>1 DEF CtxTruths, DnTruths
  <2>3. \A c \in Contexts : Current(ctx'[c]) = Current(ctx[c]) /\ ctx'[c] \in Window(CtxTruths')
    BY <1>1, <2>1, <2>2, OneVersion
  <2>4. dn' \in Window(DnTruths')
    BY <1>1, <2>1, <2>2, OneVersion
  <2> QED
    BY <1>4, <2>1, <2>3, <2>4 DEF TruthInv, CIdle, NoDown
<1> QED
  BY <1>5, <1>7, <1>8, <1>9, <1>10, <1>12, <1>13, <1>14, <1>15, <1>16, <1>17, <1>18
  DEF Next, NetworkWorker, ContextStep, ContextWorker

LEMMA ReportsInvariant == Spec => [](TypeOK /\ TruthInv /\ FinalInv)
<1>1. Init => TypeOK /\ TruthInv /\ FinalInv
  BY InitType, InitReports
<1>2. TypeOK /\ TruthInv /\ FinalInv /\ [Next]_vars => (TypeOK /\ TruthInv /\ FinalInv)'
  BY NextType, NextReports
<1> QED
  BY <1>1, <1>2, PTL DEF Spec

\* A NetworkContext is reported Programmed only once its network was Ready,
\* however late the reconcile that saw it stores the status.
THEOREM ProgrammedMeansReadyHolds == Spec => []ProgrammedMeansReady
<1>1. TypeOK /\ TruthInv /\ FinalInv => ProgrammedMeansReady
  <2> SUFFICES ASSUME TruthInv, NEW c \in Contexts, Current(ctx[c]).prog = "Programmed"
               PROVE  wasReady
    BY DEF ProgrammedMeansReady
  <2>1. Current(ctx[c]) \in CtxTruths
    BY RelistWindow DEF TruthInv
  <2> QED
    BY <2>1 DEF CtxTruths
<1> QED
  BY <1>1, ReportsInvariant, PTL

\* No reconcile that began before a NetworkContext was Programmed overwrites
\* its status.
THEOREM ProgrammedIsFinalHolds == Spec => ProgrammedIsFinal
<1>1. TypeOK /\ TruthInv /\ FinalInv /\ [Next]_vars =>
         [\A c \in Contexts :
             Current(ctx[c]).prog = "Programmed" => Current(ctx'[c]).prog = "Programmed"]_vars
  BY NextReports DEF ProgrammedStays
<1> QED
  BY <1>1, ReportsInvariant, PTL DEF Spec, ProgrammedIsFinal
=============================================================================
