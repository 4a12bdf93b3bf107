--------------------------- MODULE MCInstanceBuild ---------------------------
(***************************************************************************)
(* Templates for InstanceBuild: each plan is a case that its code treats   *)
(* differently.                                                            *)
(***************************************************************************)
EXTENDS InstanceBuild

Disk(n, p, i) == [name |-> n, source |-> "disk", ref |-> "", items |-> FALSE,
                  populator |-> p, image |-> i, storage |-> "unset"]
Volume(s, r) == [name |-> r, source |-> s, ref |-> r, items |-> FALSE,
                 populator |-> "none", image |-> "", storage |-> "unset"]
Named(v, n) == [v EXCEPT !.name = n]
At(n, d) == [volume |-> n, mounted |-> TRUE, dir |-> d]

Nic == [policy |-> FALSE, ingress |-> <<>>]
Guarded(rules) == [policy |-> TRUE, ingress |-> rules]

Template(r, vs, as, nics) ==
    [runtime |-> r, instanceType |-> "d1", volumes |-> vs, attachments |-> as,
     interfaces |-> nics]
Sandbox(vs, as, nics) == Template("sandbox", vs, as, nics)
VM(vs, as, nics) == Template("vm", <<Disk("root", "image", "ubuntu")>> \o vs, as, nics)

MCKeys == [app |-> {"a"}, both |-> {"a", "b"}]

\* A sandbox with a ConfigMap and a Secret whose type is not mapped, and then one
\* with a type that is and a second Secret.
Config == Named(Volume("configmap", "app"), "cfg")
WithSecrets ==
    <<[Sandbox(<<Config, Volume("secret", "s1")>>, <<At("cfg", "/a"), At("s1", "/b")>>, <<Nic>>)
          EXCEPT !.instanceType = "d9"],
      Sandbox(<<Config, Volume("secret", "s1"), Volume("secret", "s2")>>,
              <<At("cfg", "/a"), At("s1", "/b"), At("s2", "/b")>>, <<Nic>>)>>

\* A named port ends the first policy; the next template has an interface more.
Growing ==
    <<VM(<<>>, <<>>, <<Guarded(<<<<"number">>, <<"any", "name">>, <<"number">>>>)>>),
      VM(<<>>, <<>>, <<Guarded(<<<<"number">>>>), Guarded(<<<<"number">>>>)>>)>>

\* Another instance type and an interface less, and back again.
BackAndForth ==
    LET a == VM(<<>>, <<>>, <<Nic, Nic>>)
    IN  <<a, [a EXCEPT !.instanceType = "d2", !.interfaces = <<Nic>>], a>>

\* Two keys and two mount directories, in any order, a disk and a volume that
\* there is not.
Unordered ==
    <<VM(<<Volume("configmap", "both"), Config>>,
         <<At("root", "/c"), At("both", "/a"), At("gone", "/c"), At("cfg", "/b")>>, <<Nic>>)>>

\* Templates that are refused, one way after the other, and one that is not.
Refused ==
    <<Sandbox(<<[Volume("secret", "s1") EXCEPT !.items = TRUE]>>, <<At("s1", "/a")>>, <<Nic>>),
      Sandbox(<<Disk("data", "none", "")>>, <<At("data", "/a")>>, <<Nic>>),
      Sandbox(<<Disk("data", "filesystem", "")>>, <<At("data", "/a")>>, <<Nic>>)>>

\* A disk that names no size, and then one with an image.
Unsized ==
    <<VM(<<[Disk("data", "image", "ubuntu") EXCEPT !.storage = "missing"]>>, <<>>, <<Nic>>),
      VM(<<Disk("data", "image", "cos")>>, <<>>, <<Nic, Nic>>)>>

Bounded(p, l, lag, f) == [plan |-> p, late |-> l, maxLag |-> lag, maxFaults |-> f]

MCScenarios ==
    {Bounded(WithSecrets, {}, 1, 0),
     Bounded(Growing, {}, 1, 0),
     Bounded(<<Growing[1]>>, {"net-0"}, 1, 1),
     Bounded(BackAndForth, {}, 1, 0),
     Bounded(SubSeq(BackAndForth, 1, 2), {}, 2, 0),
     Bounded(Unordered, {"app"}, 1, 0),
     Bounded(Refused, {}, 1, 1),
     Bounded(Unsized, {}, 1, 0)}
=============================================================================
