----------------------------- MODULE MCStartup -----------------------------
(* Configurations as administrators write them, and two accounts.           *)
EXTENDS Startup, TLC

CONSTANTS U1, U2

Sorted == <<"edge", "legacy", "main">>

Address(family, public, n) == [family |-> family, public |-> public, n |-> n]
TypicalAddresses ==
  {Address("A", TRUE, 1), Address("A", TRUE, 2), Address("AAAA", TRUE, 1), Address("A", FALSE, 1)}
TypicalRecords ==
  {[type |-> a.family, name |-> Domain, content |-> a] : a \in TypicalAddresses}
  \cup {[type |-> "A", name |-> "other", content |-> Address("A", TRUE, 1)]}

Item(type, enabled, path, template, stats) ==
  [type |-> type, enabled |-> enabled, path |-> path, template |-> template,
   clash |-> type = "sing-box", stats |-> stats, domain |-> path]
Stub == Item("stub", TRUE, FALSE, None, "none")

Items(edge, main) == ("edge" :> edge) @@ ("legacy" :> None) @@ ("main" :> main)
Config(default, enabled, items) ==
  [default |-> default, enabled |-> enabled, items |-> items, adapter |-> Stub,
   ddns |-> None, initOnce |-> FALSE]

SingBox == Item("sing-box", TRUE, TRUE, "fine", "good")
Xray == Item("xray", TRUE, TRUE, None, "good")
Off(item) == [item EXCEPT !.enabled = FALSE]

Loop(type, resolvers) ==
  [provider |-> "cloudflare", complete |-> TRUE, type |-> type, resolvers |-> resolvers]

CoreConfigs ==
  { Config("main", {}, Items(SingBox, Xray)),
    Config("edge", {}, Items(SingBox, Item("xray", TRUE, TRUE, None, "bad"))),
    Config(None, {"main"}, Items(SingBox, Xray)),
    Config("main", {"edge"}, Items(SingBox, Xray)),
    Config("edge", {"edge"}, Items(SingBox, Xray)),
    Config("legacy", {}, Items(Off(SingBox), Off(Xray))),
    Config("edge", {}, Items(SingBox, Item("nonsense", TRUE, TRUE, None, "good"))),
    Config("main", {}, Items(SingBox, Item(None, TRUE, FALSE, None, "none"))),
    [Config("main", {}, Items(Item("v2fly", TRUE, FALSE, None, "none"), Stub)) EXCEPT !.initOnce = TRUE],
    [Config(None, {}, Items(None, None)) EXCEPT !.adapter = SingBox] }

LoopConfigs ==
  {[Config(None, {}, Items(None, None)) EXCEPT !.ddns = Loop(type, n)] :
     type \in {None, "AAAA"}, n \in {0, 1}}
  \cup {[Config(None, {}, Items(None, None)) EXCEPT !.ddns = Loop("other", 1)],
        [Config(None, {}, Items(None, None)) EXCEPT !.ddns = [Loop("A", 1) EXCEPT !.complete = FALSE]]}

TypicalRows ==
  {(U1 :> [core |-> c, enabled |-> TRUE]) @@ (U2 :> [core |-> d, enabled |-> TRUE]) :
     c \in {None, "edge"}, d \in {"main", "gone"}}

NoHost == [family \in {"A", "AAAA"} |-> None]
Record == [type |-> "A", name |-> Domain, content |-> Address("A", TRUE, 1)]

\* Installations with several cores and no DNS loop, and the other way round.
TypicalSites ==
  {[configs |-> CoreConfigs, rows |-> rows, files |-> ("edge" :> e) @@ ("legacy" :> "missing") @@ ("main" :> m),
    hosts |-> {NoHost}, records |-> {Record}] :
     rows \in TypicalRows, e \in {"missing", "fine", "broken"}, m \in {"missing", "fine"}}
  \cup
  {[configs |-> {c}, rows |-> [u \in {U1, U2} |-> [core |-> None, enabled |-> FALSE]],
    files |-> [id \in {"edge", "legacy", "main"} |-> "missing"],
    hosts |-> {NoHost}, records |-> {Record}] : c \in LoopConfigs}
=============================================================================
