--------------------------- MODULE MCConnections ---------------------------
(* Documents as administrators write them, small.                           *)
EXTENDS Connections, TLC

CONSTANTS U1, U2, K1, K2

TwoSecrets == (U1 :> K1) @@ (U2 :> K2)

Own(id) == [kind |-> "own", id |-> id]
Inbound(tag, type, list, clients) ==
  [tag |-> tag, type |-> type, users |-> list, clients |-> clients]
Direct == [tag |-> Own("direct"), type |-> "direct"]
Proxy == [tag |-> Own("proxy"), type |-> "proxy"]
RuleTo(id) == [user |-> None, inbounds |-> {}, outbound |-> Own(id)]
Person(u) == [name |-> u, secret |-> Key(u)]
Nameless(u) == [name |-> None, secret |-> Key(u)]

Document(inbounds, outbounds, rules, final) ==
  [inbounds |-> inbounds, outbounds |-> outbounds, rules |-> rules,
   final |-> Own(final), counted |-> {}]

Served == Document(<<Inbound("in-1", "vless", {}, NoList), Inbound(None, "trojan", {}, NoList)>>,
                   <<Proxy, Direct>>, <<RuleTo("proxy")>>, "direct")
WithTun == Document(<<Inbound("in-1", "vless", NoList, NoList),
                      Inbound("in-2", "trojan", NoList, NoList),
                      Inbound("tun", "tun", NoList, NoList)>>,
                    <<Direct, Proxy>>, <<RuleTo("proxy"), RuleTo("direct")>>, "proxy")
NoDirect == Document(<<Inbound("in-1", "vless", {}, NoList), Inbound("in-2", None, NoList, NoList)>>,
                     <<Proxy>>, <<>>, "proxy")
Legacy == Document(<<Inbound("in-1", "vless", {Person(U1), Nameless(U2)}, NoList),
                     Inbound("in-2", "trojan", {Person(U2)}, NoList)>>, <<Direct>>, <<>>, "direct")
LegacyOne == Document(<<Inbound("in-1", "vless", {Person(U1), Nameless(U2)}, NoList)>>,
                      <<Direct>>, <<>>, "direct")
Known == Document(<<Inbound("in-1", "vless", {Person(U1), Person(U2)}, NoList)>>,
                  <<Direct>>, <<>>, "direct")
Twice == Document(<<Inbound("in-1", "vless", {Person(U1)}, NoList),
                    Inbound("in-2", "trojan", {Person(U1), Person(U2)}, NoList)>>,
                  <<Direct>>, <<>>, "direct")
LegacyClients == Document(<<Inbound("in-1", "vless", NoList, {Person(U1), Nameless(U2)}),
                            Inbound("in-2", "trojan", NoList, NoList),
                            Inbound("api", "dokodemo", NoList, NoList)>>, <<Direct>>, <<>>, "direct")

Mess == Document(<<Inbound("in-1", "vmess", NoList, {}), Inbound("in-2", "vless", {}, NoList)>>,
                 <<Direct>>, <<>>, "direct")

Called == {"in-1", "in-2", "vless", "vmess", "trojan", "shadowsocks", "tun", "dokodemo", "api",
           "direct", "proxy"}

AllProtocols == {"vless", "trojan", None}
Set(variant, template, filter, base) ==
  [variant |-> variant, template |-> template, filter |-> filter, base |-> base,
   found |-> IF template THEN None ELSE base,
   protocols |-> AllProtocols, secrets |-> BOOLEAN, clients |-> FALSE]
Over(found, variant, filter, template) ==
  [Set(variant, TRUE, filter, template) EXCEPT !.found = found]
WithClients(s) == [s EXCEPT !.protocols = {"vless"}, !.secrets = {TRUE}, !.clients = TRUE]

\* Some start from a template over a document of their own.  Two settings have
\* clients, with users of one protocol and a secret; three have users of a
\* protocol no link builder knows.
TypicalSettings ==
  {Set("singbox", t, None, doc) : t \in BOOLEAN, doc \in {WithTun, NoDirect, Legacy, Twice}}
  \cup {Set("singbox", FALSE, "in-1", Legacy), Set("singbox", TRUE, "in-2", WithTun)}
  \cup {Set(v, t, None, LegacyClients) : v \in {"xray", "v2ray"}, t \in BOOLEAN}
  \cup {Set("v2ray", TRUE, "in-2", Legacy)}
  \cup {[s EXCEPT !.protocols = {"vmess", "vless", "tun"}] :
           s \in {Set("singbox", TRUE, None, Mess), Set("xray", TRUE, None, Mess),
                  Over(LegacyClients, "xray", None, Mess)}}
  \cup {Over(Legacy, "singbox", None, NoDirect), Over(Legacy, "singbox", "in-2", WithTun),
        Over(Twice, "singbox", None, Served)}
  \cup {WithClients(Over(Known, "singbox", None, Served)),
        WithClients(Set("singbox", FALSE, None, LegacyOne))}

\* Nothing tells one connection, or one goroutine, from another.
Interchangeable == Permutations(ConnIds) \cup Permutations(Goroutines)
=============================================================================
