------------------------------ MODULE Outbounds ------------------------------
(***************************************************************************)
(* The outbounds of a converted configuration: translator/proxy.go turns   *)
(* every proxy of the input into an outbound or a stub, translator/group.go *)
(* turns the proxy groups into selectors and url tests, drops what cannot  *)
(* be translated and removes the references that this leaves dangling.     *)
(*                                                                         *)
(* The operators are pure.  A proxy of the input is a record               *)
(*   [name, type, server, port, ports, ok, ech]                            *)
(* in which "ok" stands for the checks of its own protocol (a Shadowsocks  *)
(* cipher sing-box knows, a UUID, ...) and "ech" is the domain its ECH     *)
(* configuration is queried from, "" for none.  A group of the input is    *)
(*   [name, type, proxies, interval].                                      *)
(* An absent string is "", as the code's type assertions make it.          *)
(***************************************************************************)
EXTENDS Lists

(***************************************************************************)
(* Proxies.                                                                *)
(***************************************************************************)
Protocols == {"vless", "vmess", "trojan", "ss", "shadowsocks", "hysteria2",
              "tuic", "anytls", "socks5", "http", "hysteria"}

\* Loopback and unspecified addresses, and the name of the host itself.
LocalServers == {"localhost", "127.0.0.1", "::1", "0.0.0.0", "::"}

PortNumbers == 1..65535

IsInvalidHealthCheckEndpoint(p) ==
    /\ p.server # ""
    /\ \/ p.server \in LocalServers
       \/ p.port # 0 /\ p.port \notin PortNumbers

HasProxyEndpoint(p) == p.server # "" /\ (p.port # 0 \/ p.ports)

\* The protocols without an equivalent, and an unknown one, yield no outbound.
IsTranslated(p) == HasProxyEndpoint(p) /\ p.type \in Protocols /\ p.ok

\* A stub stays visible under the name of the proxy and reaches nothing; the
\* user name of the stub keeps the protocol it stands for.
MakeStubOutbound(p) ==
    [tag |-> p.name, type |-> "socks", members |-> <<>>, default |-> "",
     interval |-> 0, idle |-> 0, ech |-> "", stub |-> TRUE]

ProxyOutbound(p) ==
    IF IsTranslated(p)
      THEN [MakeStubOutbound(p) EXCEPT !.type = p.type, !.ech = p.ech, !.stub = FALSE]
      ELSE MakeStubOutbound(p)

\* What translateProxies returns and the tables it fills; a proxy without a
\* name is skipped.
TranslateProxies(proxies) ==
    LET named == Keep(proxies, {p \in ToSet(proxies) : p.name # ""})
        obs == [i \in DOMAIN named |-> ProxyOutbound(named[i])]
    IN [outbounds |-> obs,
        tags      |-> ToTags(obs),
        stubs     |-> {obs[i].tag : i \in {j \in DOMAIN obs : obs[j].stub}},
        invalid   |-> {named[i].name : i \in
                         {j \in DOMAIN named : \/ IsInvalidHealthCheckEndpoint(named[j])
                                               \/ ~IsTranslated(named[j])}}]

\* The domains ECH configurations are queried from.
CollectECHQueryServers(obs) == {obs[i].ech : i \in DOMAIN obs} \ {""}

(***************************************************************************)
(* Groups.                                                                 *)
(***************************************************************************)
MaxGroupInterval == 1800

\* The interval of a url test in seconds: 180 unless one is given, at most
\* MaxGroupInterval.
GroupInterval(g) ==
    IF g.interval <= 0 THEN 180
    ELSE IF g.interval > MaxGroupInterval THEN MaxGroupInterval
    ELSE g.interval

\* How long a url test that nobody uses goes on.
IdleTimeout(interval) == IF interval * 2 > 1800 THEN interval * 2 ELSE 1800

\* mutant: the names of the groups are not collected beforehand
FilterProxiesOnly(g, proxyTags, groupTags) ==
    Keep(g.proxies, proxyTags \cup {"DIRECT"})

\* A member is a proxy, a group of the configuration (also one that comes
\* later, or will be skipped) or DIRECT.
FilterGroupProxies(g, proxyTags, groupTags) ==
    Keep(g.proxies, proxyTags \cup groupTags \cup {"DIRECT"})

FilterHealthCheckProxies(members, invalid) == Keep(members, ToSet(members) \ invalid)

SelectorTypes == {"select", "load-balance"}
UrlTestTypes == {"url-test", "fallback"}

\* mutant: stubs and local addresses are health checked too
UncheckedMembers(g, proxyTags, groupTags, invalid) ==
    IF g.type \in SelectorTypes \cup UrlTestTypes
      THEN FilterGroupProxies(g, proxyTags, groupTags)
      ELSE <<>>

\* The members a group is translated with; <<>> when it is skipped.
GroupMembers(g, proxyTags, groupTags, invalid) ==
    LET filtered == FilterGroupProxies(g, proxyTags, groupTags)
    IN CASE g.type \in SelectorTypes -> filtered
         [] g.type \in UrlTestTypes -> FilterHealthCheckProxies(filtered, invalid)
         [] OTHER -> <<>>                 \* relay and unknown types

TranslateGroup(g, members) ==
    [tag      |-> g.name,
     type     |-> IF g.type \in SelectorTypes THEN "selector" ELSE "urltest",
     members  |-> members,
     default  |-> IF g.type \in SelectorTypes THEN members[1] ELSE "",
     interval |-> IF g.type \in SelectorTypes THEN 0 ELSE GroupInterval(g),
     idle     |-> IF g.type \in SelectorTypes THEN 0 ELSE IdleTimeout(GroupInterval(g)),
     ech      |-> "",
     stub     |-> FALSE]

GroupNames(groups) == {groups[i].name : i \in DOMAIN groups} \ {""}

\* The first half of translateGroups: every group by itself.
TranslateGroups(groups, proxyTags, invalid) ==
    LET names == GroupNames(groups)
        Members(g) == GroupMembers(g, proxyTags, names, invalid)
        kept == Keep(groups, {g \in ToSet(groups) : g.name # "" /\ Members(g) # <<>>})
    IN [i \in DOMAIN kept |-> TranslateGroup(kept[i], Members(kept[i]))]

\* mutant: the default of a selector survives the member it names
KeepDefault(g, clean, valid) == [g EXCEPT !.members = clean]

\* A default that is gone is replaced by the first member that is left.
FixDefault(g, clean, valid) ==
    [g EXCEPT !.members = clean,
              !.default = IF @ # "" /\ @ \notin valid THEN clean[1] ELSE @]

\* The members that are left to a group in a pass of the clean-up; the valid
\* tags are those at its start.
ValidTags(proxyTags, translated) == proxyTags \cup translated \cup {"DIRECT"}

CleanMembers(g, valid) == Keep(g.members, valid)

\* One pass: the groups that are left, and the tags of those that are dropped.
CleanupGroupOutboundsOnce(obs, valid) ==
    LET left == Keep(obs, {g \in ToSet(obs) : CleanMembers(g, valid) # <<>>})
    IN [i \in DOMAIN left |-> FixDefault(left[i], CleanMembers(left[i], valid), valid)]

DroppedGroups(obs, valid) ==
    {obs[i].tag : i \in {j \in DOMAIN obs : CleanMembers(obs[j], valid) = <<>>}}

\* The groups of the input that were translated, in its order.
GroupTagOrder(groups, translated) ==
    LET names == [i \in DOMAIN groups |-> groups[i].name]
    IN Keep(names, translated \ {""})

\* The groups made up when none was translated: a url test over the proxies
\* that can be checked if there are two, and a selector over everything.
\* "sorted" is the list of the tags of all proxies in ascending order.
GenerateDefaultGroups(sorted, invalid) ==
    LET healthy == FilterHealthCheckProxies(sorted, invalid)
        auto == [name |-> "Auto", type |-> "url-test", proxies |-> healthy, interval |-> 0]
        all == IF Len(healthy) >= 2 THEN <<"Auto">> \o sorted ELSE sorted
        proxy == [name |-> "PROXY", type |-> "select", proxies |-> all, interval |-> 0]
    IN IF sorted = <<>> THEN <<>>
       ELSE (IF Len(healthy) >= 2 THEN <<TranslateGroup(auto, healthy)>> ELSE <<>>)
              \o <<TranslateGroup(proxy, all)>>
=============================================================================
