---------------------------- MODULE MCTranslator ----------------------------
(* Inputs for Translator: a family that varies the groups, one that varies  *)
(* the DNS section, lists of URIs and stored configurations.                *)
EXTENDS Translator

Proxy(name, type, server, ech) ==
    [name |-> name, type |-> type, server |-> server, port |-> 443, ports |-> FALSE,
     ok |-> TRUE, ech |-> ech]

Group(name, type, members) == [name |-> name, type |-> type, proxies |-> members, interval |-> 0]

UDP == NameServer("udp", TRUE)
DoH == NameServer("https", FALSE)

BasicDNS == [DefaultDNS EXCEPT !.def = <<UDP>>, !.ns = <<DoH>>, !.filter = <<>>]

Config(proxies, groups, dns, hosts, cc) ==
    [kind |-> "yaml", cc |-> cc, proxies |-> proxies, groups |-> groups, dns |-> dns, hosts |-> hosts]

\* Three groups that refer to each other, a good proxy and a stub.
SomeProxies == <<Proxy("p", "vless", "host", ""), Proxy("s", "ssr", "host", "")>>
MemberLists == {<<"p">>, <<"s">>, <<"B">>, <<"gone", "C">>, <<"A", "s">>}
Types == {"select", "fallback", "relay"}

GroupInputs ==
    {Config(SomeProxies, <<Group("A", ta, a), Group("B", tb, b), Group("C", tc, c)>>, BasicDNS, {}, "us") :
       ta \in Types, tb \in Types, tc \in Types, a \in MemberLists, b \in MemberLists, c \in MemberLists}

\* Nodes at the edges: local, without an endpoint, refused by its protocol,
\* with a name of the translator.
EdgeProxies == {<<>>, <<Proxy("p", "vless", "127.0.0.1", "")>>, <<Proxy("p", "vless", "", "")>>,
                <<Proxy("p", "trojan", "host", ""), Proxy("q", "tuic", "host", "")>>,
                <<Proxy("p", "trojan", "host", ""), [Proxy("q", "ss", "host", "") EXCEPT !.ok = FALSE]>>,
                <<Proxy("Auto", "vmess", "host", ""), Proxy("q", "vless", "host", "")>>,
                <<Proxy("DIRECT", "vmess", "host", "")>>,
                <<Proxy("p", "vmess", "host", ""), Proxy("p", "vless", "host", "")>>,
                <<[Proxy("p", "hysteria2", "host", "") EXCEPT !.port = 0, !.ports = TRUE],
                  [Proxy("q", "http", "host", "") EXCEPT !.port = 70000]>>}
EdgeInputs ==
    {Config(p, g, BasicDNS, {}, "cn") : p \in EdgeProxies,
        g \in {<<[Group("G", "url-test", <<"p", "q">>) EXCEPT !.interval = iv]>> : iv \in {-1, 900, 901, 4000}}
         \cup {<<>>, <<Group("G", "load-balance", <<"q", "DIRECT">>)>>,
               <<Group("G", "unknown", <<"p">>), Group("", "select", <<"p">>)>>,
               <<Group("G", "relay", <<"p">>), Group("G", "select", <<"p", "REJECT">>)>>}}

\* The DNS sections.
ECHProxies == <<Proxy("p", "vless", "host", "ech.name"), Proxy("q", "trojan", "host", "")>>
Suffix == [suffix |-> TRUE, name |-> ".lan"]
Exact == [suffix |-> FALSE, name |-> "exact.name"]

DNSSections ==
    {[enable |-> TRUE, def |-> def, ns |-> ns, fallback |-> fb, psn |-> <<DoH>>,
      fakeip |-> f.fakeip, whitelist |-> f.whitelist, filter |-> f.filter,
      useHosts |-> TRUE, preferH3 |-> h3] :
       def \in {<<>>, <<UDP>>, <<NameServer("system", FALSE)>>,
                <<NameServer("rcode", FALSE), NameServer("https", TRUE), UDP>>,
                <<NameServer("dhcp", FALSE)>>},
       ns \in {<<>>, <<DoH>>, <<NameServer("http", TRUE), NameServer("tls", TRUE), UDP, DoH, UDP>>,
               <<NameServer("system", FALSE)>>, <<NameServer("fakeip", FALSE), DoH>>},
       fb \in {<<>>, <<[DoH EXCEPT !.h3 = TRUE]>>},
       f \in [fakeip : {TRUE}, whitelist : BOOLEAN, filter : {<<>>, <<Suffix>>, <<Suffix, Exact>>}]
             \cup {[fakeip |-> FALSE, whitelist |-> FALSE, filter |-> <<Suffix>>]},
       h3 \in BOOLEAN}

DNSInputs ==
    {Config(ECHProxies, g, dns, h, cc) :
       g \in {<<>>, <<Group("G", "select", <<"p", "q">>)>>}, h \in {{}, {"host.name"}},
       cc \in {"cn", "us"},
       dns \in DNSSections \cup {[BasicDNS EXCEPT !.enable = FALSE],
                                 [BasicDNS EXCEPT !.useHosts = FALSE, !.fakeip = TRUE]}}
      \cup {Config(<<>>, <<>>, BasicDNS, {}, "io")}

URI(scheme, name, ok) ==
    [scheme |-> scheme, name |-> name, server |-> "host", port |-> 443, ok |-> ok]
URIInputs ==
    {[kind |-> "uris", cc |-> "cn", uris |-> u] :
       u \in {<<URI("ssr", "a", TRUE)>>, <<URI("vmess", "a", FALSE), URI("vless", "b", TRUE)>>,
              <<URI("hy2", "a", TRUE), URI("ss", "", TRUE)>>,
              <<URI("trojan", "", TRUE), URI("vless", "", TRUE)>>}}

\* What older versions have stored: rules about addresses in the middle.
Old(server, sets, qtype) ==
    [NoRule EXCEPT !.ruleSet = sets, !.qtype = qtype, !.action = "route", !.server = server]
OldRules ==
    {<<[NoRule EXCEPT !.mode = "Direct", !.action = "route", !.server = "a"],
       [NoRule EXCEPT !.domain = {"host.name"}, !.action = "route", !.server = "hosts"],
       first, second,
       [NoRule EXCEPT !.qtype = {"A", "AAAA"}, !.action = "route", !.server = "fake"]>> :
       first \in {Old(s, r, q) : s \in {"a", "b"}, r \in {{"geosite-cn"}, {"geoip-cn"}, {"geosite-cn", "geoip-cn"}},
                                 q \in {{}, {"A"}}},
       second \in {Old(s, r, q) : s \in {"a", "b"}, r \in {{"geoip-us"}, {"geosite-private", "geoip-cn"}},
                                  q \in {{}, {"A", "TXT"}}}}
StoredInputs ==
    {[kind |-> "json", cc |-> "cn",
      config |-> [NoConfig EXCEPT
         !.dns.servers = <<Server("a", "udp", "ip", ""), Server("b", "tls", "ip", "G"),
                           Server("hosts", "hosts", "", ""), Server("fake", "fakeip", "", "")>>,
         !.dns.rules = rules, !.dns.final = "b",
         !.route.ruleSets = {"geosite-cn", "geosite-private", "geoip-cn", "geoip-us"}]] :
       rules \in OldRules}

MCInputs == GroupInputs \cup EdgeInputs \cup DNSInputs \cup URIInputs \cup StoredInputs

Query(name, suffixes, sites, addrs, type) ==
    [name |-> name, suffixes |-> suffixes, sites |-> sites, addrs |-> addrs, type |-> type]
MCQueries ==
    {Query(n, {}, {}, {}, type) : n \in {"ech.name", "host.name", "exact.name", "foreign.name"},
                                  type \in {"A", "HTTPS", "TXT"}}
      \cup {Query("nas.lan", {".lan"}, {"geosite-private"}, {}, "A"),
            Query("cn.name", {}, {"geosite-cn"}, {"geoip-cn"}, "A"),
            Query("cn.addr", {}, {}, {"geoip-cn"}, "AAAA"),
            Query("cn.addr", {}, {}, {"geoip-cn"}, "TXT"),
            Query("us.addr", {}, {}, {"geoip-us"}, "A"),
            Query("us.addr", {}, {}, {"geoip-us"}, "TXT")}

Dest(sites, suffixes, addrs) ==
    [sites |-> sites, suffixes |-> suffixes, addrs |-> addrs, private |-> FALSE, dns |-> FALSE]
MCDests ==
    {Dest({}, {}, {}), Dest({"geosite-private"}, {}, {}), Dest({"overseas-ai", "geosite-cn"}, {}, {"geoip-cn"}),
     Dest({"geosite-steam@cn", "geosite-geolocation-!cn"}, {}, {}),
     Dest({"geosite-geolocation-!cn"}, {".cn"}, {"geoip-cn"}),
     Dest({"geosite-cn"}, {}, {}), Dest({}, {".us"}, {"geoip-us"}),
     [Dest({}, {}, {}) EXCEPT !.private = TRUE], [Dest({}, {}, {}) EXCEPT !.dns = TRUE]}
=============================================================================
