------------------------------ MODULE DnsConfig ------------------------------
(***************************************************************************)
(* The DNS part of a converted configuration: translator/dns.go builds the *)
(* servers and the rules a user asked for, generateDNSRules of             *)
(* translator/autoroute.go puts the rules of the country around them.      *)
(*                                                                         *)
(* A name server of the input is [scheme, ip, h3]: "ip" says whether its   *)
(* host is an address, "h3" whether its parameters ask for HTTP/3.  The    *)
(* DNS section of the input is                                             *)
(*   [enable, def, ns, fallback, psn, fakeip, whitelist, filter, useHosts, *)
(*    preferH3]                                                            *)
(* with sequences of name servers, and filter a sequence of                *)
(* [suffix, name].  Absent strings and lists are "" and {}.                *)
(*                                                                         *)
(* sing-box reads the rules from the first to the last.  How it does is    *)
(* what Answer says, taken from how the comments of the translator         *)
(* describe it.                                                            *)
(***************************************************************************)
EXTENDS Lists, FiniteSetsExt, TLC

AddressQueryTypes == {"A", "AAAA", "HTTPS"}

(***************************************************************************)
(* Servers.                                                                *)
(***************************************************************************)
Server(tag, type, addr, detour) ==
    [tag |-> tag, type |-> type, addr |-> addr, detour |-> detour, resolver |-> ""]

\* The kinds of address that are told apart; "udp" is a plain host.
Schemes == {"", "system", "fakeip", "dhcp", "rcode",
            "https", "http", "tls", "quic", "h3", "udp"}

\* "" when sing-box has no such server.
SchemeToDNSType(ns) ==
    IF ns.h3 THEN "h3" ELSE IF ns.scheme = "http" THEN "" ELSE ns.scheme

\* The server a name server is translated to, <<>> when there is none.
ParseDNSServer(ns, tag, detour) ==
    CASE ns.scheme = "system" -> <<Server(tag, "local", "", "")>>
      [] ns.scheme \in {"fakeip", "dhcp"} -> <<Server(tag, ns.scheme, "", "")>>
      [] ns.scheme \in {"", "rcode"} -> <<>>
      [] OTHER -> IF SchemeToDNSType(ns) = "" THEN <<>>
                  ELSE <<Server(tag, SchemeToDNSType(ns),
                                IF ns.ip THEN "ip" ELSE "domain", detour)>>

\* The tags of the lists of the input, and those the translator chooses.
TagPrefixes == {"def-", "ns-", "fb-", "psn-", "def-auto-"}
OwnTags == {"", "bootstrap-dns", "fakeip-dns", "hosts"}
NumberedTag(prefix, i) == prefix \o ToString(i - 1)

\* The index of a tag is the position in the input, also of a server that is
\* skipped.
BuildDNSServerEntries(servers, prefix, detour) ==
    LET parsed == [i \in DOMAIN servers |->
                     ParseDNSServer(servers[i], NumberedTag(prefix, i), detour)]
        found == Keep(parsed, ToSet(parsed) \ {<<>>})
    IN [n \in DOMAIN found |-> found[n][1]]

MaxBootstrap == 2

\* Without a default-nameserver, the first name servers with an address are
\* used once more, without a detour.
AutoBootstrap(nameserver) ==
    LET usable == Keep(nameserver, {ns \in ToSet(nameserver) :
                                      ns.ip /\ ParseDNSServer(ns, "", "") # <<>>})
    IN [i \in 1..Min({MaxBootstrap, Len(usable)}) |->
           ParseDNSServer(usable[i], NumberedTag("def-auto-", i), "")[1]]

\* The servers that resolve the addresses of other servers and of proxies.
BootstrapServers(dns) ==
    LET def == BuildDNSServerEntries(dns.def, "def-", "")
    IN IF def # <<>> THEN def ELSE AutoBootstrap(dns.ns)

PreferUDPServer(servers) ==
    LET udp == Keep(servers, {s \in ToSet(servers) : s.type = "udp"})
    IN IF servers = <<>> THEN "" ELSE IF udp # <<>> THEN udp[1].tag ELSE servers[1].tag

\* A server whose address is a domain is resolved by the first bootstrap
\* server that is not this server.
SetDomainResolver(srv, boot) ==
    LET others == Keep(boot, {s \in ToSet(boot) : s.tag # srv.tag})
    IN IF srv.addr = "domain" /\ others # <<>>
         THEN [srv EXCEPT !.resolver = others[1].tag]
         ELSE srv

\* Every server of the lists of the input.
ListedServers(dns, detour) ==
    LET def == BuildDNSServerEntries(dns.def, "def-", "")
        boot == BootstrapServers(dns)
        all == def \o BuildDNSServerEntries(dns.ns, "ns-", detour)
                   \o BuildDNSServerEntries(dns.fallback, "fb-", detour)
                   \o BuildDNSServerEntries(dns.psn, "psn-", "")
                   \o (IF def = <<>> THEN boot ELSE <<>>)
    IN [i \in DOMAIN all |-> SetDomainResolver(all[i], boot)]

PreferH3(dns, servers) ==
    [i \in DOMAIN servers |->
        IF dns.preferH3 /\ servers[i].type = "https"
          THEN [servers[i] EXCEPT !.type = "h3"] ELSE servers[i]]

BootstrapDNS == Server("bootstrap-dns", "udp", "ip", "")

IsLocalDNSServer(tag, servers) ==
    \E i \in DOMAIN servers : servers[i].tag = tag /\ servers[i].type = "local"

\* mutant: a resolver that reads the settings of the system is kept
NeedsBootstrapIfNone(resolver, servers) == resolver = ""

NeedsBootstrap(resolver, servers) ==
    resolver = "" \/ IsLocalDNSServer(resolver, servers)

(***************************************************************************)
(* Rules.                                                                  *)
(***************************************************************************)
NoRule == [mode |-> "", domain |-> {}, suffix |-> {}, ruleSet |-> {}, qtype |-> {},
           match |-> FALSE, action |-> "", server |-> ""]

\* The rules for the domains of fake-ip-filter.
FakeIPFilterRules(dns, firstNS) ==
    LET entries == ToSet(dns.filter)
        suffixes == {e.name : e \in {f \in entries : f.suffix}}
        domains == {e.name : e \in {f \in entries : ~f.suffix}}
        server == IF dns.whitelist THEN "fakeip-dns" ELSE firstNS
    IN IF ~dns.fakeip \/ entries = {} \/ firstNS = "" THEN <<>>
       ELSE (IF suffixes = {} THEN <<>>
             ELSE <<[NoRule EXCEPT !.suffix = suffixes, !.server = server]>>)
         \o (IF domains = {} THEN <<>>
             ELSE <<[NoRule EXCEPT !.domain = domains, !.server = server]>>)

\* The rule that is kept for the end of the list.
TerminalRules(dns, firstNS) ==
    IF dns.fakeip /\ dns.filter # <<>> /\ firstNS # "" /\ dns.whitelist
      THEN <<[NoRule EXCEPT !.server = firstNS]>>
      ELSE <<>>

UsesHosts(dns, hosts) == hosts # {} /\ dns.useHosts

DisabledDNS ==
    [servers |-> <<BootstrapDNS>>, rules |-> <<>>, final |-> BootstrapDNS.tag,
     resolver |-> BootstrapDNS.tag, terminal |-> <<>>, enabled |-> FALSE]

\* translateDNS: "detour" is the first group.
TranslateDNS(dns, hosts, detour) ==
    LET listed == ListedServers(dns, detour)
        ns == BuildDNSServerEntries(dns.ns, "ns-", detour)
        fb == BuildDNSServerEntries(dns.fallback, "fb-", detour)
        firstNS == IF ns # <<>> THEN ns[1].tag ELSE ""
        servers == PreferH3(dns, listed
                     \o (IF dns.fakeip THEN <<Server("fakeip-dns", "fakeip", "", "")>> ELSE <<>>)
                     \o (IF UsesHosts(dns, hosts) THEN <<Server("hosts", "hosts", "", "")>> ELSE <<>>))
        resolver == PreferUDPServer(BootstrapServers(dns))
        bootstrap == NeedsBootstrap(resolver, servers)
    IN IF ~dns.enable THEN DisabledDNS
       ELSE [servers  |-> IF bootstrap THEN Append(servers, BootstrapDNS) ELSE servers,
             rules    |-> FakeIPFilterRules(dns, firstNS)
                            \o (IF UsesHosts(dns, hosts)
                                  THEN <<[NoRule EXCEPT !.domain = hosts, !.server = "hosts"]>>
                                  ELSE <<>>),
             final    |-> IF fb # <<>> THEN fb[1].tag ELSE firstNS,
             resolver |-> IF bootstrap THEN BootstrapDNS.tag ELSE resolver,
             terminal |-> TerminalRules(dns, firstNS),
             enabled  |-> TRUE]

(***************************************************************************)
(* The rules of the country.                                               *)
(***************************************************************************)
DirectServers(servers) ==
    Keep(servers, {s \in ToSet(servers) : s.type \notin {"fakeip", "hosts"} /\ s.detour = ""})

\* The tag of the first server of one of the types, or of the first one.
FirstOfTypes(servers, types) ==
    LET good == Keep(servers, {s \in ToSet(servers) : s.type \in types})
    IN IF good # <<>> THEN good[1].tag ELSE IF servers # <<>> THEN servers[1].tag ELSE ""

Encrypted == {"https", "tls", "quic", "h3"}

FindFirstDirectDNSTag(servers) == FirstOfTypes(DirectServers(servers), {"udp"})

\* mutant: a server that is reached through the proxy may be chosen
FindFirstEncryptedDNSTag(servers) ==
    FirstOfTypes(Keep(servers, {s \in ToSet(servers) : s.type \notin {"fakeip", "hosts"}}),
                 Encrypted)

FindFirstECHCapableDNSTag(servers) == FirstOfTypes(DirectServers(servers), Encrypted)

FindFakeIPTag(servers) ==
    LET fake == Keep(servers, {s \in ToSet(servers) : s.type = "fakeip"})
    IN IF fake # <<>> THEN fake[1].tag ELSE ""

\* The rule sets a domain, or the addresses it resolves to, is looked up in.
DomesticRuleSets(cc) ==
    {"geosite-private", "geoip-" \o cc} \cup (IF cc = "cn" THEN {"geosite-cn"} ELSE {})

Evaluate(server) ==
    [NoRule EXCEPT !.action = "evaluate", !.server = server, !.qtype = AddressQueryTypes]

AutoRules(servers, cc, ech) ==
    LET direct == FindFirstDirectDNSTag(servers)
        fake == FindFakeIPTag(servers)
    IN (IF ech = {} THEN <<>>
        ELSE <<[NoRule EXCEPT !.domain = ech, !.server = FindFirstECHCapableDNSTag(servers)]>>)
       \o <<Evaluate(direct),
            [NoRule EXCEPT !.match = TRUE, !.ruleSet = DomesticRuleSets(cc),
                           !.server = direct, !.qtype = AddressQueryTypes]>>
       \o (IF fake = "" THEN <<>>
           ELSE <<[NoRule EXCEPT !.qtype = {"A", "AAAA"}, !.server = fake]>>)

\* mutant: the automatic rules come before those of the user
OrderAutoFirst(mode, user, auto, terminal) == mode \o auto \o user \o terminal

\* The switch of the mode, the rules of the user, the automatic rules, the
\* rule without a condition.
OrderRules(mode, user, auto, terminal) == mode \o user \o auto \o terminal

\* generateDNSRules on the result of TranslateDNS.
GenerateDNSRules(dns, cc, ech) ==
    LET direct == FindFirstDirectDNSTag(dns.servers)
        mode == <<[NoRule EXCEPT !.mode = "Direct", !.server = direct]>>
    IN IF ~dns.enabled THEN dns
       ELSE IF direct = "" THEN [dns EXCEPT !.rules = @ \o dns.terminal]
       ELSE [dns EXCEPT !.rules = OrderRules(mode, @, AutoRules(dns.servers, cc, ech), dns.terminal)]

\* The rule sets generateDNSRules defines.
DNSRuleSets(dns, cc) ==
    IF dns.enabled /\ FindFirstDirectDNSTag(dns.servers) # "" THEN DomesticRuleSets(cc) ELSE {}

AddDNSRouteAction(rules) ==
    [i \in DOMAIN rules |->
        IF rules[i].action = "" /\ rules[i].server # ""
          THEN [rules[i] EXCEPT !.action = "route"] ELSE rules[i]]

(***************************************************************************)
(* How sing-box answers a query                                            *)
(*   [name, suffixes, sites, addrs, type]:                                 *)
(* sites are the rule sets that list the domain, addrs those that list the *)
(* addresses it has.  A rule with match_response also looks at the answer  *)
(* that an evaluate rule before it has obtained.                           *)
(***************************************************************************)
Matches(r, q, mode, evaluated) ==
    /\ r.mode \in {"", mode}
    /\ r.qtype = {} \/ q.type \in r.qtype
    /\ \/ r.domain \cup r.suffix \cup r.ruleSet = {}
       \/ q.name \in r.domain
       \/ q.suffixes \cap r.suffix # {}
       \/ q.sites \cap r.ruleSet # {}
       \/ r.match /\ evaluated /\ q.addrs \cap r.ruleSet # {}

Evaluated(rules, i, q, mode) ==
    \E j \in 1..(i - 1) : rules[j].action = "evaluate" /\ Matches(rules[j], q, mode, FALSE)

FirstServer(dns) == IF dns.final # "" THEN dns.final ELSE dns.servers[1].tag

Answer(dns, q, mode) ==
    LET hits == {i \in DOMAIN dns.rules :
                   /\ dns.rules[i].action = "route"
                   /\ Matches(dns.rules[i], q, mode, Evaluated(dns.rules, i, q, mode))}
    IN IF hits = {} THEN FirstServer(dns) ELSE dns.rules[Min(hits)].server
=============================================================================
