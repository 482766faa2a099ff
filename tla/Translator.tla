----------------------------- MODULE Translator -----------------------------
(***************************************************************************)
(* The conversion of a subscription: translator/translator.go.  The input  *)
(* is a sing-box configuration (passed through, with its DNS rules         *)
(* upgraded), a list of proxy URIs or a Clash configuration; the last two  *)
(* run the steps of translateFromConfig one after the other on one         *)
(* translation structure, t.  Each step is an action; the clean-up of the  *)
(* groups is one action for each of its passes.                            *)
(*                                                                         *)
(* A host stores what it has converted and hands it in again at the next   *)
(* start: Reconvert.                                                       *)
(***************************************************************************)
EXTENDS Outbounds, RouteConfig, Upgrade

CONSTANTS
    Inputs,     \* the inputs, see Detect
    Queries,    \* DNS queries, see DnsConfig
    Dests       \* destinations of connections, see RouteConfig

\* What parsing makes of a proxy, of a group and of a URI.
ProxyInput == [name : STRING, type : STRING, server : STRING, port : Int,
               ports : BOOLEAN, ok : BOOLEAN, ech : STRING]
GroupInput == [name : STRING, type : STRING, proxies : Seq(STRING), interval : Int]
URIInput == [scheme : STRING, name : STRING, server : STRING, port : Int, ok : BOOLEAN]

NameServerInput == {n \in [scheme : Schemes, ip : BOOLEAN, h3 : BOOLEAN] :
                      n.ip => n.scheme \in {"https", "http", "tls", "quic", "h3", "udp"}}
DNSInput == [enable : BOOLEAN, def : Seq(NameServerInput), ns : Seq(NameServerInput),
             fallback : Seq(NameServerInput), psn : Seq(NameServerInput),
             fakeip : BOOLEAN, whitelist : BOOLEAN,
             filter : Seq([suffix : BOOLEAN, name : STRING]),
             useHosts : BOOLEAN, preferH3 : BOOLEAN]

ClashInput(i) == /\ i.kind = "yaml"
                 /\ i.proxies \in Seq(ProxyInput)
                 /\ i.groups \in Seq(GroupInput)
                 /\ i.dns \in DNSInput
                 /\ i.hosts \in SUBSET STRING

ASSUME InputsAssumption ==
    \A i \in Inputs : \/ i.kind = "json"
                      \/ i.kind = "uris" /\ i.uris \in Seq(URIInput)
                      \/ ClashInput(i)

\* An address is listed in rule sets of addresses only.
ASSUME DestsAssumption ==
    \A d \in Dests : /\ d.private \in BOOLEAN /\ d.dns \in BOOLEAN
                     /\ d.addrs \cap DomainRuleSets = {}

VARIABLES
    input,      \* what is converted
    pc,         \* the step that comes next
    t,          \* the translation structure
    result,     \* "" until the conversion ends, then "ok" or the error
    out,        \* the converted configuration
    prev        \* the stored configuration Reconvert has handed in

vars == <<input, pc, t, result, out, prev>>

Modes == {"Rule", "Global", "Direct"}

NoConfig == [outbounds |-> <<>>, dns |-> DisabledDNS,
             route |-> [rules |-> <<>>, final |-> "", ruleSets |-> {}, resolver |-> ""]]

NewTranslation ==
    [proxies |-> <<>>, proxyTags |-> {}, stubs |-> {}, invalid |-> {}, ech |-> {},
     groups |-> <<>>, translated |-> {}, order |-> <<>>,
     rules |-> <<>>, ruleSets |-> {}, dns |-> DisabledDNS]

FirstGroupTag == IF t.order = <<>> THEN "" ELSE t.order[1]

Goto(step) == pc' = step

End(r) == result' = r /\ pc' = "done"

(***************************************************************************)
(* Recognising the input.                                                  *)
(***************************************************************************)

\* The schemes of the URIs that are read, and the type of proxy they name.
URISchemes == [ss |-> "ss", vmess |-> "vmess", vless |-> "vless", trojan |-> "trojan",
               hysteria2 |-> "hysteria2", hy2 |-> "hysteria2"]

\* "ok" stands for the body of the URI being readable.
IsProxyURI(u) == u.scheme \in DOMAIN URISchemes /\ u.ok

\* A URI without a fragment names its proxy "proxy".
ParseProxyURI(u) ==
    [name |-> IF u.name = "" THEN "proxy" ELSE u.name, type |-> URISchemes[u.scheme],
     server |-> u.server, port |-> u.port, ports |-> FALSE, ok |-> TRUE, ech |-> ""]

NameServer(scheme, ip) == [scheme |-> scheme, ip |-> ip, h3 |-> FALSE]

\* The settings a list of URIs is given.
DefaultDNS ==
    [enable |-> TRUE,
     def |-> [i \in 1..4 |-> NameServer("udp", TRUE)],
     ns |-> <<NameServer("https", FALSE), NameServer("tls", TRUE)>>,
     fallback |-> <<>>, psn |-> <<>>, fakeip |-> FALSE, whitelist |-> FALSE,
     filter |-> [i \in 1..3 |-> [suffix |-> FALSE, name |-> "captive" \o ToString(i)]],
     useHosts |-> TRUE, preferH3 |-> FALSE]

\* Servers at different positions, or of different lists, have different tags:
\* a fact about the writing of numbers.
Positions(dns) == UNION {DOMAIN dns.def, DOMAIN dns.ns, DOMAIN dns.fallback, DOMAIN dns.psn,
                         1..MaxBootstrap}

TagsApart(dns) ==
    \A p, q \in TagPrefixes, m, n \in Positions(dns) :
       /\ NumberedTag(p, m) = NumberedTag(q, n) => p = q /\ m = n
       /\ NumberedTag(p, m) \notin OwnTags

\* The DNS sections of the inputs that are translated.
Sections == {DefaultDNS} \cup {i.dns : i \in {j \in Inputs : j.kind = "yaml"}}

ASSUME TagsAssumption == \A dns \in Sections : TagsApart(dns)

BuildRawConfigFromURIs(uris, cc) ==
    LET read == Keep(uris, {u \in ToSet(uris) : IsProxyURI(u)})
    IN [kind |-> "yaml", cc |-> cc, proxies |-> [i \in DOMAIN read |-> ParseProxyURI(read[i])],
        groups |-> <<>>, dns |-> DefaultDNS, hosts |-> {}]

\* JSON is an object; a list of URIs has "://" in every line; the rest is YAML.
Detect ==
  /\ pc = "detect"
  /\ \/ /\ input.kind = "json"
        /\ Goto("upgrade")
        /\ UNCHANGED <<input, result>>
     \/ /\ input.kind = "uris"
        /\ \A i \in DOMAIN input.uris : ~IsProxyURI(input.uris[i])
        /\ End("no valid proxies")
        /\ UNCHANGED input
     \/ /\ input.kind = "uris"
        /\ \E i \in DOMAIN input.uris : IsProxyURI(input.uris[i])
        /\ input' = BuildRawConfigFromURIs(input.uris, input.cc)
        /\ Goto("proxies")
        /\ UNCHANGED result
     \/ /\ input.kind = "yaml"
        /\ Goto("proxies")
        /\ UNCHANGED <<input, result>>
  /\ UNCHANGED <<t, out, prev>>

\* JSON: only the DNS rules are touched.
UpgradeStored ==
  /\ pc = "upgrade"
  /\ LET stored == [rules |-> input.config.dns.rules,
                    final |-> input.config.dns.final,
                    servers |-> input.config.dns.servers,
                    ruleSets |-> input.config.route.ruleSets]
     IN out' = [input.config EXCEPT !.dns.rules = UpgradeLegacyDNSRules(stored).rules]
  /\ End("ok")
  /\ UNCHANGED <<input, t, prev>>

(***************************************************************************)
(* The steps of translateFromConfig.                                       *)
(***************************************************************************)
Proxies ==
  /\ pc = "proxies"
  /\ LET tp == TranslateProxies(input.proxies)
     IN t' = [t EXCEPT !.proxies = tp.outbounds, !.proxyTags = tp.tags,
                       !.stubs = tp.stubs, !.invalid = tp.invalid,
                       !.ech = CollectECHQueryServers(tp.outbounds)]
  /\ Goto("groups")
  /\ UNCHANGED <<input, result, out, prev>>

Groups ==
  /\ pc = "groups"
  /\ LET groups == TranslateGroups(input.groups, t.proxyTags, t.invalid)
     IN t' = [t EXCEPT !.groups = groups, !.translated = ToTags(groups)]
  /\ Goto("cleanup")
  /\ UNCHANGED <<input, result, out, prev>>

\* mutant: one pass is enough
CleanupOnce(dropped) == TRUE

CleanupDone(dropped) == dropped = {}

CleanupGroups ==
  /\ pc = "cleanup"
  /\ LET valid == ValidTags(t.proxyTags, t.translated)
         dropped == DroppedGroups(t.groups, valid)
         left == t.translated \ dropped
     IN /\ t' = [t EXCEPT !.groups = CleanupGroupOutboundsOnce(@, valid),
                          !.translated = left,
                          !.order = GroupTagOrder(input.groups, left)]
        /\ IF CleanupDone(dropped) THEN Goto("default") ELSE UNCHANGED pc
  /\ UNCHANGED <<input, result, out, prev>>

\* Without a group a conversion makes its own; whatever else is in t.groups
\* is forgotten.
DefaultGroups ==
  /\ pc = "default"
  /\ t' = IF t.order # <<>> THEN t
          ELSE LET sorted == SetToSeq(t.proxyTags)
               IN [t EXCEPT !.groups = GenerateDefaultGroups(sorted, t.invalid),
                            !.order = IF sorted = <<>> THEN <<>> ELSE <<"PROXY">>]
  /\ Goto("rules")
  /\ UNCHANGED <<input, result, out, prev>>

Rules ==
  /\ pc = "rules"
  /\ LET rules == TranslateRules(input.cc, FirstGroupTag)
     IN t' = [t EXCEPT !.rules = rules, !.ruleSets = RouteRuleSets(rules)]
  /\ Goto("dns")
  /\ UNCHANGED <<input, result, out, prev>>

DNS ==
  /\ pc = "dns"
  /\ t' = [t EXCEPT !.dns = TranslateDNS(input.dns, input.hosts, FirstGroupTag)]
  /\ Goto("dnsrules")
  /\ UNCHANGED <<input, result, out, prev>>

DNSRules ==
  /\ pc = "dnsrules"
  /\ LET dns == GenerateDNSRules(t.dns, input.cc, t.ech)
     IN t' = [t EXCEPT !.dns = [dns EXCEPT !.rules = AddDNSRouteAction(@)],
                       !.ruleSets = @ \cup DNSRuleSets(t.dns, input.cc)]
  /\ Goto("assemble")
  /\ UNCHANGED <<input, result, out, prev>>

Direct == [tag |-> "DIRECT", type |-> "direct", members |-> <<>>, default |-> "",
           interval |-> 0, idle |-> 0, ech |-> "", stub |-> FALSE]

Assemble ==
  /\ pc = "assemble"
  /\ out' = [outbounds |-> <<Direct>> \o t.proxies \o t.groups,
             route |-> [rules |-> FilterOrphanRules(AssembleRules(t.rules, FirstGroupTag), t.ruleSets),
                        final |-> RouteFinal(FirstGroupTag),
                        ruleSets |-> t.ruleSets,
                        resolver |-> t.dns.resolver],
             dns |-> [t.dns EXCEPT !.rules = FilterOrphanRules(@, t.ruleSets)]]
  /\ Goto("validate")
  /\ UNCHANGED <<input, t, result, prev>>

(***************************************************************************)
(* validate (translator/validation.go).                                    *)
(***************************************************************************)
OutboundTags(c) == ToTags(c.outbounds)

DuplicateTag(c) == Cardinality(OutboundTags(c)) # Len(c.outbounds)

DanglingMember(c) ==
    \E i \in DOMAIN c.outbounds : ~(ToSet(c.outbounds[i].members) \subseteq OutboundTags(c))

DanglingDNS(c) ==
    LET servers == ToTags(c.dns.servers)
    IN \/ \E i \in DOMAIN c.dns.servers :
             c.dns.servers[i].detour \notin OutboundTags(c) \cup {""}
       \/ \E i \in DOMAIN c.dns.rules : c.dns.rules[i].server \notin servers \cup {""}
       \/ c.dns.final \notin servers \cup {""}

Validate ==
  /\ pc = "validate"
  /\ End(IF DuplicateTag(out) THEN "duplicate"
         ELSE IF DanglingMember(out) \/ out.route.final \notin OutboundTags(out) \/ DanglingDNS(out)
           THEN "dangling"
         ELSE "ok")
  /\ UNCHANGED <<input, t, out, prev>>

\* The host hands in what it has stored.
Reconvert ==
  /\ pc = "done" /\ result = "ok" /\ prev = NoConfig
  /\ prev' = out
  /\ input' = [kind |-> "json", cc |-> input.cc, config |-> out]
  /\ Goto("detect")
  /\ result' = ""
  /\ UNCHANGED <<t, out>>

Init ==
  /\ input \in Inputs
  /\ pc = "detect"
  /\ t = NewTranslation
  /\ result = ""
  /\ out = NoConfig
  /\ prev = NoConfig

Next ==
  \/ Detect \/ UpgradeStored \/ Proxies \/ Groups \/ CleanupGroups \/ DefaultGroups
  \/ Rules \/ DNS \/ DNSRules \/ Assemble \/ Validate \/ Reconvert

Spec == Init /\ [][Next]_vars

(***************************************************************************)
(* Properties.  A conversion that ended well has translated an input, or   *)
(* has passed a stored configuration through.                              *)
(***************************************************************************)
Translated == pc = "done" /\ result = "ok" /\ input.kind = "yaml"

PassedThrough == pc = "done" /\ input.kind = "json"

NamedIn(c, tag) == tag = "" \/ tag \in OutboundTags(c)

ServerIn(c, tag) == CHOOSE s \in ToSet(c.dns.servers) : s.tag = tag

\* Every reference of a translated configuration has a target, also those that
\* validate does not look at (the default of a selector, the outbounds of
\* route rules, rule sets, domain resolvers), and no group is empty: a kernel
\* refuses to start otherwise (validation.go:5-10, group.go:154-161).
ReferencesResolve ==
    Translated =>
      /\ \A i \in DOMAIN out.outbounds :
            LET ob == out.outbounds[i]
            IN /\ ToSet(ob.members) \subseteq OutboundTags(out)
               /\ ob.type \in {"selector", "urltest"} => ob.members # <<>>
               /\ ob.type = "selector" => ob.default \in ToSet(ob.members)
      /\ \A i \in DOMAIN out.route.rules :
            /\ NamedIn(out, out.route.rules[i].outbound)
            /\ out.route.rules[i].ruleSet \subseteq out.route.ruleSets
      /\ \A i \in DOMAIN out.dns.rules :
            /\ out.dns.rules[i].server \in ToTags(out.dns.servers)
            /\ out.dns.rules[i].ruleSet \subseteq out.route.ruleSets
      /\ \A i \in DOMAIN out.dns.servers :
            /\ NamedIn(out, out.dns.servers[i].detour)
            /\ out.dns.servers[i].resolver \in ToTags(out.dns.servers) \cup {""}
      /\ out.route.resolver \in ToTags(out.dns.servers)

\* The names a user gave, and the names the translator adds of itself.
GivenNames(cfg) == [i \in DOMAIN cfg.proxies |-> cfg.proxies[i].name]
                     \o [i \in DOMAIN cfg.groups |-> cfg.groups[i].name]

NamesClash(cfg) ==
    \/ \E i, j \in DOMAIN GivenNames(cfg) : i # j /\ GivenNames(cfg)[i] = GivenNames(cfg)[j]
    \/ ToSet(GivenNames(cfg)) \cap {"DIRECT", "PROXY", "Auto"} # {}

\* A configuration is refused for a name that occurs twice and for nothing
\* else: groups that lead nowhere are cleaned up, however long the chain of
\* references to them is, and not left for validate to find
\* (group.go:94-98, group.go:159-161).
RefusedForNamesOnly ==
    pc = "done" /\ input.kind = "yaml" /\ result # "ok" => NamesClash(input)

\* What a group can hold on to in a set of groups.
HoldsIn(cfg, g, S) ==
    \E i \in DOMAIN g.proxies :
       LET m == g.proxies[i]
           named == {p \in ToSet(cfg.proxies) : p.name = m /\ m # ""}
       IN \/ m = "DIRECT" \/ m \in S
          \/ g.type \in SelectorTypes /\ named # {}
          \/ /\ g.type \in UrlTestTypes
             /\ \E p \in named :
                  IsTranslated(p) /\ p.server \notin LocalServers /\ p.port \in PortNumbers \cup {0}

\* The clean-up drops the groups it has to and no other: those that remain
\* are the largest set of groups of which each has a proxy, DIRECT or another
\* group of the set (group.go:28-117, group.go:162-170).
LargestSetOfGroups ==
    pc = "default" =>
      LET groups == {g \in ToSet(input.groups) : g.type \in SelectorTypes \cup UrlTestTypes}
          closed == {S \in SUBSET GroupNames(input.groups) :
                       \A n \in S : \E g \in groups : g.name = n /\ HoldsIn(input, g, S)}
      IN ~NamesClash(input) => /\ t.translated = UNION closed
                               /\ ToSet(t.order) = UNION closed

\* No url test measures a node that stands for an unsupported protocol or the
\* machine itself: such a node would win, or fail, every test
\* (group.go:140-152, proxy.go:20-35).
NoStubTested ==
    Translated =>
      \A i \in DOMAIN out.outbounds :
         out.outbounds[i].type = "urltest" =>
           \A m \in ToSet(out.outbounds[i].members) :
              \A j \in DOMAIN out.outbounds :
                 out.outbounds[j].tag = m => ~out.outbounds[j].stub /\ m \notin t.invalid

\* The address of a proxy is resolved without a proxy, without going round in
\* a circle and without the settings of the system: the default resolver is an
\* address, has no detour and is not of type local (dns.go:72-76,
\* dns.go:283-288).  The address of a DNS server is resolved without a proxy
\* and not by a server that has a domain to resolve itself.  That resolver may
\* read the settings of the system: it does if default-nameserver begins with
\* "system", for only the default resolver is replaced (dns.go:115-141).
BootstrapIsDirect ==
    Translated =>
      /\ LET r == ServerIn(out, out.route.resolver)
         IN r.detour = "" /\ r.addr # "domain" /\ r.type \notin {"local", "fakeip", "hosts"}
      /\ \A i \in DOMAIN out.dns.servers :
            out.dns.servers[i].resolver # "" =>
              LET r == ServerIn(out, out.dns.servers[i].resolver)
              IN r.detour = "" /\ r.addr # "domain" /\ r.type \notin {"fakeip", "hosts"}

\* The domains a user has written a rule about.
UserNames(cfg) ==
    IF cfg.dns.useHosts THEN cfg.hosts ELSE {}

\* The first name server that has an equivalent, "" without one.
FirstNameServer ==
    LET has == {i \in DOMAIN input.dns.ns : NumberedTag("ns-", i) \in ToTags(out.dns.servers)}
    IN IF has = {} THEN "" ELSE NumberedTag("ns-", Min(has))

\* A domain fake-ip-filter is about.
UserFilter(cfg, q) ==
    /\ cfg.dns.fakeip /\ FirstNameServer # ""
    /\ \E f \in ToSet(cfg.dns.filter) : IF f.suffix THEN f.name \in q.suffixes ELSE f.name = q.name

\* The query for the ECH configuration of a proxy does not go through a proxy
\* in any mode, and goes over an encrypted transport if there is one, unless
\* the user has a rule about the domain (autoroute.go:180-199).
ECHQueriesAreDirect ==
    Translated =>
      \A q \in Queries, mode \in Modes :
         q.name \in t.ech \ UserNames(input) /\ ~UserFilter(input, q) =>
           LET direct == ToSet(DirectServers(out.dns.servers))
               s == ServerIn(out, Answer(out.dns, q, mode))
           IN direct # {} =>
                /\ s \in direct
                /\ out.dns.enabled /\ mode # "Direct" /\ (\E d \in direct : d.type \in Encrypted)
                     => s.type \in Encrypted

\* Who answers a query once DNS is enabled and a direct server exists.  Mode
\* Direct needs no proxy; the domains of the user come before the geography
\* and the fake addresses; domestic names and addresses are asked directly;
\* what is left gets a fake address, if the filter is no whitelist, or the
\* final server (autoroute.go:146-147, 176-177, 233-234, 242).  The addresses
\* that are left with a whitelist are what WhitelistAsDocumented is about.
QueriesAnswered ==
    Translated /\ t.dns.enabled /\ DirectServers(out.dns.servers) # <<>> =>
      \A q \in Queries, mode \in Modes :
         LET s == ServerIn(out, Answer(out.dns, q, mode))
             domestic == (q.sites \cup q.addrs) \cap DomesticRuleSets(input.cc) # {}
             fake == \E i \in DOMAIN out.dns.servers : out.dns.servers[i].type = "fakeip"
             whitelisted == TerminalRules(input.dns, FirstNameServer) # <<>>
         IN IF mode = "Direct" THEN s.detour = "" /\ s.type \notin {"fakeip", "hosts"}
            ELSE IF UserFilter(input, q)
              THEN s.tag = IF input.dns.whitelist THEN "fakeip-dns" ELSE FirstNameServer
            ELSE IF q.name \in UserNames(input) THEN s.type = "hosts"
            ELSE IF q.name \in t.ech THEN s.detour = ""
            ELSE IF q.type \in AddressQueryTypes /\ domestic
              THEN s.detour = "" /\ s.type # "fakeip"
            ELSE IF fake /\ q.type \in {"A", "AAAA"} THEN ~whitelisted => s.type = "fakeip"
            ELSE IF whitelisted THEN s.tag = FirstNameServer
            ELSE s.tag = FirstServer(out.dns)

\* With a whitelist, a domain that neither the filter nor a rule of the user
\* names, that is not domestic and not one of an ECH query, goes to the first
\* name server: "only matched domains use FakeIP, rest use nameserver"
\* (dns.go:188, dns.go:201-202).
WhitelistAsDocumented ==
    Translated /\ t.dns.enabled /\ TerminalRules(input.dns, FirstNameServer) # <<>> =>
      \A q \in Queries :
         /\ ~UserFilter(input, q)
         /\ q.name \notin UserNames(input) \cup t.ech
         /\ (q.sites \cup q.addrs) \cap DomesticRuleSets(input.cc) = {}
         => ServerIn(out, Answer(out.dns, q, "Rule")).tag = FirstNameServer

\* Where a connection goes.  Mode Direct never uses a proxy and mode Global
\* always does; in mode Rule private destinations stay direct, services with
\* domestic servers are direct although they are listed as foreign, other
\* foreign domains are proxied although their address may be domestic, unless
\* the first group has the name of the built-in REJECT, which assemble turns
\* into an action (assemble.go:22-45, autoroute.go:69-85).
RoutesAsPromised ==
    Translated =>
      \A d \in Dests :
         LET Route(mode) == RouteOf(out.route, d, mode)
             proxy == out.route.final
         IN IF d.dns THEN \A mode \in Modes : Route(mode) = "hijack-dns"
            ELSE /\ Route("Direct") = "DIRECT"
                 /\ Route("Global") = proxy
                 /\ d.private \/ "geosite-private" \in d.sites => Route("Rule") = "DIRECT"
                 /\ input.cc = "cn" /\ ~d.private =>
                      /\ d.sites \cap ToSet(DomesticServices) # {} /\ "overseas-ai" \notin d.sites
                           => Route("Rule") = "DIRECT"
                      /\ "geosite-geolocation-!cn" \in d.sites /\ proxy # "REJECT"
                         /\ d.sites \cap ({"geosite-private"} \cup ToSet(DomesticServices)) = {}
                           => Route("Rule") = proxy
                 /\ ~d.private /\ d.sites \cup d.addrs = {} /\ d.suffixes = {} => Route("Rule") = proxy

\* A stored configuration of an older version answers every query as it did:
\* the upgrade changes the form of its rules (migrate.go:9-19).
UpgradePreserves ==
    PassedThrough /\ prev = NoConfig =>
      LET old == [rules |-> input.config.dns.rules, final |-> input.config.dns.final,
                  servers |-> input.config.dns.servers, ruleSets |-> input.config.route.ruleSets]
      IN \A q \in Queries, mode \in Modes : Answer(out.dns, q, mode) = LegacyAnswer(old, q, mode)

\* sing-box 1.14 starts with the configuration: every rule that looks at a
\* response comes after a rule that obtains one from the same server, no rule
\* about addresses does without, and a url test stays idle longer than its
\* interval (migrate.go:11-15, autoroute.go:214-216, group.go:13-15).
StartsOn114 ==
    pc = "done" /\ result = "ok" =>
      /\ \A i \in DOMAIN out.outbounds :
            out.outbounds[i].type = "urltest" => out.outbounds[i].idle > out.outbounds[i].interval
      /\ \A i \in DOMAIN out.dns.rules :
            LET r == out.dns.rules[i]
            IN /\ r.ruleSet \cap GeoIPSets # {} => r.match
               /\ r.match => \E j \in 1..(i - 1) :
                    /\ out.dns.rules[j].action = "evaluate" /\ out.dns.rules[j].server = r.server
                    /\ r.qtype \cap AddressQueryTypes \subseteq out.dns.rules[j].qtype

\* What was converted, stored and is handed in again stays as it is: with a
\* rule more at every start a profile would grow for ever
\* (translator.go:39-52).
StoredIsStable == PassedThrough /\ prev # NoConfig => out = prev
=============================================================================
