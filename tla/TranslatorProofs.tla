-------------------------- MODULE TranslatorProofs --------------------------
(***************************************************************************)
(* Theorems about the conversion of proxies and groups, for every list of  *)
(* proxies and groups: what the clean-up of the groups leaves, and what a  *)
(* url test measures.                                                      *)
(***************************************************************************)
EXTENDS Translator, ListsProofs

(* STRING; the provers do not know of a literal that it is a string. *)
Text == STRING \cup {"", "socks", "selector", "urltest", "Auto", "PROXY", "proxy", "ss",
                     "vmess", "vless", "trojan", "hysteria2"}

(* A proxy of the input, or one that a URI was read as. *)
NodeInput == [name : Text, type : Text, server : Text, port : Int, ports : BOOLEAN,
              ok : BOOLEAN, ech : Text]

(* A sequence over a set is one over every larger set. *)
LEMMA WiderSeq == ASSUME NEW A, NEW B, A \subseteq B PROVE Seq(A) \subseteq Seq(B)
  OBVIOUS

(* The strings of the input and the literals of the code are texts. *)
LEMMA TextFacts ==
  /\ STRING \subseteq Text /\ Seq(STRING) \subseteq Seq(Text)
  /\ "" \in Text /\ "socks" \in Text /\ "selector" \in Text /\ "urltest" \in Text
  /\ "Auto" \in Text /\ "PROXY" \in Text /\ "proxy" \in Text /\ "ss" \in Text
  /\ "vmess" \in Text /\ "vless" \in Text /\ "trojan" \in Text /\ "hysteria2" \in Text
  /\ <<>> \in Seq(Text) /\ 0 \in Int
<1>1. STRING \subseteq Text
  BY DEF Text
<1>2. Seq(STRING) \subseteq Seq(Text)
  BY <1>1, WiderSeq
<1>3. /\ "" \in Text /\ "socks" \in Text /\ "selector" \in Text /\ "urltest" \in Text
      /\ "Auto" \in Text /\ "PROXY" \in Text /\ "proxy" \in Text /\ "ss" \in Text
      /\ "vmess" \in Text /\ "vless" \in Text /\ "trojan" \in Text /\ "hysteria2" \in Text
  BY Zenon DEF Text
<1>4. <<>> \in Seq(Text) /\ 0 \in Int
  OBVIOUS
<1> QED
  BY <1>1, <1>2, <1>3, <1>4

(* What parsing makes of a proxy is a node. *)
LEMMA ProxiesAreNodes == Seq(ProxyInput) \subseteq Seq(NodeInput)
<1>1. ProxyInput \subseteq NodeInput
  BY TextFacts DEF ProxyInput, NodeInput
<1> QED
  BY <1>1, WiderSeq

(* The outbounds a conversion makes, of proxies and of groups. *)
Outbound == [tag : Text, type : Text, members : Seq(Text), default : Text,
             interval : Int, idle : Int, ech : Text, stub : BOOLEAN]

(* The proxies that are not skipped, and those that are not health checked. *)
Named(proxies) == {p \in ToSet(proxies) : p.name # ""}

Unchecked(proxies) ==
  {p \in Named(proxies) : IsInvalidHealthCheckEndpoint(p) \/ ~IsTranslated(p)}

NamesOf(proxies) == {p.name : p \in proxies}

(* When a record is an outbound. *)
LEMMA IsOutbound ==
  \A tag \in Text, type \in Text, members \in Seq(Text), default \in Text,
     interval \in Int, idle \in Int, ech \in Text, stub \in BOOLEAN :
    [tag |-> tag, type |-> type, members |-> members, default |-> default,
     interval |-> interval, idle |-> idle, ech |-> ech, stub |-> stub] \in Outbound
  BY DEF Outbound

(* The outbound of a proxy has its name, and is a stub if it is not translated. *)
LEMMA ProxyOutboundFacts ==
  ASSUME NEW p \in NodeInput
  PROVE  /\ ProxyOutbound(p) \in Outbound
         /\ ProxyOutbound(p).tag = p.name
         /\ ProxyOutbound(p).members = <<>>
         /\ ProxyOutbound(p).stub <=> ~IsTranslated(p)
<1>1. /\ MakeStubOutbound(p) \in Outbound
      /\ MakeStubOutbound(p).tag = p.name
      /\ MakeStubOutbound(p).members = <<>>
      /\ MakeStubOutbound(p).stub = TRUE
  <2>1. p.name \in Text
    BY TextFacts DEF NodeInput
  <2>2. MakeStubOutbound(p) \in Outbound
    BY <2>1, TextFacts, Zenon DEF MakeStubOutbound, Outbound
  <2>3. /\ MakeStubOutbound(p).tag = p.name
        /\ MakeStubOutbound(p).members = <<>>
        /\ MakeStubOutbound(p).stub = TRUE
    BY DEF MakeStubOutbound
  <2> QED
    BY <2>2, <2>3
<1>2. CASE IsTranslated(p)
  <2>1. ProxyOutbound(p) = [MakeStubOutbound(p) EXCEPT !.type = p.type, !.ech = p.ech,
                                                       !.stub = FALSE]
    BY <1>2 DEF ProxyOutbound
  <2>2. p.type \in Text /\ p.ech \in Text
    BY TextFacts DEF NodeInput
  <2> QED
    BY <1>1, <1>2, <2>1, <2>2 DEF Outbound
<1>3. CASE ~IsTranslated(p)
  BY <1>1, <1>3 DEF ProxyOutbound
<1> QED
  BY <1>2, <1>3

(***************************************************************************)
(* What translateProxies returns, and the tables it fills.                 *)
(***************************************************************************)
LEMMA ProxyTables ==
  ASSUME NEW proxies \in Seq(NodeInput)
  PROVE  /\ TranslateProxies(proxies).outbounds \in Seq(Outbound)
         /\ ToSet(TranslateProxies(proxies).outbounds) =
              {ProxyOutbound(p) : p \in Named(proxies)}
         /\ TranslateProxies(proxies).tags = ToTags(TranslateProxies(proxies).outbounds)
         /\ TranslateProxies(proxies).tags = NamesOf(Named(proxies))
         /\ TranslateProxies(proxies).invalid = NamesOf(Unchecked(proxies))
<1> DEFINE named == Keep(proxies, {p \in ToSet(proxies) : p.name # ""})
           obs == [i \in DOMAIN named |-> ProxyOutbound(named[i])]
<1>1. named \in Seq(NodeInput) /\ ToSet(named) = Named(proxies)
  <2>1. /\ named \in Seq(NodeInput)
        /\ ToSet(named) = ToSet(proxies) \cap {p \in ToSet(proxies) : p.name # ""}
    BY KeepElements
  <2> QED
    BY <2>1 DEF Named
<1>2. /\ TranslateProxies(proxies).outbounds = obs
      /\ TranslateProxies(proxies).tags = ToTags(obs)
      /\ TranslateProxies(proxies).invalid =
           {named[i].name : i \in
              {j \in DOMAIN named : \/ IsInvalidHealthCheckEndpoint(named[j])
                                    \/ ~IsTranslated(named[j])}}
  BY DEF TranslateProxies
<1> HIDE DEF named
<1>3. obs \in Seq(Outbound) /\ DOMAIN obs = DOMAIN named
  BY <1>1, ProxyOutboundFacts
<1>4. ToSet(obs) = {ProxyOutbound(p) : p \in ToSet(named)}
  BY <1>3 DEF ToSet
<1>5. ToTags(obs) = {p.name : p \in ToSet(named)}
  <2>1. \A i \in DOMAIN named : obs[i].tag = named[i].name
    BY <1>1, ProxyOutboundFacts
  <2> QED
    BY <1>3, <2>1 DEF ToSet, ToTags
<1>6. TranslateProxies(proxies).invalid = NamesOf(Unchecked(proxies))
  BY <1>1, <1>2 DEF ToSet, NamesOf, Unchecked
<1> QED
  BY <1>1, <1>2, <1>3, <1>4, <1>5, <1>6 DEF NamesOf

(***************************************************************************)
(* The members a group is translated with: those that exist, and for a url *)
(* test those that can be checked.                                         *)
(***************************************************************************)
Supported == SelectorTypes \cup UrlTestTypes

LEMMA MembersOfGroup ==
  ASSUME NEW g \in GroupInput, NEW tags, NEW names, NEW invalid
  PROVE  /\ GroupMembers(g, tags, names, invalid) \in Seq(Text)
         /\ ToSet(GroupMembers(g, tags, names, invalid)) =
              {m \in ToSet(g.proxies) :
                 /\ m \in tags \cup names \cup {"DIRECT"}
                 /\ g.type \in Supported
                 /\ g.type \in UrlTestTypes => m \notin invalid}
<1> DEFINE filtered == FilterGroupProxies(g, tags, names)
<1>1. /\ filtered \in Seq(Text)
      /\ ToSet(filtered) = ToSet(g.proxies) \cap (tags \cup names \cup {"DIRECT"})
  <2>1. g.proxies \in Seq(Text)
    BY TextFacts DEF GroupInput
  <2> QED
    BY <2>1, KeepElements DEF FilterGroupProxies
<1>2. /\ FilterHealthCheckProxies(filtered, invalid) \in Seq(Text)
      /\ ToSet(FilterHealthCheckProxies(filtered, invalid)) = ToSet(filtered) \ invalid
  BY <1>1, KeepElements DEF FilterHealthCheckProxies
<1> HIDE DEF filtered
<1>3. GroupMembers(g, tags, names, invalid) =
        CASE g.type \in SelectorTypes -> filtered
          [] g.type \in UrlTestTypes -> FilterHealthCheckProxies(filtered, invalid)
          [] OTHER -> <<>>
  BY DEF GroupMembers, filtered
<1>4. SelectorTypes \cap UrlTestTypes = {}
  BY DEF SelectorTypes, UrlTestTypes
<1>5. CASE g.type \in SelectorTypes
  BY <1>1, <1>3, <1>4, <1>5 DEF Supported
<1>6. CASE g.type \in UrlTestTypes
  BY <1>1, <1>2, <1>3, <1>4, <1>6 DEF Supported
<1>7. CASE g.type \notin Supported
  <2>1. GroupMembers(g, tags, names, invalid) = <<>>
    BY <1>3, <1>7 DEF Supported
  <2> QED
    BY <1>7, <2>1 DEF ToSet
<1> QED
  BY <1>5, <1>6, <1>7 DEF Supported

(* The outbound of a group has its name and the members it is given. *)
LEMMA GroupOutboundFacts ==
  ASSUME NEW g, g.name \in Text, g.interval \in Int,
         NEW members \in Seq(Text), members # <<>>
  PROVE  /\ TranslateGroup(g, members) \in Outbound
         /\ TranslateGroup(g, members).tag = g.name
         /\ TranslateGroup(g, members).members = members
         /\ TranslateGroup(g, members).stub = FALSE
         /\ TranslateGroup(g, members).type = "urltest" => g.type \notin SelectorTypes
<1>1. g.name \in Text
  OBVIOUS
<1>2. members[1] \in Text
  OBVIOUS
<1>3. GroupInterval(g) \in Int /\ IdleTimeout(GroupInterval(g)) \in Int
  <2>1. GroupInterval(g) \in Int
    BY DEF GroupInterval, MaxGroupInterval
  <2> QED
    BY <2>1 DEF IdleTimeout
<1>4. FALSE \in BOOLEAN
  OBVIOUS
<1>5. /\ TranslateGroup(g, members).tag = g.name
      /\ TranslateGroup(g, members).members = members
      /\ TranslateGroup(g, members).stub = FALSE
  BY DEF TranslateGroup
<1>6. CASE g.type \in SelectorTypes
  <2>1. TranslateGroup(g, members) =
          [tag |-> g.name, type |-> "selector", members |-> members,
           default |-> members[1], interval |-> 0, idle |-> 0, ech |-> "", stub |-> FALSE]
    BY <1>6 DEF TranslateGroup
  <2>2. [tag |-> g.name, type |-> "selector", members |-> members,
         default |-> members[1], interval |-> 0, idle |-> 0, ech |-> "", stub |-> FALSE]
          \in Outbound
    BY <1>1, <1>2, <1>4, TextFacts, IsOutbound, Zenon
  <2>3. TranslateGroup(g, members).type = "selector"
    BY <1>6 DEF TranslateGroup
  <2> QED
    BY <1>5, <2>1, <2>2, <2>3
<1>7. CASE g.type \notin SelectorTypes
  <2>1. TranslateGroup(g, members) =
          [tag |-> g.name, type |-> "urltest", members |-> members, default |-> "",
           interval |-> GroupInterval(g), idle |-> IdleTimeout(GroupInterval(g)),
           ech |-> "", stub |-> FALSE]
    BY <1>7 DEF TranslateGroup
  <2>2. [tag |-> g.name, type |-> "urltest", members |-> members, default |-> "",
         interval |-> GroupInterval(g), idle |-> IdleTimeout(GroupInterval(g)),
         ech |-> "", stub |-> FALSE] \in Outbound
    BY <1>1, <1>3, <1>4, TextFacts, IsOutbound, Zenon
  <2> QED
    BY <1>5, <1>7, <2>1, <2>2
<1> QED
  BY <1>6, <1>7

(***************************************************************************)
(* translateGroups without its clean-up: an outbound for every group with  *)
(* a name and a member.                                                    *)
(***************************************************************************)
LEMMA GroupTables ==
  ASSUME NEW groups \in Seq(GroupInput), NEW tags, NEW invalid
  PROVE  /\ TranslateGroups(groups, tags, invalid) \in Seq(Outbound)
         /\ ToSet(TranslateGroups(groups, tags, invalid)) =
              {TranslateGroup(g, GroupMembers(g, tags, GroupNames(groups), invalid)) : g \in
                 {h \in ToSet(groups) :
                    /\ h.name # ""
                    /\ GroupMembers(h, tags, GroupNames(groups), invalid) # <<>>}}
<1> DEFINE Members(g) == GroupMembers(g, tags, GroupNames(groups), invalid)
           With == {g \in ToSet(groups) : g.name # "" /\ Members(g) # <<>>}
           kept == Keep(groups, With)
           obs == [i \in DOMAIN kept |-> TranslateGroup(kept[i], Members(kept[i]))]
<1>1. kept \in Seq(GroupInput) /\ ToSet(kept) = With
  <2>1. kept \in Seq(GroupInput) /\ ToSet(kept) = ToSet(groups) \cap With
    BY KeepElements
  <2> QED
    BY <2>1
<1>2. TranslateGroups(groups, tags, invalid) = obs
  BY DEF TranslateGroups
<1>3. \A g \in GroupInput : Members(g) \in Seq(Text)
  BY MembersOfGroup
<1> HIDE DEF kept, Members
<1>4. \A i \in DOMAIN kept : kept[i] \in GroupInput /\ kept[i] \in With
  <2>1. \A i \in DOMAIN kept : kept[i] \in ToSet(kept)
    BY DEF ToSet
  <2> HIDE DEF With
  <2>2. \A i \in DOMAIN kept : kept[i] \in GroupInput
    BY <1>1
  <2> QED
    BY <1>1, <2>1, <2>2
<1>5. \A i \in DOMAIN kept : TranslateGroup(kept[i], Members(kept[i])) \in Outbound
  <2>1. \A g \in GroupInput : g.name \in Text /\ g.interval \in Int
    BY TextFacts DEF GroupInput
  <2>2. \A g \in GroupInput : Members(g) # <<>> => TranslateGroup(g, Members(g)) \in Outbound
    BY <1>3, <2>1, GroupOutboundFacts
  <2> QED
    BY <1>4, <2>2
<1>6. obs \in Seq(Outbound) /\ DOMAIN obs = DOMAIN kept
  <2> HIDE DEF With
  <2> QED
    BY <1>1, <1>5
<1>7. ToSet(obs) = {TranslateGroup(g, Members(g)) : g \in ToSet(kept)}
  BY <1>6 DEF ToSet
<1> QED
  BY <1>1, <1>2, <1>6, <1>7 DEF Members

(***************************************************************************)
(* One pass of the clean-up: the groups that keep a member, with what they *)
(* keep.                                                                   *)
(***************************************************************************)
LEMMA CleanupPass ==
  ASSUME NEW obs \in Seq(Outbound), NEW valid
  PROVE  /\ \A o \in Outbound :
               /\ CleanMembers(o, valid) \in Seq(Text)
               /\ ToSet(CleanMembers(o, valid)) = ToSet(o.members) \cap valid
               /\ CleanMembers(o, valid) = <<>> <=> ToSet(o.members) \cap valid = {}
         /\ CleanupGroupOutboundsOnce(obs, valid) \in Seq(Outbound)
         /\ ToSet(CleanupGroupOutboundsOnce(obs, valid)) =
              {FixDefault(o, CleanMembers(o, valid), valid) :
                 o \in {q \in ToSet(obs) : CleanMembers(q, valid) # <<>>}}
         /\ DroppedGroups(obs, valid) =
              {o.tag : o \in {q \in ToSet(obs) : CleanMembers(q, valid) = <<>>}}
<1>1. ASSUME NEW o \in Outbound
      PROVE  /\ CleanMembers(o, valid) \in Seq(Text)
             /\ ToSet(CleanMembers(o, valid)) = ToSet(o.members) \cap valid
             /\ CleanMembers(o, valid) = <<>> <=> ToSet(o.members) \cap valid = {}
  <2>1. o.members \in Seq(Text)
    BY DEF Outbound
  <2> QED
    BY <2>1, KeepElements, KeepNothing DEF CleanMembers
<1> DEFINE With == {q \in ToSet(obs) : CleanMembers(q, valid) # <<>>}
           left == Keep(obs, With)
           Fix(o) == FixDefault(o, CleanMembers(o, valid), valid)
           fixed == [i \in DOMAIN left |-> Fix(left[i])]
<1>2. left \in Seq(Outbound) /\ ToSet(left) = With
  <2>1. left \in Seq(Outbound) /\ ToSet(left) = ToSet(obs) \cap With
    BY KeepElements
  <2> QED
    BY <2>1
<1>3. CleanupGroupOutboundsOnce(obs, valid) = fixed
  BY DEF CleanupGroupOutboundsOnce
<1>4. ASSUME NEW o \in Outbound, CleanMembers(o, valid) # <<>>
      PROVE  Fix(o) \in Outbound
  <2>1. CleanMembers(o, valid) \in Seq(Text) /\ CleanMembers(o, valid)[1] \in Text
    BY <1>1, <1>4
  <2> QED
    BY <2>1 DEF FixDefault, Outbound
<1> HIDE DEF left, Fix
<1>5. \A i \in DOMAIN left : left[i] \in Outbound /\ left[i] \in With
  BY <1>2 DEF ToSet
<1>6. fixed \in Seq(Outbound) /\ DOMAIN fixed = DOMAIN left
  BY <1>2, <1>4, <1>5
<1>7. ToSet(fixed) = {Fix(o) : o \in ToSet(left)}
  BY <1>6 DEF ToSet
<1>8. DroppedGroups(obs, valid) =
        {o.tag : o \in {q \in ToSet(obs) : CleanMembers(q, valid) = <<>>}}
  BY DEF DroppedGroups, ToSet
<1> QED
  BY <1>1, <1>2, <1>3, <1>6, <1>7, <1>8 DEF Fix

(* What a pass changes of a group, and what it leaves. *)
LEMMA FixedGroup ==
  ASSUME NEW o \in Outbound, NEW clean, NEW valid
  PROVE  /\ FixDefault(o, clean, valid).tag = o.tag
         /\ FixDefault(o, clean, valid).type = o.type
         /\ FixDefault(o, clean, valid).stub = o.stub
         /\ FixDefault(o, clean, valid).members = clean
  BY DEF FixDefault, Outbound

(* The tags of a conversion can be put into a list. *)
LEMMA TagsAreFinite == ASSUME NEW obs \in Seq(Outbound) PROVE IsFiniteSet(ToTags(obs))
<1> DEFINE f == [i \in 1..Len(obs) |-> obs[i].tag]
<1>1. f \in Surjection(1..Len(obs), ToTags(obs))
  BY DEF Surjection, ToTags
<1> QED
  BY <1>1, FS_NatSurjection DEF ExistsSurjection

LEMMA SetToSeqElements ==
  ASSUME NEW S, IsFiniteSet(S)
  PROVE  SetToSeq(S) \in Seq(S)
<1>1. Cardinality(S) \in Nat /\ \E f \in [1..Cardinality(S) -> S] : IsInjective(f)
  BY FS_CardinalityType DEF ExistsBijection, Bijection, Injection
<1>2. SetToSeq(S) \in [1..Cardinality(S) -> S]
  BY <1>1 DEF SetToSeq
<1> QED
  BY <1>1, <1>2

(* The input as the steps of a conversion see it. *)
DNSLists(dns) == /\ dns.def \in Seq(NameServerInput) /\ dns.ns \in Seq(NameServerInput)
                 /\ dns.fallback \in Seq(NameServerInput)
                 /\ dns.psn \in Seq(NameServerInput)

ClashNodes(i) == /\ i.kind = "yaml"
                 /\ i.proxies \in Seq(NodeInput)
                 /\ i.groups \in Seq(GroupInput)
                 /\ DNSLists(i.dns)

LEMMA ClashInputs == \A i : ClashInput(i) => ClashNodes(i)
<1> SUFFICES ASSUME NEW i, ClashInput(i) PROVE ClashNodes(i)
  OBVIOUS
<1>1. /\ i.dns.def \in Seq(NameServerInput) /\ i.dns.ns \in Seq(NameServerInput)
      /\ i.dns.fallback \in Seq(NameServerInput) /\ i.dns.psn \in Seq(NameServerInput)
  BY DEF ClashInput, DNSInput
<1>2. DNSLists(i.dns)
  BY <1>1 DEF DNSLists
<1> QED
  BY <1>2, ProxiesAreNodes DEF ClashInput, ClashNodes

(* The settings a list of URIs is given. *)
LEMMA DefaultDNSLists == DNSLists(DefaultDNS)
<1>1. /\ DefaultDNS.def = [i \in 1..4 |-> NameServer("udp", TRUE)]
      /\ DefaultDNS.ns = <<NameServer("https", FALSE), NameServer("tls", TRUE)>>
      /\ DefaultDNS.fallback = <<>> /\ DefaultDNS.psn = <<>>
  BY DEF DefaultDNS
<1>2. \A scheme \in {"udp", "https", "tls"}, ip \in BOOLEAN :
         NameServer(scheme, ip) \in NameServerInput
  BY DEF NameServer, NameServerInput, Schemes
<1>3. /\ NameServer("udp", TRUE) \in NameServerInput
      /\ NameServer("https", FALSE) \in NameServerInput
      /\ NameServer("tls", TRUE) \in NameServerInput
  BY <1>2
<1>4. ASSUME NEW x \in NameServerInput, NEW y \in NameServerInput
      PROVE  /\ <<>> \in Seq(NameServerInput) /\ <<x, y>> \in Seq(NameServerInput)
             /\ [i \in 1..4 |-> x] \in Seq(NameServerInput)
  <2> HIDE DEF NameServerInput
  <2> QED
    OBVIOUS
<1>5. DefaultDNS.def \in Seq(NameServerInput) /\ DefaultDNS.ns \in Seq(NameServerInput)
  BY <1>1, <1>3, <1>4, Zenon
<1>6. DefaultDNS.fallback \in Seq(NameServerInput) /\ DefaultDNS.psn \in Seq(NameServerInput)
  BY <1>1, <1>3, <1>4, Zenon
<1> QED
  BY <1>5, <1>6 DEF DNSLists

(* A list of URIs is turned into such an input. *)
LEMMA URIsAreNodes ==
  ASSUME NEW uris \in Seq(URIInput), NEW cc
  PROVE  ClashNodes(BuildRawConfigFromURIs(uris, cc))
<1> DEFINE read == Keep(uris, {u \in ToSet(uris) : IsProxyURI(u)})
           proxies == [i \in DOMAIN read |-> ParseProxyURI(read[i])]
<1>1. /\ read \in Seq(URIInput)
      /\ ToSet(read) = ToSet(uris) \cap {u \in ToSet(uris) : IsProxyURI(u)}
  BY KeepElements
<1>2. /\ BuildRawConfigFromURIs(uris, cc).kind = "yaml"
      /\ BuildRawConfigFromURIs(uris, cc).proxies = proxies
      /\ BuildRawConfigFromURIs(uris, cc).groups = <<>>
      /\ BuildRawConfigFromURIs(uris, cc).dns = DefaultDNS
  BY DEF BuildRawConfigFromURIs
<1> HIDE DEF read
<1>3. ASSUME NEW u \in URIInput, IsProxyURI(u) PROVE ParseProxyURI(u) \in NodeInput
  <2>1. /\ u.name \in Text /\ u.server \in Text /\ u.port \in Int
        /\ FALSE \in BOOLEAN /\ TRUE \in BOOLEAN
    BY TextFacts DEF URIInput
  <2>2. URISchemes[u.scheme] \in Text
    <3>1. u.scheme \in {"ss", "vmess", "vless", "trojan", "hysteria2", "hy2"}
      BY <1>3 DEF IsProxyURI, URISchemes
    <3>2. /\ URISchemes["ss"] = "ss" /\ URISchemes["vmess"] = "vmess"
          /\ URISchemes["vless"] = "vless" /\ URISchemes["trojan"] = "trojan"
          /\ URISchemes["hysteria2"] = "hysteria2" /\ URISchemes["hy2"] = "hysteria2"
      BY DEF URISchemes
    <3> QED
      BY <3>1, <3>2, TextFacts, Zenon
  <2> DEFINE name == IF u.name = "" THEN "proxy" ELSE u.name
  <2>3. name \in Text
    BY <2>1, TextFacts
  <2>4. ParseProxyURI(u) = [name |-> name, type |-> URISchemes[u.scheme],
           server |-> u.server, port |-> u.port, ports |-> FALSE, ok |-> TRUE, ech |-> ""]
    BY DEF ParseProxyURI
  <2> HIDE DEF name
  <2>5. [name |-> name, type |-> URISchemes[u.scheme],
           server |-> u.server, port |-> u.port, ports |-> FALSE, ok |-> TRUE, ech |-> ""]
          \in NodeInput
    BY <2>1, <2>2, <2>3, TextFacts, Zenon DEF NodeInput
  <2> QED
    BY <2>4, <2>5
<1>4. \A i \in DOMAIN read : read[i] \in URIInput /\ IsProxyURI(read[i])
  <2>1. \A i \in DOMAIN read : read[i] \in ToSet(read)
    BY DEF ToSet
  <2> QED
    BY <1>1, <2>1
<1>5. \A i \in DOMAIN read : ParseProxyURI(read[i]) \in NodeInput
  BY <1>3, <1>4
<1>6. proxies \in Seq(NodeInput)
  BY <1>1, <1>5
<1> QED
  BY <1>2, <1>6, DefaultDNSLists DEF ClashNodes

----------------------------------------------------------------------------
(* A group no test of which measures a node that cannot be checked. *)
TestsOnly(o, invalid) ==
  ~o.stub /\ (o.type = "urltest" => ToSet(o.members) \cap invalid = {})

(* The groups a configuration without groups is given are of this kind. *)
LEMMA DefaultGroupFacts ==
  ASSUME NEW sorted \in Seq(Text), NEW invalid
  PROVE  /\ GenerateDefaultGroups(sorted, invalid) \in Seq(Outbound)
         /\ \A o \in ToSet(GenerateDefaultGroups(sorted, invalid)) : TestsOnly(o, invalid)
<1> DEFINE healthy == FilterHealthCheckProxies(sorted, invalid)
           auto == [name |-> "Auto", type |-> "url-test", proxies |-> healthy, interval |-> 0]
           all == IF Len(healthy) >= 2 THEN <<"Auto">> \o sorted ELSE sorted
           proxy == [name |-> "PROXY", type |-> "select", proxies |-> all, interval |-> 0]
           a == TranslateGroup(auto, healthy)
           p == TranslateGroup(proxy, all)
<1>1. healthy \in Seq(Text) /\ ToSet(healthy) \cap invalid = {}
  <2>1. /\ healthy \in Seq(Text)
        /\ ToSet(healthy) = ToSet(sorted) \cap (ToSet(sorted) \ invalid)
    BY KeepElements DEF FilterHealthCheckProxies
  <2> QED
    BY <2>1
<1>2. /\ auto.name \in Text /\ auto.interval \in Int /\ auto.type = "url-test"
      /\ proxy.name \in Text /\ proxy.interval \in Int /\ proxy.type = "select"
  BY TextFacts
<1>3. GenerateDefaultGroups(sorted, invalid) =
        IF sorted = <<>> THEN <<>>
        ELSE (IF Len(healthy) >= 2 THEN <<a>> ELSE <<>>) \o <<p>>
  BY DEF GenerateDefaultGroups
<1> HIDE DEF healthy
<1>4. all \in Seq(Text) /\ (sorted # <<>> => all # <<>>)
  <2>1. ASSUME NEW x \in Text PROVE <<x>> \o sorted \in Seq(Text) /\ <<x>> \o sorted # <<>>
    <3> DEFINE one == <<x>>
    <3>1. one \in Seq(Text) /\ x \in ToSet(one)
      BY DEF ToSet
    <3> HIDE DEF one
    <3>2. one \o sorted \in Seq(Text) /\ ToSet(one \o sorted) = ToSet(one) \cup ToSet(sorted)
      BY <1>1, <3>1, ConcatElements
    <3>3. one \o sorted # <<>>
      BY <3>1, <3>2, EmptySequence
    <3> QED
      BY <3>2, <3>3 DEF one
  <2>2. <<"Auto">> \o sorted \in Seq(Text) /\ <<"Auto">> \o sorted # <<>>
    BY <2>1, TextFacts, Zenon
  <2> QED
    BY <1>1, <2>2
<1> HIDE DEF auto, proxy, all
<1>5. ASSUME Len(healthy) >= 2 PROVE a \in Outbound /\ TestsOnly(a, invalid)
  <2>1. healthy # <<>>
    BY <1>1, <1>5
  <2> QED
    BY <1>1, <1>2, <2>1, GroupOutboundFacts DEF TestsOnly
<1>6. ASSUME sorted # <<>> PROVE p \in Outbound /\ TestsOnly(p, invalid)
  <2>1. "select" \in SelectorTypes
    BY DEF SelectorTypes
  <2> QED
    BY <1>2, <1>4, <1>6, <2>1, GroupOutboundFacts DEF TestsOnly
<1> HIDE DEF a, p
<1>7. CASE sorted = <<>>
  BY <1>3, <1>7 DEF ToSet
<1>8. CASE sorted # <<>>
  <2> DEFINE tests == IF Len(healthy) >= 2 THEN <<a>> ELSE <<>>
  <2>1. /\ tests \in Seq(Outbound)
        /\ \A o \in ToSet(tests) : TestsOnly(o, invalid)
    BY <1>5 DEF ToSet
  <2>2. <<p>> \in Seq(Outbound) /\ \A o \in ToSet(<<p>>) : TestsOnly(o, invalid)
    BY <1>6, <1>8 DEF ToSet
  <2>3. GenerateDefaultGroups(sorted, invalid) = tests \o <<p>>
    BY <1>3, <1>8
  <2> HIDE DEF tests
  <2>4. /\ tests \o <<p>> \in Seq(Outbound)
        /\ ToSet(tests \o <<p>>) = ToSet(tests) \cup ToSet(<<p>>)
    BY <2>1, <2>2, ConcatElements
  <2> QED
    BY <2>1, <2>2, <2>3, <2>4
<1> QED
  BY <1>7, <1>8

(***************************************************************************)
(* The invariant.  The tables of the proxies are those of the input from   *)
(* the step that fills them on; no group tests a node that cannot be       *)
(* checked; and the configuration consists of these outbounds.             *)
(***************************************************************************)
Fields == {"proxies", "proxyTags", "stubs", "invalid", "ech", "groups", "translated",
           "order", "rules", "ruleSets", "dns"}

Working == {"proxies", "groups", "cleanup", "default", "rules", "dns", "dnsrules",
            "assemble", "validate"}

Ended == pc = "done" /\ input.kind = "yaml"

InputInv ==
  /\ DOMAIN t = Fields
  /\ input.kind = "uris" => input.uris \in Seq(URIInput)
  /\ input.kind = "yaml" => ClashNodes(input)
  /\ pc = "upgrade" => input.kind = "json"
  /\ pc \in Working => input.kind = "yaml"

ProxiesInv ==
  pc \in Working \ {"proxies"} \/ Ended =>
    /\ t.proxies \in Seq(Outbound)
    /\ ToSet(t.proxies) = {ProxyOutbound(p) : p \in Named(input.proxies)}
    /\ t.proxyTags = ToTags(t.proxies)
    /\ t.proxyTags = NamesOf(Named(input.proxies))
    /\ t.invalid = NamesOf(Unchecked(input.proxies))

GroupsInv ==
  pc \in Working \ {"proxies", "groups"} \/ Ended =>
    /\ t.groups \in Seq(Outbound)
    /\ \A o \in ToSet(t.groups) : TestsOnly(o, t.invalid)

OutInv ==
  pc = "validate" \/ Ended =>
    ToSet(out.outbounds) \subseteq {Direct} \cup ToSet(t.proxies) \cup ToSet(t.groups)

StubInv == InputInv /\ ProxiesInv /\ GroupsInv /\ OutInv

LEMMA StubInit == Init => StubInv
<1> SUFFICES ASSUME Init PROVE StubInv
  OBVIOUS
<1>1. DOMAIN t = Fields
  BY DEF Init, NewTranslation, Fields
<1>2. /\ input.kind = "uris" => input.uris \in Seq(URIInput)
      /\ input.kind = "yaml" => ClashNodes(input)
  <2>1. \/ input.kind = "json"
        \/ input.kind = "uris" /\ input.uris \in Seq(URIInput)
        \/ ClashInput(input)
    BY InputsAssumption DEF Init
  <2>2. ClashInput(input) => ClashNodes(input) /\ input.kind = "yaml"
    BY ClashInputs DEF ClashNodes
  <2>3. ~("uris" = "yaml") /\ ~("json" = "yaml") /\ ~("json" = "uris")
    OBVIOUS
  <2> QED
    BY <2>1, <2>2, <2>3
<1> QED
  BY <1>1, <1>2 DEF Init, StubInv, InputInv, ProxiesInv, GroupsInv, OutInv, Ended, Working

(* Recognising the input. *)
LEMMA StubDetect == StubInv /\ Detect => StubInv'
<1> SUFFICES ASSUME StubInv, Detect PROVE StubInv'
  OBVIOUS
<1>1. pc = "detect" /\ UNCHANGED <<t, out>>
  BY DEF Detect
<1>2. CASE UNCHANGED input
  <2>1. \/ input.kind = "json" /\ pc' = "upgrade"
        \/ input.kind = "uris" /\ pc' = "done"
        \/ input.kind = "yaml" /\ pc' = "proxies"
    BY <1>2, URIsAreNodes DEF Detect, Goto, End, StubInv, InputInv, ClashNodes
  <2> QED
    BY <1>1, <1>2, <2>1
       DEF StubInv, InputInv, ProxiesInv, GroupsInv, OutInv, Ended, Working, ClashNodes
<1>3. CASE /\ input.kind = "uris"
           /\ input' = BuildRawConfigFromURIs(input.uris, input.cc)
           /\ pc' = "proxies"
  <2>1. ClashNodes(input')
    BY <1>3, URIsAreNodes DEF StubInv, InputInv
  <2> QED
    BY <1>1, <1>3, <2>1
       DEF StubInv, InputInv, ProxiesInv, GroupsInv, OutInv, Ended, Working, ClashNodes
<1> QED
  BY <1>2, <1>3 DEF Detect, Goto

(* translateProxies. *)
LEMMA StubProxies == StubInv /\ Proxies => StubInv'
<1> SUFFICES ASSUME StubInv, Proxies PROVE StubInv'
  OBVIOUS
<1> DEFINE tp == TranslateProxies(input.proxies)
<1>1. /\ pc = "proxies" /\ pc' = "groups" /\ UNCHANGED input
      /\ t' = [t EXCEPT !.proxies = tp.outbounds, !.proxyTags = tp.tags,
                        !.stubs = tp.stubs, !.invalid = tp.invalid,
                        !.ech = CollectECHQueryServers(tp.outbounds)]
  BY DEF Proxies, Goto
<1>2. input.kind = "yaml" /\ ClashNodes(input) /\ input.proxies \in Seq(NodeInput)
  BY <1>1 DEF StubInv, InputInv, Working, ClashNodes
<1>3. /\ tp.outbounds \in Seq(Outbound)
      /\ ToSet(tp.outbounds) = {ProxyOutbound(p) : p \in Named(input.proxies)}
      /\ tp.tags = ToTags(tp.outbounds)
      /\ tp.tags = NamesOf(Named(input.proxies))
      /\ tp.invalid = NamesOf(Unchecked(input.proxies))
  BY <1>2, ProxyTables
<1> HIDE DEF tp
<1>4. /\ DOMAIN t' = Fields
      /\ t'.proxies = tp.outbounds /\ t'.proxyTags = tp.tags /\ t'.invalid = tp.invalid
  BY <1>1 DEF StubInv, InputInv, Fields
<1>5. InputInv'
  BY <1>1, <1>2, <1>4 DEF InputInv, ClashNodes, Working
<1>6. ProxiesInv'
  BY <1>1, <1>3, <1>4 DEF ProxiesInv
<1> QED
  BY <1>1, <1>5, <1>6 DEF StubInv, GroupsInv, OutInv, Ended, Working

(* A step of the conversion that leaves the tables of the proxies alone. *)
LEMMA ProxiesKept ==
  ASSUME StubInv, pc \in Working \ {"proxies"}, pc' \in Working \ {"proxies"} \/ pc' = "done",
         UNCHANGED input, DOMAIN t' = Fields,
         t'.proxies = t.proxies, t'.proxyTags = t.proxyTags, t'.invalid = t.invalid
  PROVE  InputInv' /\ ProxiesInv' /\ input.kind = "yaml" /\ ClashNodes(input)
<1>1. input.kind = "yaml" /\ ClashNodes(input)
  BY DEF StubInv, InputInv
<1>2. InputInv'
  BY <1>1 DEF InputInv, ClashNodes, Working
<1>3. ProxiesInv'
  BY DEF StubInv, ProxiesInv
<1> QED
  BY <1>1, <1>2, <1>3

(* The first half of translateGroups. *)
LEMMA StubGroups == StubInv /\ Groups => StubInv'
<1> SUFFICES ASSUME StubInv, Groups PROVE StubInv'
  OBVIOUS
<1> DEFINE groups == TranslateGroups(input.groups, t.proxyTags, t.invalid)
           Members(g) == GroupMembers(g, t.proxyTags, GroupNames(input.groups), t.invalid)
<1>1. /\ pc = "groups" /\ pc' = "cleanup" /\ UNCHANGED input
      /\ t' = [t EXCEPT !.groups = groups, !.translated = ToTags(groups)]
  BY DEF Groups, Goto
<1> HIDE DEF groups
<1>2. /\ DOMAIN t' = Fields /\ t'.groups = groups
      /\ t'.proxies = t.proxies /\ t'.proxyTags = t.proxyTags /\ t'.invalid = t.invalid
  BY <1>1 DEF StubInv, InputInv, Fields
<1>3. InputInv' /\ ProxiesInv' /\ input.kind = "yaml" /\ input.groups \in Seq(GroupInput)
  BY <1>1, <1>2, ProxiesKept DEF Working, ClashNodes
<1>4. /\ groups \in Seq(Outbound)
      /\ ToSet(groups) = {TranslateGroup(g, Members(g)) : g \in
           {h \in ToSet(input.groups) : h.name # "" /\ Members(h) # <<>>}}
  <2>1. input.groups \in Seq(GroupInput)
    BY <1>3
  <2> QED
    BY <2>1, GroupTables DEF groups
<1>5. ASSUME NEW g \in GroupInput, Members(g) # <<>>
      PROVE  TestsOnly(TranslateGroup(g, Members(g)), t.invalid)
  <2>0. g.name \in Text /\ g.interval \in Int
    BY TextFacts DEF GroupInput
  <2>1. /\ Members(g) \in Seq(Text)
        /\ g.type \in Supported \/ ToSet(Members(g)) = {}
        /\ g.type \in UrlTestTypes => ToSet(Members(g)) \cap t.invalid = {}
    BY MembersOfGroup
  <2> HIDE DEF Members
  <2>2. g.type \in Supported
    BY <1>5, <2>1 DEF ToSet
  <2> QED
    BY <1>5, <2>0, <2>1, <2>2, GroupOutboundFacts DEF TestsOnly, Supported
<1>6. ToSet(input.groups) \subseteq GroupInput
  BY <1>3 DEF ToSet
<1> HIDE DEF Members
<1>7. \A o \in ToSet(groups) : TestsOnly(o, t.invalid)
  BY <1>4, <1>5, <1>6
<1>8. GroupsInv'
  BY <1>2, <1>4, <1>7 DEF GroupsInv
<1> QED
  BY <1>1, <1>3, <1>8 DEF StubInv, OutInv, Ended

(* A pass of the clean-up. *)
LEMMA StubCleanup == StubInv /\ CleanupGroups => StubInv'
<1> SUFFICES ASSUME StubInv, CleanupGroups PROVE StubInv'
  OBVIOUS
<1> DEFINE valid == ValidTags(t.proxyTags, t.translated)
           left == t.translated \ DroppedGroups(t.groups, valid)
           groups == CleanupGroupOutboundsOnce(t.groups, valid)
<1>1. /\ pc = "cleanup" /\ pc' \in {"cleanup", "default"} /\ UNCHANGED input
      /\ t' = [t EXCEPT !.groups = groups, !.translated = left,
                        !.order = GroupTagOrder(input.groups, left)]
  BY DEF CleanupGroups, Goto
<1> HIDE DEF groups, left
<1>2. /\ DOMAIN t' = Fields /\ t'.groups = groups
      /\ t'.proxies = t.proxies /\ t'.proxyTags = t.proxyTags /\ t'.invalid = t.invalid
  BY <1>1 DEF StubInv, InputInv, Fields
<1>3. InputInv' /\ ProxiesInv' /\ input.kind = "yaml"
  BY <1>1, <1>2, ProxiesKept DEF Working
<1>4. t.groups \in Seq(Outbound) /\ \A o \in ToSet(t.groups) : TestsOnly(o, t.invalid)
  BY <1>1 DEF StubInv, GroupsInv, Working
<1>5. /\ groups \in Seq(Outbound)
      /\ ToSet(groups) = {FixDefault(o, CleanMembers(o, valid), valid) :
                            o \in {q \in ToSet(t.groups) : CleanMembers(q, valid) # <<>>}}
      /\ \A o \in Outbound : ToSet(CleanMembers(o, valid)) = ToSet(o.members) \cap valid
  BY <1>4, CleanupPass DEF groups
<1>6. ASSUME NEW o \in ToSet(t.groups)
      PROVE  TestsOnly(FixDefault(o, CleanMembers(o, valid), valid), t.invalid)
  <2>1. o \in Outbound /\ TestsOnly(o, t.invalid)
    BY <1>4 DEF ToSet
  <2>2. ToSet(CleanMembers(o, valid)) \subseteq ToSet(o.members)
    BY <1>5, <2>1
  <2> QED
    BY <2>1, <2>2, FixedGroup DEF TestsOnly
<1>7. GroupsInv'
  BY <1>2, <1>5, <1>6 DEF GroupsInv
<1> QED
  BY <1>1, <1>3, <1>7 DEF StubInv, OutInv, Ended

(* The groups a configuration without groups is given. *)
LEMMA StubDefault == StubInv /\ DefaultGroups => StubInv'
<1> SUFFICES ASSUME StubInv, DefaultGroups PROVE StubInv'
  OBVIOUS
<1> DEFINE sorted == SetToSeq(t.proxyTags)
           groups == GenerateDefaultGroups(sorted, t.invalid)
<1>1. /\ pc = "default" /\ pc' = "rules" /\ UNCHANGED input
      /\ \/ t' = t
         \/ t' = [t EXCEPT !.groups = groups,
                           !.order = IF sorted = <<>> THEN <<>> ELSE <<"PROXY">>]
  BY DEF DefaultGroups, Goto
<1> HIDE DEF groups, sorted
<1>2. /\ DOMAIN t' = Fields /\ t'.groups \in {t.groups, groups}
      /\ t'.proxies = t.proxies /\ t'.proxyTags = t.proxyTags /\ t'.invalid = t.invalid
  BY <1>1 DEF StubInv, InputInv, Fields
<1>3. InputInv' /\ ProxiesInv' /\ input.kind = "yaml"
  BY <1>1, <1>2, ProxiesKept DEF Working
<1>4. sorted \in Seq(Text)
  <2>1. t.proxies \in Seq(Outbound) /\ t.proxyTags = ToTags(t.proxies)
    BY <1>1 DEF StubInv, ProxiesInv, Working
  <2>2. ToTags(t.proxies) \subseteq Text
    <3>1. \A o \in Outbound : o.tag \in Text
      BY DEF Outbound
    <3> QED
      BY <2>1, <3>1 DEF ToTags
  <2>3. sorted \in Seq(ToTags(t.proxies))
    BY <2>1, TagsAreFinite, SetToSeqElements DEF sorted
  <2> QED
    BY <2>2, <2>3, WiderSeq
<1>5. groups \in Seq(Outbound) /\ \A o \in ToSet(groups) : TestsOnly(o, t.invalid)
  BY <1>4, DefaultGroupFacts DEF groups
<1>6. t.groups \in Seq(Outbound) /\ \A o \in ToSet(t.groups) : TestsOnly(o, t.invalid)
  BY <1>1 DEF StubInv, GroupsInv, Working
<1>7. GroupsInv'
  BY <1>2, <1>5, <1>6 DEF GroupsInv
<1> QED
  BY <1>1, <1>3, <1>7 DEF StubInv, OutInv, Ended

(* The steps about routes and DNS do not touch the outbounds. *)
LEMMA StubLaterSteps == StubInv /\ (Rules \/ DNS \/ DNSRules) => StubInv'
<1> SUFFICES ASSUME StubInv, Rules \/ DNS \/ DNSRules PROVE StubInv'
  OBVIOUS
<1>1. DOMAIN t = Fields
  BY DEF StubInv, InputInv
<1>2. /\ pc \in {"rules", "dns", "dnsrules"} /\ pc' \in {"dns", "dnsrules", "assemble"}
      /\ UNCHANGED input
  BY DEF Rules, DNS, DNSRules, Goto
<1>3. /\ DOMAIN t' = Fields /\ t'.groups = t.groups
      /\ t'.proxies = t.proxies /\ t'.proxyTags = t.proxyTags /\ t'.invalid = t.invalid
  <2>1. ASSUME NEW a, NEW b, t' = [t EXCEPT !.rules = a, !.ruleSets = b]
        PROVE  <1>3!:
    BY <1>1, <2>1 DEF Fields
  <2>2. ASSUME NEW a, t' = [t EXCEPT !.dns = a]
        PROVE  <1>3!:
    BY <1>1, <2>2 DEF Fields
  <2>3. ASSUME NEW a, NEW b, t' = [t EXCEPT !.dns = a, !.ruleSets = b]
        PROVE  <1>3!:
    BY <1>1, <2>3 DEF Fields
  <2>4. CASE Rules
    BY <2>1, <2>4 DEF Rules
  <2>5. CASE DNS
    BY <2>2, <2>5 DEF DNS
  <2>6. CASE DNSRules
    BY <2>3, <2>6 DEF DNSRules
  <2> QED
    BY <2>4, <2>5, <2>6
<1>4. InputInv' /\ ProxiesInv'
  BY <1>2, <1>3, ProxiesKept DEF Working
<1>5. GroupsInv'
  BY <1>2, <1>3 DEF StubInv, GroupsInv, Working
<1> QED
  BY <1>2, <1>4, <1>5 DEF StubInv, OutInv, Ended

(* The configuration is put together. *)
LEMMA StubAssemble == StubInv /\ Assemble => StubInv'
<1> SUFFICES ASSUME StubInv, Assemble PROVE StubInv'
  OBVIOUS
<1>1. /\ pc = "assemble" /\ pc' = "validate" /\ UNCHANGED <<input, t>>
      /\ out'.outbounds = <<Direct>> \o t.proxies \o t.groups
  BY DEF Assemble, Goto
<1>2. InputInv' /\ ProxiesInv' /\ GroupsInv'
  <2>1. InputInv' /\ ProxiesInv'
    BY <1>1, ProxiesKept DEF StubInv, InputInv, Working
  <2>2. GroupsInv'
    BY <1>1 DEF StubInv, GroupsInv, Working
  <2> QED
    BY <2>1, <2>2
<1>3. OutInv'
  <2> DEFINE All == Outbound \cup {Direct}
             direct == <<Direct>>
             first == direct \o t.proxies
  <2>1. t.proxies \in Seq(Outbound) /\ t.groups \in Seq(Outbound)
    BY <1>1 DEF StubInv, ProxiesInv, GroupsInv, Working
  <2>2. t.proxies \in Seq(All) /\ t.groups \in Seq(All)
    BY <2>1
  <2>3. direct \in Seq(All) /\ ToSet(direct) = {Direct}
    BY DEF ToSet
  <2>4. out'.outbounds = first \o t.groups
    BY <1>1
  <2> HIDE DEF All, direct
  <2>5. first \in Seq(All) /\ ToSet(first) = {Direct} \cup ToSet(t.proxies)
    BY <2>2, <2>3, ConcatElements
  <2> HIDE DEF first
  <2>6. ToSet(first \o t.groups) = {Direct} \cup ToSet(t.proxies) \cup ToSet(t.groups)
    BY <2>2, <2>5, ConcatElements
  <2> QED
    BY <1>1, <2>4, <2>6 DEF OutInv
<1> QED
  BY <1>2, <1>3 DEF StubInv

(* The steps at the end, and the passage of a stored configuration. *)
LEMMA StubEnd == StubInv /\ (Validate \/ UpgradeStored \/ Reconvert) => StubInv'
<1> SUFFICES ASSUME StubInv, Validate \/ UpgradeStored \/ Reconvert PROVE StubInv'
  OBVIOUS
<1>1. CASE Validate
  <2>1. pc = "validate" /\ pc' = "done" /\ UNCHANGED <<input, t, out>>
    BY <1>1 DEF Validate, End
  <2>2. InputInv' /\ ProxiesInv'
    BY <2>1, ProxiesKept DEF StubInv, InputInv, Working
  <2>3. GroupsInv' /\ OutInv'
    BY <2>1 DEF StubInv, GroupsInv, OutInv, Working
  <2> QED
    BY <2>2, <2>3 DEF StubInv
<1>2. CASE UpgradeStored
  <2>1. pc = "upgrade" /\ pc' = "done" /\ UNCHANGED <<input, t>>
    BY <1>2 DEF UpgradeStored, End
  <2> QED
    BY <2>1 DEF StubInv, InputInv, ProxiesInv, GroupsInv, OutInv, Ended, Working, ClashNodes
<1>3. CASE Reconvert
  <2>1. pc' = "detect" /\ input'.kind = "json" /\ UNCHANGED t
    BY <1>3 DEF Reconvert, Goto
  <2> QED
    BY <2>1 DEF StubInv, InputInv, ProxiesInv, GroupsInv, OutInv, Ended, Working
<1> QED
  BY <1>1, <1>2, <1>3

LEMMA StubNext == StubInv /\ [Next]_vars => StubInv'
<1>1. StubInv /\ UNCHANGED vars => StubInv'
  BY DEF StubInv, InputInv, ProxiesInv, GroupsInv, OutInv, Ended, ClashNodes, vars
<1> QED
  BY <1>1, StubDetect, StubProxies, StubGroups, StubCleanup, StubDefault, StubLaterSteps,
     StubAssemble, StubEnd DEF Next

(* An outbound of a configuration: DIRECT, a proxy or a group. *)
LEMMA StubInvImplies == StubInv => NoStubTested
<1> SUFFICES ASSUME StubInv, Ended,
                    NEW i \in DOMAIN out.outbounds, out.outbounds[i].type = "urltest",
                    NEW m \in ToSet(out.outbounds[i].members),
                    NEW j \in DOMAIN out.outbounds, out.outbounds[j].tag = m
             PROVE  ~out.outbounds[j].stub /\ m \notin t.invalid
  BY DEF NoStubTested, Translated, Ended
<1>1. \A k \in DOMAIN out.outbounds :
         out.outbounds[k] \in {Direct} \cup ToSet(t.proxies) \cup ToSet(t.groups)
  BY DEF StubInv, OutInv, ToSet
<1>2. /\ \A o \in ToSet(t.groups) : TestsOnly(o, t.invalid)
      /\ t.proxies \in Seq(Outbound)
      /\ ToSet(t.proxies) = {ProxyOutbound(p) : p \in Named(input.proxies)}
      /\ t.invalid = NamesOf(Unchecked(input.proxies))
      /\ Named(input.proxies) \subseteq NodeInput
  <2>1. input.proxies \in Seq(NodeInput)
    BY DEF StubInv, InputInv, Ended, ClashNodes
  <2>2. ToSet(input.proxies) \subseteq NodeInput
    BY <2>1 DEF ToSet
  <2>3. Named(input.proxies) \subseteq NodeInput
    BY <2>2, Zenon DEF Named
  <2> QED
    BY <2>3 DEF StubInv, GroupsInv, ProxiesInv
<1>3. Direct.members = <<>> /\ Direct.stub = FALSE
  BY DEF Direct
<1>4. \A o \in ToSet(t.proxies) : o.members = <<>> /\ (o.stub => o.tag \in t.invalid)
  <2> SUFFICES ASSUME NEW p \in Named(input.proxies)
               PROVE  /\ ProxyOutbound(p).members = <<>>
                      /\ ProxyOutbound(p).stub => ProxyOutbound(p).tag \in t.invalid
    BY <1>2
  <2> QED
    BY <1>2, ProxyOutboundFacts DEF NamesOf, Unchecked
<1>5. m \notin t.invalid
  <2>1. ToSet(<<>>) = {}
    BY DEF ToSet
  <2>2. out.outbounds[i] \in ToSet(t.groups)
    BY <1>1, <1>3, <1>4, <2>1
  <2> QED
    BY <1>2, <2>2 DEF TestsOnly
<1>6. ~out.outbounds[j].stub
  BY <1>1, <1>2, <1>3, <1>4, <1>5 DEF TestsOnly
<1> QED
  BY <1>5, <1>6

(***************************************************************************)
(* No url test measures a node that stands for an unsupported protocol or  *)
(* for the machine itself, whatever the subscription says (group.go:140-152, *)
(* proxy.go:20-35).                                                        *)
(***************************************************************************)
THEOREM NothingUncheckedIsTested == Spec => []NoStubTested
<1>1. Spec => []StubInv
  BY StubInit, StubNext, PTL DEF Spec
<1> QED
  BY <1>1, StubInvImplies, PTL

(***************************************************************************)
(* The clean-up of the groups.  Without a clash a name stands for one      *)
(* proxy or for one group.                                                 *)
(***************************************************************************)
LEMMA UniquePlaces ==
  ASSUME NEW cfg, ClashNodes(cfg), ~NamesClash(cfg)
  PROVE  /\ \A i, j \in DOMAIN cfg.proxies : cfg.proxies[i].name = cfg.proxies[j].name => i = j
         /\ \A i, j \in DOMAIN cfg.groups : cfg.groups[i].name = cfg.groups[j].name => i = j
         /\ \A i \in DOMAIN cfg.proxies, j \in DOMAIN cfg.groups :
               cfg.proxies[i].name # cfg.groups[j].name
         /\ \A i \in DOMAIN cfg.proxies :
               cfg.proxies[i].name \notin {"DIRECT", "PROXY", "Auto"}
         /\ \A j \in DOMAIN cfg.groups : cfg.groups[j].name # "DIRECT"
<1> DEFINE ps == cfg.proxies
           gs == cfg.groups
           names == GivenNames(cfg)
<1>1. ps \in Seq(NodeInput) /\ gs \in Seq(GroupInput)
  BY DEF ClashNodes
<1>2. names = [i \in DOMAIN ps |-> ps[i].name] \o [i \in DOMAIN gs |-> gs[i].name]
  BY DEF GivenNames
<1>3. /\ \A i, j \in DOMAIN names : names[i] = names[j] => i = j
      /\ ToSet(names) \cap {"DIRECT", "PROXY", "Auto"} = {}
  BY DEF NamesClash
<1> HIDE DEF ps, gs, names
<1>4. /\ \A i \in DOMAIN ps : i \in DOMAIN names /\ names[i] = ps[i].name
      /\ \A i \in DOMAIN gs : Len(ps) + i \in DOMAIN names /\ names[Len(ps) + i] = gs[i].name
  <2> DEFINE A == {ps[i].name : i \in DOMAIN ps} \cup {gs[i].name : i \in DOMAIN gs}
             a == [i \in DOMAIN ps |-> ps[i].name]
             b == [i \in DOMAIN gs |-> gs[i].name]
  <2>1. /\ a \in Seq(A) /\ Len(a) = Len(ps) /\ DOMAIN ps = 1..Len(ps) /\ Len(ps) \in Nat
        /\ b \in Seq(A) /\ Len(b) = Len(gs) /\ DOMAIN gs = 1..Len(gs) /\ Len(gs) \in Nat
    BY <1>1
  <2>2. /\ \A i \in DOMAIN ps : a[i] = ps[i].name
        /\ \A i \in DOMAIN gs : b[i] = gs[i].name
    OBVIOUS
  <2>3. names = a \o b
    BY <1>2
  <2> HIDE DEF A, a, b
  <2> QED
    BY <2>1, <2>2, <2>3
<1>5. \A n \in DOMAIN names : names[n] \notin {"DIRECT", "PROXY", "Auto"}
  BY <1>3 DEF ToSet
<1>6. \A i, j \in DOMAIN ps : ps[i].name = ps[j].name => i = j
  BY <1>3, <1>4
<1>7. \A i, j \in DOMAIN gs : gs[i].name = gs[j].name => i = j
  <2> TAKE i, j \in DOMAIN gs
  <2> HAVE gs[i].name = gs[j].name
  <2>1. Len(ps) + i = Len(ps) + j
    BY <1>3, <1>4
  <2> QED
    BY <1>1, <2>1
<1>8. \A i \in DOMAIN ps, j \in DOMAIN gs : ps[i].name # gs[j].name
  <2> TAKE i \in DOMAIN ps, j \in DOMAIN gs
  <2>1. i # Len(ps) + j
    BY <1>1
  <2> QED
    BY <1>3, <1>4, <2>1
<1> QED
  BY <1>4, <1>5, <1>6, <1>7, <1>8 DEF ps, gs

LEMMA UniqueNames ==
  ASSUME NEW cfg, ClashNodes(cfg), ~NamesClash(cfg)
  PROVE  /\ \A p, q \in ToSet(cfg.proxies) : p.name = q.name => p = q
         /\ \A g, h \in ToSet(cfg.groups) : g.name = h.name => g = h
         /\ \A p \in ToSet(cfg.proxies), g \in ToSet(cfg.groups) : p.name # g.name
         /\ \A p \in ToSet(cfg.proxies) : p.name \notin {"DIRECT", "PROXY", "Auto"}
         /\ \A g \in ToSet(cfg.groups) : g.name # "DIRECT"
BY UniquePlaces DEF ToSet

(* The members a group can be translated with; those that are there whatever *)
(* happens to the groups of S.                                             *)
Base(cfg, g) ==
  {m \in ToSet(g.proxies) :
     /\ m \in NamesOf(Named(cfg.proxies)) \cup GroupNames(cfg.groups) \cup {"DIRECT"}
     /\ g.type \in Supported
     /\ g.type \in UrlTestTypes => m \notin NamesOf(Unchecked(cfg.proxies))}

Valid(cfg, S) == ValidTags(NamesOf(Named(cfg.proxies)), S)

(* The proxies of a name, and whether a url test can hold on to one. *)
ProxiesNamed(cfg, n) == {p \in ToSet(cfg.proxies) : p.name = n /\ n # ""}

Checked(p) ==
  IsTranslated(p) /\ p.server \notin LocalServers /\ p.port \in PortNumbers \cup {0}

(* It can if the proxy is translated and health checked. *)
LEMMA CheckedProxy ==
  ASSUME NEW p
  PROVE  Checked(p) <=> ~(IsInvalidHealthCheckEndpoint(p) \/ ~IsTranslated(p))
<1>1. IsTranslated(p) => p.server # ""
  BY DEF IsTranslated, HasProxyEndpoint
<1> QED
  BY <1>1 DEF Checked, IsInvalidHealthCheckEndpoint

LEMMA NameChecked ==
  ASSUME NEW cfg, ClashNodes(cfg), ~NamesClash(cfg), NEW n
  PROVE  /\ n \in NamesOf(Named(cfg.proxies)) <=> ProxiesNamed(cfg, n) # {}
         /\ n \in NamesOf(Named(cfg.proxies)) /\ n \notin NamesOf(Unchecked(cfg.proxies))
              <=> \E p \in ProxiesNamed(cfg, n) : Checked(p)
<1> DEFINE named == ProxiesNamed(cfg, n)
           Bad(p) == IsInvalidHealthCheckEndpoint(p) \/ ~IsTranslated(p)
<1>1. \A p \in named : Checked(p) <=> ~Bad(p)
  BY CheckedProxy
<1>2. \A p, q \in named : p = q
  BY UniqueNames DEF ProxiesNamed
<1>3. n \in NamesOf(Named(cfg.proxies)) <=> \E p \in named : TRUE
  BY DEF NamesOf, Named, ProxiesNamed
<1>4. n \in NamesOf(Unchecked(cfg.proxies)) <=> \E p \in named : Bad(p)
  BY DEF NamesOf, Unchecked, Named, ProxiesNamed
<1> HIDE DEF named, Bad
<1>5. named # {} <=> \E p \in named : TRUE
  OBVIOUS
<1> QED
  BY <1>1, <1>2, <1>3, <1>4, <1>5, Zenon DEF named

(* What a group holds on to, with and without the tables of the translator. *)
LEMMA HoldsInBase ==
  ASSUME NEW cfg, ClashNodes(cfg), ~NamesClash(cfg),
         NEW g \in ToSet(cfg.groups), g.type \in Supported,
         NEW S \in SUBSET GroupNames(cfg.groups)
  PROVE  HoldsIn(cfg, g, S) <=> Base(cfg, g) \cap Valid(cfg, S) # {}
<1> DEFINE tags == NamesOf(Named(cfg.proxies))
           invalid == NamesOf(Unchecked(cfg.proxies))
           HoldsOn(n) == \/ n = "DIRECT" \/ n \in S
                         \/ g.type \in SelectorTypes /\ n \in tags
                         \/ g.type \in UrlTestTypes /\ n \in tags /\ n \notin invalid
<1>1. HoldsIn(cfg, g, S) <=>
        \E i \in DOMAIN g.proxies :
           LET n == g.proxies[i]
           IN \/ n = "DIRECT" \/ n \in S
              \/ g.type \in SelectorTypes /\ ProxiesNamed(cfg, n) # {}
              \/ g.type \in UrlTestTypes /\ \E p \in ProxiesNamed(cfg, n) : Checked(p)
  BY DEF HoldsIn, ProxiesNamed, Checked
<1>2. HoldsIn(cfg, g, S) <=> \E i \in DOMAIN g.proxies : HoldsOn(g.proxies[i])
  BY <1>1, NameChecked, Zenon
<1>3. HoldsIn(cfg, g, S) <=> \E n \in ToSet(g.proxies) : HoldsOn(n)
  <2> HIDE DEF HoldsOn
  <2> QED
    BY <1>2 DEF ToSet
<1>4. invalid \cap (GroupNames(cfg.groups) \cup {"DIRECT"}) = {}
  <2>1. \A n \in GroupNames(cfg.groups) : \E h \in ToSet(cfg.groups) : n = h.name
    BY DEF GroupNames, ToSet
  <2>2. \A n \in invalid : \E p \in ToSet(cfg.proxies) : n = p.name
    BY DEF NamesOf, Unchecked, Named
  <2> QED
    BY <2>1, <2>2, UniqueNames
<1>5. \A n : n \in Base(cfg, g) \cap Valid(cfg, S) <=>
        /\ n \in ToSet(g.proxies)
        /\ n \in tags \cup S \cup {"DIRECT"}
        /\ g.type \in UrlTestTypes => n \notin invalid
  BY DEF Base, Valid, ValidTags
<1> HIDE DEF tags, invalid
<1>6. g.type \in SelectorTypes \/ g.type \in UrlTestTypes
  BY DEF Supported
<1>7. \A n : HoldsOn(n) <=> /\ n \in tags \cup S \cup {"DIRECT"}
                            /\ g.type \in UrlTestTypes => n \notin invalid
  <2>1. SelectorTypes \cap UrlTestTypes = {}
    BY DEF SelectorTypes, UrlTestTypes
  <2> QED
    BY <1>4, <1>6, <2>1
<1> HIDE DEF HoldsOn
<1> QED
  BY <1>3, <1>5, <1>7

(***************************************************************************)
(* The invariant of the clean-up.  Every group that is left comes from a   *)
(* group of the input, and holds what of its base is still there; a set of *)
(* groups that hold on to each other is never taken apart.                 *)
(***************************************************************************)
SupportedGroups == {g \in ToSet(input.groups) : g.type \in Supported}

Closed(S) ==
  /\ S \subseteq GroupNames(input.groups)
  /\ \A n \in S : \E g \in SupportedGroups : g.name = n /\ HoldsIn(input, g, S)

ComesFrom(o, g) ==
  /\ g.name = o.tag /\ g.name # ""
  /\ ToSet(o.members) \subseteq Base(input, g)
  /\ Base(input, g) \cap Valid(input, t.translated) \subseteq ToSet(o.members)

CleanInv ==
  pc \in {"cleanup", "default"} =>
    /\ t.translated \subseteq ToTags(t.groups)
    /\ \A o \in ToSet(t.groups) : \E g \in SupportedGroups : ComesFrom(o, g)
    /\ ~NamesClash(input) => \A S : Closed(S) => S \subseteq t.translated
    /\ pc = "default" =>
         /\ \A o \in ToSet(t.groups) :
               ToSet(o.members) \cap Valid(input, t.translated) # {}
         /\ ToSet(t.order) = t.translated

(* translateGroups makes a group of everything that has a base. *)
LEMMA CleanGroups == StubInv /\ Groups => CleanInv'
<1> SUFFICES ASSUME StubInv, Groups PROVE CleanInv'
  OBVIOUS
<1> DEFINE groups == TranslateGroups(input.groups, t.proxyTags, t.invalid)
           Members(g) == GroupMembers(g, t.proxyTags, GroupNames(input.groups), t.invalid)
<1>1. /\ pc = "groups" /\ pc' = "cleanup" /\ UNCHANGED input
      /\ t' = [t EXCEPT !.groups = groups, !.translated = ToTags(groups)]
  BY DEF Groups, Goto
<1> HIDE DEF groups
<1>2. t'.groups = groups /\ t'.translated = ToTags(groups)
  BY <1>1 DEF StubInv, InputInv, Fields
<1>3. /\ input.groups \in Seq(GroupInput) /\ ToSet(input.groups) \subseteq GroupInput
      /\ t.proxyTags = NamesOf(Named(input.proxies))
      /\ t.invalid = NamesOf(Unchecked(input.proxies))
  <2>1. input.groups \in Seq(GroupInput)
    BY <1>1 DEF StubInv, InputInv, ClashNodes, Working
  <2>2. ToSet(input.groups) \subseteq GroupInput
    BY <2>1 DEF ToSet
  <2> QED
    BY <1>1, <2>1, <2>2 DEF StubInv, ProxiesInv, Working
<1>4. /\ groups \in Seq(Outbound)
      /\ ToSet(groups) = {TranslateGroup(g, Members(g)) : g \in
           {h \in ToSet(input.groups) : h.name # "" /\ Members(h) # <<>>}}
  <2>1. input.groups \in Seq(GroupInput)
    BY <1>3
  <2> QED
    BY <2>1, GroupTables DEF groups
<1>5. ASSUME NEW g \in GroupInput
      PROVE  /\ Members(g) \in Seq(Text)
             /\ ToSet(Members(g)) = Base(input, g)
             /\ Members(g) # <<>> <=> Base(input, g) # {}
  BY <1>3, MembersOfGroup, EmptySequence DEF Base
<1> HIDE DEF Members
<1>6. ASSUME NEW g \in ToSet(input.groups), g.name # "", Members(g) # <<>>
      PROVE  /\ g \in SupportedGroups
             /\ TranslateGroup(g, Members(g)).tag = g.name
             /\ ToSet(TranslateGroup(g, Members(g)).members) = Base(input, g)
  <2>1. TranslateGroup(g, Members(g)).tag = g.name
        /\ TranslateGroup(g, Members(g)).members = Members(g)
    BY DEF TranslateGroup
  <2>2. Base(input, g) # {}
    BY <1>3, <1>5, <1>6
  <2>3. g \in SupportedGroups
    BY <2>2 DEF Base, SupportedGroups
  <2> QED
    BY <1>3, <1>5, <2>1, <2>3
<1>7. \A o \in ToSet(groups) : \E g \in SupportedGroups : ComesFrom(o, g)'
  <2> TAKE o \in ToSet(groups)
  <2>1. PICK g \in ToSet(input.groups) :
          g.name # "" /\ Members(g) # <<>> /\ o = TranslateGroup(g, Members(g))
    BY <1>4
  <2>2. g \in SupportedGroups /\ g.name = o.tag /\ ToSet(o.members) = Base(input, g)
    BY <1>6, <2>1
  <2>3. Base(input', g) = Base(input, g)
    BY <1>1
  <2>4. ComesFrom(o, g)'
    BY <2>1, <2>2, <2>3 DEF ComesFrom
  <2> QED
    BY <2>2, <2>4
<1>8. ASSUME ~NamesClash(input), NEW S, Closed(S) PROVE S \subseteq ToTags(groups)
  <2> SUFFICES ASSUME NEW n \in S PROVE n \in ToTags(groups)
    OBVIOUS
  <2>1. PICK g \in SupportedGroups : g.name = n /\ HoldsIn(input, g, S)
    BY <1>8 DEF Closed
  <2>2. n # "" /\ g \in ToSet(input.groups) /\ g.type \in Supported /\ g \in GroupInput
    BY <1>3, <1>8, <2>1 DEF Closed, GroupNames, SupportedGroups
  <2>3. Base(input, g) # {}
    <3>1. ClashNodes(input)
      BY <1>1 DEF StubInv, InputInv, Working
    <3>2. HoldsIn(input, g, S) <=> Base(input, g) \cap Valid(input, S) # {}
      BY <1>8, <2>2, <3>1, HoldsInBase DEF Closed
    <3> QED
      BY <2>1, <3>2
  <2>4. Members(g) # <<>>
    BY <1>5, <2>2, <2>3
  <2>5. TranslateGroup(g, Members(g)) \in ToSet(groups)
    BY <1>4, <2>1, <2>2, <2>4
  <2>6. TranslateGroup(g, Members(g)).tag = n
    BY <1>6, <2>1, <2>2, <2>4
  <2> QED
    BY <2>5, <2>6 DEF ToSet, ToTags
<1> QED
  BY <1>1, <1>2, <1>7, <1>8 DEF CleanInv, Closed, SupportedGroups

(* The order of the groups that are left names each of them. *)
LEMMA OrderElements ==
  ASSUME NEW groups \in Seq(GroupInput), NEW S, S \subseteq GroupNames(groups)
  PROVE  ToSet(GroupTagOrder(groups, S)) = S
<1> DEFINE names == [i \in DOMAIN groups |-> groups[i].name]
<1>1. names \in Seq(STRING) /\ ToSet(names) = {groups[i].name : i \in DOMAIN groups}
  <2>1. names \in Seq(STRING) /\ DOMAIN names = DOMAIN groups
    <3>1. \A i \in DOMAIN groups : groups[i] \in GroupInput
      OBVIOUS
    <3>2. \A g \in GroupInput : g.name \in STRING
      BY DEF GroupInput
    <3> QED
      BY <3>1, <3>2
  <2> QED
    BY <2>1 DEF ToSet
<1>2. S \subseteq ToSet(names) /\ "" \notin S
  BY <1>1 DEF GroupNames
<1>3. GroupTagOrder(groups, S) = Keep(names, S \ {""})
  BY DEF GroupTagOrder
<1> HIDE DEF names
<1>4. ToSet(Keep(names, S \ {""})) = ToSet(names) \cap (S \ {""})
  BY <1>1, KeepElements
<1> QED
  BY <1>2, <1>3, <1>4

(* A pass drops what holds on to nothing, which no closed set contains. *)
LEMMA CleanCleanup == StubInv /\ CleanInv /\ CleanupGroups => CleanInv'
<1> SUFFICES ASSUME StubInv, CleanInv, CleanupGroups PROVE CleanInv'
  OBVIOUS
<1> DEFINE valid == ValidTags(t.proxyTags, t.translated)
           dropped == DroppedGroups(t.groups, valid)
           left == t.translated \ dropped
           groups == CleanupGroupOutboundsOnce(t.groups, valid)
           Clean(o) == CleanMembers(o, valid)
           Fix(o) == FixDefault(o, Clean(o), valid)
<1>1. pc = "cleanup" /\ input.groups \in Seq(GroupInput) /\ ClashNodes(input)
  BY DEF CleanupGroups, StubInv, InputInv, ClashNodes, Working
<1>2. valid = Valid(input, t.translated)
  BY <1>1 DEF StubInv, ProxiesInv, Working, Valid
<1>3. /\ pc' \in {"cleanup", "default"}
      /\ pc' = "default" => dropped = {}
      /\ UNCHANGED input
      /\ t' = [t EXCEPT !.groups = groups, !.translated = left,
                        !.order = GroupTagOrder(input.groups, left)]
  BY DEF CleanupGroups, CleanupDone, Goto
<1>4. /\ t'.groups = groups /\ t'.translated = left
      /\ t'.order = GroupTagOrder(input.groups, left)
  <2> HIDE DEF groups, left
  <2> QED
    BY <1>3 DEF StubInv, InputInv, Fields
<1>5. t.groups \in Seq(Outbound) /\ ToSet(t.groups) \subseteq Outbound
  <2>1. t.groups \in Seq(Outbound)
    BY <1>1 DEF StubInv, GroupsInv, Working
  <2> QED
    BY <2>1 DEF ToSet
<1>6. /\ t.translated \subseteq ToTags(t.groups)
      /\ \A o \in ToSet(t.groups) : \E g \in SupportedGroups : ComesFrom(o, g)
      /\ ~NamesClash(input) => \A S : Closed(S) => S \subseteq t.translated
  BY <1>1 DEF CleanInv
<1>7. /\ ToSet(groups) = {Fix(o) : o \in {q \in ToSet(t.groups) : Clean(q) # <<>>}}
      /\ dropped = {o.tag : o \in {q \in ToSet(t.groups) : Clean(q) = <<>>}}
      /\ \A o \in ToSet(t.groups) :
            /\ ToSet(Clean(o)) = ToSet(o.members) \cap valid
            /\ Clean(o) = <<>> <=> ToSet(o.members) \cap valid = {}
  <2>1. /\ \A o \in Outbound :
              /\ ToSet(Clean(o)) = ToSet(o.members) \cap valid
              /\ Clean(o) = <<>> <=> ToSet(o.members) \cap valid = {}
        /\ ToSet(groups) = {Fix(o) : o \in {q \in ToSet(t.groups) : Clean(q) # <<>>}}
        /\ dropped = {o.tag : o \in {q \in ToSet(t.groups) : Clean(q) = <<>>}}
    BY <1>5, CleanupPass
  <2> HIDE DEF valid, Clean, Fix, groups, dropped
  <2> QED
    BY <1>5, <2>1
<1>8. \A o \in ToSet(t.groups) : Fix(o).tag = o.tag /\ Fix(o).members = Clean(o)
  BY <1>5, FixedGroup
<1>9. Valid(input, left) \subseteq valid
  <2> HIDE DEF valid, dropped
  <2> QED
    BY <1>2 DEF Valid, ValidTags
<1> HIDE DEF valid, dropped, groups, Clean, Fix
<1>10. left \subseteq ToTags(groups)
  <2> SUFFICES ASSUME NEW n \in left PROVE n \in ToTags(groups)
    OBVIOUS
  <2>1. PICK o \in ToSet(t.groups) : o.tag = n
    BY <1>6 DEF ToSet, ToTags
  <2>2. Clean(o) # <<>>
    BY <1>7, <2>1
  <2>3. Fix(o) \in ToSet(groups) /\ Fix(o).tag = n
    BY <1>7, <1>8, <2>1, <2>2
  <2> QED
    BY <2>3 DEF ToSet, ToTags
<1>11. \A q \in ToSet(groups) :
         /\ ToSet(q.members) \cap valid # {}
         /\ \E g \in SupportedGroups : ComesFrom(q, g)'
  <2> TAKE q \in ToSet(groups)
  <2>1. PICK o \in ToSet(t.groups) : Clean(o) # <<>> /\ q = Fix(o)
    BY <1>7
  <2>2. q.tag = o.tag /\ ToSet(q.members) = ToSet(o.members) \cap valid
    BY <1>7, <1>8, <2>1
  <2>3. PICK g \in SupportedGroups : ComesFrom(o, g)
    BY <1>6
  <2>4. Base(input', g) = Base(input, g) /\ Valid(input', t'.translated) \subseteq valid
    BY <1>3, <1>4, <1>9
  <2>5. ComesFrom(q, g)'
    BY <1>2, <2>1, <2>2, <2>3, <2>4 DEF ComesFrom
  <2>6. ToSet(q.members) \cap valid # {}
    BY <1>7, <2>1, <2>2
  <2> QED
    BY <2>5, <2>6
<1>12. ASSUME ~NamesClash(input), NEW S, Closed(S), NEW n \in S PROVE n \notin dropped
  <2> SUFFICES ASSUME NEW o \in ToSet(t.groups), Clean(o) = <<>>, o.tag = n PROVE FALSE
    BY <1>7
  <2>1. PICK g \in SupportedGroups : g.name = n /\ HoldsIn(input, g, S)
    BY <1>12 DEF Closed
  <2>2. PICK h \in SupportedGroups : ComesFrom(o, h)
    BY <1>6
  <2>3. g = h
    BY <1>1, <1>12, <2>1, <2>2, UniqueNames DEF ComesFrom, SupportedGroups
  <2>4. HoldsIn(input, g, S) <=> Base(input, g) \cap Valid(input, S) # {}
    BY <1>1, <1>12, <2>1, HoldsInBase DEF Closed, SupportedGroups
  <2>5. Valid(input, S) \subseteq valid
    BY <1>2, <1>6, <1>12 DEF Valid, ValidTags
  <2>6. Base(input, g) \cap valid \subseteq ToSet(o.members)
    BY <1>2, <2>2, <2>3 DEF ComesFrom
  <2>7. ToSet(o.members) \cap valid = {}
    BY <1>7
  <2> QED
    BY <2>1, <2>4, <2>5, <2>6, <2>7
<1>13. left \subseteq GroupNames(input.groups)
  <2> SUFFICES ASSUME NEW n \in left PROVE n \in GroupNames(input.groups)
    OBVIOUS
  <2>1. PICK o \in ToSet(t.groups) : o.tag = n
    BY <1>6 DEF ToSet, ToTags
  <2>2. PICK g \in SupportedGroups : ComesFrom(o, g)
    BY <1>6
  <2> QED
    BY <2>1, <2>2 DEF ComesFrom, SupportedGroups, GroupNames, ToSet
<1>14. ToSet(t'.order) = left
  BY <1>1, <1>4, <1>13, OrderElements
<1>15. pc' = "default" => Valid(input', t'.translated) = valid
  BY <1>2, <1>3, <1>4
<1>16. ~NamesClash(input) => \A S : Closed(S) => S \subseteq left
  BY <1>6, <1>12
<1> HIDE DEF left
<1> QED
  BY <1>3, <1>4, <1>10, <1>11, <1>14, <1>15, <1>16 DEF CleanInv, Closed, SupportedGroups

LEMMA CleanNext == StubInv /\ CleanInv /\ [Next]_vars => CleanInv'
<1>1. UNCHANGED vars /\ CleanInv => CleanInv'
  <2> SUFFICES ASSUME UNCHANGED vars, CleanInv PROVE CleanInv'
    OBVIOUS
  <2>1. input' = input /\ pc' = pc /\ t' = t
    BY DEF vars
  <2>2. SupportedGroups' = SupportedGroups /\ NamesClash(input') = NamesClash(input)
    BY <2>1 DEF SupportedGroups
  <2>3. \A o, g : ComesFrom(o, g)' <=> ComesFrom(o, g)
    BY <2>1 DEF ComesFrom
  <2>4. \A S : Closed(S)' <=> Closed(S)
    BY <2>1, <2>2 DEF Closed
  <2> QED
    BY <2>1, <2>2, <2>3, <2>4 DEF CleanInv
<1>2. Detect \/ UpgradeStored \/ Proxies \/ DefaultGroups \/ Rules \/ DNS \/ DNSRules
        \/ Assemble \/ Validate \/ Reconvert => pc' \notin {"cleanup", "default"}
  BY DEF Detect, UpgradeStored, Proxies, DefaultGroups, Rules, DNS, DNSRules, Assemble,
         Validate, Reconvert, Goto, End
<1>3. pc' \notin {"cleanup", "default"} => CleanInv'
  BY DEF CleanInv
<1> QED
  BY <1>1, <1>2, <1>3, CleanGroups, CleanCleanup DEF Next

(* The groups that are left hold on to each other, and no closed set is larger. *)
LEMMA CleanImplies == StubInv /\ CleanInv => LargestSetOfGroups
<1> SUFFICES ASSUME StubInv, CleanInv, pc = "default", ~NamesClash(input)
             PROVE  LET closed == {S \in SUBSET GroupNames(input.groups) : Closed(S)}
                    IN t.translated = UNION closed /\ ToSet(t.order) = UNION closed
  BY DEF LargestSetOfGroups, Closed, SupportedGroups, Supported
<1>1. /\ t.translated \subseteq ToTags(t.groups)
      /\ \A o \in ToSet(t.groups) : \E g \in SupportedGroups : ComesFrom(o, g)
      /\ \A S : Closed(S) => S \subseteq t.translated
      /\ \A o \in ToSet(t.groups) : ToSet(o.members) \cap Valid(input, t.translated) # {}
      /\ ToSet(t.order) = t.translated
  BY DEF CleanInv
<1>2. ASSUME NEW n \in t.translated
      PROVE  \E g \in SupportedGroups : /\ g.name = n /\ n \in GroupNames(input.groups)
                                        /\ Base(input, g) \cap Valid(input, t.translated) # {}
  <2>1. PICK o \in ToSet(t.groups) : o.tag = n
    BY <1>1 DEF ToSet, ToTags
  <2>2. PICK g \in SupportedGroups : ComesFrom(o, g)
    BY <1>1
  <2>3. g.name = n /\ n \in GroupNames(input.groups)
    BY <2>1, <2>2 DEF ComesFrom, SupportedGroups, GroupNames, ToSet
  <2>4. Base(input, g) \cap Valid(input, t.translated) # {}
    BY <1>1, <2>2 DEF ComesFrom
  <2> QED
    BY <2>3, <2>4
<1>3. Closed(t.translated)
  <2>1. ClashNodes(input)
    BY DEF StubInv, InputInv, Working
  <2>2. t.translated \subseteq GroupNames(input.groups)
    BY <1>2
  <2>3. \A g \in SupportedGroups :
          HoldsIn(input, g, t.translated) <=>
            Base(input, g) \cap Valid(input, t.translated) # {}
    BY <2>1, <2>2, HoldsInBase DEF SupportedGroups
  <2> QED
    BY <1>2, <2>2, <2>3 DEF Closed
<1> QED
  BY <1>1, <1>3 DEF Closed

(***************************************************************************)
(* The clean-up keeps the largest set of groups of which each has a proxy, *)
(* DIRECT or another group of the set, for every list of groups and        *)
(* however long the chains of references are (group.go:28-117,             *)
(* group.go:162-170).                                                      *)
(***************************************************************************)
THEOREM CleanupKeepsTheLargest == Spec => []LargestSetOfGroups
<1>1. Init => StubInv /\ CleanInv
  BY StubInit DEF Init, CleanInv
<1>2. Spec => [](StubInv /\ CleanInv)
  BY <1>1, StubNext, CleanNext, PTL DEF Spec
<1> QED
  BY <1>2, CleanImplies, PTL
=============================================================================
