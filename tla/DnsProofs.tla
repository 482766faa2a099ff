----------------------------- MODULE DnsProofs -----------------------------
(***************************************************************************)
(* Theorems about the DNS section a conversion ends with, for every input  *)
(* and every query: how the addresses of servers and proxies are resolved, *)
(* and who answers a query.                                                *)
(*                                                                         *)
(* Rules name servers by their tags.  That a tag stands for one server     *)
(* rests on TagsAssumption, which is about the writing of numbers; the     *)
(* rest follows from how translateDNS and generateDNSRules build the lists.*)
(* A query is then followed through the rules list by list: Taken is what  *)
(* the rules of one list make of it, given what the rules after it would.  *)
(***************************************************************************)
EXTENDS ConfigProofs

(***************************************************************************)
(* Every server has a tag of its own.                                      *)
(***************************************************************************)
LEMMA MappedTags ==
  ASSUME NEW s, IsList(s), NEW f, f = [i \in DOMAIN s |-> f[i]],
         \A i \in DOMAIN s : f[i].tag = s[i].tag
  PROVE  ToTags(f) = ToTags(s) /\ (UniqueTags(s) => UniqueTags(f))
<1>1. DOMAIN f = DOMAIN s
  BY MappedList
<1>2. ToTags(f) = ToTags(s)
  BY <1>1 DEF ToTags
<1>3. UniqueTags(s) => UniqueTags(f)
  BY <1>1 DEF UniqueTags
<1> QED
  BY <1>2, <1>3

(* The first server of a list has the least number. *)
LEMMA BuiltTags ==
  ASSUME NEW servers \in Seq(NameServerInput), NEW prefix, NEW detour,
         \A m, n \in DOMAIN servers : NumberedTag(prefix, m) = NumberedTag(prefix, n) => m = n,
         NEW b, b = BuildDNSServerEntries(servers, prefix, detour)
  PROVE  /\ UniqueTags(b)
         /\ ToTags(b) \subseteq {NumberedTag(prefix, i) : i \in DOMAIN servers}
         /\ b # <<>> => \E k \in DOMAIN servers :
               /\ b[1].tag = NumberedTag(prefix, k)
               /\ \A i \in DOMAIN servers : NumberedTag(prefix, i) \in ToTags(b) => k <= i
<1>1. /\ IsList(b)
      /\ \E p \in [DOMAIN b -> DOMAIN servers] :
            /\ \A n \in DOMAIN b : Parsed(b[n], servers[p[n]], NumberedTag(prefix, p[n]), detour)
            /\ \A m, n \in DOMAIN b : m < n => p[m] < p[n]
  BY BuiltServers
<1>2. PICK p \in [DOMAIN b -> DOMAIN servers] :
        /\ \A n \in DOMAIN b : Parsed(b[n], servers[p[n]], NumberedTag(prefix, p[n]), detour)
        /\ \A m, n \in DOMAIN b : m < n => p[m] < p[n]
  BY <1>1
<1>3. DOMAIN b = 1..Len(b) /\ Len(b) \in Nat
  BY <1>1, ListFacts
<1>4. DOMAIN servers \subseteq Nat
  <2> HIDE DEF NameServerInput
  <2> QED
    OBVIOUS
<1>5. \A n \in DOMAIN b : b[n].tag = NumberedTag(prefix, p[n]) /\ p[n] \in DOMAIN servers
  BY <1>2 DEF Parsed
<1>6. \A m, n \in DOMAIN b : p[m] = p[n] => m = n
  <2> SUFFICES ASSUME NEW m \in DOMAIN b, NEW n \in DOMAIN b, p[m] = p[n], m # n PROVE FALSE
    OBVIOUS
  <2>1. m < n \/ n < m
    BY <1>3
  <2>2. p[m] < p[n] \/ p[n] < p[m]
    BY <1>2, <2>1
  <2>3. p[m] \in Nat /\ p[n] \in Nat
    BY <1>4, <1>5
  <2> QED
    BY <2>2, <2>3
<1>7. UniqueTags(b)
  BY <1>5, <1>6 DEF UniqueTags
<1>8. ToTags(b) \subseteq {NumberedTag(prefix, i) : i \in DOMAIN servers}
  BY <1>5 DEF ToTags
<1>9. ASSUME b # <<>>
      PROVE  \E k \in DOMAIN servers :
               /\ b[1].tag = NumberedTag(prefix, k)
               /\ \A i \in DOMAIN servers : NumberedTag(prefix, i) \in ToTags(b) => k <= i
  <2>1. 1 \in DOMAIN b
    BY <1>1, <1>9, FirstPlace
  <2>2. ASSUME NEW i \in DOMAIN servers, NumberedTag(prefix, i) \in ToTags(b)
        PROVE  p[1] <= i
    <3>1. PICK n \in DOMAIN b : b[n].tag = NumberedTag(prefix, i)
      BY <2>2 DEF ToTags
    <3>2. p[n] = i
      BY <1>5, <3>1
    <3>3. n = 1 \/ 1 < n
      BY <1>3
    <3>4. n = 1 \/ p[1] < p[n]
      BY <1>2, <2>1, <3>3
    <3>5. p[1] \in Nat /\ p[n] \in Nat
      BY <1>4, <1>5, <2>1
    <3> QED
      BY <3>2, <3>4, <3>5
  <2> QED
    BY <1>5, <2>1, <2>2
<1> QED
  BY <1>7, <1>8, <1>9

(* Tags of different lists, and tags of the translator itself. *)
LEMMA Apart ==
  ASSUME NEW dns, TagsApart(dns)
  PROVE  \A p, q \in TagPrefixes, m, n \in Positions(dns) :
            /\ NumberedTag(p, m) = NumberedTag(q, n) => p = q /\ m = n
            /\ NumberedTag(p, m) \notin OwnTags
BY DEF TagsApart

LEMMA AutoTags ==
  ASSUME NEW dns, DNSLists(dns), TagsApart(dns), NEW b, b = AutoBootstrap(dns.ns)
  PROVE  UniqueTags(b) /\ ToTags(b) \subseteq {NumberedTag("def-auto-", i) : i \in 1..MaxBootstrap}
<1>1. \A i \in DOMAIN b : i \in 1..MaxBootstrap /\ b[i].tag = NumberedTag("def-auto-", i)
  BY AutoServers DEF DNSLists
<1>2. \A m, n \in 1..MaxBootstrap :
         NumberedTag("def-auto-", m) = NumberedTag("def-auto-", n) => m = n
  BY Apart DEF TagPrefixes, Positions
<1> QED
  BY <1>1, <1>2 DEF UniqueTags, ToTags

(* The tags a list of the input can have. *)
Numbered(prefix, dns) == {NumberedTag(prefix, i) : i \in Positions(dns)}

LEMMA NumberedApart ==
  ASSUME NEW dns, TagsApart(dns)
  PROVE  /\ \A p, q \in TagPrefixes : p # q => Numbered(p, dns) \cap Numbered(q, dns) = {}
         /\ \A p \in TagPrefixes : Numbered(p, dns) \cap OwnTags = {}
BY Apart DEF Numbered

LEMMA ListTags ==
  ASSUME NEW dns, DNSLists(dns), TagsApart(dns), NEW detour
  PROVE  /\ UniqueTags(BuildDNSServerEntries(dns.def, "def-", ""))
         /\ ToTags(BuildDNSServerEntries(dns.def, "def-", "")) \subseteq Numbered("def-", dns)
         /\ UniqueTags(BuildDNSServerEntries(dns.ns, "ns-", detour))
         /\ ToTags(BuildDNSServerEntries(dns.ns, "ns-", detour)) \subseteq Numbered("ns-", dns)
         /\ UniqueTags(BuildDNSServerEntries(dns.fallback, "fb-", detour))
         /\ ToTags(BuildDNSServerEntries(dns.fallback, "fb-", detour)) \subseteq Numbered("fb-", dns)
         /\ UniqueTags(BuildDNSServerEntries(dns.psn, "psn-", ""))
         /\ ToTags(BuildDNSServerEntries(dns.psn, "psn-", "")) \subseteq Numbered("psn-", dns)
<1>1. /\ DOMAIN dns.def \subseteq Positions(dns) /\ DOMAIN dns.ns \subseteq Positions(dns)
      /\ DOMAIN dns.fallback \subseteq Positions(dns) /\ DOMAIN dns.psn \subseteq Positions(dns)
  BY DEF Positions
<1>2. "def-" \in TagPrefixes /\ "ns-" \in TagPrefixes /\ "fb-" \in TagPrefixes
      /\ "psn-" \in TagPrefixes
  BY DEF TagPrefixes
<1>3. ASSUME NEW prefix \in TagPrefixes, NEW servers \in Seq(NameServerInput),
             DOMAIN servers \subseteq Positions(dns), NEW to
      PROVE  /\ UniqueTags(BuildDNSServerEntries(servers, prefix, to))
             /\ ToTags(BuildDNSServerEntries(servers, prefix, to)) \subseteq Numbered(prefix, dns)
  <2>1. \A m, n \in DOMAIN servers : NumberedTag(prefix, m) = NumberedTag(prefix, n) => m = n
    BY <1>3, Apart
  <2>2. {NumberedTag(prefix, i) : i \in DOMAIN servers} \subseteq Numbered(prefix, dns)
    BY <1>3 DEF Numbered
  <2>3. /\ UniqueTags(BuildDNSServerEntries(servers, prefix, to))
        /\ ToTags(BuildDNSServerEntries(servers, prefix, to))
             \subseteq {NumberedTag(prefix, i) : i \in DOMAIN servers}
    BY <2>1, BuiltTags
  <2> QED
    BY <2>2, <2>3
<1>4. /\ dns.def \in Seq(NameServerInput) /\ dns.ns \in Seq(NameServerInput)
      /\ dns.fallback \in Seq(NameServerInput) /\ dns.psn \in Seq(NameServerInput)
  BY DEF DNSLists
<1>5. /\ UniqueTags(BuildDNSServerEntries(dns.def, "def-", ""))
      /\ ToTags(BuildDNSServerEntries(dns.def, "def-", "")) \subseteq Numbered("def-", dns)
  BY <1>1, <1>2, <1>3, <1>4
<1>6. /\ UniqueTags(BuildDNSServerEntries(dns.ns, "ns-", detour))
      /\ ToTags(BuildDNSServerEntries(dns.ns, "ns-", detour)) \subseteq Numbered("ns-", dns)
  BY <1>1, <1>2, <1>3, <1>4
<1>7. /\ UniqueTags(BuildDNSServerEntries(dns.fallback, "fb-", detour))
      /\ ToTags(BuildDNSServerEntries(dns.fallback, "fb-", detour)) \subseteq Numbered("fb-", dns)
  BY <1>1, <1>2, <1>3, <1>4
<1>8. /\ UniqueTags(BuildDNSServerEntries(dns.psn, "psn-", ""))
      /\ ToTags(BuildDNSServerEntries(dns.psn, "psn-", "")) \subseteq Numbered("psn-", dns)
  BY <1>1, <1>2, <1>3, <1>4
<1> QED
  BY <1>5, <1>6, <1>7, <1>8

LEMMA UniqueJoin ==
  ASSUME NEW s, NEW u, IsList(s), IsList(u), UniqueTags(s), UniqueTags(u),
         NEW A, NEW B, ToTags(s) \subseteq A, ToTags(u) \subseteq B, A \cap B = {}
  PROVE  /\ IsList(s \o u) /\ UniqueTags(s \o u)
         /\ ToTags(s \o u) = ToTags(s) \cup ToTags(u) /\ ToTags(s \o u) \subseteq A \cup B
<1>1. ToTags(s) \cap ToTags(u) = {}
  OBVIOUS
<1>2. UniqueTags(s \o u)
  BY <1>1, UniqueConcat
<1>3. IsList(s \o u) /\ ToSet(s \o u) = ToSet(s) \cup ToSet(u)
  BY ConcatList
<1>4. ToTags(s \o u) = ToTags(s) \cup ToTags(u)
  <2> DEFINE w == s \o u
  <2>1. ToSet(w) = ToSet(s) \cup ToSet(u)
    BY <1>3
  <2> HIDE DEF w
  <2>2. ToTags(w) = ToTags(s) \cup ToTags(u)
    BY <2>1, TagsOfList
  <2> QED
    BY <2>2 DEF w
<1> QED
  BY <1>2, <1>3, <1>4

LEMMA AllTags ==
  ASSUME NEW dns, DNSLists(dns), TagsApart(dns), NEW detour
  PROVE  /\ UniqueTags(AllServers(dns, detour))
         /\ ToTags(AllServers(dns, detour)) \cap OwnTags = {}
         /\ ToTags(AllServers(dns, detour)) \cap Numbered("ns-", dns)
              \subseteq ToTags(BuildDNSServerEntries(dns.ns, "ns-", detour))
<1> DEFINE def == BuildDNSServerEntries(dns.def, "def-", "")
           ns == BuildDNSServerEntries(dns.ns, "ns-", detour)
           fb == BuildDNSServerEntries(dns.fallback, "fb-", detour)
           psn == BuildDNSServerEntries(dns.psn, "psn-", "")
           auto == AutoBootstrap(dns.ns)
           rest == IF def = <<>> THEN BootstrapServers(dns) ELSE <<>>
           all == AllServers(dns, detour)
           D == Numbered("def-", dns)
           N == Numbered("ns-", dns)
           F == Numbered("fb-", dns)
           P == Numbered("psn-", dns)
           A == Numbered("def-auto-", dns)
<1>1. /\ UniqueTags(def) /\ ToTags(def) \subseteq D
      /\ UniqueTags(ns) /\ ToTags(ns) \subseteq N
      /\ UniqueTags(fb) /\ ToTags(fb) \subseteq F
      /\ UniqueTags(psn) /\ ToTags(psn) \subseteq P
  BY ListTags
<1>2. IsList(def) /\ IsList(ns) /\ IsList(fb) /\ IsList(psn) /\ IsList(auto)
  BY PlainServers, AutoServers DEF DNSLists
<1>3. UniqueTags(auto) /\ ToTags(auto) \subseteq A
  <2>1. UniqueTags(auto) /\ ToTags(auto) \subseteq {NumberedTag("def-auto-", i) : i \in 1..MaxBootstrap}
    BY AutoTags
  <2>2. 1..MaxBootstrap \subseteq Positions(dns)
    BY DEF Positions
  <2> QED
    BY <2>1, <2>2 DEF Numbered
<1>4. /\ D \cap N = {} /\ D \cap F = {} /\ D \cap P = {} /\ D \cap A = {}
      /\ N \cap F = {} /\ N \cap P = {} /\ N \cap A = {}
      /\ F \cap P = {} /\ F \cap A = {} /\ P \cap A = {}
  <2>1. \A p, q \in TagPrefixes : p # q => Numbered(p, dns) \cap Numbered(q, dns) = {}
    BY NumberedApart
  <2>2. "def-" \in TagPrefixes /\ "ns-" \in TagPrefixes /\ "fb-" \in TagPrefixes
        /\ "psn-" \in TagPrefixes /\ "def-auto-" \in TagPrefixes
    BY DEF TagPrefixes
  <2> QED
    BY <2>1, <2>2
<1>5. D \cap OwnTags = {} /\ N \cap OwnTags = {} /\ F \cap OwnTags = {} /\ P \cap OwnTags = {}
      /\ A \cap OwnTags = {}
  BY NumberedApart DEF TagPrefixes
<1>6. all = def \o ns \o fb \o psn \o rest
  BY DEF AllServers
<1>7. rest = IF def = <<>> THEN auto ELSE <<>>
  BY DEF BootstrapServers
<1> HIDE DEF def, ns, fb, psn, auto, rest, all, D, N, F, P, A
<1>8. IsList(rest) /\ UniqueTags(rest) /\ ToTags(rest) \subseteq A
  <2>1. IsList(<<>>) /\ UniqueTags(<<>>) /\ ToTags(<<>>) = {}
    BY ShortLists DEF UniqueTags, ToTags
  <2> QED
    BY <1>2, <1>3, <1>7, <2>1
<1> DEFINE two == def \o ns
           three == two \o fb
           four == three \o psn
           five == four \o rest
<1>9. IsList(two) /\ UniqueTags(two) /\ ToTags(two) = ToTags(def) \cup ToTags(ns)
      /\ ToTags(two) \subseteq D \cup N
  BY <1>1, <1>2, <1>4, UniqueJoin
<1> HIDE DEF two
<1>10. IsList(three) /\ UniqueTags(three) /\ ToTags(three) = ToTags(two) \cup ToTags(fb)
       /\ ToTags(three) \subseteq (D \cup N) \cup F
  <2>1. (D \cup N) \cap F = {}
    BY <1>4
  <2> QED
    BY <1>1, <1>2, <1>9, <2>1, UniqueJoin
<1> HIDE DEF three
<1>11. IsList(four) /\ UniqueTags(four) /\ ToTags(four) = ToTags(three) \cup ToTags(psn)
       /\ ToTags(four) \subseteq ((D \cup N) \cup F) \cup P
  <2>1. ((D \cup N) \cup F) \cap P = {}
    BY <1>4
  <2> QED
    BY <1>1, <1>2, <1>10, <2>1, UniqueJoin
<1> HIDE DEF four
<1>12. IsList(five) /\ UniqueTags(five) /\ ToTags(five) = ToTags(four) \cup ToTags(rest)
       /\ ToTags(five) \subseteq (((D \cup N) \cup F) \cup P) \cup A
  <2>1. (((D \cup N) \cup F) \cup P) \cap A = {}
    BY <1>4
  <2> QED
    BY <1>8, <1>11, <2>1, UniqueJoin
<1>13. all = five
  BY <1>6 DEF two, three, four
<1> HIDE DEF five
<1>14. ToTags(all) \cap OwnTags = {}
  BY <1>5, <1>12, <1>13
<1>15. ToTags(all) \cap N \subseteq ToTags(ns)
  <2>1. ToTags(all) = (((ToTags(def) \cup ToTags(ns)) \cup ToTags(fb)) \cup ToTags(psn)) \cup ToTags(rest)
    BY <1>9, <1>10, <1>11, <1>12, <1>13
  <2> QED
    BY <1>1, <1>4, <1>8, <2>1
<1>16. UniqueTags(all) /\ ToTags(all) \cap OwnTags = {} /\ ToTags(all) \cap N \subseteq ToTags(ns)
  BY <1>12, <1>13, <1>14, <1>15
<1> QED
  BY <1>16 DEF all, N, ns

LEMMA UserTags ==
  ASSUME NEW dns, DNSLists(dns), TagsApart(dns), NEW hosts, NEW detour,
         NEW b, b = UserServers(dns, hosts, detour)
  PROVE  /\ UniqueTags(b)
         /\ ToTags(b) \subseteq ToTags(AllServers(dns, detour)) \cup {"fakeip-dns", "hosts"}
<1> DEFINE all == AllServers(dns, detour)
           boot == BootstrapServers(dns)
           listed == ListedServers(dns, detour)
           F == Server("fakeip-dns", "fakeip", "", "")
           H == Server("hosts", "hosts", "", "")
           fake == IF dns.fakeip THEN <<F>> ELSE <<>>
           host == IF UsesHosts(dns, hosts) THEN <<H>> ELSE <<>>
           both == listed \o fake
           full == both \o host
<1>1. /\ IsList(boot) /\ IsList(all)
      /\ \A s \in ToSet(all) : Plain(s, detour)
  BY InputServers
<1>2. listed = [i \in DOMAIN all |-> SetDomainResolver(all[i], boot)]
  BY DEF ListedServers, AllServers
<1>3. b = [i \in DOMAIN full |-> IF dns.preferH3 /\ full[i].type = "https"
                                   THEN [full[i] EXCEPT !.type = "h3"] ELSE full[i]]
  BY DEF UserServers, PreferH3
<1>4. /\ IsServer(F) /\ F.tag = "fakeip-dns"
      /\ IsServer(H) /\ H.tag = "hosts"
  BY DEF Server, IsServer, ServerFields
<1>5. UniqueTags(all) /\ ToTags(all) \cap OwnTags = {}
  BY AllTags
<1> HIDE DEF all, boot, listed, F, H
<1>6. \A i \in DOMAIN all : IsServer(listed[i]) /\ listed[i].tag = all[i].tag
  <2> TAKE i \in DOMAIN all
  <2>1. all[i] \in ToSet(all)
    BY DEF ToSet
  <2>2. IsServer(all[i]) /\ all[i].resolver = ""
    BY <1>1, <2>1 DEF Plain
  <2> DEFINE x == all[i]
             y == listed[i]
  <2>3. y = SetDomainResolver(x, boot)
    BY <1>2
  <2> HIDE DEF x, y
  <2>4. Same(y, x)
    BY <1>1, <2>2, <2>3, Resolved DEF x
  <2> QED
    BY <2>4 DEF Same, x, y
<1>7. listed = [i \in DOMAIN all |-> listed[i]]
  BY <1>2
<1>8. /\ IsList(listed) /\ DOMAIN listed = DOMAIN all
      /\ ToTags(listed) = ToTags(all) /\ UniqueTags(listed)
  BY <1>1, <1>5, <1>6, <1>7, MappedList, MappedTags
<1>9. \A s \in ToSet(listed) : IsServer(s)
  BY <1>6, <1>8 DEF ToSet
<1>10. /\ IsList(fake) /\ UniqueTags(fake) /\ ToTags(fake) \subseteq {"fakeip-dns"}
       /\ IsList(host) /\ UniqueTags(host) /\ ToTags(host) \subseteq {"hosts"}
       /\ \A s \in ToSet(fake) \cup ToSet(host) : IsServer(s)
  <2>1. ASSUME NEW s
        PROVE  IsList(<<s>>) /\ UniqueTags(<<s>>) /\ ToTags(<<s>>) = {s.tag} /\ ToSet(<<s>>) = {s}
    <3>1. IsList(<<s>>) /\ ToSet(<<s>>) = {s}
      BY ShortLists
    <3>2. UniqueTags(<<s>>)
      BY DEF UniqueTags
    <3>3. ToTags(<<s>>) = {s.tag}
      BY <3>1, TagsOfList
    <3> QED
      BY <3>1, <3>2, <3>3
  <2>2. IsList(<<>>) /\ UniqueTags(<<>>) /\ ToTags(<<>>) = {} /\ ToSet(<<>>) = {}
    BY ShortLists DEF UniqueTags, ToTags
  <2>3. fake \in {<<>>, <<F>>} /\ host \in {<<>>, <<H>>}
    OBVIOUS
  <2> HIDE DEF fake, host
  <2>4. IsList(fake) /\ UniqueTags(fake) /\ ToTags(fake) \subseteq {"fakeip-dns"}
        /\ ToSet(fake) \subseteq {F}
    BY <1>4, <2>1, <2>2, <2>3
  <2>5. IsList(host) /\ UniqueTags(host) /\ ToTags(host) \subseteq {"hosts"}
        /\ ToSet(host) \subseteq {H}
    BY <1>4, <2>1, <2>2, <2>3
  <2> QED
    BY <1>4, <2>4, <2>5
<1> HIDE DEF fake, host
<1>11. "fakeip-dns" \notin ToTags(all) /\ "hosts" \notin ToTags(all)
  BY <1>5 DEF OwnTags
<1>12. /\ IsList(both) /\ UniqueTags(both) /\ ToTags(both) \subseteq ToTags(all) \cup {"fakeip-dns"}
       /\ \A s \in ToSet(both) : IsServer(s)
  <2>1. ToTags(all) \cap {"fakeip-dns"} = {}
    BY <1>11
  <2>2. ToTags(listed) \subseteq ToTags(all)
    BY <1>8
  <2>3. IsList(both) /\ UniqueTags(both) /\ ToTags(both) \subseteq ToTags(all) \cup {"fakeip-dns"}
    BY <1>8, <1>10, <2>1, <2>2, UniqueJoin
  <2>4. ToSet(both) = ToSet(listed) \cup ToSet(fake)
    BY <1>8, <1>10, ConcatList
  <2> QED
    BY <1>9, <1>10, <2>3, <2>4
<1> HIDE DEF both
<1>13. /\ IsList(full) /\ UniqueTags(full)
       /\ ToTags(full) \subseteq (ToTags(all) \cup {"fakeip-dns"}) \cup {"hosts"}
       /\ \A s \in ToSet(full) : IsServer(s)
  <2>1. (ToTags(all) \cup {"fakeip-dns"}) \cap {"hosts"} = {}
    BY <1>11
  <2>2. IsList(full) /\ UniqueTags(full)
        /\ ToTags(full) \subseteq (ToTags(all) \cup {"fakeip-dns"}) \cup {"hosts"}
    BY <1>10, <1>12, <2>1, UniqueJoin
  <2>3. ToSet(full) = ToSet(both) \cup ToSet(host)
    BY <1>10, <1>12, ConcatList
  <2> QED
    BY <1>10, <1>12, <2>2, <2>3
<1> HIDE DEF full
<1>14. \A i \in DOMAIN full : b[i].tag = full[i].tag
  <2> TAKE i \in DOMAIN full
  <2> DEFINE x == full[i]
             y == b[i]
  <2>1. IsServer(x)
    BY <1>13 DEF ToSet
  <2>2. y = IF dns.preferH3 /\ x.type = "https" THEN [x EXCEPT !.type = "h3"] ELSE x
    BY <1>3
  <2> HIDE DEF x, y
  <2>3. y.tag = x.tag
    BY <2>1, <2>2, Preferred DEF Same
  <2> QED
    BY <2>3 DEF x, y
<1>15. b = [i \in DOMAIN full |-> b[i]]
  BY <1>3
<1>16. ToTags(b) = ToTags(full) /\ UniqueTags(b)
  BY <1>13, <1>14, <1>15, MappedTags
<1>17. ToTags(b) \subseteq ToTags(all) \cup {"fakeip-dns", "hosts"}
  BY <1>13, <1>16
<1> QED
  BY <1>16, <1>17 DEF all

LEMMA ServerTags ==
  ASSUME NEW dns, DNSLists(dns), TagsApart(dns), NEW hosts, NEW detour,
         NEW d, d = TranslateDNS(dns, hosts, detour)
  PROVE  /\ IsList(d.servers) /\ UniqueTags(d.servers)
         /\ "" \notin ToTags(d.servers)
         /\ ToTags(d.servers) \cap Numbered("ns-", dns)
              \subseteq ToTags(BuildDNSServerEntries(dns.ns, "ns-", detour))
<1> DEFINE b == UserServers(dns, hosts, detour)
           all == AllServers(dns, detour)
           N == Numbered("ns-", dns)
           ns == BuildDNSServerEntries(dns.ns, "ns-", detour)
           bootstrap == NeedsBootstrap(PreferUDPServer(BootstrapServers(dns)), b)
           one == <<BootstrapDNS>>
<1>1. d.servers = IF ~dns.enable THEN one
                  ELSE IF bootstrap THEN b \o one ELSE b
  <2>1. IsList(b)
    BY UserServersMade
  <2>2. Append(b, BootstrapDNS) = b \o one
    BY <2>1 DEF IsList
  <2>3. d.servers = IF ~dns.enable THEN one
                    ELSE IF bootstrap THEN Append(b, BootstrapDNS) ELSE b
    BY DEF TranslateDNS, UserServers, DisabledDNS
  <2> HIDE DEF b, bootstrap, one
  <2> QED
    BY <2>2, <2>3
<1>2. IsList(b) /\ UniqueTags(b) /\ ToTags(b) \subseteq ToTags(all) \cup {"fakeip-dns", "hosts"}
  BY UserServersMade, UserTags
<1>3. ToTags(all) \cap OwnTags = {} /\ ToTags(all) \cap N \subseteq ToTags(ns) /\ N \cap OwnTags = {}
  BY AllTags, NumberedApart DEF TagPrefixes
<1>4. BootstrapDNS.tag = "bootstrap-dns"
  BY DEF BootstrapDNS, Server
<1>5. IsList(one) /\ UniqueTags(one) /\ ToTags(one) = {"bootstrap-dns"}
  BY <1>4, ShortLists DEF UniqueTags, ToTags
<1> HIDE DEF b, all, N, ns, bootstrap, one
<1>6. OwnTags = {NoName, "bootstrap-dns", "fakeip-dns", "hosts"}
  BY Zenon DEF OwnTags, NoName
<1>7. NoName # "bootstrap-dns" /\ NoName # "fakeip-dns" /\ NoName # "hosts"
  BY Zenon DEF NoName
<1> DEFINE A == ToTags(all) \cup {"fakeip-dns", "hosts"}
<1>8. A \cap {"bootstrap-dns"} = {} /\ NoName \notin A /\ A \cap N \subseteq ToTags(ns)
  BY <1>3, <1>6, <1>7
<1>9. "bootstrap-dns" \notin N
  BY <1>3, <1>6
<1> HIDE DEF A
<1>10. /\ IsList(b \o one) /\ UniqueTags(b \o one) /\ ToTags(b \o one) \subseteq A \cup {"bootstrap-dns"}
  <2>1. ToTags(b) \subseteq A /\ ToTags(one) \subseteq {"bootstrap-dns"}
    BY <1>2, <1>5 DEF A
  <2> QED
    BY <1>2, <1>5, <1>8, <2>1, UniqueJoin
<1>11. IsList(d.servers) /\ UniqueTags(d.servers) /\ ToTags(d.servers) \subseteq A \cup {"bootstrap-dns"}
  <2>1. ToTags(b) \subseteq A
    BY <1>2 DEF A
  <2> QED
    BY <1>1, <1>2, <1>5, <1>10, <2>1
<1>12. NoName \notin ToTags(d.servers)
  BY <1>7, <1>8, <1>11
<1>13. "" \notin ToTags(d.servers)
  BY <1>12, Zenon DEF NoName
<1>14. ToTags(d.servers) \cap N \subseteq ToTags(ns)
  BY <1>8, <1>9, <1>11
<1> QED
  BY <1>11, <1>13, <1>14 DEF N, ns

LEMMA SameTag ==
  ASSUME NEW s, UniqueTags(s)
  PROVE  \A x, y \in ToSet(s) : x.tag = y.tag => x = y
BY DEF UniqueTags, ToSet

LEMMA TheServer ==
  ASSUME NEW c, UniqueTags(c.dns.servers)
  PROVE  /\ \A s \in ToSet(c.dns.servers) : ServerIn(c, s.tag) = s
         /\ \A tag \in ToTags(c.dns.servers) :
               ServerIn(c, tag) \in ToSet(c.dns.servers) /\ ServerIn(c, tag).tag = tag
<1> DEFINE S == ToSet(c.dns.servers)
<1>1. \A x, y \in S : x.tag = y.tag => x = y
  BY SameTag
<1>2. \A tag : ServerIn(c, tag) = CHOOSE s \in S : s.tag = tag
  BY DEF ServerIn
<1>3. \A tag : tag \in ToTags(c.dns.servers) => \E s \in S : s.tag = tag
  BY TagsOfList
<1> HIDE DEF S
<1>4. ASSUME NEW tag, \E s \in S : s.tag = tag
      PROVE  ServerIn(c, tag) \in S /\ ServerIn(c, tag).tag = tag
  BY <1>2, <1>4
<1>5. ASSUME NEW s \in S PROVE ServerIn(c, s.tag) = s
  <2>1. ServerIn(c, s.tag) \in S /\ ServerIn(c, s.tag).tag = s.tag
    BY <1>4
  <2> QED
    BY <1>1, <2>1
<1> QED
  BY <1>3, <1>4, <1>5 DEF S

(***************************************************************************)
(* The section that is translated is one of an input, or the one a list of *)
(* URIs is given.                                                          *)
(***************************************************************************)
SectionInv == input.kind = "yaml" => input.dns \in Sections

LEMMA SectionInvariant == Spec => [](ConfigInv /\ SectionInv)
<1>1. Init => SectionInv
  BY DEF Init, SectionInv, Sections
<1>2. SectionInv /\ [Next]_vars => SectionInv'
  <2> SUFFICES ASSUME SectionInv, [Next]_vars PROVE SectionInv'
    OBVIOUS
  <2>1. \/ UNCHANGED input
        \/ input' = BuildRawConfigFromURIs(input.uris, input.cc)
        \/ input'.kind = "json"
    <3>1. CASE Detect
      BY <3>1 DEF Detect
    <3>2. CASE Reconvert
      <4>1. input' = [kind |-> "json", cc |-> input.cc, config |-> out]
        BY <3>2 DEF Reconvert
      <4> QED
        BY <4>1
    <3>3. CASE UpgradeStored \/ Proxies \/ Groups \/ CleanupGroups \/ DefaultGroups
      BY <3>3 DEF UpgradeStored, Proxies, Groups, CleanupGroups, DefaultGroups
    <3>4. CASE Rules \/ DNS \/ DNSRules \/ Assemble \/ Validate
      BY <3>4 DEF Rules, DNS, DNSRules, Assemble, Validate
    <3>5. CASE UNCHANGED vars
      BY <3>5 DEF vars
    <3> QED
      BY <3>1, <3>2, <3>3, <3>4, <3>5 DEF Next
  <2>2. CASE UNCHANGED input
    BY <2>2 DEF SectionInv
  <2>3. CASE input' = BuildRawConfigFromURIs(input.uris, input.cc)
    <3>1. input'.dns = DefaultDNS
      BY <2>3 DEF BuildRawConfigFromURIs
    <3> QED
      BY <3>1 DEF SectionInv, Sections
  <2>4. CASE input'.kind = "json"
    BY <2>4 DEF SectionInv
  <2> QED
    BY <2>1, <2>2, <2>3, <2>4
<1> QED
  BY <1>1, <1>2, ConfigInvariant, PTL DEF Spec

(* The DNS section of a translated configuration. *)
LEMMA OutDNS ==
  ASSUME ConfigInv, SectionInv, Ended
  PROVE  /\ DNSLists(input.dns) /\ TagsApart(input.dns) /\ input.dns \in Sections
         /\ out.dns = FullDNS(input, FirstGroupTag, t.ech)
         /\ out.dns.servers = DNSOf(input, FirstGroupTag).servers
         /\ out.dns.final = DNSOf(input, FirstGroupTag).final
         /\ out.dns.enabled = DNSOf(input, FirstGroupTag).enabled
         /\ t.dns.enabled = DNSOf(input, FirstGroupTag).enabled
         /\ IsList(out.dns.servers) /\ UniqueTags(out.dns.servers)
<1>1. DNSLists(input.dns)
  BY DEF Ended, ConfigInv, StubInv, InputInv, ClashNodes
<1>2. input.dns \in Sections /\ TagsApart(input.dns)
  BY TagsAssumption DEF SectionInv, Ended
<1> DEFINE first == FirstGroupTag
           d == DNSOf(input, first)
           f == FullDNS(input, first, t.ech)
<1>3. out.dns = f
  BY ShapeOfOut DEF Shape
<1>4. t.dns = f
  BY DEF ConfigInv, FormInv
<1>5. f.servers = d.servers /\ f.final = d.final /\ f.enabled = d.enabled
  BY <1>1, FullDNSFacts
<1>6. IsList(d.servers) /\ UniqueTags(d.servers)
  BY <1>1, <1>2, ServerTags DEF DNSOf
<1> HIDE DEF first, d, f
<1> QED
  BY <1>1, <1>2, <1>3, <1>4, <1>5, <1>6 DEF first, d, f

(***************************************************************************)
(* The servers that resolve the addresses of others.  The entries of       *)
(* default-nameserver are addresses, or read the settings of the system.   *)
(***************************************************************************)
AddressesOnly(dns) ==
  \A ns \in ToSet(dns.def) :
     ns.scheme # "fakeip" /\ (ns.ip \/ ns.scheme \in {"system", "dhcp", "rcode", ""})

(* A server that is reached by its address and without a proxy. *)
Reachable(s) == s.detour = NoName /\ s.addr # "domain" /\ s.type \notin {"fakeip", "hosts"}

LEMMA ParsedReachable ==
  ASSUME NEW s, NEW ns, NEW tag, Parsed(s, ns, tag, ""), ns.scheme # "fakeip",
         ns.ip \/ ns.scheme \in {"system", "dhcp", "rcode", ""}
  PROVE  Reachable(s)
<1>1. s.detour = NoName
  BY Zenon DEF Parsed, NoName
<1>2. s.addr # "domain"
  BY Zenon DEF Parsed
<1>3. s.type \notin {"fakeip", "hosts"}
  BY Zenon DEF Parsed
<1> QED
  BY <1>1, <1>2, <1>3 DEF Reachable

LEMMA BootReachable ==
  ASSUME NEW dns, DNSLists(dns), AddressesOnly(dns)
  PROVE  \A s \in ToSet(BootstrapServers(dns)) : Reachable(s)
<1> DEFINE def == BuildDNSServerEntries(dns.def, "def-", "")
           auto == AutoBootstrap(dns.ns)
<1>1. BootstrapServers(dns) = IF def # <<>> THEN def ELSE auto
  BY DEF BootstrapServers
<1>2. dns.def \in Seq(NameServerInput) /\ dns.ns \in Seq(NameServerInput)
  BY DEF DNSLists
<1>3. \A s \in ToSet(def) : Reachable(s)
  <2>1. PICK p \in [DOMAIN def -> DOMAIN dns.def] :
          \A n \in DOMAIN def : Parsed(def[n], dns.def[p[n]], NumberedTag("def-", p[n]), "")
    BY <1>2, BuiltServers
  <2> SUFFICES ASSUME NEW n \in DOMAIN def PROVE Reachable(def[n])
    BY DEF ToSet
  <2> DEFINE ns == dns.def[p[n]]
  <2>2. ns \in ToSet(dns.def)
    BY <2>1 DEF ToSet
  <2>3. Parsed(def[n], ns, NumberedTag("def-", p[n]), "")
    BY <2>1
  <2> HIDE DEF def, ns
  <2> QED
    BY <2>2, <2>3, ParsedReachable DEF AddressesOnly
<1>4. \A s \in ToSet(auto) : Reachable(s)
  <2> SUFFICES ASSUME NEW s \in ToSet(auto) PROVE Reachable(s)
    OBVIOUS
  <2>1. PICK ns \in ToSet(dns.ns) : \E tag : ns.ip /\ Parsed(s, ns, tag, "")
    BY <1>2, AutoServers
  <2>2. ns \in NameServerInput
    BY <1>2, <2>1, ListFacts
  <2>3. ns.scheme # "fakeip"
    BY <2>1, <2>2 DEF NameServerInput
  <2> HIDE DEF auto
  <2> QED
    BY <2>1, <2>3, ParsedReachable
<1> QED
  BY <1>1, <1>3, <1>4

LEMMA ServerOrigin ==
  ASSUME NEW dns, DNSLists(dns), NEW hosts, NEW detour,
         NEW d, d = TranslateDNS(dns, hosts, detour)
  PROVE  \A s \in ToSet(d.servers) : s = BootstrapDNS \/ Made(s, dns, hosts, detour)
BY DNSServers

LEMMA ServersKept ==
  ASSUME NEW dns, DNSLists(dns), NEW hosts, NEW detour,
         NEW d, d = TranslateDNS(dns, hosts, detour), dns.enable
  PROVE  ToTags(AllServers(dns, detour)) \subseteq ToTags(d.servers)
BY DNSServers

LEMMA ResolverReachable ==
  ASSUME NEW dns, DNSLists(dns), TagsApart(dns), AddressesOnly(dns), NEW hosts, NEW detour,
         NEW d, d = TranslateDNS(dns, hosts, detour),
         NEW s \in ToSet(d.servers), s.tag \in ToTags(BootstrapServers(dns))
  PROVE  Reachable(s)
<1> DEFINE all == AllServers(dns, detour)
           boot == BootstrapServers(dns)
<1>1. /\ ToSet(boot) \subseteq ToSet(all)
      /\ UniqueTags(all) /\ ToTags(all) \cap OwnTags = {}
  BY InputServers, AllTags
<1>2. PICK b \in ToSet(boot) : b.tag = s.tag
  BY TagsOfList
<1>3. Reachable(b)
  BY <1>2, BootReachable
<1>4. s.tag \notin OwnTags
  BY <1>1, <1>2, TagsOfList
<1>5. /\ BootstrapDNS.tag \in OwnTags
      /\ Server("fakeip-dns", "fakeip", "", "").tag \in OwnTags
      /\ Server("hosts", "hosts", "", "").tag \in OwnTags
  BY DEF BootstrapDNS, Server, OwnTags
<1>6. s = BootstrapDNS \/ Made(s, dns, hosts, detour)
  BY ServerOrigin
<1>7. PICK srv \in ToSet(all) :
        Same(s, srv) /\ s.type \in {srv.type, "h3"}
  BY <1>4, <1>5, <1>6 DEF Made
<1>8. srv = b
  <2>1. srv.tag = b.tag
    BY <1>2, <1>7 DEF Same
  <2>2. b \in ToSet(all)
    BY <1>1, <1>2
  <2> HIDE DEF all
  <2> QED
    BY <1>1, <1>7, <2>1, <2>2, SameTag
<1>9. s.detour = b.detour /\ s.addr = b.addr /\ s.type \in {b.type, "h3"}
  BY <1>7, <1>8 DEF Same
<1> QED
  BY <1>3, <1>9 DEF Reachable

LEMMA RouteResolver ==
  ASSUME NEW dns, DNSLists(dns), TagsApart(dns), AddressesOnly(dns), NEW hosts, NEW detour,
         NEW d, d = TranslateDNS(dns, hosts, detour),
         NEW s \in ToSet(d.servers), s.tag = d.resolver
  PROVE  Reachable(s) /\ s.type # "local"
<1> DEFINE b == UserServers(dns, hosts, detour)
           boot == BootstrapServers(dns)
           resolver == PreferUDPServer(boot)
           bootstrap == NeedsBootstrap(resolver, b)
<1>1. d.resolver = IF ~dns.enable \/ bootstrap THEN BootstrapDNS.tag ELSE resolver
  BY DEF TranslateDNS, UserServers, DisabledDNS
<1>2. d.servers = IF ~dns.enable THEN <<BootstrapDNS>>
                  ELSE IF bootstrap THEN Append(b, BootstrapDNS) ELSE b
  BY DEF TranslateDNS, UserServers, DisabledDNS
<1>3. IsList(b)
  BY UserServersMade
<1>4. bootstrap <=> resolver = "" \/ IsLocalDNSServer(resolver, b)
  BY DEF NeedsBootstrap
<1>5. resolver \in ToTags(boot) \cup {""}
  BY InputServers, PreferredUDP
<1>6. UniqueTags(d.servers)
  BY ServerTags
<1>7. Reachable(BootstrapDNS) /\ BootstrapDNS.type # "local"
  <2>1. BootstrapDNS.detour = "" /\ BootstrapDNS.addr = "ip" /\ BootstrapDNS.type = "udp"
    BY DEF BootstrapDNS, Server
  <2>2. BootstrapDNS.detour = NoName
    BY <2>1, Zenon DEF NoName
  <2> QED
    BY <2>1, <2>2 DEF Reachable
<1>8. IsLocalDNSServer(resolver, b) <=> \E x \in ToSet(b) : x.tag = resolver /\ x.type = "local"
  BY DEF IsLocalDNSServer, ToSet
<1> HIDE DEF b, boot, resolver, bootstrap
<1>9. CASE ~dns.enable \/ bootstrap
  <2>1. BootstrapDNS \in ToSet(d.servers)
    <3>1. BootstrapDNS \in ToSet(<<BootstrapDNS>>) /\ BootstrapDNS \in ToSet(Append(b, BootstrapDNS))
      BY <1>3, AppendedTags, ShortLists
    <3> QED
      BY <1>2, <1>9, <3>1
  <2>2. s.tag = BootstrapDNS.tag
    BY <1>1, <1>9
  <2>3. s = BootstrapDNS
    BY <1>6, <2>1, <2>2, SameTag
  <2> QED
    BY <1>7, <2>3
<1>10. CASE dns.enable /\ ~bootstrap
  <2>1. s \in ToSet(b) /\ s.tag = resolver
    BY <1>1, <1>2, <1>10
  <2>2. s.type # "local"
    BY <1>4, <1>8, <1>10, <2>1
  <2>3. resolver \in ToTags(boot)
    BY <1>4, <1>5, <1>10
  <2>4. Reachable(s)
    BY <2>1, <2>3, ResolverReachable DEF boot
  <2> QED
    BY <2>2, <2>4
<1> QED
  BY <1>9, <1>10

LEMMA BootstrapHold ==
  ASSUME \A dns \in Sections : AddressesOnly(dns)
  PROVE  ConfigInv /\ SectionInv => BootstrapIsDirect
<1> SUFFICES ASSUME ConfigInv, SectionInv, Translated PROVE BootstrapIsDirect
  BY DEF BootstrapIsDirect
<1>0. Ended
  BY DEF Translated, Ended
<1> DEFINE first == FirstGroupTag
           d == DNSOf(input, first)
           dns == input.dns
           servers == out.dns.servers
           R == ServerIn(out, out.route.resolver)
<1>1. /\ DNSLists(dns) /\ TagsApart(dns) /\ AddressesOnly(dns)
      /\ servers = d.servers /\ IsList(servers) /\ UniqueTags(servers)
  BY <1>0, OutDNS
<1>2. out.route.resolver = d.resolver
  BY <1>0, ShapeOfOut DEF Shape
<1>3. d = TranslateDNS(dns, input.hosts, first)
  BY DEF DNSOf
<1>4. d.resolver \in ToTags(d.servers)
  <2> HIDE DEF d, dns, first
  <2> QED
    BY <1>1, <1>3, DNSFacts
<1>5. \A tag \in ToTags(servers) : ServerIn(out, tag) \in ToSet(servers) /\ ServerIn(out, tag).tag = tag
  BY <1>1, TheServer
<1> HIDE DEF first, d, dns, servers
<1>6. Reachable(R) /\ R.type # "local"
  BY <1>1, <1>2, <1>3, <1>4, <1>5, RouteResolver
<1>7. ASSUME NEW s \in ToSet(servers), s.resolver # NoName
      PROVE  Reachable(ServerIn(out, s.resolver))
  <2> DEFINE boot == BootstrapServers(dns)
             x == ServerIn(out, s.resolver)
  <2>1. s = BootstrapDNS \/ Made(s, dns, input.hosts, first)
    BY <1>1, <1>3, ServerOrigin
  <2>2. s.resolver \in ToTags(boot) \cup {NoName}
    <3>1. BootstrapDNS.resolver = "" /\ Server("fakeip-dns", "fakeip", "", "").resolver = ""
          /\ Server("hosts", "hosts", "", "").resolver = ""
      BY DEF BootstrapDNS, Server
    <3>2. Made(s, dns, input.hosts, first) =>
            \/ s.resolver \in ToTags(boot) \cup {""}
            \/ s = Server("fakeip-dns", "fakeip", "", "")
            \/ s = Server("hosts", "hosts", "", "")
      BY Zenon DEF Made
    <3>3. s.resolver \in ToTags(boot) \cup {""}
      BY <2>1, <3>1, <3>2
    <3> QED
      BY <3>3, Zenon DEF NoName
  <2>3. s.resolver \in ToTags(boot)
    BY <1>7, <2>2
  <2>4. s.resolver \in ToTags(servers)
    <3>1. s.resolver \in ToTags(d.servers) \cup {""}
      BY <1>1, <1>3, DNSServers
    <3>2. s.resolver \in ToTags(servers) \cup {NoName}
      BY <1>1, <3>1, Zenon DEF NoName
    <3> QED
      BY <1>7, <3>2
  <2>5. x \in ToSet(d.servers) /\ x.tag \in ToTags(boot)
    BY <1>1, <1>5, <2>3, <2>4
  <2> HIDE DEF x, boot
  <2>6. Reachable(x)
    BY <1>1, <1>3, <2>5, ResolverReachable DEF boot
  <2> QED
    BY <2>6 DEF x
<1>8. R.detour = "" /\ R.addr # "domain" /\ R.type \notin {"local", "fakeip", "hosts"}
  <2>1. R.detour = NoName /\ R.addr # "domain" /\ R.type \notin {"local", "fakeip", "hosts"}
    BY <1>6 DEF Reachable
  <2> HIDE DEF R
  <2> QED
    BY <2>1, Zenon DEF NoName
<1>9. ASSUME NEW i \in DOMAIN servers, servers[i].resolver # ""
      PROVE  LET r == ServerIn(out, servers[i].resolver)
             IN r.detour = "" /\ r.addr # "domain" /\ r.type \notin {"fakeip", "hosts"}
  <2> DEFINE s == servers[i]
             r == ServerIn(out, s.resolver)
  <2>1. s \in ToSet(servers)
    BY DEF ToSet
  <2>2. s.resolver # NoName
    BY <1>9, Zenon DEF NoName
  <2>3. Reachable(r)
    BY <1>7, <2>1, <2>2
  <2> HIDE DEF r
  <2>4. r.detour = NoName /\ r.addr # "domain" /\ r.type \notin {"fakeip", "hosts"}
    BY <2>3 DEF Reachable
  <2>5. r.detour = "" /\ r.addr # "domain" /\ r.type \notin {"fakeip", "hosts"}
    BY <2>4, Zenon DEF NoName
  <2> QED
    BY <2>5 DEF r
<1> QED
  BY <1>8, <1>9, Zenon DEF BootstrapIsDirect, servers

(***************************************************************************)
(* The address of a proxy is resolved without a proxy, without going round *)
(* in a circle and without the settings of the system, and the address of  *)
(* a DNS server without a proxy and by a server that has no domain to      *)
(* resolve itself, when the entries of default-nameserver are addresses    *)
(* or "system", "dhcp" (dns.go:72-76, dns.go:115-141, dns.go:283-288).     *)
(***************************************************************************)
THEOREM ResolversAreDirect ==
  ASSUME \A dns \in Sections : AddressesOnly(dns)
  PROVE  Spec => []BootstrapIsDirect
<1>1. ConfigInv /\ SectionInv => BootstrapIsDirect
  BY BootstrapHold
<1> QED
  BY <1>1, SectionInvariant, PTL

(***************************************************************************)
(* How a query is answered: the first rule in S decides, "otherwise" is    *)
(* what comes after the rules.                                             *)
(***************************************************************************)
Taken(rules, S, otherwise) ==
  IF ToSet(rules) \cap S = {} THEN otherwise ELSE (CHOOSE x : First(rules, S, x)).server

LEMMA TakenFirst ==
  ASSUME NEW s, IsList(s), NEW S, NEW o
  PROVE  /\ ToSet(s) \cap S = {} => Taken(s, S, o) = o
         /\ \A x : First(s, S, x) => Taken(s, S, o) = x.server
<1>1. ToSet(s) \cap S = {} => Taken(s, S, o) = o
  BY DEF Taken
<1>2. ASSUME NEW x, First(s, S, x)
      PROVE  Taken(s, S, o) = x.server
  <2>1. PICK i \in DOMAIN s : s[i] = x /\ x \in S /\ \A j \in DOMAIN s : j < i => s[j] \notin S
    BY <1>2 DEF First
  <2>2. ToSet(s) \cap S # {}
    BY <2>1 DEF ToSet
  <2>3. DOMAIN s = 1..Len(s) /\ Len(s) \in Nat
    BY ListFacts
  <2>4. ASSUME NEW y, First(s, S, y) PROVE y = x
    <3>1. PICK k \in DOMAIN s : s[k] = y /\ y \in S /\ \A j \in DOMAIN s : j < k => s[j] \notin S
      BY <2>4 DEF First
    <3>2. ~(k < i) /\ ~(i < k)
      BY <2>1, <3>1
    <3>3. k = i
      BY <2>3, <3>2
    <3> QED
      BY <2>1, <3>1, <3>3
  <2>5. (CHOOSE y : First(s, S, y)) = x
    BY <1>2, <2>4
  <2> QED
    BY <2>2, <2>5 DEF Taken
<1> QED
  BY <1>1, <1>2

LEMMA TakenConcat ==
  ASSUME NEW s, NEW u, IsList(s), IsList(u), NEW S, NEW o
  PROVE  Taken(s \o u, S, o) = Taken(s, S, Taken(u, S, o))
<1> DEFINE w == s \o u
<1>1. IsList(w) /\ ToSet(w) = ToSet(s) \cup ToSet(u)
  BY ConcatList
<1>2. CASE ToSet(w) \cap S = {}
  <2>1. ToSet(s) \cap S = {} /\ ToSet(u) \cap S = {}
    BY <1>1, <1>2
  <2> HIDE DEF w
  <2>2. Taken(w, S, o) = o /\ Taken(u, S, o) = o /\ Taken(s, S, o) = o
    BY <1>1, <1>2, <2>1, TakenFirst
  <2> QED
    BY <2>2 DEF w
<1>3. ASSUME ToSet(w) \cap S # {} PROVE Taken(w, S, o) = Taken(s, S, Taken(u, S, o))
  <2>1. PICK x \in S : First(w, S, x)
    <3> HIDE DEF w
    <3> QED
      BY <1>1, <1>3, FirstExists
  <2>2. Taken(w, S, o) = x.server
    <3>1. First(w, S, x)
      BY <2>1
    <3> HIDE DEF w
    <3> QED
      BY <1>1, <3>1, TakenFirst
  <2>3. CASE ToSet(s) \cap S # {}
    <3>1. First(s, S, x)
      BY <2>1, <2>3, FirstFront
    <3>2. Taken(s, S, Taken(u, S, o)) = x.server
      BY <3>1, TakenFirst
    <3> QED
      BY <2>2, <3>2
  <2>4. CASE ToSet(s) \cap S = {}
    <3>1. First(u, S, x)
      BY <2>1, <2>4, FirstBack
    <3>2. Taken(u, S, o) = x.server
      BY <3>1, TakenFirst
    <3>3. Taken(s, S, Taken(u, S, o)) = Taken(u, S, o)
      BY <2>4, TakenFirst
    <3> QED
      BY <2>2, <3>2, <3>3
  <2> QED
    BY <2>3, <2>4
<1> QED
  BY <1>2, <1>3

LEMMA TakenOne ==
  ASSUME NEW r, NEW S, NEW o
  PROVE  /\ Taken(<<r>>, S, o) = IF r \in S THEN r.server ELSE o
         /\ Taken(<<>>, S, o) = o
<1>1. IsList(<<r>>) /\ ToSet(<<r>>) = {r} /\ IsList(<<>>) /\ ToSet(<<>>) = {}
  BY ShortLists
<1>2. r \in S => First(<<r>>, S, r)
  <2>1. DOMAIN <<r>> = {1} /\ <<r>>[1] = r
    OBVIOUS
  <2> QED
    BY <2>1 DEF First
<1>3. Taken(<<>>, S, o) = o
  BY <1>1, TakenFirst
<1>4. r \in S => Taken(<<r>>, S, o) = r.server
  BY <1>1, <1>2, TakenFirst
<1>5. r \notin S => Taken(<<r>>, S, o) = o
  BY <1>1, TakenFirst
<1> QED
  BY <1>3, <1>4, <1>5
LEMMA Asking ==
  \A r, q, mode, evaluated : Matches(r, q, mode, evaluated) <=>
    /\ r.mode \in {NoName, mode}
    /\ r.qtype = {} \/ q.type \in r.qtype
    /\ \/ r.domain \cup r.suffix \cup r.ruleSet = {}
       \/ q.name \in r.domain
       \/ q.suffixes \cap r.suffix # {}
       \/ q.sites \cap r.ruleSet # {}
       \/ r.match /\ evaluated /\ q.addrs \cap r.ruleSet # {}
BY Zenon DEF Matches, NoName

(* A rule about addresses, and the one that obtains them. *)
Responding(r) ==
  /\ r.server # NoName
  /\ r.action \in {NoName, "evaluate"}
  /\ r.action = "evaluate" => /\ r.mode = NoName /\ r.qtype = AddressQueryTypes
                              /\ r.domain \cup r.suffix \cup r.ruleSet = {}
  /\ r.match \in BOOLEAN
  /\ r.match => r.qtype = AddressQueryTypes

(* A rule that answers a query. *)
Asks(r, q, mode) == r.action # "evaluate" /\ Matches(r, q, mode, TRUE)

LEMMA Obtained ==
  ASSUME NEW rules, NEW w, IsList(w), WithActions(rules, w), Justified(w),
         \A i \in DOMAIN w : Responding(w[i]), NEW q, NEW mode
  PROVE  \A i \in DOMAIN w :
            Matches(rules[i], q, mode, Evaluated(rules, i, q, mode)) <=> Matches(w[i], q, mode, TRUE)
<1>1. DOMAIN w = 1..Len(w) /\ Len(w) \in Nat
  BY ListFacts
<1>2. \A i \in DOMAIN w : \A f \in RuleFields \ {"action"} : rules[i][f] = w[i][f]
  BY Zenon DEF WithActions
<1>3. \A i \in DOMAIN w : /\ rules[i].mode = w[i].mode /\ rules[i].qtype = w[i].qtype
                          /\ rules[i].domain = w[i].domain /\ rules[i].suffix = w[i].suffix
                          /\ rules[i].ruleSet = w[i].ruleSet /\ rules[i].match = w[i].match
  BY <1>2 DEF RuleFields
<1>4. \A i \in DOMAIN w : rules[i].action = IF w[i].action = "" /\ w[i].server # ""
                                              THEN "route" ELSE w[i].action
  BY Zenon DEF WithActions
<1>5. \A i \in DOMAIN w : w[i].action = "evaluate" => rules[i].action = "evaluate"
  BY <1>4
<1>6. ASSUME NEW i \in DOMAIN w, w[i].match, q.type \in w[i].qtype
      PROVE  Evaluated(rules, i, q, mode)
  <2>1. PICK j \in DOMAIN w : j < i /\ w[j].action = "evaluate"
    BY <1>6 DEF Justified
  <2>2. q.type \in AddressQueryTypes
    BY <1>6 DEF Responding
  <2>3. w[j].mode = NoName /\ w[j].qtype = AddressQueryTypes
        /\ w[j].domain \cup w[j].suffix \cup w[j].ruleSet = {}
    BY <2>1 DEF Responding
  <2>4. Matches(rules[j], q, mode, FALSE)
    BY <1>3, <2>2, <2>3, Asking
  <2>5. j \in 1..(i - 1) /\ rules[j].action = "evaluate"
    BY <1>1, <1>5, <2>1
  <2> QED
    BY <2>4, <2>5 DEF Evaluated
<1>7. ASSUME NEW i \in DOMAIN w
      PROVE  Matches(rules[i], q, mode, Evaluated(rules, i, q, mode)) <=> Matches(w[i], q, mode, TRUE)
  <2> DEFINE e == Evaluated(rules, i, q, mode)
  <2>1. w[i].match => (w[i].qtype = AddressQueryTypes /\ (q.type \in w[i].qtype => e))
    BY <1>6 DEF Responding
  <2>2. AddressQueryTypes # {}
    BY DEF AddressQueryTypes
  <2> HIDE DEF e
  <2>3. w[i].match \in BOOLEAN
    BY DEF Responding
  <2>4. Matches(rules[i], q, mode, e) <=> Matches(w[i], q, mode, e)
    BY <1>3, Asking
  <2>5. Matches(w[i], q, mode, e) <=> Matches(w[i], q, mode, TRUE)
    BY <2>1, <2>2, <2>3, Asking
  <2> QED
    BY <2>4, <2>5 DEF e
<1> QED
  BY <1>7

LEMMA AnswerTaken ==
  ASSUME NEW dns, NEW w, IsList(w), WithActions(dns.rules, w), Justified(w),
         \A i \in DOMAIN w : Responding(w[i]), NEW q, NEW mode, NEW S,
         \A r \in ToSet(w) : r \in S <=> Asks(r, q, mode)
  PROVE  Answer(dns, q, mode) = Taken(w, S, FirstServer(dns))
<1> DEFINE rules == dns.rules
           hits == {i \in DOMAIN rules :
                      /\ rules[i].action = "route"
                      /\ Matches(rules[i], q, mode, Evaluated(rules, i, q, mode))}
<1>1. Answer(dns, q, mode) = IF hits = {} THEN FirstServer(dns) ELSE rules[Min(hits)].server
  BY DEF Answer
<1>2. IsList(rules) /\ DOMAIN rules = DOMAIN w
  BY Zenon DEF WithActions
<1>3. \A i \in DOMAIN w :
         Matches(rules[i], q, mode, Evaluated(rules, i, q, mode)) <=> Matches(w[i], q, mode, TRUE)
  BY Obtained
<1>4. \A i \in DOMAIN w : rules[i].action = IF w[i].action = NoName /\ w[i].server # NoName
                                              THEN "route" ELSE w[i].action
  BY Zenon DEF WithActions, NoName
<1>5. \A i \in DOMAIN w : \A f \in RuleFields \ {"action"} : rules[i][f] = w[i][f]
  BY Zenon DEF WithActions
<1>6. \A i \in DOMAIN w : rules[i].server = w[i].server
  BY <1>5 DEF RuleFields
<1>7. NoName # "evaluate" /\ NoName # "route"
  BY Zenon DEF NoName
<1>8. \A i \in DOMAIN w : rules[i].action = "route" <=> w[i].action # "evaluate"
  BY <1>4, <1>7 DEF Responding
<1>9. DOMAIN w = 1..Len(w) /\ Len(w) \in Nat
  BY ListFacts
<1>10. Min(hits) = CHOOSE i \in hits : \A j \in hits : i <= j
  BY DEF Min
<1>11. \A i : i \in hits <=> i \in DOMAIN w /\ Asks(w[i], q, mode)
  BY <1>2, <1>3, <1>8 DEF Asks
<1>12. \A i : i \in hits <=> i \in DOMAIN w /\ w[i] \in S
  BY <1>11 DEF ToSet
<1> HIDE DEF hits, rules
<1>13. CASE ToSet(w) \cap S = {}
  <2>1. hits = {}
    BY <1>12, <1>13 DEF ToSet
  <2> QED
    BY <1>1, <1>13, <2>1, TakenFirst
<1>14. ASSUME ToSet(w) \cap S # {}
       PROVE  Answer(dns, q, mode) = Taken(w, S, FirstServer(dns))
  <2>1. PICK x \in S : First(w, S, x)
    BY <1>14, FirstExists
  <2>2. PICK i \in DOMAIN w : w[i] = x /\ \A j \in DOMAIN w : j < i => w[j] \notin S
    BY <2>1 DEF First
  <2>3. i \in hits
    BY <1>12, <2>2
  <2>4. \A j \in hits : j \in DOMAIN w /\ ~(j < i)
    BY <1>12, <2>2
  <2>5. \A j \in hits : i <= j
    BY <1>9, <2>4
  <2>6. \A k \in hits : k <= i => k = i
    BY <1>9, <2>4
  <2>7. (CHOOSE k \in hits : \A j \in hits : k <= j) = i
    BY <2>3, <2>5, <2>6
  <2>8. Answer(dns, q, mode) = x.server
    BY <1>1, <1>6, <1>10, <2>2, <2>3, <2>7
  <2>9. Taken(w, S, FirstServer(dns)) = x.server
    BY <2>1, TakenFirst
  <2> QED
    BY <2>8, <2>9
<1> QED
  BY <1>13, <1>14
(* The rules one after the other.  A rule about names: *)
About(r, domain, suffix, server) ==
  /\ r.mode = NoName /\ r.qtype = {} /\ r.ruleSet = {} /\ r.match = FALSE /\ r.action = NoName
  /\ r.domain = domain /\ r.suffix = suffix /\ r.server = server

LEMMA NamesAsk ==
  ASSUME NEW r, NEW D, NEW X, NEW server, About(r, D, X, server), NEW q, NEW mode
  PROVE  Asks(r, q, mode) <=> D \cup X = {} \/ q.name \in D \/ q.suffixes \cap X # {}
<1>1. NoName # "evaluate"
  BY Zenon DEF NoName
<1>2. r.action # "evaluate"
  BY <1>1 DEF About
<1>3. Matches(r, q, mode, TRUE) <=> D \cup X = {} \/ q.name \in D \/ q.suffixes \cap X # {}
  BY Asking DEF About
<1> QED
  BY <1>2, <1>3 DEF Asks

LEMMA NameRules ==
  ASSUME NEW D, NEW X, NEW server
  PROVE  /\ About([NoRule EXCEPT !.suffix = X, !.server = server], {}, X, server)
         /\ About([NoRule EXCEPT !.domain = D, !.server = server], D, {}, server)
         /\ About([NoRule EXCEPT !.server = server], {}, {}, server)
<1>1. NoRule.mode = NoName /\ NoRule.action = NoName
  BY NoRuleFacts, Zenon DEF NoName
<1>2. /\ NoRule = [f \in RuleFields |-> NoRule[f]] /\ NoRule.ruleSet = {} /\ NoRule.match = FALSE
      /\ NoRule.qtype = {} /\ NoRule.domain = {} /\ NoRule.suffix = {}
  BY NoRuleFacts DEF IsRule
<1>3. About([NoRule EXCEPT !.suffix = X, !.server = server], {}, X, server)
  BY <1>1, <1>2 DEF About, RuleFields
<1>4. About([NoRule EXCEPT !.domain = D, !.server = server], D, {}, server)
  BY <1>1, <1>2 DEF About, RuleFields
<1>5. About([NoRule EXCEPT !.server = server], {}, {}, server)
  BY <1>1, <1>2 DEF About, RuleFields
<1> QED
  BY <1>3, <1>4, <1>5

(* A domain fake-ip-filter is about. *)
Filtered(dns, q) ==
  \E f \in ToSet(dns.filter) : IF f.suffix THEN f.name \in q.suffixes ELSE f.name = q.name

FilterAnswer(dns, firstNS, q, o) ==
  IF dns.fakeip /\ firstNS # NoName /\ Filtered(dns, q)
    THEN (IF dns.whitelist THEN "fakeip-dns" ELSE firstNS) ELSE o

LEMMA FilterTaken ==
  ASSUME NEW dns, NEW firstNS, NEW q, NEW mode, NEW S, NEW o,
         \A r \in ToSet(FakeIPFilterRules(dns, firstNS)) : r \in S <=> Asks(r, q, mode)
  PROVE  Taken(FakeIPFilterRules(dns, firstNS), S, o) = FilterAnswer(dns, firstNS, q, o)
<1> DEFINE entries == ToSet(dns.filter)
           suffixes == {e.name : e \in {f \in entries : f.suffix}}
           domains == {e.name : e \in {f \in entries : ~f.suffix}}
           server == IF dns.whitelist THEN "fakeip-dns" ELSE firstNS
           X == [NoRule EXCEPT !.suffix = suffixes, !.server = server]
           D == [NoRule EXCEPT !.domain = domains, !.server = server]
           left == IF suffixes = {} THEN <<>> ELSE <<X>>
           right == IF domains = {} THEN <<>> ELSE <<D>>
           fake == FakeIPFilterRules(dns, firstNS)
           names == q.name \in domains
           ends == q.suffixes \cap suffixes # {}
<1>1. fake = IF ~dns.fakeip \/ entries = {} \/ firstNS = NoName THEN <<>> ELSE left \o right
  BY Zenon DEF FakeIPFilterRules, NoName
<1>2. Filtered(dns, q) <=> names \/ ends
  <2>1. names <=> \E f \in entries : ~f.suffix /\ f.name = q.name
    OBVIOUS
  <2>2. ends <=> \E f \in entries : f.suffix /\ f.name \in q.suffixes
    OBVIOUS
  <2>3. Filtered(dns, q) <=> \E f \in entries : IF f.suffix THEN f.name \in q.suffixes ELSE f.name = q.name
    BY DEF Filtered
  <2> HIDE DEF entries, suffixes, domains, names, ends
  <2> QED
    BY <2>1, <2>2, <2>3
<1>3. entries = {} => ~Filtered(dns, q)
  BY DEF Filtered
<1>4. About(X, {}, suffixes, server) /\ About(D, domains, {}, server)
  BY NameRules
<1>5. (names => domains # {}) /\ (ends => suffixes # {})
  OBVIOUS
<1> HIDE DEF entries, X, D, server, names, ends
<1>6. /\ IsList(left) /\ ToSet(left) = (IF suffixes = {} THEN {} ELSE {X})
      /\ IsList(right) /\ ToSet(right) = (IF domains = {} THEN {} ELSE {D})
  BY ShortLists
<1>7. \A z : Taken(left, S, z) = (IF suffixes # {} /\ X \in S THEN X.server ELSE z)
             /\ Taken(right, S, z) = (IF domains # {} /\ D \in S THEN D.server ELSE z)
  <2> TAKE z
  <2>1. left = (IF suffixes = {} THEN <<>> ELSE <<X>>) /\ right = (IF domains = {} THEN <<>> ELSE <<D>>)
    OBVIOUS
  <2> HIDE DEF left, right, suffixes, domains
  <2>2. \A r : /\ Taken(<<r>>, S, z) = IF r \in S THEN r.server ELSE z
              /\ Taken(<<>>, S, z) = z
    BY TakenOne
  <2>3. Taken(left, S, z) = (IF suffixes # {} /\ X \in S THEN X.server ELSE z)
    BY <2>1, <2>2
  <2>4. Taken(right, S, z) = (IF domains # {} /\ D \in S THEN D.server ELSE z)
    BY <2>1, <2>2
  <2> QED
    BY <2>3, <2>4
<1>8. X.server = server /\ D.server = server
  BY <1>4 DEF About
<1> HIDE DEF suffixes, domains
<1>9. suffixes # {} => (Asks(X, q, mode) <=> ends)
  <2>1. Asks(X, q, mode) <=> {} \cup suffixes = {} \/ q.name \in {} \/ q.suffixes \cap suffixes # {}
    BY <1>4, NamesAsk
  <2> QED
    BY <2>1 DEF ends
<1>10. domains # {} => (Asks(D, q, mode) <=> names)
  <2>1. Asks(D, q, mode) <=> domains \cup {} = {} \/ q.name \in domains \/ q.suffixes \cap {} # {}
    BY <1>4, NamesAsk
  <2> QED
    BY <2>1 DEF names
<1> HIDE DEF left, right
<1>11. CASE ~dns.fakeip \/ entries = {} \/ firstNS = NoName
  <2>1. fake = <<>>
    BY <1>1, <1>11
  <2>2. Taken(fake, S, o) = o
    BY <2>1, TakenOne
  <2> QED
    BY <1>3, <1>11, <2>2 DEF FilterAnswer
<1>12. CASE ~(~dns.fakeip \/ entries = {} \/ firstNS = NoName)
  <2>1. fake = left \o right
    BY <1>1, <1>12
  <2>2. ToSet(left \o right) = ToSet(left) \cup ToSet(right)
    BY <1>6, ConcatList
  <2>3. /\ suffixes # {} => (X \in S <=> ends)
        /\ domains # {} => (D \in S <=> names)
    BY <1>6, <1>9, <1>10, <2>1, <2>2
  <2>4. Taken(fake, S, o) = Taken(left, S, Taken(right, S, o))
    BY <1>6, <2>1, TakenConcat
  <2>5. Taken(right, S, o) = IF names THEN server ELSE o
    BY <1>5, <1>7, <1>8, <2>3
  <2>6. Taken(left, S, Taken(right, S, o)) = IF ends THEN server ELSE Taken(right, S, o)
    BY <1>5, <1>7, <1>8, <2>3
  <2>7. Taken(fake, S, o) = IF names \/ ends THEN server ELSE o
    BY <2>4, <2>5, <2>6
  <2> QED
    BY <1>2, <1>12, <2>7 DEF server, FilterAnswer
<1> QED
  BY <1>11, <1>12
HostRules(dns, hosts) ==
  IF UsesHosts(dns, hosts) THEN <<[NoRule EXCEPT !.domain = hosts, !.server = "hosts"]>> ELSE <<>>

HostAnswer(dns, hosts, q, o) == IF UsesHosts(dns, hosts) /\ q.name \in hosts THEN "hosts" ELSE o

LEMMA HostsTaken ==
  ASSUME NEW dns, NEW hosts, NEW q, NEW mode, NEW S, NEW o,
         \A r \in ToSet(HostRules(dns, hosts)) : r \in S <=> Asks(r, q, mode)
  PROVE  Taken(HostRules(dns, hosts), S, o) = HostAnswer(dns, hosts, q, o)
<1> DEFINE H == [NoRule EXCEPT !.domain = hosts, !.server = "hosts"]
           list == HostRules(dns, hosts)
<1>1. list = IF UsesHosts(dns, hosts) THEN <<H>> ELSE <<>>
  BY DEF HostRules
<1>2. About(H, hosts, {}, "hosts")
  BY NameRules
<1>3. UsesHosts(dns, hosts) => hosts # {}
  BY DEF UsesHosts
<1>4. Asks(H, q, mode) <=> hosts \cup {} = {} \/ q.name \in hosts \/ q.suffixes \cap {} # {}
  BY <1>2, NamesAsk
<1>5. H.server = "hosts"
  BY <1>2 DEF About
<1> HIDE DEF H, list
<1>6. ToSet(<<H>>) = {H}
  BY ShortLists
<1>7. /\ Taken(<<H>>, S, o) = IF H \in S THEN H.server ELSE o
      /\ Taken(<<>>, S, o) = o
  BY TakenOne
<1>8. CASE UsesHosts(dns, hosts)
  <2>1. H \in S <=> q.name \in hosts
    BY <1>1, <1>3, <1>4, <1>6, <1>8 DEF list
  <2> QED
    BY <1>1, <1>5, <1>7, <1>8, <2>1 DEF list, HostAnswer
<1>9. CASE ~UsesHosts(dns, hosts)
  BY <1>1, <1>7, <1>9 DEF list, HostAnswer
<1> QED
  BY <1>8, <1>9

LEMMA TerminalTaken ==
  ASSUME NEW dns, NEW firstNS, NEW q, NEW mode, NEW S, NEW o,
         \A r \in ToSet(TerminalRules(dns, firstNS)) : r \in S <=> Asks(r, q, mode)
  PROVE  Taken(TerminalRules(dns, firstNS), S, o) =
           IF TerminalRules(dns, firstNS) # <<>> THEN firstNS ELSE o
<1> DEFINE T == [NoRule EXCEPT !.server = firstNS]
           list == TerminalRules(dns, firstNS)
<1>1. list = <<T>> \/ list = <<>>
  BY DEF TerminalRules
<1>2. About(T, {}, {}, firstNS)
  BY NameRules
<1>3. Asks(T, q, mode) <=> {} \cup {} = {} \/ q.name \in {} \/ q.suffixes \cap {} # {}
  BY <1>2, NamesAsk
<1>4. T.server = firstNS
  BY <1>2 DEF About
<1> HIDE DEF T, list
<1>5. ToSet(<<T>>) = {T} /\ <<T>> # <<>>
  BY ShortLists
<1>6. /\ Taken(<<T>>, S, o) = IF T \in S THEN T.server ELSE o
      /\ Taken(<<>>, S, o) = o
  BY TakenOne
<1>7. CASE list = <<T>>
  <2>1. T \in S
    BY <1>3, <1>5, <1>7 DEF list
  <2> QED
    BY <1>4, <1>5, <1>6, <1>7, <2>1 DEF list
<1>8. CASE list = <<>>
  BY <1>6, <1>8 DEF list
<1> QED
  BY <1>1, <1>7, <1>8

LEMMA PairConcat == \A x, y : <<x, y>> = <<x>> \o <<y>>
<1> TAKE x, y
<1> DEFINE s == <<x>> \o <<y>>
           p == <<x, y>>
<1>1. Len(s) = 2 /\ s[1] = x /\ s[2] = y
  OBVIOUS
<1>2. Len(p) = 2 /\ p[1] = x /\ p[2] = y
  OBVIOUS
<1>3. IsList(s) /\ IsList(p)
  BY ShortLists, ConcatList
<1> HIDE DEF s, p
<1>4. s = [i \in 1..2 |-> s[i]] /\ p = [i \in 1..2 |-> p[i]]
  BY <1>1, <1>2, <1>3 DEF IsList
<1>5. \A i \in 1..2 : s[i] = p[i]
  BY <1>1, <1>2
<1>6. s = p
  BY <1>4, <1>5
<1> QED
  BY <1>6 DEF s, p

(* What the automatic rules say. *)
Domestic(q, cc) == q.type \in AddressQueryTypes /\ (q.sites \cup q.addrs) \cap DomesticRuleSets(cc) # {}

AutoAnswer(servers, cc, ech, q, o) ==
  IF q.name \in ech THEN FindFirstECHCapableDNSTag(servers)
  ELSE IF Domestic(q, cc) THEN FindFirstDirectDNSTag(servers)
  ELSE IF FindFakeIPTag(servers) # NoName /\ q.type \in {"A", "AAAA"} THEN FindFakeIPTag(servers)
  ELSE o

LEMMA AutoTaken ==
  ASSUME NEW servers, NEW cc, NEW ech, NEW q, NEW mode, NEW S, NEW o,
         \A r \in ToSet(AutoRules(servers, cc, ech)) : r \in S <=> Asks(r, q, mode)
  PROVE  Taken(AutoRules(servers, cc, ech), S, o) = AutoAnswer(servers, cc, ech, q, o)
<1> DEFINE sets == DomesticRuleSets(cc)
           direct == FindFirstDirectDNSTag(servers)
           capable == FindFirstECHCapableDNSTag(servers)
           fake == FindFakeIPTag(servers)
           Q == [NoRule EXCEPT !.domain = ech, !.server = capable]
           E == Evaluate(direct)
           M == [NoRule EXCEPT !.match = TRUE, !.ruleSet = sets,
                               !.server = direct, !.qtype = AddressQueryTypes]
           F == [NoRule EXCEPT !.qtype = {"A", "AAAA"}, !.server = fake]
           queries == IF ech = {} THEN <<>> ELSE <<Q>>
           pair == <<E, M>>
           last == IF fake = NoName THEN <<>> ELSE <<F>>
           front == queries \o pair
           rules == AutoRules(servers, cc, ech)
<1>1. rules = front \o last
  BY Zenon DEF AutoRules, NoName
<1>2. NoRule.mode = NoName /\ NoRule.action = NoName
  BY NoRuleFacts, Zenon DEF NoName
<1>3. /\ NoRule = [f \in RuleFields |-> NoRule[f]] /\ NoRule.ruleSet = {} /\ NoRule.match = FALSE
      /\ NoRule.qtype = {} /\ NoRule.domain = {} /\ NoRule.suffix = {}
  BY NoRuleFacts DEF IsRule
<1>4. About(Q, ech, {}, capable)
  BY NameRules
<1>5. NoName # "evaluate"
  BY Zenon DEF NoName
<1> HIDE DEF direct, capable, fake, sets
<1>6. E.action = "evaluate"
  BY <1>3 DEF Evaluate, RuleFields
<1>7. /\ M.mode = NoName /\ M.qtype = AddressQueryTypes /\ M.domain = {} /\ M.suffix = {}
      /\ M.ruleSet = sets /\ M.match = TRUE /\ M.action = NoName /\ M.server = direct
  BY <1>2, <1>3 DEF RuleFields
<1>8. /\ F.mode = NoName /\ F.qtype = {"A", "AAAA"} /\ F.domain = {} /\ F.suffix = {}
      /\ F.ruleSet = {} /\ F.match = FALSE /\ F.action = NoName /\ F.server = fake
  BY <1>2, <1>3 DEF RuleFields
<1>9. Q.server = capable
  BY <1>4 DEF About
<1>10. sets # {}
  BY DEF sets, DomesticRuleSets
<1> HIDE DEF Q, E, M, F
<1>11. ech # {} => (Asks(Q, q, mode) <=> q.name \in ech)
  <2>1. Asks(Q, q, mode) <=> ech \cup {} = {} \/ q.name \in ech \/ q.suffixes \cap {} # {}
    BY <1>4, NamesAsk
  <2> QED
    BY <2>1
<1>12. Asks(M, q, mode) <=> Domestic(q, cc)
  <2>1. AddressQueryTypes # {}
    BY DEF AddressQueryTypes
  <2>2. Matches(M, q, mode, TRUE) <=>
          /\ q.type \in AddressQueryTypes
          /\ q.sites \cap sets # {} \/ q.addrs \cap sets # {}
    BY <1>7, <1>10, <2>1, Asking
  <2>3. Asks(M, q, mode) <=> Matches(M, q, mode, TRUE)
    BY <1>5, <1>7 DEF Asks
  <2>4. q.sites \cap sets # {} \/ q.addrs \cap sets # {} <=> (q.sites \cup q.addrs) \cap sets # {}
    OBVIOUS
  <2> QED
    BY <2>2, <2>3, <2>4 DEF Domestic, sets
<1>13. Asks(F, q, mode) <=> q.type \in {"A", "AAAA"}
  <2>1. Matches(F, q, mode, TRUE) <=> q.type \in {"A", "AAAA"}
    BY <1>8, Asking
  <2> QED
    BY <1>5, <1>8, <2>1 DEF Asks
<1>14. ~Asks(E, q, mode)
  BY <1>6 DEF Asks
<1>15. /\ IsList(<<Q>>) /\ ToSet(<<Q>>) = {Q} /\ IsList(<<F>>) /\ ToSet(<<F>>) = {F}
       /\ IsList(<<E>>) /\ ToSet(<<E>>) = {E} /\ IsList(<<M>>) /\ ToSet(<<M>>) = {M}
       /\ IsList(<<>>) /\ ToSet(<<>>) = {}
  BY ShortLists
<1>16. pair = <<E>> \o <<M>>
  BY PairConcat
<1>17. IsList(pair) /\ ToSet(pair) = {E, M}
  <2>1. IsList(<<E>> \o <<M>>) /\ ToSet(<<E>> \o <<M>>) = ToSet(<<E>>) \cup ToSet(<<M>>)
    BY <1>15, ConcatList
  <2> QED
    BY <1>15, <1>16, <2>1
<1>18. /\ IsList(queries) /\ ToSet(queries) = (IF ech = {} THEN {} ELSE {Q})
       /\ IsList(last) /\ ToSet(last) = (IF fake = NoName THEN {} ELSE {F})
  BY <1>15
<1>19. \A r, z : Taken(<<r>>, S, z) = (IF r \in S THEN r.server ELSE z) /\ Taken(<<>>, S, z) = z
  BY TakenOne
<1>20. \A z : Taken(queries, S, z) = IF ech # {} /\ Q \in S THEN capable ELSE z
  BY <1>9, <1>19
<1>21. \A z : Taken(last, S, z) = IF fake # NoName /\ F \in S THEN fake ELSE z
  BY <1>8, <1>19
<1>22. \A z : Taken(pair, S, z) = IF E \in S THEN E.server ELSE IF M \in S THEN direct ELSE z
  <2> TAKE z
  <2>1. Taken(<<E>> \o <<M>>, S, z) = Taken(<<E>>, S, Taken(<<M>>, S, z))
    BY <1>15, TakenConcat
  <2> QED
    BY <1>7, <1>16, <1>19, <2>1
<1> HIDE DEF queries, pair, last
<1>23. IsList(front) /\ ToSet(front) = ToSet(queries) \cup ToSet(pair)
  BY <1>17, <1>18, ConcatList
<1>24. \A z : Taken(front, S, z) = Taken(queries, S, Taken(pair, S, z))
  BY <1>17, <1>18, TakenConcat
<1> HIDE DEF front
<1>25. ToSet(rules) = ToSet(front) \cup ToSet(last)
  BY <1>1, <1>18, <1>23, ConcatList
<1>26. Taken(rules, S, o) = Taken(front, S, Taken(last, S, o))
  BY <1>1, <1>18, <1>23, TakenConcat
<1> HIDE DEF rules
<1>27. /\ E \notin S /\ (M \in S <=> Domestic(q, cc))
       /\ ech # {} => (Q \in S <=> q.name \in ech)
       /\ fake # NoName => (F \in S <=> q.type \in {"A", "AAAA"})
  BY <1>11, <1>12, <1>13, <1>14, <1>17, <1>18, <1>23, <1>25 DEF rules
<1>28. q.name \in ech => ech # {}
  OBVIOUS
<1>29. Taken(rules, S, o) =
         IF q.name \in ech THEN capable
         ELSE IF Domestic(q, cc) THEN direct
         ELSE IF fake # NoName /\ q.type \in {"A", "AAAA"} THEN fake
         ELSE o
  BY <1>20, <1>21, <1>22, <1>24, <1>26, <1>27, <1>28
<1> QED
  BY <1>29 DEF AutoAnswer, rules, capable, direct, fake
(* The rules of an enabled section with a direct server. *)
FirstNS(dns, detour) ==
  IF BuildDNSServerEntries(dns.ns, "ns-", detour) # <<>>
    THEN BuildDNSServerEntries(dns.ns, "ns-", detour)[1].tag ELSE NoName

SwitchRule(servers) == [NoRule EXCEPT !.mode = "Direct", !.server = FindFirstDirectDNSTag(servers)]

UserLists(dns, hosts, firstNS) == FakeIPFilterRules(dns, firstNS) \o HostRules(dns, hosts)

LongRules(dns, hosts, firstNS, servers, cc, ech) ==
  ((<<SwitchRule(servers)>> \o UserLists(dns, hosts, firstNS)) \o AutoRules(servers, cc, ech))
    \o TerminalRules(dns, firstNS)

LEMMA UserForm ==
  ASSUME NEW dns, DNSLists(dns), dns.enable, NEW hosts, NEW detour,
         NEW d, d = TranslateDNS(dns, hosts, detour)
  PROVE  /\ d.rules = UserLists(dns, hosts, FirstNS(dns, detour))
         /\ d.terminal = TerminalRules(dns, FirstNS(dns, detour))
<1> DEFINE ns == BuildDNSServerEntries(dns.ns, "ns-", detour)
           f == IF ns # <<>> THEN ns[1].tag ELSE ""
<1>1. d.rules = FakeIPFilterRules(dns, f) \o HostRules(dns, hosts) /\ d.terminal = TerminalRules(dns, f)
  BY DEF TranslateDNS, HostRules
<1>2. f = FirstNS(dns, detour)
  BY Zenon DEF FirstNS, NoName
<1> HIDE DEF f
<1> QED
  BY <1>1, <1>2 DEF UserLists

LEMMA LongForm ==
  ASSUME NEW dns, DNSLists(dns), dns.enable, NEW hosts, NEW detour,
         NEW d, d = TranslateDNS(dns, hosts, detour), NEW cc, NEW ech,
         FindFirstDirectDNSTag(d.servers) # NoName
  PROVE  GenerateDNSRules(d, cc, ech).rules =
           LongRules(dns, hosts, FirstNS(dns, detour), d.servers, cc, ech)
<1> DEFINE direct == FindFirstDirectDNSTag(d.servers)
           M == [NoRule EXCEPT !.mode = "Direct", !.server = direct]
           auto == AutoRules(d.servers, cc, ech)
           long == ((<<M>> \o d.rules) \o auto) \o d.terminal
           w == GenerateDNSRules(d, cc, ech).rules
<1>1. IsDNS(d) /\ d.enabled
  BY DNSFacts
<1>0. direct # ""
  BY Zenon DEF NoName
<1>2. GenerateDNSRules(d, cc, ech) = [d EXCEPT !.rules = long]
  BY <1>0, <1>1 DEF GenerateDNSRules, OrderRules
<1>3. M = SwitchRule(d.servers)
  BY DEF SwitchRule
<1> HIDE DEF long, M
<1>4. w = long
  BY <1>1, <1>2 DEF IsDNS, DNSFields
<1>5. /\ d.rules = UserLists(dns, hosts, FirstNS(dns, detour))
      /\ d.terminal = TerminalRules(dns, FirstNS(dns, detour))
  BY UserForm
<1> QED
  BY <1>3, <1>4, <1>5 DEF long, LongRules

(* Every one of them has a form that Obtained needs. *)
Shaped(r) ==
  /\ r.action \in {NoName, "evaluate"}
  /\ r.action = "evaluate" => /\ r.mode = NoName /\ r.qtype = AddressQueryTypes
                              /\ r.domain \cup r.suffix \cup r.ruleSet = {}
  /\ r.match \in BOOLEAN
  /\ r.match => r.qtype = AddressQueryTypes

LEMMA PlainShaped ==
  ASSUME NEW r, r.action = "", r.match = FALSE
  PROVE  Shaped(r)
<1>1. r.action = NoName
  BY Zenon DEF NoName
<1>2. NoName # "evaluate"
  BY Zenon DEF NoName
<1> QED
  BY <1>1, <1>2 DEF Shaped

LEMMA AutoShaped ==
  ASSUME NEW servers, NEW cc, NEW ech
  PROVE  \A r \in ToSet(AutoRules(servers, cc, ech)) : Shaped(r)
<1> DEFINE sets == DomesticRuleSets(cc)
           direct == FindFirstDirectDNSTag(servers)
           capable == FindFirstECHCapableDNSTag(servers)
           fake == FindFakeIPTag(servers)
           Q == [NoRule EXCEPT !.domain = ech, !.server = capable]
           E == Evaluate(direct)
           M == [NoRule EXCEPT !.match = TRUE, !.ruleSet = sets,
                               !.server = direct, !.qtype = AddressQueryTypes]
           F == [NoRule EXCEPT !.qtype = {"A", "AAAA"}, !.server = fake]
           queries == IF ech = {} THEN <<>> ELSE <<Q>>
           pair == <<E, M>>
           last == IF fake = NoName THEN <<>> ELSE <<F>>
           front == queries \o pair
           rules == AutoRules(servers, cc, ech)
<1>1. rules = front \o last
  BY Zenon DEF AutoRules, NoName
<1>2. NoRule.mode = NoName /\ NoRule.action = NoName
  BY NoRuleFacts, Zenon DEF NoName
<1>3. /\ NoRule = [f \in RuleFields |-> NoRule[f]] /\ NoRule.ruleSet = {} /\ NoRule.match = FALSE
      /\ NoRule.qtype = {} /\ NoRule.domain = {} /\ NoRule.suffix = {}
  BY NoRuleFacts DEF IsRule
<1>4. NoName # "evaluate"
  BY Zenon DEF NoName
<1> HIDE DEF direct, capable, fake, sets
<1>5. /\ E.action = "evaluate" /\ E.match = FALSE /\ E.mode = NoName /\ E.qtype = AddressQueryTypes
      /\ E.domain = {} /\ E.suffix = {} /\ E.ruleSet = {}
  BY <1>2, <1>3 DEF Evaluate, RuleFields
<1>6. M.match = TRUE /\ M.action = NoName /\ M.qtype = AddressQueryTypes
  BY <1>2, <1>3 DEF RuleFields
<1>7. F.match = FALSE /\ F.action = NoName /\ Q.match = FALSE /\ Q.action = NoName
  BY <1>2, <1>3 DEF RuleFields
<1> HIDE DEF Q, E, M, F
<1>8. Shaped(Q) /\ Shaped(E) /\ Shaped(M) /\ Shaped(F)
  BY <1>4, <1>5, <1>6, <1>7 DEF Shaped
<1>9. /\ IsList(pair) /\ ToSet(pair) = {E, M}
      /\ IsList(queries) /\ ToSet(queries) \subseteq {Q}
      /\ IsList(last) /\ ToSet(last) \subseteq {F}
  BY ShortLists
<1> HIDE DEF queries, pair, last
<1>10. IsList(front) /\ ToSet(front) = ToSet(queries) \cup ToSet(pair)
  BY <1>9, ConcatList
<1> HIDE DEF front
<1>11. ToSet(rules) = ToSet(front) \cup ToSet(last)
  BY <1>1, <1>9, <1>10, ConcatList
<1> QED
  BY <1>8, <1>9, <1>10, <1>11
Generated(d, cc, ech) == GenerateDNSRules(d, cc, ech).rules

GeneratedSet(d, cc, ech) ==
  {SwitchRule(d.servers)} \cup ToSet(d.rules) \cup ToSet(AutoRules(d.servers, cc, ech))
    \cup ToSet(d.terminal)

LEMMA LongParts ==
  ASSUME NEW dns, DNSLists(dns), dns.enable, TagsApart(dns), NEW hosts, NEW detour,
         NEW d, d = TranslateDNS(dns, hosts, detour), NEW cc, NEW ech,
         DirectServers(d.servers) # <<>>
  PROVE  /\ FindFirstDirectDNSTag(d.servers) \in ToTags(d.servers)
         /\ FindFirstDirectDNSTag(d.servers) # ""
         /\ IsList(d.rules) /\ IsList(d.terminal) /\ IsList(AutoRules(d.servers, cc, ech))
         /\ IsList(Generated(d, cc, ech)) /\ Justified(Generated(d, cc, ech))
         /\ \A r : r \in ToSet(Generated(d, cc, ech)) <=> r \in GeneratedSet(d, cc, ech)
         /\ \A r \in ToSet(Generated(d, cc, ech)) : r.server \in ToTags(d.servers)
<1> DEFINE servers == d.servers
           direct == FindFirstDirectDNSTag(servers)
           auto == AutoRules(servers, cc, ech)
           M == SwitchRule(servers)
           two == <<M>> \o d.rules
           three == two \o auto
           four == three \o d.terminal
           w == Generated(d, cc, ech)
<1>1. IsList(servers) /\ "" \notin ToTags(servers)
  BY ServerTags
<1>2. direct \in ToTags(servers)
  <2>1. direct \in ToTags(DirectServers(servers)) /\ ToTags(DirectServers(servers)) \subseteq ToTags(servers)
    BY <1>1, ChosenServers
  <2> QED
    BY <2>1
<1>3. direct # ""
  BY <1>1, <1>2
<1>4. w = LongRules(dns, hosts, FirstNS(dns, detour), servers, cc, ech)
  <2>1. direct # NoName
    BY <1>3, Zenon DEF NoName
  <2> QED
    BY <2>1, LongForm DEF Generated
<1>5. /\ d.rules = UserLists(dns, hosts, FirstNS(dns, detour))
      /\ d.terminal = TerminalRules(dns, FirstNS(dns, detour))
  BY UserForm
<1>6. w = four
  BY <1>4, <1>5 DEF LongRules
<1>7. IsList(d.rules) /\ IsList(d.terminal)
  BY DNSFacts
<1>8. IsList(auto)
  BY <1>1, <1>3, AutoPart
<1>9. /\ IsList(w) /\ Justified(w)
      /\ \A r \in ToSet(w) : GoodRule(r, ToTags(servers), DNSRuleSets(d, cc))
  BY GeneratedRules DEF Generated
<1>10. \A r \in ToSet(w) : r.server \in ToTags(servers)
  BY <1>9 DEF GoodRule
<1> HIDE DEF servers, direct, auto, M, w
<1>11. IsList(<<M>>) /\ ToSet(<<M>>) = {M}
  BY ShortLists
<1>12. IsList(two) /\ ToSet(two) = {M} \cup ToSet(d.rules)
  BY <1>7, <1>11, ConcatList
<1> HIDE DEF two
<1>13. IsList(three) /\ ToSet(three) = ToSet(two) \cup ToSet(auto)
  BY <1>8, <1>12, ConcatList
<1> HIDE DEF three
<1>14. ToSet(w) = ToSet(three) \cup ToSet(d.terminal)
  BY <1>6, <1>7, <1>13, ConcatList
<1>15. ToSet(w) = {M} \cup ToSet(d.rules) \cup ToSet(auto) \cup ToSet(d.terminal)
  BY <1>12, <1>13, <1>14
<1> QED
  BY <1>2, <1>3, <1>4, <1>7, <1>8, <1>9, <1>10, <1>15 DEF servers, direct, auto, M, w, GeneratedSet

LEMMA LongResponds ==
  ASSUME NEW dns, DNSLists(dns), dns.enable, TagsApart(dns), NEW hosts, NEW detour,
         NEW d, d = TranslateDNS(dns, hosts, detour), NEW cc, NEW ech,
         DirectServers(d.servers) # <<>>
  PROVE  \A i \in DOMAIN Generated(d, cc, ech) : Responding(Generated(d, cc, ech)[i])
<1> DEFINE w == Generated(d, cc, ech)
           M == SwitchRule(d.servers)
           auto == AutoRules(d.servers, cc, ech)
<1>1. /\ ToSet(w) = {M} \cup ToSet(d.rules) \cup ToSet(auto) \cup ToSet(d.terminal)
      /\ \A r \in ToSet(w) : r.server \in ToTags(d.servers)
  <2>1. \A r : r \in ToSet(w) <=> r \in GeneratedSet(d, cc, ech)
    BY LongParts
  <2>2. \A r \in ToSet(w) : r.server \in ToTags(d.servers)
    BY LongParts
  <2> HIDE DEF w
  <2> QED
    BY <2>1, <2>2 DEF GeneratedSet
<1>2. NoName \notin ToTags(d.servers)
  <2>1. "" \notin ToTags(d.servers)
    BY ServerTags
  <2> QED
    BY <2>1, Zenon DEF NoName
<1>3. /\ \A r \in ToSet(d.rules) : PlainRule(r, ToTags(d.servers))
      /\ \A r \in ToSet(d.terminal) : PlainRule(r, ToTags(d.servers))
  BY DNSFacts
<1>4. \A r \in ToSet(d.rules) \cup ToSet(d.terminal) : Shaped(r)
  BY <1>3, PlainShaped DEF PlainRule
<1>5. \A r \in ToSet(auto) : Shaped(r)
  BY AutoShaped
<1>6. Shaped(M)
  <2>1. M.action = "" /\ M.match = FALSE
    BY NoRuleFacts DEF SwitchRule, IsRule, RuleFields
  <2> HIDE DEF M
  <2> QED
    BY <2>1, PlainShaped
<1> HIDE DEF M, auto, w
<1>7. \A r \in ToSet(w) : Shaped(r) /\ r.server # NoName
  BY <1>1, <1>2, <1>4, <1>5, <1>6
<1>8. \A r : Shaped(r) /\ r.server # NoName => Responding(r)
  BY DEF Shaped, Responding
<1> QED
  BY <1>7, <1>8 DEF ToSet, w

LEMMA SwitchTaken ==
  ASSUME NEW servers, NEW q, NEW mode, NEW S, NEW o,
         SwitchRule(servers) \in S <=> Asks(SwitchRule(servers), q, mode)
  PROVE  Taken(<<SwitchRule(servers)>>, S, o) =
           IF mode = "Direct" THEN FindFirstDirectDNSTag(servers) ELSE o
<1> DEFINE M == SwitchRule(servers)
           direct == FindFirstDirectDNSTag(servers)
<1>1. NoRule.action = NoName
  BY NoRuleFacts, Zenon DEF NoName
<1>2. /\ NoRule = [f \in RuleFields |-> NoRule[f]] /\ NoRule.ruleSet = {}
      /\ NoRule.qtype = {} /\ NoRule.domain = {} /\ NoRule.suffix = {}
  BY NoRuleFacts DEF IsRule
<1> HIDE DEF direct
<1>3. M = [NoRule EXCEPT !.mode = "Direct", !.server = direct]
  BY DEF SwitchRule, direct
<1> HIDE DEF M
<1>4. /\ M.mode = "Direct" /\ M.qtype = {} /\ M.domain = {} /\ M.suffix = {} /\ M.ruleSet = {}
      /\ M.action = NoName /\ M.server = direct
  BY <1>1, <1>2, <1>3 DEF RuleFields
<1>5. NoName # "evaluate" /\ NoName # "Direct"
  BY Zenon DEF NoName
<1>6. Matches(M, q, mode, TRUE) <=> mode = "Direct"
  BY <1>4, <1>5, Asking
<1>7. M \in S <=> mode = "Direct"
  BY <1>4, <1>5, <1>6 DEF Asks, M
<1>8. Taken(<<M>>, S, o) = IF M \in S THEN M.server ELSE o
  BY TakenOne
<1> QED
  BY <1>4, <1>7, <1>8 DEF M, direct
(* The whole order. *)
OrderedAnswer(dns, hosts, firstNS, servers, cc, ech, q, mode, o) ==
  IF mode = "Direct" THEN FindFirstDirectDNSTag(servers)
  ELSE FilterAnswer(dns, firstNS, q,
         HostAnswer(dns, hosts, q,
           AutoAnswer(servers, cc, ech, q,
             IF TerminalRules(dns, firstNS) # <<>> THEN firstNS ELSE o)))

LEMMA UserListParts ==
  ASSUME NEW dns, NEW hosts, NEW firstNS
  PROVE  /\ IsList(FakeIPFilterRules(dns, firstNS)) /\ IsList(HostRules(dns, hosts))
         /\ \A r : r \in ToSet(UserLists(dns, hosts, firstNS)) <=>
              \/ r \in ToSet(FakeIPFilterRules(dns, firstNS))
              \/ r \in ToSet(HostRules(dns, hosts))
<1> DEFINE A == FakeIPFilterRules(dns, firstNS)
           B == HostRules(dns, hosts)
<1>1. IsList(A)
  <2>1. firstNS \in {firstNS, "fakeip-dns"} /\ "fakeip-dns" \in {firstNS, "fakeip-dns"}
    OBVIOUS
  <2> QED
    BY <2>1, UserRules, Zenon
<1>2. IsList(B)
  BY ShortLists DEF HostRules
<1>3. UserLists(dns, hosts, firstNS) = A \o B
  BY DEF UserLists
<1> HIDE DEF A, B
<1>4. ToSet(A \o B) = ToSet(A) \cup ToSet(B)
  BY <1>1, <1>2, ConcatList
<1> QED
  BY <1>1, <1>2, <1>3, <1>4 DEF A, B

LEMMA LongTaken ==
  ASSUME NEW dns, NEW hosts, NEW firstNS, NEW servers, NEW cc, NEW ech, NEW q, NEW mode, NEW S, NEW o,
         IsList(UserLists(dns, hosts, firstNS)), IsList(AutoRules(servers, cc, ech)),
         IsList(TerminalRules(dns, firstNS)),
         \A r : (\/ r = SwitchRule(servers) \/ r \in ToSet(UserLists(dns, hosts, firstNS))
                 \/ r \in ToSet(AutoRules(servers, cc, ech))
                 \/ r \in ToSet(TerminalRules(dns, firstNS))) => (r \in S <=> Asks(r, q, mode))
  PROVE  Taken(LongRules(dns, hosts, firstNS, servers, cc, ech), S, o) =
           OrderedAnswer(dns, hosts, firstNS, servers, cc, ech, q, mode, o)
<1> DEFINE one == <<SwitchRule(servers)>>
           A == FakeIPFilterRules(dns, firstNS)
           B == HostRules(dns, hosts)
           user == UserLists(dns, hosts, firstNS)
           auto == AutoRules(servers, cc, ech)
           last == TerminalRules(dns, firstNS)
           two == one \o user
           three == two \o auto
           four == three \o last
           o1 == IF last # <<>> THEN firstNS ELSE o
           o2 == AutoAnswer(servers, cc, ech, q, o1)
           o3 == HostAnswer(dns, hosts, q, o2)
           o4 == FilterAnswer(dns, firstNS, q, o3)
           o5 == IF mode = "Direct" THEN FindFirstDirectDNSTag(servers) ELSE o4
<1>1. /\ IsList(A) /\ IsList(B)
      /\ \A r : r \in ToSet(user) <=> r \in ToSet(A) \/ r \in ToSet(B)
  BY UserListParts
<1>2. user = A \o B
  BY DEF UserLists
<1>3. IsList(one)
  BY ShortLists
<1>4. /\ \A r \in ToSet(A) : r \in S <=> Asks(r, q, mode)
      /\ \A r \in ToSet(B) : r \in S <=> Asks(r, q, mode)
      /\ \A r \in ToSet(auto) : r \in S <=> Asks(r, q, mode)
      /\ \A r \in ToSet(last) : r \in S <=> Asks(r, q, mode)
      /\ SwitchRule(servers) \in S <=> Asks(SwitchRule(servers), q, mode)
  <2>1. \A r \in ToSet(user) : r \in S <=> Asks(r, q, mode)
    OBVIOUS
  <2>2. \A r \in ToSet(A) : r \in S <=> Asks(r, q, mode)
    BY <1>1, <2>1
  <2>3. \A r \in ToSet(B) : r \in S <=> Asks(r, q, mode)
    BY <1>1, <2>1
  <2>4. \A r \in ToSet(auto) : r \in S <=> Asks(r, q, mode)
    OBVIOUS
  <2>5. \A r \in ToSet(last) : r \in S <=> Asks(r, q, mode)
    OBVIOUS
  <2>6. SwitchRule(servers) \in S <=> Asks(SwitchRule(servers), q, mode)
    OBVIOUS
  <2> QED
    BY <2>2, <2>3, <2>4, <2>5, <2>6
<1>5. Taken(last, S, o) = o1
  BY <1>4, TerminalTaken
<1>6. Taken(auto, S, o1) = o2
  <2> HIDE DEF o1
  <2> QED
    BY <1>4, AutoTaken
<1>7. Taken(B, S, o2) = o3
  <2> HIDE DEF o2
  <2> QED
    BY <1>4, HostsTaken
<1>8. Taken(A, S, o3) = o4
  <2> HIDE DEF o3
  <2> QED
    BY <1>4, FilterTaken
<1>9. Taken(one, S, o4) = o5
  <2> HIDE DEF o4
  <2> QED
    BY <1>4, SwitchTaken
<1>10. LongRules(dns, hosts, firstNS, servers, cc, ech) = four
  BY DEF LongRules
<1>11. OrderedAnswer(dns, hosts, firstNS, servers, cc, ech, q, mode, o) = o5
  BY DEF OrderedAnswer
<1>12. IsList(user) /\ IsList(auto) /\ IsList(last)
  OBVIOUS
<1> HIDE DEF one, A, B, user, auto, last, o1, o2, o3, o4, o5
<1>13. Taken(user, S, o2) = Taken(A, S, Taken(B, S, o2))
  BY <1>1, <1>2, TakenConcat
<1>14. IsList(two) /\ Taken(two, S, o2) = Taken(one, S, Taken(user, S, o2))
  BY <1>3, <1>12, ConcatList, TakenConcat
<1> HIDE DEF two
<1>15. IsList(three) /\ Taken(three, S, o1) = Taken(two, S, Taken(auto, S, o1))
  BY <1>12, <1>14, ConcatList, TakenConcat
<1> HIDE DEF three
<1>16. Taken(four, S, o) = Taken(three, S, Taken(last, S, o))
  BY <1>12, <1>15, TakenConcat
<1>17. Taken(four, S, o) = o5
  BY <1>5, <1>6, <1>7, <1>8, <1>9, <1>13, <1>14, <1>15, <1>16
<1> QED
  BY <1>10, <1>11, <1>17
LEMMA AnswerOrder ==
  ASSUME NEW dns, DNSLists(dns), dns.enable, TagsApart(dns), NEW hosts, NEW detour,
         NEW d, d = TranslateDNS(dns, hosts, detour), NEW cc, NEW ech,
         DirectServers(d.servers) # <<>>,
         NEW f, f.rules = AddDNSRouteAction(Generated(d, cc, ech)), NEW q, NEW mode
  PROVE  Answer(f, q, mode) =
           OrderedAnswer(dns, hosts, FirstNS(dns, detour), d.servers, cc, ech, q, mode, FirstServer(f))
<1> DEFINE w == Generated(d, cc, ech)
           firstNS == FirstNS(dns, detour)
           servers == d.servers
           o == FirstServer(f)
           S == {r \in ToSet(w) : Asks(r, q, mode)}
<1> HIDE DEF S, o
<1>1. IsList(w) /\ Justified(w)
  BY LongParts
<1>2. w = LongRules(dns, hosts, firstNS, servers, cc, ech)
  <2>1. FindFirstDirectDNSTag(d.servers) # ""
    BY LongParts
  <2>2. FindFirstDirectDNSTag(d.servers) # NoName
    BY <2>1, Zenon DEF NoName
  <2> QED
    BY <2>2, LongForm DEF Generated
<1>3. \A r : r \in ToSet(w) <=> r \in GeneratedSet(d, cc, ech)
  BY LongParts
<1>4. IsList(d.rules) /\ IsList(d.terminal) /\ IsList(AutoRules(servers, cc, ech))
  BY LongParts
<1>5. d.rules = UserLists(dns, hosts, firstNS) /\ d.terminal = TerminalRules(dns, firstNS)
  BY UserForm
<1>6. \A i \in DOMAIN w : Responding(w[i])
  BY LongResponds
<1>7. \A r \in ToSet(w) : IsRule(r)
  <2>1. \A r \in ToSet(w) : GoodRule(r, ToTags(servers), DNSRuleSets(d, cc))
    BY GeneratedRules DEF Generated
  <2> HIDE DEF w
  <2> QED
    BY <2>1 DEF GoodRule
<1>8. f.rules = AddDNSRouteAction(w)
  OBVIOUS
<1> HIDE DEF w, firstNS, servers
<1>9. WithActions(f.rules, w)
  BY <1>1, <1>7, <1>8, ActionAdded
<1>10. \A r \in ToSet(w) : r \in S <=> Asks(r, q, mode)
  BY DEF S
<1>11. \A r : (\/ r = SwitchRule(servers) \/ r \in ToSet(UserLists(dns, hosts, firstNS))
               \/ r \in ToSet(AutoRules(servers, cc, ech))
               \/ r \in ToSet(TerminalRules(dns, firstNS))) => r \in ToSet(w)
  BY <1>3, <1>5 DEF GeneratedSet, servers
<1>12. Answer(f, q, mode) = Taken(w, S, FirstServer(f))
  BY <1>1, <1>6, <1>9, <1>10, AnswerTaken
<1>13. \A r : (\/ r = SwitchRule(servers) \/ r \in ToSet(UserLists(dns, hosts, firstNS))
               \/ r \in ToSet(AutoRules(servers, cc, ech))
               \/ r \in ToSet(TerminalRules(dns, firstNS))) => (r \in S <=> Asks(r, q, mode))
  BY <1>10, <1>11
<1>14. /\ IsList(UserLists(dns, hosts, firstNS)) /\ IsList(AutoRules(servers, cc, ech))
       /\ IsList(TerminalRules(dns, firstNS))
  BY <1>4, <1>5
<1>15. Taken(LongRules(dns, hosts, firstNS, servers, cc, ech), S, o) =
         OrderedAnswer(dns, hosts, firstNS, servers, cc, ech, q, mode, o)
  BY <1>13, <1>14, LongTaken
<1> QED
  BY <1>2, <1>12, <1>15 DEF w, firstNS, servers, o
(***************************************************************************)
(* The first name server that has an equivalent is the one the rules name. *)
(***************************************************************************)
LEMMA FirstNameFound ==
  ASSUME ConfigInv, SectionInv, Ended, input.dns.enable
  PROVE  FirstNameServer = FirstNS(input.dns, FirstGroupTag)
<1> DEFINE dns == input.dns
           first == FirstGroupTag
           d == DNSOf(input, first)
           b == BuildDNSServerEntries(dns.ns, "ns-", first)
           has == {i \in DOMAIN dns.ns : NumberedTag("ns-", i) \in ToTags(out.dns.servers)}
<1>1. /\ DNSLists(dns) /\ TagsApart(dns) /\ out.dns.servers = d.servers
  BY OutDNS
<1>2. d = TranslateDNS(dns, input.hosts, first)
  BY DEF DNSOf
<1>3. dns.ns \in Seq(NameServerInput)
  BY <1>1 DEF DNSLists
<1>4. FirstNameServer = IF has = {} THEN NoName ELSE NumberedTag("ns-", Min(has))
  BY Zenon DEF FirstNameServer, NoName
<1>5. FirstNS(dns, first) = IF b # <<>> THEN b[1].tag ELSE NoName
  BY DEF FirstNS
<1>6. Min(has) = CHOOSE i \in has : \A j \in has : i <= j
  BY DEF Min
<1>7. \A m, n \in DOMAIN dns.ns : NumberedTag("ns-", m) = NumberedTag("ns-", n) => m = n
  BY <1>1, Apart DEF TagPrefixes, Positions
<1>8. b # <<>> => \E k \in DOMAIN dns.ns :
               /\ b[1].tag = NumberedTag("ns-", k)
               /\ \A i \in DOMAIN dns.ns : NumberedTag("ns-", i) \in ToTags(b) => k <= i
  BY <1>3, <1>7, BuiltTags
<1>9. IsList(b) /\ ToTags(b) \subseteq ToTags(AllServers(dns, first))
  <2>1. IsList(b)
    BY <1>1, InputServers
  <2>2. ToSet(b) \subseteq ToSet(AllServers(dns, first))
    BY <1>1, InputServers
  <2> HIDE DEF b
  <2>3. ToTags(b) \subseteq ToTags(AllServers(dns, first))
    BY <2>2, TagsOfList
  <2> QED
    BY <2>1, <2>3
<1> HIDE DEF d, first, dns
<1>10. ToTags(AllServers(dns, first)) \subseteq ToTags(d.servers)
  <2>1. dns.enable
    BY DEF dns
  <2> QED
    BY <1>1, <1>2, <2>1, ServersKept
<1>11. ToTags(d.servers) \cap Numbered("ns-", dns) \subseteq ToTags(b)
  BY <1>1, <1>2, ServerTags
<1>12. \A i \in DOMAIN dns.ns : NumberedTag("ns-", i) \in Numbered("ns-", dns)
  BY DEF Numbered, Positions
<1>13. \A i : i \in has <=> i \in DOMAIN dns.ns /\ NumberedTag("ns-", i) \in ToTags(b)
  BY <1>1, <1>9, <1>10, <1>11, <1>12 DEF dns
<1> HIDE DEF has, b
<1>14. CASE b = <<>>
  <2>1. ToTags(b) = {}
    BY <1>14 DEF ToTags
  <2>2. has = {}
    BY <1>13, <2>1
  <2> QED
    BY <1>4, <1>5, <1>14, <2>2 DEF dns, first
<1>15. CASE b # <<>>
  <2>1. PICK k \in DOMAIN dns.ns :
               /\ b[1].tag = NumberedTag("ns-", k)
               /\ \A i \in DOMAIN dns.ns : NumberedTag("ns-", i) \in ToTags(b) => k <= i
    BY <1>8, <1>15
  <2>2. b[1].tag \in ToTags(b)
    <3>1. 1 \in DOMAIN b
      BY <1>9, <1>15, FirstPlace
    <3> QED
      BY <3>1 DEF ToTags
  <2>3. k \in has /\ \A i \in has : k <= i
    BY <1>13, <2>1, <2>2
  <2>4. \A i \in has : i \in Nat
    BY <1>3, <1>13
  <2>5. \A i \in has : i <= k => i = k
    BY <2>3, <2>4
  <2>6. (CHOOSE i \in has : \A j \in has : i <= j) = k
    BY <2>3, <2>5
  <2>7. Min(has) = k /\ has # {}
    BY <1>6, <2>3, <2>6
  <2> QED
    BY <1>4, <1>5, <1>15, <2>1, <2>7 DEF dns, first
<1> QED
  BY <1>14, <1>15
(***************************************************************************)
(* The answers of a translated configuration.                              *)
(***************************************************************************)
LEMMA RulesGiven ==
  ASSUME NEW i, DNSLists(i.dns), NEW first, NEW ech
  PROVE  FullDNS(i, first, ech).rules = AddDNSRouteAction(Generated(DNSOf(i, first), i.cc, ech))
<1> DEFINE w == WithRules(i, first, ech)
<1>1. IsDNS(w)
  BY GeneratedRules DEF WithRules, DNSOf
<1>2. w.rules = Generated(DNSOf(i, first), i.cc, ech)
  BY DEF WithRules, Generated
<1>3. FullDNS(i, first, ech) = [w EXCEPT !.rules = AddDNSRouteAction(w.rules)]
  BY DEF FullDNS
<1> HIDE DEF w
<1>4. FullDNS(i, first, ech).rules = AddDNSRouteAction(w.rules)
  BY <1>1, <1>3 DEF IsDNS, DNSFields
<1> QED
  BY <1>2, <1>4

LEMMA AnswerGiven ==
  ASSUME ConfigInv, SectionInv, Ended, input.dns.enable, DirectServers(out.dns.servers) # <<>>,
         NEW q, NEW mode
  PROVE  Answer(out.dns, q, mode) =
           OrderedAnswer(input.dns, input.hosts, FirstNameServer, out.dns.servers, input.cc, t.ech,
                         q, mode, FirstServer(out.dns))
<1> DEFINE dns == input.dns
           hosts == input.hosts
           cc == input.cc
           ech == t.ech
           first == FirstGroupTag
           d == DNSOf(input, first)
           f == out.dns
<1>1. /\ DNSLists(dns) /\ TagsApart(dns) /\ f = FullDNS(input, first, ech) /\ f.servers = d.servers
  BY OutDNS
<1>2. d = TranslateDNS(dns, hosts, first)
  BY DEF DNSOf
<1>3. f.rules = AddDNSRouteAction(Generated(d, cc, ech))
  BY <1>1, RulesGiven
<1>4. FirstNameServer = FirstNS(dns, first)
  BY FirstNameFound
<1>5. dns.enable /\ DirectServers(d.servers) # <<>>
  BY <1>1
<1> HIDE DEF dns, hosts, cc, ech, first, d, f
<1>6. Answer(f, q, mode) =
        OrderedAnswer(dns, hosts, FirstNS(dns, first), d.servers, cc, ech, q, mode, FirstServer(f))
  BY <1>1, <1>2, <1>3, <1>5, AnswerOrder
<1> QED
  BY <1>1, <1>4, <1>6 DEF dns, hosts, cc, ech, f

LEMMA NaturalPlaces == ASSUME NEW s, IsList(s) PROVE DOMAIN s \subseteq Nat
<1>1. DOMAIN s = 1..Len(s) /\ Len(s) \in Nat
  BY ListFacts
<1> QED
  BY <1>1

(* A query is answered by a server that is there. *)
LEMMA AnswerKnown ==
  ASSUME NEW dns, IsList(dns.rules), IsList(dns.servers), dns.servers # <<>>,
         dns.final \in ToTags(dns.servers) \cup {""},
         \A r \in ToSet(dns.rules) : r.server \in ToTags(dns.servers), NEW q, NEW mode
  PROVE  /\ Answer(dns, q, mode) \in ToTags(dns.servers)
         /\ FirstServer(dns) \in ToTags(dns.servers)
<1> DEFINE rules == dns.rules
           hits == {i \in DOMAIN rules :
                      /\ rules[i].action = "route"
                      /\ Matches(rules[i], q, mode, Evaluated(rules, i, q, mode))}
<1>1. Answer(dns, q, mode) = IF hits = {} THEN FirstServer(dns) ELSE rules[Min(hits)].server
  BY DEF Answer
<1>2. FirstServer(dns) \in ToTags(dns.servers)
  <2>1. 1 \in DOMAIN dns.servers
    BY FirstPlace
  <2>2. dns.servers[1].tag \in ToTags(dns.servers)
    BY <2>1 DEF ToTags
  <2> QED
    BY <2>2 DEF FirstServer
<1>3. DOMAIN rules = 1..Len(rules) /\ Len(rules) \in Nat
  BY ListFacts
<1>4. hits \subseteq DOMAIN rules
  OBVIOUS
<1> HIDE DEF hits
<1>5. hits # {} => Min(hits) \in hits
  <2> HIDE DEF rules
  <2>3. DOMAIN rules \subseteq Nat
    BY NaturalPlaces DEF rules
  <2>1. hits \subseteq Nat
    BY <1>4, <2>3
  <2>2. hits # {} => \E i \in hits : \A j \in hits : i <= j
    BY <2>1, LeastNumber
  <2> QED
    BY <2>2 DEF Min
<1>6. hits # {} => rules[Min(hits)] \in ToSet(rules)
  BY <1>4, <1>5 DEF ToSet
<1> QED
  BY <1>1, <1>2, <1>6

LEMMA AnswerThere ==
  ASSUME ConfigInv, SectionInv, Ended, out.dns.servers # <<>>, NEW q, NEW mode
  PROVE  /\ Answer(out.dns, q, mode) \in ToTags(out.dns.servers)
         /\ FirstServer(out.dns) \in ToTags(out.dns.servers)
<1> DEFINE dns == input.dns
           first == FirstGroupTag
           d == DNSOf(input, first)
           f == out.dns
<1>1. /\ DNSLists(dns) /\ f = FullDNS(input, first, t.ech) /\ f.servers = d.servers
      /\ f.final = d.final /\ IsList(f.servers)
  BY OutDNS
<1>2. d.final \in ToTags(d.servers) \cup {""}
  BY <1>1, DNSFacts DEF DNSOf
<1>3. IsList(f.rules) /\ \A r \in ToSet(f.rules) : GoodRule(r, ToTags(d.servers), DNSRuleSets(d, input.cc))
  <2> HIDE DEF f, first
  <2>1. IsList(f.rules)
    BY <1>1, FullDNSFacts
  <2>2. \A r \in ToSet(f.rules) : GoodRule(r, ToTags(d.servers), DNSRuleSets(d, input.cc))
    BY <1>1, FullDNSFacts
  <2> QED
    BY <2>1, <2>2
<1> HIDE DEF dns, first, d
<1>4. \A r \in ToSet(f.rules) : r.server \in ToTags(f.servers)
  BY <1>1, <1>3 DEF GoodRule
<1> QED
  BY <1>1, <1>2, <1>3, <1>4, AnswerKnown
(* The server a tag of the rules stands for. *)
LEMMA ListedIn ==
  ASSUME NEW c, UniqueTags(c.dns.servers), NEW u, ToSet(u) \subseteq ToSet(c.dns.servers)
  PROVE  \A tag \in ToTags(u) : ServerIn(c, tag) \in ToSet(u) /\ ServerIn(c, tag).tag = tag
<1>1. ASSUME NEW tag \in ToTags(u)
      PROVE  ServerIn(c, tag) \in ToSet(u) /\ ServerIn(c, tag).tag = tag
  <2>1. PICK x \in ToSet(u) : x.tag = tag
    BY <1>1, TagsOfList
  <2>2. ServerIn(c, x.tag) = x
    BY <2>1, TheServer
  <2> QED
    BY <2>1, <2>2
<1> QED
  BY <1>1

LEMMA EncryptedFound ==
  ASSUME NEW c, UniqueTags(c.dns.servers), IsList(c.dns.servers),
         NEW d \in ToSet(DirectServers(c.dns.servers)), d.type \in Encrypted
  PROVE  ServerIn(c, FindFirstECHCapableDNSTag(c.dns.servers)).type \in Encrypted
<1> DEFINE servers == c.dns.servers
           direct == DirectServers(servers)
           good == Keep(direct, {s \in ToSet(direct) : s.type \in Encrypted})
<1>1. IsList(direct) /\ ToSet(direct) \subseteq ToSet(servers)
  BY ChosenServers
<1>2. FindFirstECHCapableDNSTag(servers) =
        IF good # <<>> THEN good[1].tag ELSE IF direct # <<>> THEN direct[1].tag ELSE ""
  BY DEF FindFirstECHCapableDNSTag, FirstOfTypes
<1>3. d \in ToSet(direct)
  OBVIOUS
<1> HIDE DEF direct, servers
<1>4. IsList(good) /\ ToSet(good) = {s \in ToSet(direct) : s.type \in Encrypted}
  BY <1>1, KeepList
<1> HIDE DEF good
<1>5. ToSet(good) # {}
  BY <1>3, <1>4
<1>6. good # <<>>
  BY <1>5, ShortLists
<1>7. good[1] \in ToSet(good)
  BY <1>4, <1>6, FirstPlace
<1>8. good[1] \in ToSet(servers) /\ good[1].type \in Encrypted
  BY <1>1, <1>4, <1>7
<1>9. ServerIn(c, good[1].tag) = good[1]
  BY <1>8, TheServer DEF servers
<1>10. FindFirstECHCapableDNSTag(servers) = good[1].tag
  BY <1>2, <1>6
<1> QED
  BY <1>8, <1>9, <1>10 DEF servers

LEMMA FakeFound ==
  ASSUME NEW c, UniqueTags(c.dns.servers), IsList(c.dns.servers), NoName \notin ToTags(c.dns.servers)
  PROVE  /\ (\E i \in DOMAIN c.dns.servers : c.dns.servers[i].type = "fakeip")
              <=> FindFakeIPTag(c.dns.servers) # NoName
         /\ FindFakeIPTag(c.dns.servers) # NoName =>
              ServerIn(c, FindFakeIPTag(c.dns.servers)).type = "fakeip"
<1> DEFINE servers == c.dns.servers
           fake == Keep(servers, {s \in ToSet(servers) : s.type = "fakeip"})
<1>1. FindFakeIPTag(servers) = IF fake # <<>> THEN fake[1].tag ELSE NoName
  BY Zenon DEF FindFakeIPTag, NoName
<1> HIDE DEF servers
<1>2. IsList(fake) /\ ToSet(fake) = {s \in ToSet(servers) : s.type = "fakeip"}
  BY KeepList DEF servers
<1>3. (\E i \in DOMAIN servers : servers[i].type = "fakeip") <=> ToSet(fake) # {}
  BY <1>2 DEF ToSet
<1> HIDE DEF fake
<1>4. ToSet(fake) # {} <=> fake # <<>>
  <2>1. fake # <<>> => fake[1] \in ToSet(fake)
    BY <1>2, FirstPlace
  <2> QED
    BY <2>1, ShortLists
<1>5. ASSUME fake # <<>>
      PROVE  fake[1].tag # NoName /\ ServerIn(c, fake[1].tag).type = "fakeip"
  <2>1. fake[1] \in ToSet(fake)
    BY <1>2, <1>5, FirstPlace
  <2>2. fake[1] \in ToSet(servers) /\ fake[1].type = "fakeip"
    BY <1>2, <2>1
  <2>3. fake[1].tag \in ToTags(servers)
    BY <2>2, TagsOfList
  <2>4. ServerIn(c, fake[1].tag) = fake[1]
    BY <2>2, TheServer DEF servers
  <2>5. NoName \notin ToTags(servers)
    BY DEF servers
  <2> QED
    BY <2>2, <2>3, <2>4, <2>5
<1> QED
  BY <1>1, <1>3, <1>4, <1>5 DEF servers

LEMMA HostsFound ==
  ASSUME NEW dns, DNSLists(dns), TagsApart(dns), NEW hosts, NEW detour,
         NEW d, d = TranslateDNS(dns, hosts, detour), NEW s \in ToSet(d.servers), s.tag = "hosts"
  PROVE  s.type = "hosts"
<1>1. s = BootstrapDNS \/ Made(s, dns, hosts, detour)
  BY ServerOrigin
<1>2. BootstrapDNS.tag = "bootstrap-dns"
  BY DEF BootstrapDNS, Server
<1>3. /\ Server("fakeip-dns", "fakeip", "", "").tag = "fakeip-dns"
      /\ Server("hosts", "hosts", "", "").type = "hosts"
  BY DEF Server
<1>4. ToTags(AllServers(dns, detour)) \cap OwnTags = {}
  BY AllTags
<1>5. ASSUME NEW srv \in ToSet(AllServers(dns, detour)), Same(s, srv) PROVE FALSE
  <2>1. s.tag \in ToTags(AllServers(dns, detour))
    BY <1>5, TagsOfList DEF Same
  <2>2. s.tag \in OwnTags
    BY DEF OwnTags
  <2> QED
    BY <1>4, <2>1, <2>2
<1>6. \/ s = BootstrapDNS \/ \E srv \in ToSet(AllServers(dns, detour)) : Same(s, srv)
      \/ s = Server("fakeip-dns", "fakeip", "", "") \/ s = Server("hosts", "hosts", "", "")
  BY <1>1, Zenon DEF Made
<1>7. s = Server("hosts", "hosts", "", "")
  BY <1>2, <1>3, <1>5, <1>6
<1> QED
  BY <1>3, <1>7
LEMMA OutTags ==
  ASSUME ConfigInv, SectionInv, Ended
  PROVE  /\ NoName \notin ToTags(out.dns.servers)
         /\ out.dns.enabled <=> input.dns.enable
         /\ t.dns.enabled <=> input.dns.enable
<1> DEFINE dns == input.dns
           first == FirstGroupTag
           d == DNSOf(input, first)
<1>1. /\ DNSLists(dns) /\ TagsApart(dns) /\ out.dns.servers = d.servers
      /\ out.dns.enabled = d.enabled /\ t.dns.enabled = d.enabled
  BY OutDNS
<1>2. d = TranslateDNS(dns, input.hosts, first)
  BY DEF DNSOf
<1> HIDE DEF d, first
<1>3. "" \notin ToTags(d.servers)
  BY <1>1, <1>2, ServerTags
<1>4. NoName \notin ToTags(d.servers)
  BY <1>3, Zenon DEF NoName
<1>5. d.enabled <=> dns.enable
  BY <1>1, <1>2, DNSFacts
<1> QED
  BY <1>1, <1>4, <1>5

LEMMA DisabledAnswer ==
  ASSUME ConfigInv, SectionInv, Ended, ~input.dns.enable, NEW q, NEW mode
  PROVE  /\ out.dns.servers = <<BootstrapDNS>>
         /\ Answer(out.dns, q, mode) = BootstrapDNS.tag
<1> DEFINE first == FirstGroupTag
           d == DNSOf(input, first)
           f == out.dns
<1>1. /\ DNSLists(input.dns) /\ f = FullDNS(input, first, t.ech) /\ f.servers = d.servers
      /\ f.final = d.final
  BY OutDNS
<1>2. d = DisabledDNS
  BY DEF DNSOf, TranslateDNS
<1>3. f.rules = AddDNSRouteAction(Generated(d, input.cc, t.ech))
  BY <1>1, RulesGiven
<1> HIDE DEF d, f
<1>4. d.servers = <<BootstrapDNS>> /\ d.rules = <<>> /\ d.final = BootstrapDNS.tag /\ d.enabled = FALSE
  BY <1>2 DEF DisabledDNS
<1>5. Generated(d, input.cc, t.ech) = <<>>
  BY <1>4 DEF Generated, GenerateDNSRules
<1>6. DOMAIN f.rules = {}
  BY <1>3, <1>5 DEF AddDNSRouteAction
<1>7. Answer(f, q, mode) = FirstServer(f)
  BY <1>6 DEF Answer
<1>8. BootstrapDNS.tag = "bootstrap-dns"
  BY DEF BootstrapDNS, Server
<1>9. FirstServer(f) = BootstrapDNS.tag
  <2>1. f.final = BootstrapDNS.tag
    BY <1>1, <1>4 DEF f
  <2>2. f.final # ""
    BY <1>8, <2>1
  <2> QED
    BY <2>1, <2>2, Zenon DEF FirstServer
<1> QED
  BY <1>1, <1>4, <1>7, <1>9 DEF f

(* The names the user has written a rule about. *)
LEMMA UserWrote ==
  ASSUME NEW q
  PROVE  /\ q.name \in UserNames(input) <=> UsesHosts(input.dns, input.hosts) /\ q.name \in input.hosts
         /\ UserFilter(input, q) <=>
              input.dns.fakeip /\ FirstNameServer # NoName /\ Filtered(input.dns, q)
<1>1. q.name \in UserNames(input) <=> UsesHosts(input.dns, input.hosts) /\ q.name \in input.hosts
  BY DEF UserNames, UsesHosts
<1>2. UserFilter(input, q) <=>
        input.dns.fakeip /\ FirstNameServer # NoName /\ Filtered(input.dns, q)
  BY Zenon DEF UserFilter, Filtered, NoName
<1> QED
  BY <1>1, <1>2

LEMMA ECHHold == ConfigInv /\ SectionInv => ECHQueriesAreDirect
<1> SUFFICES ASSUME ConfigInv, SectionInv, Translated PROVE ECHQueriesAreDirect
  BY DEF ECHQueriesAreDirect
<1>0. Ended
  BY DEF Translated, Ended
<1> DEFINE servers == out.dns.servers
           list == DirectServers(servers)
           direct == ToSet(list)
           S(q, mode) == ServerIn(out, Answer(out.dns, q, mode))
           capable == FindFirstECHCapableDNSTag(servers)
<1>1. IsList(servers) /\ UniqueTags(servers)
  BY <1>0, OutDNS
<1>2. out.dns.enabled <=> input.dns.enable
  BY <1>0, OutTags
<1>3. IsList(list) /\ direct \subseteq ToSet(servers)
  BY <1>1, ChosenServers
<1>4. list # <<>> => /\ FindFirstDirectDNSTag(servers) \in ToTags(list)
                     /\ capable \in ToTags(list)
  BY <1>1, ChosenServers
<1>5. direct # {} => list # <<>>
  BY ShortLists
<1>6. \A tag \in ToTags(list) : ServerIn(out, tag) \in direct
  BY <1>1, <1>3, ListedIn
<1>7. ASSUME NEW q \in Queries, NEW mode \in Modes, direct # {},
             q.name \in t.ech \ UserNames(input), ~UserFilter(input, q)
      PROVE  /\ S(q, mode) \in direct
             /\ out.dns.enabled /\ mode # "Direct" /\ (\E x \in direct : x.type \in Encrypted)
                  => S(q, mode).type \in Encrypted
  <2>1. CASE ~input.dns.enable
    <3>1. servers = <<BootstrapDNS>> /\ Answer(out.dns, q, mode) = BootstrapDNS.tag
      BY <1>0, <2>1, DisabledAnswer
    <3>2. ToSet(servers) = {BootstrapDNS}
      BY <3>1, ShortLists
    <3>3. BootstrapDNS \in direct
      BY <1>3, <1>7, <3>2
    <3>4. ServerIn(out, BootstrapDNS.tag) = BootstrapDNS
      BY <1>1, <3>2, TheServer
    <3> QED
      BY <1>2, <2>1, <3>1, <3>3, <3>4
  <2>2. CASE input.dns.enable
    <3>1. list # <<>>
      BY <1>5, <1>7
    <3>2. Answer(out.dns, q, mode) =
            OrderedAnswer(input.dns, input.hosts, FirstNameServer, out.dns.servers, input.cc, t.ech,
                          q, mode, FirstServer(out.dns))
      BY <1>0, <2>2, <3>1, AnswerGiven
    <3>3. ~(UsesHosts(input.dns, input.hosts) /\ q.name \in input.hosts)
          /\ ~(input.dns.fakeip /\ FirstNameServer # NoName /\ Filtered(input.dns, q))
      BY <1>7, UserWrote
    <3>4. q.name \in t.ech
      BY <1>7
    <3>5. Answer(out.dns, q, mode) =
            IF mode = "Direct" THEN FindFirstDirectDNSTag(servers) ELSE capable
      BY <3>2, <3>3, <3>4 DEF OrderedAnswer, FilterAnswer, HostAnswer, AutoAnswer
    <3>6. S(q, mode) \in direct
      BY <1>4, <1>6, <3>1, <3>5
    <3>7. (\E x \in direct : x.type \in Encrypted) => ServerIn(out, capable).type \in Encrypted
      BY <1>1, EncryptedFound
    <3> QED
      BY <3>5, <3>6, <3>7
  <2> QED
    BY <2>1, <2>2
<1> QED
  BY <1>7, Zenon DEF ECHQueriesAreDirect

(***************************************************************************)
(* The query for the ECH configuration of a proxy does not go through a    *)
(* proxy in any mode, and goes over an encrypted transport if there is     *)
(* one, unless the user has a rule about the domain (autoroute.go:180-199).*)
(***************************************************************************)
THEOREM ECHQueriesStayDirect == Spec => []ECHQueriesAreDirect
BY ECHHold, SectionInvariant, PTL

(***************************************************************************)
(* Who answers any other query.                                            *)
(***************************************************************************)
LEMMA QueriesHold == ConfigInv /\ SectionInv => QueriesAnswered
<1> SUFFICES ASSUME ConfigInv, SectionInv, Translated, t.dns.enabled,
                    DirectServers(out.dns.servers) # <<>>
             PROVE  QueriesAnswered
  BY DEF QueriesAnswered
<1>0. Ended
  BY DEF Translated, Ended
<1> DEFINE servers == out.dns.servers
           list == DirectServers(servers)
           firstNS == FirstNameServer
           A(q, mode) == Answer(out.dns, q, mode)
           S(q, mode) == ServerIn(out, A(q, mode))
           direct == FindFirstDirectDNSTag(servers)
           capable == FindFirstECHCapableDNSTag(servers)
           fake == FindFakeIPTag(servers)
           someFake == \E i \in DOMAIN servers : servers[i].type = "fakeip"
           o == FirstServer(out.dns)
<1>1. IsList(servers) /\ UniqueTags(servers)
  BY <1>0, OutDNS
<1>2. input.dns.enable /\ NoName \notin ToTags(servers)
  BY <1>0, OutTags
<1>3. /\ IsList(list)
      /\ ToSet(list) = {s \in ToSet(servers) : s.type \notin {"fakeip", "hosts"} /\ s.detour = ""}
      /\ direct \in ToTags(list) /\ capable \in ToTags(list)
  BY <1>1, ChosenServers
<1>4. servers # <<>>
  <2>1. ToSet(list) # {}
    BY <1>3, TagsOfList
  <2>2. ToSet(servers) # {}
    BY <1>3, <2>1
  <2> QED
    BY <2>2, ShortLists
<1>5. \A tag \in ToTags(list) : ServerIn(out, tag) \in ToSet(list)
  <2>1. ToSet(list) \subseteq ToSet(servers)
    BY <1>3
  <2> QED
    BY <1>1, <2>1, ListedIn
<1>6. \A tag \in ToTags(list) : /\ ServerIn(out, tag).detour = ""
                                /\ ServerIn(out, tag).type \notin {"fakeip", "hosts"}
  BY <1>3, <1>5
<1>7. \A q, mode : A(q, mode) \in ToTags(servers)
  BY <1>0, <1>4, AnswerThere
<1>8. \A q, mode : S(q, mode) \in ToSet(servers) /\ S(q, mode).tag = A(q, mode)
  BY <1>1, <1>7, TheServer
<1>9. \A q, mode : A(q, mode) =
        OrderedAnswer(input.dns, input.hosts, firstNS, servers, input.cc, t.ech, q, mode, o)
  BY <1>0, <1>2, AnswerGiven
<1>10. /\ someFake <=> fake # NoName
       /\ fake # NoName => ServerIn(out, fake).type = "fakeip"
  BY <1>1, <1>2, FakeFound
<1>11. \A s \in ToSet(servers) : s.tag = "hosts" => s.type = "hosts"
  <2>1. /\ DNSLists(input.dns) /\ TagsApart(input.dns) /\ servers = DNSOf(input, FirstGroupTag).servers
    BY <1>0, OutDNS
  <2> HIDE DEF servers
  <2> QED
    BY <2>1, HostsFound DEF DNSOf
<1> HIDE DEF servers, list, firstNS, direct, capable, fake, someFake, o, A, S
<1>12. ASSUME NEW q \in Queries, NEW mode \in Modes
       PROVE  IF mode = "Direct" THEN S(q, mode).detour = "" /\ S(q, mode).type \notin {"fakeip", "hosts"}
              ELSE IF UserFilter(input, q)
                THEN S(q, mode).tag = IF input.dns.whitelist THEN "fakeip-dns" ELSE firstNS
              ELSE IF q.name \in UserNames(input) THEN S(q, mode).type = "hosts"
              ELSE IF q.name \in t.ech THEN S(q, mode).detour = ""
              ELSE IF Domestic(q, input.cc)
                THEN S(q, mode).detour = "" /\ S(q, mode).type # "fakeip"
              ELSE IF someFake /\ q.type \in {"A", "AAAA"}
                THEN TerminalRules(input.dns, firstNS) = <<>> => S(q, mode).type = "fakeip"
              ELSE IF TerminalRules(input.dns, firstNS) # <<>> THEN S(q, mode).tag = firstNS
              ELSE S(q, mode).tag = o
  <2> DEFINE a == A(q, mode)
             s == S(q, mode)
  <2>1. s = ServerIn(out, a) /\ s \in ToSet(servers) /\ s.tag = a
    BY <1>8 DEF S
  <2>2. a = OrderedAnswer(input.dns, input.hosts, firstNS, servers, input.cc, t.ech, q, mode, o)
    BY <1>9
  <2>3. /\ q.name \in UserNames(input) <=> UsesHosts(input.dns, input.hosts) /\ q.name \in input.hosts
        /\ UserFilter(input, q) <=> input.dns.fakeip /\ firstNS # NoName /\ Filtered(input.dns, q)
    BY UserWrote DEF firstNS
  <2> HIDE DEF a, s
  <2>4. a = IF mode = "Direct" THEN direct
            ELSE IF UserFilter(input, q) THEN (IF input.dns.whitelist THEN "fakeip-dns" ELSE firstNS)
            ELSE IF q.name \in UserNames(input) THEN "hosts"
            ELSE IF q.name \in t.ech THEN capable
            ELSE IF Domestic(q, input.cc) THEN direct
            ELSE IF someFake /\ q.type \in {"A", "AAAA"} THEN fake
            ELSE IF TerminalRules(input.dns, firstNS) # <<>> THEN firstNS ELSE o
    BY <1>10, <2>2, <2>3 DEF OrderedAnswer, FilterAnswer, HostAnswer, AutoAnswer, direct, capable, fake
  <2>5. a \in {direct, capable} => s.detour = "" /\ s.type \notin {"fakeip", "hosts"}
    BY <1>3, <1>6, <2>1
  <2>6. a = "hosts" => s.type = "hosts"
    BY <1>11, <2>1
  <2>7. a = fake /\ someFake => s.type = "fakeip"
    BY <1>10, <2>1
  <2>8. IF mode = "Direct" THEN s.detour = "" /\ s.type \notin {"fakeip", "hosts"}
        ELSE IF UserFilter(input, q)
          THEN s.tag = IF input.dns.whitelist THEN "fakeip-dns" ELSE firstNS
        ELSE IF q.name \in UserNames(input) THEN s.type = "hosts"
        ELSE IF q.name \in t.ech THEN s.detour = ""
        ELSE IF Domestic(q, input.cc) THEN s.detour = "" /\ s.type # "fakeip"
        ELSE IF someFake /\ q.type \in {"A", "AAAA"}
          THEN TerminalRules(input.dns, firstNS) = <<>> => s.type = "fakeip"
        ELSE IF TerminalRules(input.dns, firstNS) # <<>> THEN s.tag = firstNS
        ELSE s.tag = o
    BY <2>1, <2>4, <2>5, <2>6, <2>7
  <2> QED
    BY <2>8 DEF s
<1>13. \A q : Domestic(q, input.cc) <=>
         q.type \in AddressQueryTypes /\ (q.sites \cup q.addrs) \cap DomesticRuleSets(input.cc) # {}
  BY DEF Domestic
<1> QED
  BY <1>12, <1>13, Zenon DEF QueriesAnswered, servers, firstNS, S, A, someFake, o

(***************************************************************************)
(* Who answers a query: without a proxy in mode Direct, then as the user   *)
(* says, then directly for the domains of ECH queries and for domestic     *)
(* ones, and by a fake address or the final server for what is left, the   *)
(* addresses that are left with a whitelist excepted                       *)
(* (autoroute.go:146-147, 176-177, 233-234, 242).                          *)
(***************************************************************************)
THEOREM QueriesGoAsPromised == Spec => []QueriesAnswered
BY QueriesHold, SectionInvariant, PTL

=============================================================================
